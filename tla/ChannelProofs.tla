--------------------------- MODULE ChannelProofs ---------------------------
(***************************************************************************)
(* For every number of tasks and every capacity: Channel loses no wakeup,  *)
(* and its queue is that of BoundedQueue.  At the end, what is proved of   *)
(* the heater's telemetry and clock, whose tasks meet on such channels.    *)
(***************************************************************************)
EXTENDS Channel, Telemetry, HeaterClock, Integers, SequenceTheorems,
        WellFoundedInduction, TLAPS

\* NoLostWakeup is inductive together with the types.
IInv == TypeOK /\ NoLostWakeup

LEMMA InitEstablishes == Init => IInv
  BY NAssumption
  DEF Init, QueueInit, IInv, TypeOK, NoLostWakeup, SendersKept, ReceiversKept, Ops

\* Starting, dropping and waking leave the registrations alone.
LEMMA QuietStep ==
  ASSUME IInv, NEW t \in Tasks,
         (\E o \in Ops : Start(t, o)) \/ Cancel(t) \/ WokenByOther(t)
  PROVE  IInv'
<1> TypeOK /\ SendersKept /\ ReceiversKept
  BY DEF IInv, NoLostWakeup
<1> USE NilAssumption, NAssumption DEF TypeOK, Ops, Full
<1>1. CASE \E o \in Ops : Start(t, o)
  <2>1. TypeOK'
    BY <1>1 DEF TypeOK, Start, Ask
  <2>2. SendersKept'
    BY <1>1 DEF SendersKept, Start, Ask
  <2>3. ReceiversKept'
    BY <1>1 DEF ReceiversKept, Start, Ask
  <2> QED
    BY <2>1, <2>2, <2>3 DEF IInv, NoLostWakeup
<1>2. CASE Cancel(t)
  <2>1. TypeOK'
    BY <1>2 DEF TypeOK, Cancel, Drop, Leave
  <2>2. SendersKept'
    BY <1>2 DEF SendersKept, Cancel, Drop, Leave
  <2>3. ReceiversKept'
    BY <1>2 DEF ReceiversKept, Cancel, Drop, Leave
  <2> QED
    BY <2>1, <2>2, <2>3 DEF IInv, NoLostWakeup
<1>3. CASE WokenByOther(t)
  <2>1. TypeOK'
    BY <1>3 DEF TypeOK, WokenByOther
  <2>2. SendersKept'
    BY <1>3 DEF SendersKept, WokenByOther
  <2>3. ReceiversKept'
    BY <1>3 DEF ReceiversKept, WokenByOther
  <2> QED
    BY <2>1, <2>2, <2>3 DEF IInv, NoLostWakeup
<1> QED
  BY <1>1, <1>2, <1>3

\* A poll that registers t: the task that it evicts is woken.
LEMMA WaitingStep ==
  ASSUME IInv, NEW t \in Tasks,
         \/ op[t] = "send" /\ WaitToSend(t)
         \/ PollReceive(t) /\ queue = <<>>
         \/ PollReadyToSend(t)
         \/ PollReadyToReceive(t)
  PROVE  IInv'
<1> TypeOK /\ SendersKept /\ ReceiversKept
  BY DEF IInv, NoLostWakeup
<1> USE NilAssumption, NAssumption DEF TypeOK, Ops, Full
<1>1. CASE op[t] = "send" /\ WaitToSend(t)
  <2>1. TypeOK'
    BY <1>1 DEF TypeOK, WaitToSend, Polled, Evicted, Taken
  <2>2. SendersKept'
    BY <1>1 DEF SendersKept, WaitToSend, Polled, Evicted, Taken
  <2>3. ReceiversKept'
    BY <1>1 DEF ReceiversKept, WaitToSend, Polled, Evicted, Taken
  <2> QED
    BY <2>1, <2>2, <2>3 DEF IInv, NoLostWakeup
<1>2. CASE PollReceive(t) /\ queue = <<>>
  <2>1. TypeOK'
    BY <1>2 DEF TypeOK, PollReceive, Polled, Evicted, Taken
  <2>2. SendersKept'
    BY <1>2 DEF SendersKept, PollReceive, Polled, Evicted, Taken
  <2>3. ReceiversKept'
    BY <1>2 DEF ReceiversKept, PollReceive, Polled, Evicted, Taken
  <2> QED
    BY <2>1, <2>2, <2>3 DEF IInv, NoLostWakeup
<1>3. CASE PollReadyToSend(t)
  <2>1. TypeOK'
    BY <1>3 DEF TypeOK, PollReadyToSend, Leave, Polled, Evicted, Taken
  <2>2. SendersKept'
    BY <1>3 DEF SendersKept, PollReadyToSend, Leave, Polled, Evicted, Taken
  <2>3. ReceiversKept'
    BY <1>3 DEF ReceiversKept, PollReadyToSend, Leave, Polled, Evicted, Taken
  <2> QED
    BY <2>1, <2>2, <2>3 DEF IInv, NoLostWakeup
<1>4. CASE PollReadyToReceive(t)
  <2>1. TypeOK'
    BY <1>4 DEF TypeOK, PollReadyToReceive, Leave, Polled, Evicted, Taken
  <2>2. SendersKept'
    BY <1>4 DEF SendersKept, PollReadyToReceive, Leave, Polled, Evicted, Taken
  <2>3. ReceiversKept'
    BY <1>4 DEF ReceiversKept, PollReadyToReceive, Leave, Polled, Evicted, Taken
  <2> QED
    BY <2>1, <2>2, <2>3 DEF IInv, NoLostWakeup
<1> QED
  BY <1>1, <1>2, <1>3, <1>4

\* What a push and a pop do to the queue.
LEMMA PushPop ==
  ASSUME TypeOK
  PROVE  /\ \A t \in Tasks : ~Full =>
               /\ Append(queue, t) \in Seq(Tasks)
               /\ Append(queue, t) # <<>>
               /\ Len(Append(queue, t)) <= N
         /\ queue # <<>> =>
               /\ Tail(queue) \in Seq(Tasks)
               /\ Len(Tail(queue)) < N
         /\ <<>> \in Seq(Tasks) /\ Len(<<>>) < N
  BY NAssumption DEF TypeOK, Full

\* A push takes the receivers' waker and wakes its task.
LEMMA PushStep ==
  ASSUME IInv, NEW t \in Tasks,
         (PollSend(t) /\ Push(t)) \/ TrySend(t)
  PROVE  IInv'
<1> TypeOK /\ SendersKept /\ ReceiversKept
  BY DEF IInv, NoLostWakeup
<1> USE NilAssumption, NAssumption DEF TypeOK, Ops, Full
<1>1. CASE PollSend(t) /\ Push(t)
  <2>1. TypeOK'
    BY <1>1, PushPop DEF TypeOK, PollSend, WaitToSend, Push, Leave, Polled, Taken
  <2>2. SendersKept'
    BY <1>1, PushPop DEF SendersKept, PollSend, WaitToSend, Push, Leave, Polled, Taken
  <2>3. ReceiversKept'
    BY <1>1, PushPop
       DEF ReceiversKept, PollSend, WaitToSend, Push, Leave, Polled, Taken
  <2> QED
    BY <2>1, <2>2, <2>3 DEF IInv, NoLostWakeup
<1>2. CASE TrySend(t)
  <2>1. TypeOK'
    BY <1>2, PushPop DEF TypeOK, TrySend, Push, Polled, Taken
  <2>2. SendersKept'
    BY <1>2, PushPop DEF SendersKept, TrySend, Push, Polled, Taken
  <2>3. ReceiversKept'
    BY <1>2, PushPop DEF ReceiversKept, TrySend, Push, Polled, Taken
  <2> QED
    BY <2>1, <2>2, <2>3 DEF IInv, NoLostWakeup
<1> QED
  BY <1>1, <1>2

\* A pop from a full queue, a peek and a clear wake whoever waits to send.
LEMMA PopStep ==
  ASSUME IInv, NEW t \in Tasks,
         \/ PollReceive(t) /\ queue # <<>>
         \/ TryReceive(t) \/ TryPeek(t) \/ Clear(t)
  PROVE  IInv'
<1> TypeOK /\ SendersKept /\ ReceiversKept
  BY DEF IInv, NoLostWakeup
<1> USE NilAssumption, NAssumption DEF TypeOK, Ops, Full
<1>1. CASE PollReceive(t) /\ queue # <<>>
  <2>1. TypeOK'
    BY <1>1, PushPop, SMTT(30)
       DEF TypeOK, PollReceive, WakeSenders, WokenSenders, Leave, Polled, Taken
  <2>2. SendersKept'
    BY <1>1, PushPop
       DEF SendersKept, PollReceive, WakeSenders, WokenSenders, Leave, Polled, Taken
  <2>3. ReceiversKept'
    BY <1>1, PushPop
       DEF ReceiversKept, PollReceive, WakeSenders, WokenSenders, Leave, Polled, Taken
  <2> QED
    BY <2>1, <2>2, <2>3 DEF IInv, NoLostWakeup
<1>2. CASE TryReceive(t)
  <2>1. TypeOK'
    BY <1>2, PushPop DEF TypeOK, TryReceive, WakeSenders, WokenSenders, Polled, Taken
  <2>2. SendersKept'
    BY <1>2, PushPop
       DEF SendersKept, TryReceive, WakeSenders, WokenSenders, Polled, Taken
  <2>3. ReceiversKept'
    BY <1>2, PushPop
       DEF ReceiversKept, TryReceive, WakeSenders, WokenSenders, Polled, Taken
  <2> QED
    BY <2>1, <2>2, <2>3 DEF IInv, NoLostWakeup
<1>3. CASE TryPeek(t)
  <2>1. TypeOK'
    BY <1>3, PushPop DEF TypeOK, TryPeek, WakeSenders, WokenSenders, Polled, Taken
  <2>2. SendersKept'
    BY <1>3, PushPop
       DEF SendersKept, TryPeek, WakeSenders, WokenSenders, Polled, Taken
  <2>3. ReceiversKept'
    BY <1>3, PushPop
       DEF ReceiversKept, TryPeek, WakeSenders, WokenSenders, Polled, Taken
  <2> QED
    BY <2>1, <2>2, <2>3 DEF IInv, NoLostWakeup
<1>4. CASE Clear(t)
  <2>1. TypeOK'
    BY <1>4, PushPop DEF TypeOK, Clear, WakeSenders, WokenSenders, Polled, Taken
  <2>2. SendersKept'
    BY <1>4, PushPop DEF SendersKept, Clear, WakeSenders, WokenSenders, Polled, Taken
  <2>3. ReceiversKept'
    BY <1>4, PushPop
       DEF ReceiversKept, Clear, WakeSenders, WokenSenders, Polled, Taken
  <2> QED
    BY <2>1, <2>2, <2>3 DEF IInv, NoLostWakeup
<1> QED
  BY <1>1, <1>2, <1>3, <1>4

LEMMA NextPreserves == IInv /\ [Next]_vars => IInv'
<1> SUFFICES ASSUME IInv, [Next]_vars PROVE IInv'
  OBVIOUS
<1>1. CASE Next
  <2> PICK t \in Tasks :
        \/ \E o \in Ops : Start(t, o)
        \/ Cancel(t)
        \/ WokenByOther(t)
        \/ Poll(t)
        \/ TrySend(t)
        \/ TryReceive(t)
        \/ TryPeek(t)
        \/ Clear(t)
    BY <1>1 DEF Next
  <2>1. CASE Poll(t)
    BY <2>1, WaitingStep, PushStep, PopStep DEF Poll, PollSend
  <2> QED
    BY <2>1, QuietStep, PushStep, PopStep
<1>2. CASE UNCHANGED vars
  BY <1>2 DEF vars, IInv, TypeOK, NoLostWakeup, SendersKept, ReceiversKept, Full
<1> QED
  BY <1>1, <1>2

\* The invariant holds in every reachable state.
THEOREM Inductive == Safety => []IInv
  BY InitEstablishes, NextPreserves, PTL DEF Safety

\* Types, for any number of tasks and any capacity.
THEOREM TypeCorrect == Safety => []TypeOK
  BY Inductive, PTL DEF IInv

\* A task that waits on the channel is about to be polled, or is registered
\* and cannot be answered yet (channel.rs, try_send_with_context and its like).
THEOREM NoLostWakeupAlways == Safety => []NoLostWakeup
  BY Inductive, PTL DEF IInv

LEMMA StepRefines == Next => [QueueNext]_queueVars
<1> SUFFICES ASSUME NEW t \in Tasks,
        \/ \E o \in Ops : Start(t, o)
        \/ Cancel(t)
        \/ WokenByOther(t)
        \/ Poll(t)
        \/ TrySend(t)
        \/ TryReceive(t)
        \/ TryPeek(t)
        \/ Clear(t)
    PROVE [QueueNext]_queueVars
  BY DEF Next
<1>1. CASE \E o \in Ops : Start(t, o)
  BY <1>1 DEF Start, QueueNext
<1>2. CASE Cancel(t)
  BY <1>2 DEF Cancel, QueueNext
<1>3. CASE WokenByOther(t)
  BY <1>3 DEF WokenByOther, queueVars
<1>4. CASE Poll(t)
  <2>1. CASE PollSend(t)
    BY <1>4, <2>1 DEF PollSend, WaitToSend, Push, QueueNext, Answer, Send, queueVars
  <2>2. CASE PollReceive(t)
    BY <1>4, <2>2 DEF PollReceive, QueueNext, Answer, Receive, queueVars
  <2>3. CASE PollReadyToSend(t)
    BY <1>4, <2>3 DEF PollReadyToSend, QueueNext, Answer, ReadyToSend, queueVars
  <2>4. CASE PollReadyToReceive(t)
    BY <1>4, <2>4 DEF PollReadyToReceive, QueueNext, Answer, ReadyToReceive, queueVars
  <2> QED
    BY <1>4, <2>1, <2>2, <2>3, <2>4 DEF Poll
<1>5. CASE TrySend(t)
  BY <1>5 DEF TrySend, Push, QueueNext, AtOnce
<1>6. CASE TryReceive(t)
  BY <1>6 DEF TryReceive, QueueNext, AtOnce
<1>7. CASE TryPeek(t)
  BY <1>7 DEF TryPeek, queueVars
<1>8. CASE Clear(t)
  BY <1>8 DEF Clear, QueueNext, AtOnce
<1> QED
  BY <1>1, <1>2, <1>3, <1>4, <1>5, <1>6, <1>7, <1>8

\* Every step of the channel is a step of the bounded queue or leaves it alone.
THEOREM RefinesQueue == Safety => QueueSafety
<1>1. Init => QueueInit
  BY DEF Init
<1>2. [Next]_vars => [QueueNext]_queueVars
  BY StepRefines DEF vars, queueVars
<1> QED
  BY <1>1, <1>2, PTL DEF Safety, QueueSafety

-----------------------------------------------------------------------------
\* Telemetry, for all its waits and timeouts.

Places == {"retry", "connect", "hello", "top", "publish", "wait", "ping"}

TelemetryTypes ==
    /\ mqtt \in Places
    /\ left \in [{"sampler", "mqtt"} -> Nat]
    /\ quiet \in Nat
    /\ attempt \in Nat

\* What the broker has missed so far and what mqtt_task may still wait at the
\* place where it is never exceed the longest wait between two packets.
Heard ==
    /\ mqtt = "top" => left["mqtt"] = 0 /\ quiet = 0
    /\ mqtt = "publish" => quiet + left["mqtt"] <= SockTimeout
    /\ mqtt = "wait" => quiet + left["mqtt"] <= PingWait
    /\ mqtt = "ping" => quiet + left["mqtt"] <= PingWait + SockTimeout

\* When the wait ends after which mqtt_task may connect, the last attempt is
\* far enough back; a failed ping, which connects at once, comes after PingWait.
Spaced == PingWait >= RetryWait =>
    /\ mqtt \in {"retry", "wait"} => attempt + left["mqtt"] >= RetryWait
    /\ mqtt = "ping" => attempt >= RetryWait

PacedInv == TelemetryTypes /\ Heard /\ Spaced

LEMMA PacedInit == TelemetryInit => PacedInv
  BY TelemetryAssumption
     DEF TelemetryInit, PacedInv, TelemetryTypes, Places, Heard, Spaced

LEMMA LaterBounds ==
  ASSUME NEW n \in Nat, NEW max \in Nat
  PROVE  /\ Later(n, max) \in Nat
         /\ Later(n, max) <= n + 1
         /\ Later(n, max) >= n + 1 \/ Later(n, max) >= max
  BY DEF Later

LEMMA PacedStep == PacedInv /\ [TelemetryNext]_telemetryVars => PacedInv'
<1> SUFFICES ASSUME PacedInv, [TelemetryNext]_telemetryVars PROVE PacedInv'
  OBVIOUS
<1> USE TelemetryAssumption DEF PacedInv, TelemetryTypes, Places, Heard, Spaced
<1>1. CASE Measure
  BY <1>1 DEF Measure, clocks
<1>2. CASE SendAverage
  BY <1>2 DEF SendAverage, clocks
<1>3. CASE Connect
  BY <1>3 DEF Connect, GoTo
<1>4. CASE Connected
  BY <1>4 DEF Connected, GoTo, clocks
<1>5. CASE HelloSent
  BY <1>5 DEF HelloSent, GoTo
<1>6. CASE Prepare
  BY <1>6 DEF Prepare, GoTo, clocks
<1>7. CASE Published
  BY <1>7 DEF Published, GoTo
<1>8. CASE StartPing
  BY <1>8 DEF StartPing, GoTo, clocks
<1>9. CASE PingSent
  BY <1>9 DEF PingSent, GoTo
<1>10. CASE Tick
  <2>1. left["mqtt"] \in Nat \ {0} /\ left'["mqtt"] = left["mqtt"] - 1 /\ mqtt' = mqtt
    BY <1>10 DEF Tick, MqttBusy
  <2>2. left' \in [{"sampler", "mqtt"} -> Nat]
    <3>1. outbox = <<>> => left["sampler"] \in Nat \ {0}
      BY <1>10 DEF Tick, SamplerBusy
    <3>2. left["sampler"] \in Nat /\ left["mqtt"] - 1 \in Nat
      BY <2>1
    <3>3. (IF outbox = <<>> THEN left["sampler"] - 1 ELSE left["sampler"]) \in Nat
      BY <3>1, <3>2
    <3> QED
      BY <1>10, <3>2, <3>3 DEF Tick
  <2>3. quiet' \in Nat /\ quiet' <= quiet + 1
    <3>1. KeepAlive + 1 \in Nat
      OBVIOUS
    <3> QED
      BY <1>10, <3>1, LaterBounds DEF Tick
  <2>4. attempt' \in Nat /\ (attempt' >= attempt + 1 \/ attempt' >= RetryWait)
    BY <1>10, LaterBounds DEF Tick
  <2> QED
    BY <2>1, <2>2, <2>3, <2>4
<1>11. CASE SockFails \/ SocketClosed
  BY <1>11 DEF SockFails, SocketClosed, Retreat, RetreatWait, GoTo, SockOps
<1>12. CASE BrokerSpeaks \/ UNCHANGED telemetryVars
  BY <1>12 DEF BrokerSpeaks, telemetryVars, tasks, clocks
<1> QED
  BY <1>1, <1>2, <1>3, <1>4, <1>5, <1>6, <1>7, <1>8, <1>9, <1>10, <1>11, <1>12
     DEF TelemetryNext, Steps

LEMMA Paced == TelemetrySpec => []PacedInv
  BY PacedInit, PacedStep, PTL DEF TelemetrySpec

\* A connected broker hears from the heater within its keep-alive, if a wait
\* and a timeout fit into it; the waits here are those of mqtt_task's two pings
\* and of one publication, each of which may take all the time a socket has.
THEOREM HeardInTime ==
  ASSUME PingWait + SockTimeout <= KeepAlive
  PROVE  TelemetrySpec => []KeepAliveMet
<1>1. PacedInv => KeepAliveMet
  BY TelemetryAssumption
     DEF PacedInv, TelemetryTypes, Heard, KeepAliveMet, Online
<1>2. TelemetrySpec => []PacedInv
  BY Paced
<1> QED
  BY <1>1, <1>2, PTL

\* Connection attempts keep their distance: in mqtt_task every continue of
\* 'reconnect but one waits first, and that one comes after a ping's wait.
THEOREM ReconnectsSpaced ==
  ASSUME PingWait >= RetryWait
  PROVE  TelemetrySpec => AttemptsSpaced
<1>1. PacedInv => [Connect => attempt >= RetryWait]_telemetryVars
  BY TelemetryAssumption DEF PacedInv, TelemetryTypes, Spaced, Connect
<1>2. TelemetrySpec => []PacedInv
  BY Paced
<1> QED
  BY <1>1, <1>2, PTL DEF AttemptsSpaced

-----------------------------------------------------------------------------
\* The age of what is published.

\* From one publication to the next, if the connection lasts only for the one:
\* the publication, the wait, the ping that fails, and a new connection.
Cycle == PingWait + 4 * SockTimeout

\* The longest that it may be until mqtt_task prepares a publication.
Beyond ==
    CASE mqtt = "publish" -> PingWait + 3 * SockTimeout
      [] mqtt = "wait" -> 3 * SockTimeout
      [] mqtt \in {"ping", "retry"} -> 2 * SockTimeout
      [] mqtt = "connect" -> SockTimeout
      [] mqtt \in {"hello", "top"} -> 0
TimeToGo == left["mqtt"] + Beyond

\* The samples taken since the last failure that was not a ping's, at least.
Drawn == IF mqtt = "publish" THEN pubs + 1 ELSE pubs

\* The sample at place i, a ticks old when a publication takes the first, is
\* still fresh when it is published itself.
OnTime(i, a) == a + (i - 1) * Cycle + SockTimeout <= StaleAt

Line == channel \o outbox

Buffers ==
    /\ channel \in Seq(Nat) /\ Len(channel) <= Capacity
    /\ outbox \in Seq(Nat) /\ Len(outbox) <= 1
    /\ last \in Nat /\ pings \in Nat /\ pubs \in Nat
    /\ mqtt \in {"wait", "ping"} => pubs > 0
    /\ left["sampler"] <= SampleWait

\* An operation ends with its timeout; only a ping's failure leaves pubs alone.
Waits ==
    /\ mqtt \in SockOps => left["mqtt"] <= SockTimeout
    /\ mqtt = "wait" => left["mqtt"] <= PingWait
    /\ mqtt = "retry" /\ pubs > 0 => left["mqtt"] = 0

\* What is behind the samples that an outage may have left is on time.
LineFresh == \A i \in 1 .. Len(Line) :
    i + Drawn > Capacity + 1 => OnTime(i, Line[i] + TimeToGo)
LastFresh == mqtt = "publish" /\ Drawn > Capacity + 1 =>
    last + left["mqtt"] <= StaleAt

\* After the first publication no take comes away with nothing.
UntilSample == IF outbox = <<>> THEN left["sampler"] ELSE 0
Supplied ==
    /\ mqtt = "wait" =>
          \/ Len(channel) >= 2
          \/ Len(channel) = 1 /\ UntilSample < left["mqtt"]
          \/ Len(channel) = 0 /\ UntilSample + SampleWait < left["mqtt"]
    /\ mqtt = "ping" => Len(channel) >= 2
    /\ mqtt \in {"retry", "connect", "hello", "top"} /\ pubs > 0 =>
          Len(channel) >= 1

FreshInv == Buffers /\ Waits /\ LineFresh /\ LastFresh /\ Supplied

\* Two samples are measured between two pings.
Sized == 2 * SampleWait < PingWait /\ Capacity >= 2

\* A sample may have to wait for as many publications as there are places.
StaleEnough == (Capacity + 1) * Cycle + SockTimeout <= StaleAt

LEMMA Spans ==
  /\ Capacity \in Nat /\ Capacity > 0 /\ MaxAge \in Nat /\ StaleAt \in Nat
  /\ SampleWait \in Nat /\ PingWait \in Nat /\ SockTimeout \in Nat
  /\ RetryWait \in Nat /\ MaxPubs \in Nat /\ Cycle \in Nat
  /\ \A i \in Int : /\ i * Cycle \in Int
                    /\ (i - 1) * Cycle + Cycle = i * Cycle
  BY TelemetryAssumption DEF Cycle, MaxPubs

\* Places in the line further on cost a round each.
LEMMA OnTimeUp ==
  ASSUME NEW i \in Int, NEW a \in Int, OnTime(i + 1, a)
  PROVE  \A b \in Int : b <= a + Cycle => OnTime(i, b)
<1>1. PICK p \in Int, q \in Int, c \in Int :
        p = (i - 1) * Cycle /\ q = i * Cycle /\ c = Cycle /\ p + c = q
  BY Spans
<1>2. a + q + SockTimeout <= StaleAt
  <2>1. (i + 1) - 1 = i
    OBVIOUS
  <2> QED
    BY <1>1, <2>1 DEF OnTime
<1>3. ASSUME NEW b \in Int, b <= a + c PROVE b + p + SockTimeout <= StaleAt
  BY <1>1, <1>2, <1>3, Spans
<1> QED
  BY <1>1, <1>3 DEF OnTime

LEMMA OnTimeKept ==
  ASSUME NEW i \in Int, NEW a \in Int, OnTime(i, a), NEW b \in Int, b <= a
  PROVE  OnTime(i, b)
<1>1. PICK p \in Int : p = (i - 1) * Cycle
  BY Spans
<1> QED
  BY <1>1, Spans DEF OnTime

\* What comes into the line now is fresh when it is its turn.
LEMMA OnTimeNow ==
  ASSUME StaleEnough, NEW i \in Int, i <= Capacity + 1,
         NEW r \in Int, r <= Cycle
  PROVE  OnTime(i, r)
<1>1. PICK p \in Int, q \in Int :
        p = (i - 1) * Cycle /\ q = i * Cycle /\ p + Cycle = q
  BY Spans
<1>2. q <= (Capacity + 1) * Cycle
  BY <1>1, Spans
<1>3. PICK m \in Int : m = (Capacity + 1) * Cycle
  BY Spans
<1> QED
  BY <1>1, <1>2, <1>3, Spans DEF OnTime, StaleEnough

\* The terms of the invariant are numbers.
GoTyped ==
    /\ TimeToGo \in Nat /\ Drawn \in Nat
    /\ left["mqtt"] \in Nat /\ left["sampler"] \in Nat
    /\ Drawn > 0 => TimeToGo <= Cycle

LEMMA GoTypes == PacedInv /\ Buffers /\ Waits => GoTyped
<1> SUFFICES ASSUME PacedInv, Buffers, Waits PROVE GoTyped
  OBVIOUS
<1> USE DEF GoTyped, TimeToGo, Beyond, Drawn, Cycle
<1>1. /\ left["mqtt"] \in Nat /\ left["sampler"] \in Nat /\ pubs \in Nat
      /\ SockTimeout \in Nat /\ PingWait \in Nat
      /\ mqtt \in Places
  BY Spans DEF PacedInv, TelemetryTypes, Buffers
<1>2. CASE mqtt = "publish"
  BY <1>1, <1>2 DEF Waits, SockOps
<1>3. CASE mqtt = "wait"
  BY <1>1, <1>3 DEF Waits
<1>4. CASE mqtt \in {"ping", "retry"}
  BY <1>1, <1>4 DEF Waits, SockOps
<1>5. CASE mqtt = "connect"
  BY <1>1, <1>5 DEF Waits, SockOps
<1>6. CASE mqtt \in {"hello", "top"}
  BY <1>1, <1>6 DEF Waits, SockOps, PacedInv, Heard
<1> QED
  BY <1>1, <1>2, <1>3, <1>4, <1>5, <1>6 DEF Places

LEMMA GoTypesNext == PacedInv' /\ Buffers' /\ Waits' => GoTyped'
  BY GoTypes, PTL

\* The line of samples: what is in it, and what a take leaves of it.
Shaped ==
    /\ Len(Line) = Len(channel) + Len(outbox)
    /\ Len(channel) \in Nat /\ Len(outbox) \in Nat /\ Len(outbox) <= 1
    /\ outbox = <<>> <=> Len(outbox) = 0
    /\ channel = <<>> <=> Len(channel) = 0
    /\ \A i \in 1 .. Len(channel) : Line[i] = channel[i] /\ Line[i] \in Nat
    /\ outbox # <<>> => Line[Len(channel) + 1] = outbox[1] /\ outbox[1] \in Nat
    /\ \A i \in 1 .. Len(Line) : Line[i] \in Nat

LEMMA LineShape == Buffers => Shaped
<1> SUFFICES ASSUME Buffers PROVE Shaped
  OBVIOUS
<1>0. /\ channel \in Seq(Nat) /\ outbox \in Seq(Nat)
      /\ Len(channel) \in Nat /\ Len(outbox) \in Nat /\ Len(outbox) <= 1
  BY DEF Buffers
<1>1. /\ channel \in Seq(Nat) /\ outbox \in Seq(Nat)
      /\ Len(channel) \in Nat /\ Len(outbox) \in Nat /\ Len(outbox) <= 1
      /\ outbox = <<>> <=> Len(outbox) = 0
      /\ channel = <<>> <=> Len(channel) = 0
  BY <1>0
<1>2. Line \in Seq(Nat) /\ Len(Line) = Len(channel) + Len(outbox)
  BY <1>1, ConcatProperties DEF Line
<1>3. \A i \in 1 .. Len(channel) : Line[i] = channel[i]
  BY <1>1, <1>2, ConcatProperties DEF Line
<1>4. outbox # <<>> => Line[Len(channel) + 1] = outbox[1] /\ outbox[1] \in Nat
  BY <1>1, <1>2, ConcatProperties DEF Line
<1>5. \A i \in 1 .. Len(Line) : Line[i] \in Nat
  BY <1>2, ElementOfSeq
<1> QED
  BY <1>1, <1>2, <1>3, <1>4, <1>5 DEF Shaped

LEMMA LineShapeNext == Buffers' => Shaped'
  BY LineShape, PTL

LEMMA TakeShape ==
  ASSUME Buffers, Buffers', channel # <<>>,
         channel' = Tail(channel), outbox' = outbox
  PROVE  /\ Head(channel) = Line[1] /\ Head(channel) \in Nat
         /\ Len(channel') = Len(channel) - 1
         /\ Len(Line') = Len(Line) - 1
         /\ \A i \in 1 .. Len(Line') : Line'[i] = Line[i + 1]
<1>1. channel \in Seq(Nat) /\ outbox \in Seq(Nat)
  BY DEF Buffers
<1>2. /\ Head(channel) = channel[1] /\ Head(channel) \in Nat
      /\ Tail(channel) \in Seq(Nat) /\ Len(Tail(channel)) = Len(channel) - 1
      /\ \A i \in 1 .. Len(Tail(channel)) : Tail(channel)[i] = channel[i + 1]
  BY <1>1, HeadTailProperties
<1>3. Len(channel) > 0
  BY <1>1
<1>4. Head(channel) = Line[1]
  BY <1>2, <1>3, LineShape DEF Shaped
<1>5. /\ Len(Line) = Len(channel) + Len(outbox)
         /\ Len(Line') = Len(channel) - 1 + Len(outbox)
  BY <1>1, <1>2, ConcatProperties DEF Line
<1>6. ASSUME NEW i \in 1 .. Len(Line') PROVE Line'[i] = Line[i + 1]
  <2>1. CASE i <= Len(channel) - 1
    BY <1>1, <1>2, <1>5, <2>1, ConcatProperties DEF Line
  <2>2. CASE i > Len(channel) - 1
    <3>1. Line'[i] = outbox[i - (Len(channel) - 1)]
      BY <1>1, <1>2, <1>5, <2>2, ConcatProperties DEF Line
    <3>2. Line[i + 1] = outbox[i + 1 - Len(channel)]
      BY <1>1, <1>2, <1>5, <2>2, ConcatProperties DEF Line
    <3> QED
      BY <1>1, <3>1, <3>2
  <2> QED
    BY <1>1, <2>1, <2>2
<1> QED
  BY <1>1, <1>2, <1>4, <1>5, <1>6

LEMMA Aged ==
  ASSUME NEW s \in Seq(Nat)
  PROVE  /\ OlderSamples(s) \in Seq(Nat) /\ Len(OlderSamples(s)) = Len(s)
         /\ \A i \in 1 .. Len(s) : /\ OlderSamples(s)[i] \in Nat
                                   /\ OlderSamples(s)[i] <= s[i] + 1
<1>1. DOMAIN s = 1 .. Len(s) /\ Len(s) \in Nat
  BY LenProperties
<1>2. \A i \in 1 .. Len(s) : s[i] \in Nat
  BY ElementOfSeq
<1>3. \A i \in 1 .. Len(s) :
        OlderSample(s[i]) \in Nat /\ OlderSample(s[i]) <= s[i] + 1
  BY <1>2, LaterBounds, Spans DEF OlderSample
<1>4. OlderSamples(s) = [i \in 1 .. Len(s) |-> OlderSample(s[i])]
  BY <1>1 DEF OlderSamples
<1> QED
  BY <1>1, <1>3, <1>4

LEMMA TakeBuffers ==
  ASSUME channel \in Seq(Nat), Len(channel) <= Capacity, last \in Nat, TakeOne
  PROVE  channel' \in Seq(Nat) /\ Len(channel') <= Capacity /\ last' \in Nat
<1>1. CASE channel = <<>>
  BY <1>1 DEF TakeOne
<1>2. CASE channel # <<>>
  <2>1. /\ Head(channel) \in Nat /\ Tail(channel) \in Seq(Nat)
        /\ Len(Tail(channel)) = Len(channel) - 1 /\ Len(channel) \in Nat
    BY <1>2, HeadTailProperties
  <2>2. Len(Tail(channel)) <= Capacity
    BY <2>1, Spans
  <2> QED
    BY <1>2, <2>1, <2>2 DEF TakeOne
<1> QED
  BY <1>1, <1>2

LEMMA BuffersStep == PacedInv /\ Buffers /\ [TelemetryNext]_telemetryVars => Buffers'
<1> SUFFICES ASSUME PacedInv, Buffers, [TelemetryNext]_telemetryVars PROVE Buffers'
  OBVIOUS
<1>0. /\ channel \in Seq(Nat) /\ Len(channel) <= Capacity /\ Len(channel) \in Nat
      /\ outbox \in Seq(Nat) /\ Len(outbox) <= 1
      /\ last \in Nat /\ pings \in Nat /\ pubs \in Nat
      /\ left["sampler"] \in Nat /\ left["sampler"] <= SampleWait
      /\ left \in [{"sampler", "mqtt"} -> Nat]
  BY DEF PacedInv, TelemetryTypes, Buffers
<1>1. CASE Measure
  <2>1. <<0>> \in Seq(Nat) /\ Len(<<0>>) <= 1
    OBVIOUS
  <2> QED
    BY <1>1, <2>1 DEF Measure, Fresh, clocks, Buffers
<1>2. CASE SendAverage
  <2>1. channel \o outbox \in Seq(Nat)
        /\ Len(channel \o outbox) = Len(channel) + Len(outbox)
    BY <1>0, ConcatProperties
  <2>2. Len(channel) + Len(outbox) <= Capacity
    BY <1>0, <1>2, Spans DEF SendAverage
  <2>3. <<>> \in Seq(Nat) /\ Len(<<>>) <= 1
    OBVIOUS
  <2>4. left'["sampler"] = SampleWait /\ SampleWait \in Nat
    BY <1>0, <1>2, Spans DEF SendAverage
  <2> QED
    BY <1>0, <1>2, <2>1, <2>2, <2>3, <2>4 DEF SendAverage, clocks, Buffers
<1>3. CASE Connect
  BY <1>0, <1>3 DEF Connect, GoTo, Buffers
<1>4. CASE Connected
  BY <1>0, <1>4 DEF Connected, GoTo, Buffers
<1>5. CASE HelloSent
  BY <1>0, <1>5, Spans DEF HelloSent, GoTo, Zero, Buffers
<1>6. CASE Prepare
  BY <1>0, <1>6, TakeBuffers DEF Prepare, GoTo, clocks, Buffers
<1>7. CASE Published
  <2>1. pubs' \in Nat /\ pubs' > 0
    BY <1>0, <1>7, Spans DEF Published, MaxPubs, Later
  <2> QED
    BY <1>0, <1>7, <2>1, Spans DEF Published, GoTo, Buffers
<1>8. CASE StartPing
  BY <1>0, <1>8 DEF StartPing, GoTo, clocks, Buffers
<1>9. CASE PingSent
  <2>1. pubs > 0
    BY <1>9 DEF PingSent, Buffers
  <2>2. left'["sampler"] = left["sampler"] /\ pings' \in Nat /\ outbox' = outbox
        /\ pubs' = pubs
    BY <1>0, <1>9 DEF PingSent, GoTo
  <2>3. channel' \in Seq(Nat) /\ Len(channel') <= Capacity /\ last' \in Nat
    BY <1>0, <1>9, TakeBuffers DEF PingSent
  <2> QED
    BY <1>0, <2>1, <2>2, <2>3 DEF Buffers
<1>10. CASE Tick
  <2>1. /\ channel' \in Seq(Nat) /\ Len(channel') = Len(channel)
        /\ outbox' \in Seq(Nat) /\ Len(outbox') = Len(outbox)
    BY <1>0, <1>10, Aged DEF Tick
  <2>2. last' \in Nat
    BY <1>0, <1>10, LaterBounds, Spans DEF Tick, OlderSample
  <2>3. left'["sampler"] <= SampleWait
    BY <1>0, <1>10, Spans DEF Tick
  <2> QED
    BY <1>0, <1>10, <2>1, <2>2, <2>3 DEF Tick, Buffers
<1>11. CASE SockFails \/ SocketClosed
  BY <1>0, <1>11 DEF SockFails, SocketClosed, Retreat, GoTo, Buffers
<1>12. CASE BrokerSpeaks \/ UNCHANGED telemetryVars
  BY <1>12 DEF BrokerSpeaks, telemetryVars, tasks, clocks, Buffers
<1> QED
  BY <1>1, <1>2, <1>3, <1>4, <1>5, <1>6, <1>7, <1>8, <1>9, <1>10, <1>11, <1>12
     DEF TelemetryNext, Steps

LEMMA OneOut == Buffers /\ outbox # <<>> => Len(outbox) = 1
<1> SUFFICES ASSUME Buffers, outbox # <<>> PROVE Len(outbox) = 1
  OBVIOUS
<1>1. PICK n \in Nat : n = Len(outbox) /\ n <= 1 /\ n # 0
  BY LineShape DEF Shaped
<1> QED
  BY <1>1

\* The ping that a wait ends with, and the next publication, find a sample.
LEMMA SuppliedStep ==
  ASSUME Sized, PacedInv, PacedInv', Buffers, Buffers', Supplied,
         [TelemetryNext]_telemetryVars
  PROVE  Supplied'
<1>0. /\ channel \in Seq(Nat) /\ Len(channel) \in Nat /\ Len(channel) <= Capacity
      /\ outbox \in Seq(Nat) /\ Len(outbox) <= 1
      /\ left["sampler"] \in Nat /\ left["mqtt"] \in Nat
      /\ left["sampler"] <= SampleWait /\ Capacity >= 2
      /\ 2 * SampleWait < PingWait /\ SampleWait \in Nat /\ PingWait \in Nat
      /\ left \in [{"sampler", "mqtt"} -> Nat]
      /\ Len(channel') \in Nat
  BY Spans, SMTT(30) DEF PacedInv, TelemetryTypes, Buffers, Sized
<1>1. CASE Measure
  <2>1. /\ outbox = <<>> /\ left["sampler"] = 0 /\ outbox' # <<>>
        /\ UNCHANGED <<channel, mqtt, left, pubs>>
    BY <1>1 DEF Measure, clocks
  <2> QED
    BY <1>0, <2>1 DEF Supplied, UntilSample
<1>2. CASE SendAverage
  <2>1. Len(outbox) = 1
    BY <1>2, OneOut DEF SendAverage
  <2>2. Len(channel') = Len(channel) + 1
    <3>1. channel' = channel \o outbox
      BY <1>2 DEF SendAverage
    <3>2. Len(channel \o outbox) = Len(channel) + Len(outbox)
      BY <1>0, ConcatProperties
    <3> QED
      BY <2>1, <3>1, <3>2
  <2>3. /\ outbox # <<>> /\ outbox' = <<>> /\ left'["sampler"] = SampleWait
        /\ left'["mqtt"] = left["mqtt"] /\ UNCHANGED <<mqtt, pubs>>
    BY <1>0, <1>2 DEF SendAverage, clocks
  <2> QED
    BY <1>0, <2>2, <2>3 DEF Supplied, UntilSample
<1>3. CASE Connect \/ Connected
  BY <1>3 DEF Connect, Connected, GoTo, Supplied
<1>4. CASE HelloSent
  BY <1>4 DEF HelloSent, GoTo, Supplied
<1>5. CASE Prepare
  BY <1>5 DEF Prepare, GoTo, Supplied
<1>6. CASE Published
  <2>1. /\ mqtt' = "wait" /\ left'["mqtt"] = PingWait
        /\ left'["sampler"] = left["sampler"] /\ UNCHANGED <<channel, outbox>>
    BY <1>0, <1>6 DEF Published, GoTo
  <2>2. PICK u \in Nat : UntilSample' = u /\ u <= SampleWait
    BY <1>0, <2>1 DEF UntilSample
  <2>3. u < PingWait /\ u + SampleWait < PingWait
    BY <1>0, <2>2
  <2>4. PICK n \in Nat : Len(channel') = n
    BY <1>0
  <2>5. n >= 2 \/ n = 1 \/ n = 0
    OBVIOUS
  <2> QED
    BY <2>1, <2>2, <2>3, <2>4, <2>5 DEF Supplied
<1>7. CASE StartPing
  <2>1. /\ mqtt = "wait" /\ left["mqtt"] = 0 /\ mqtt' = "ping" /\ channel' = channel
    BY <1>7 DEF StartPing, GoTo
  <2> QED
    BY <1>0, <2>1 DEF Supplied, UntilSample
<1>8. CASE PingSent
  <2>1. Len(channel) >= 2
    BY <1>8 DEF PingSent, Supplied
  <2>2. channel # <<>>
    BY <1>0, <2>1
  <2>3. Len(channel') = Len(channel) - 1
    BY <1>0, <1>8, <2>2, HeadTailProperties DEF PingSent, TakeOne
  <2>4. /\ mqtt' = "top" \/ (mqtt' = "wait" /\ left'["mqtt"] = PingWait)
        /\ left'["sampler"] = left["sampler"] /\ outbox' = outbox
    BY <1>0, <1>8 DEF PingSent, GoTo
  <2> QED
    BY <1>0, <2>1, <2>3, <2>4, SMTT(30) DEF Supplied, UntilSample
<1>9. CASE Tick
  <2>1. Len(channel') = Len(channel) /\ Len(outbox') = Len(outbox)
        /\ outbox' \in Seq(Nat)
    BY <1>0, <1>9, Aged DEF Tick
  <2>2. outbox' = <<>> <=> outbox = <<>>
    BY <1>0, <2>1, EmptySeq
  <2>3. /\ UNCHANGED <<mqtt, pubs>>
        /\ left'["mqtt"] = left["mqtt"] - 1
        /\ left'["sampler"] = IF outbox = <<>> THEN left["sampler"] - 1
                              ELSE left["sampler"]
    BY <1>0, <1>9 DEF Tick
  <2>4. outbox # <<>> => Len(channel) >= Capacity
    BY <1>0, <1>9, Spans DEF Tick, SamplerBusy
  <2> QED
    BY <1>0, <2>1, <2>2, <2>3, <2>4, Spans DEF Supplied, UntilSample
<1>10. CASE SockFails \/ SocketClosed
  <2>1. /\ mqtt' = "retry" /\ channel' = channel
        /\ mqtt = "ping" \/ pubs' = 0
    BY <1>10 DEF SockFails, SocketClosed, Retreat, GoTo
  <2> QED
    BY <1>0, <2>1 DEF Supplied
<1>11. CASE BrokerSpeaks \/ UNCHANGED telemetryVars
  BY <1>11 DEF BrokerSpeaks, telemetryVars, tasks, clocks, Supplied, UntilSample
<1> QED
  BY <1>1, <1>2, <1>3, <1>4, <1>5, <1>6, <1>7, <1>8, <1>9, <1>10, <1>11
     DEF TelemetryNext, Steps

\* A take finds a sample: the line moves up.
LEMMA TakeForward ==
  ASSUME Buffers, Buffers', channel # <<>>, TakeOne, outbox' = outbox
  PROVE  /\ Len(channel') = Len(channel) - 1
         /\ last' = Line[1]
         /\ Len(Line') + 1 = Len(Line)
         /\ \A i \in 1 .. Len(Line') : Line'[i] = Line[i + 1]
<1>1. channel' = Tail(channel) /\ last' = Head(channel)
  BY DEF TakeOne
<1>2. PICK c \in Nat : Len(Line) = c
  BY LineShape DEF Shaped
<1>3. Len(Line') = c - 1
  BY <1>1, <1>2, TakeShape
<1> QED
  BY <1>1, <1>2, <1>3, TakeShape

LEMMA WaitsStep ==
  PacedInv /\ Buffers /\ Waits /\ [TelemetryNext]_telemetryVars => Waits'
<1> SUFFICES ASSUME PacedInv, Buffers, Waits, [TelemetryNext]_telemetryVars
             PROVE  Waits'
  OBVIOUS
<1> USE DEF Waits, SockOps
<1>1. /\ left \in [{"sampler", "mqtt"} -> Nat] /\ mqtt \in Places /\ pubs \in Nat
      /\ SockTimeout \in Nat /\ PingWait \in Nat
  BY Spans DEF PacedInv, TelemetryTypes, Buffers
<1>2. CASE Measure \/ SendAverage
  BY <1>1, <1>2 DEF Measure, SendAverage, clocks
<1>3. CASE Connect \/ Connected \/ HelloSent
  BY <1>1, <1>3 DEF Connect, Connected, HelloSent, GoTo
<1>4. CASE Prepare \/ Published \/ StartPing \/ PingSent
  BY <1>1, <1>4 DEF Prepare, Published, StartPing, PingSent, GoTo
<1>5. CASE SockFails \/ SocketClosed
  BY <1>1, <1>5 DEF SockFails, SocketClosed, Retreat, RetreatWait, GoTo
<1>6. CASE Tick
  BY <1>1, <1>6 DEF Tick, MqttBusy, PacedInv, TelemetryTypes
<1>7. CASE BrokerSpeaks \/ UNCHANGED telemetryVars
  BY <1>7 DEF BrokerSpeaks, telemetryVars, tasks, clocks
<1> QED
  BY <1>2, <1>3, <1>4, <1>5, <1>6, <1>7 DEF TelemetryNext, Steps

\* A step that k samples leave the line with, while the next publication is put
\* off by no more than k rounds.
LEMMA LineKept ==
  ASSUME Shaped, Shaped', GoTyped, GoTyped', LineFresh,
         NEW k \in 0 .. 1, Len(Line') + k = Len(Line), Drawn' <= Drawn + k,
         \A i \in 1 .. Len(Line') :
            Line'[i] + TimeToGo' <= Line[i + k] + TimeToGo + k * Cycle
  PROVE  LineFresh'
<1>1. PICK r \in Nat, s \in Nat, t \in Nat, u \in Nat :
        TimeToGo = r /\ TimeToGo' = s /\ Drawn = t /\ Drawn' = u
  BY DEF GoTyped
<1>2. PICK c \in Nat, d \in Nat : Len(Line) = c /\ Len(Line') = d /\ d + k = c
  BY DEF Shaped
<1>3. ASSUME NEW i \in 1 .. d, i + u > Capacity + 1
      PROVE  OnTime(i, Line'[i] + s)
  <2>1. i + k \in 1 .. c /\ i + k + t > Capacity + 1
    BY <1>1, <1>2, <1>3, Spans
  <2>2. PICK a \in Nat, b \in Nat : Line[i + k] = a /\ Line'[i] = b
    BY <1>2, <2>1 DEF Shaped
  <2>3. OnTime(i + k, a + r)
    BY <1>1, <1>2, <2>1, <2>2 DEF LineFresh
  <2>4. b + s <= a + r + k * Cycle
    BY <1>1, <1>2, <2>2
  <2>5. i \in Int /\ a + r \in Int /\ b + s \in Int
    OBVIOUS
  <2>6. CASE k = 0
    <3>1. i + k = i /\ b + s <= a + r
      BY <2>4, <2>6, Spans
    <3> QED
      BY <2>2, <2>3, <2>5, <3>1, OnTimeKept
  <2>7. CASE k = 1
    <3>1. b + s <= a + r + Cycle
      BY <2>4, <2>7, Spans
    <3>2. OnTime(i + 1, a + r)
      BY <2>3, <2>7
    <3> QED
      BY <2>2, <2>5, <3>1, <3>2, OnTimeUp
  <2> QED
    BY <2>6, <2>7
<1> QED
  BY <1>1, <1>2, <1>3 DEF LineFresh

\* Steps that leave the samples alone and put nothing off.
LEMMA KeepStep ==
  ASSUME Shaped, Shaped', GoTyped, GoTyped', LineFresh,
         UNCHANGED <<channel, outbox>>, TimeToGo' <= TimeToGo, Drawn' <= Drawn
  PROVE  LineFresh'
<1>1. Line' = Line
  BY DEF Line
<1>2. PICK c \in Nat : Len(Line) = c
  BY DEF Shaped
<1>3. PICK r \in Nat, s \in Nat, t \in Nat, u \in Nat :
        /\ TimeToGo = r /\ TimeToGo' = s /\ s <= r
        /\ Drawn = t /\ Drawn' = u /\ u <= t
  BY DEF GoTyped
<1>4. ASSUME NEW i \in 1 .. c PROVE Line'[i] + s <= Line[i + 0] + r + 0 * Cycle
  <2>1. PICK a \in Nat : Line[i] = a
    BY <1>2 DEF Shaped
  <2> QED
    BY <1>1, <1>3, <2>1, Spans
<1>5. Len(Line') + 0 = Len(Line) /\ Drawn' <= Drawn + 0
  BY <1>1, <1>2, <1>3
<1> QED
  BY <1>1, <1>2, <1>3, <1>4, <1>5, LineKept

LEMMA OnwardSteps ==
  ASSUME PacedInv, Buffers, Waits,
         Connect \/ Connected \/ HelloSent \/ Published \/ StartPing
  PROVE  TimeToGo' <= TimeToGo /\ Drawn' <= Drawn
<1>1. /\ left \in [{"sampler", "mqtt"} -> Nat] /\ pubs \in Nat
      /\ SockTimeout \in Nat /\ PingWait \in Nat /\ MaxPubs \in Nat
  BY Spans DEF PacedInv, TelemetryTypes, Buffers
<1> USE DEF TimeToGo, Beyond, Drawn, GoTo, clocks
<1>2. CASE Connect
  BY <1>1, <1>2 DEF Connect
<1>3. CASE Connected
  BY <1>1, <1>3 DEF Connected
<1>4. CASE HelloSent
  BY <1>1, <1>4 DEF HelloSent
<1>5. CASE Published
  <2>1. pubs' <= pubs + 1
    BY <1>1, <1>5, LaterBounds DEF Published
  <2> QED
    BY <1>1, <1>5, <2>1 DEF Published
<1>6. CASE StartPing
  BY <1>1, <1>6 DEF StartPing
<1> QED
  BY <1>2, <1>3, <1>4, <1>5, <1>6

\* Without a publication nothing is claimed of the samples that are there.
LEMMA NothingTaken == Shaped /\ Buffers /\ Drawn = 0 => LineFresh
<1> SUFFICES ASSUME Shaped, Buffers, Drawn = 0 PROVE LineFresh
  OBVIOUS
<1>1. PICK a \in Nat, b \in Nat : /\ Len(channel) = a /\ Len(outbox) = b
                                  /\ a <= Capacity /\ b <= 1
  BY DEF Shaped, Buffers
<1>2. \A i \in 1 .. a + b : ~(i + 0 > Capacity + 1)
  BY <1>1, Spans
<1> QED
  BY <1>1, <1>2 DEF LineFresh, Shaped

LEMMA NothingTakenNext == Shaped' /\ Buffers' /\ (Drawn = 0)' => LineFresh'
  BY NothingTaken, PTL

LEMMA FailFresh ==
  ASSUME PacedInv, Buffers, Buffers', Waits, Waits', GoTyped, GoTyped',
         Shaped, Shaped', LineFresh, SockFails \/ SocketClosed
  PROVE  LineFresh' /\ LastFresh'
<1>1. /\ mqtt \in SockOps /\ mqtt' = "retry" /\ UNCHANGED <<channel, outbox>>
      /\ left'["mqtt"] = RetreatWait
      /\ pubs' = IF mqtt = "ping" THEN pubs ELSE 0
  BY DEF SockFails, SocketClosed, SockOps, Retreat, GoTo, PacedInv, TelemetryTypes
<1>2. CASE mqtt = "ping"
  <2>1. Drawn' = Drawn /\ TimeToGo' = 0 + 2 * SockTimeout
    BY <1>1, <1>2 DEF Drawn, TimeToGo, Beyond, RetreatWait
  <2>2. TimeToGo = left["mqtt"] + 2 * SockTimeout
    BY <1>2 DEF TimeToGo, Beyond
  <2>3. TimeToGo' <= TimeToGo /\ Drawn' <= Drawn
    BY <2>1, <2>2, Spans DEF GoTyped
  <2> QED
    BY <1>1, <2>3, KeepStep DEF LastFresh
<1>3. CASE mqtt # "ping"
  <2>1. Drawn' = 0
    BY <1>1, <1>3 DEF Drawn
  <2> QED
    BY <1>1, <2>1, NothingTakenNext DEF LastFresh
<1> QED
  BY <1>2, <1>3

LEMMA MeasureFresh ==
  ASSUME StaleEnough, Buffers, Buffers', GoTyped, Shaped, Shaped', LineFresh,
         Measure
  PROVE  LineFresh'
<1>1. /\ outbox = <<>> /\ outbox' = <<0>>
      /\ UNCHANGED <<channel, mqtt, pubs, left>>
  BY DEF Measure, Fresh, clocks
<1>2. PICK r \in Nat, t \in Nat : /\ TimeToGo = r /\ Drawn = t
                                  /\ t > 0 => r <= Cycle
  BY DEF GoTyped
<1>3. TimeToGo' = r /\ Drawn' = t
  BY <1>1, <1>2 DEF TimeToGo, Beyond, Drawn
<1>4. PICK n \in Nat : Len(channel) = n /\ n <= Capacity
  BY DEF Shaped, Buffers
<1>5. Len(Line) = n /\ Len(Line') = n + 1
  <2>1. Len(<<>>) = 0 /\ Len(<<0>>) = 1
    OBVIOUS
  <2> QED
    BY <1>1, <1>4, <2>1 DEF Shaped
<1>6. Line'[n + 1] = 0
  <2>1. <<0>> # <<>> /\ <<0>>[1] = 0
    OBVIOUS
  <2> QED
    BY <1>1, <1>4, <2>1 DEF Shaped
<1>7. ASSUME NEW i \in 1 .. n + 1, i + t > Capacity + 1
      PROVE  OnTime(i, Line'[i] + r)
  <2>1. CASE i = n + 1
    <3>1. 0 + r = r /\ r <= Cycle /\ i <= Capacity + 1
      BY <1>2, <1>4, <1>7, <2>1, Spans
    <3>2. OnTime(i, r)
      BY <3>1, OnTimeNow
    <3> QED
      BY <1>6, <2>1, <3>1, <3>2
  <2>2. CASE i \in 1 .. n
    <3>1. Line'[i] = Line[i]
      BY <1>1, <1>4, <2>2 DEF Shaped
    <3> QED
      BY <1>2, <1>5, <1>7, <2>2, <3>1 DEF LineFresh
  <2> QED
    BY <2>1, <2>2
<1> QED
  BY <1>3, <1>5, <1>7 DEF LineFresh

LEMMA SendFresh ==
  ASSUME PacedInv, Buffers, LineFresh, SendAverage
  PROVE  LineFresh'
<1>1. /\ channel' = channel \o outbox /\ outbox' = <<>>
      /\ left'["mqtt"] = left["mqtt"] /\ UNCHANGED <<mqtt, pubs>>
  BY DEF SendAverage, clocks, PacedInv, TelemetryTypes
<1>2. Line' = Line
  <2>1. channel \o outbox \in Seq(Nat)
    BY ConcatProperties DEF Buffers
  <2>2. (channel \o outbox) \o <<>> = channel \o outbox
    BY <2>1, ConcatEmptySeq
  <2> QED
    BY <1>1, <2>2 DEF Line
<1>3. TimeToGo' = TimeToGo /\ Drawn' = Drawn
  BY <1>1 DEF TimeToGo, Beyond, Drawn
<1> QED
  BY <1>2, <1>3 DEF LineFresh

\* A take: the line moves up, and the next publication is a round ahead at most.
LEMMA TakeFresh ==
  ASSUME Buffers, Buffers', Shaped, Shaped', GoTyped, GoTyped', LineFresh,
         Supplied, Prepare \/ PingSent, pubs > 0, Drawn' > 0
  PROVE  LineFresh' /\ last' = Line[1] /\ Len(Line) > 0
<1>1. /\ outbox' = outbox /\ TakeOne /\ Drawn' <= Drawn + 1 /\ mqtt \in {"top", "ping"}
  <2>1. pubs \in Nat
    BY DEF Buffers
  <2> QED
    BY <2>1 DEF Prepare, PingSent, GoTo, clocks, Drawn
<1>2. PICK n \in Nat, b \in Nat :
        Len(channel) = n /\ n >= 1 /\ Len(outbox) = b /\ Len(Line) = n + b
  BY <1>1 DEF Shaped, Supplied
<1>3. channel # <<>>
  BY <1>2 DEF Shaped
<1>4. /\ last' = Line[1] /\ Len(Line') + 1 = Len(Line)
      /\ \A i \in 1 .. Len(Line') : Line'[i] = Line[i + 1]
  BY <1>1, <1>3, TakeForward
<1>5. PICK r \in Nat, s \in Nat, c \in Nat :
        TimeToGo = r /\ TimeToGo' = s /\ c = Cycle /\ s <= c
  BY Spans DEF GoTyped
<1>6. PICK d \in Nat : Len(Line') = d
  BY DEF Shaped
<1>7. ASSUME NEW i \in 1 .. d PROVE Line'[i] + s <= Line[i + 1] + r + 1 * Cycle
  <2>1. PICK a \in Nat : Line'[i] = a /\ Line[i + 1] = a
    BY <1>4, <1>6 DEF Shaped
  <2> QED
    BY <1>5, <2>1
<1>8. LineFresh'
  BY <1>1, <1>4, <1>5, <1>6, <1>7, LineKept
<1> QED
  BY <1>2, <1>4, <1>8

LEMMA PrepareFresh ==
  ASSUME PacedInv, Buffers, Buffers', Shaped, Shaped', GoTyped, GoTyped',
         LineFresh, Supplied, Prepare
  PROVE  LineFresh' /\ LastFresh'
<1>1. /\ mqtt = "top" /\ mqtt' = "publish" /\ left["mqtt"] = 0
      /\ left'["mqtt"] = SockTimeout
      /\ pubs' = pubs /\ outbox' = outbox /\ pubs \in Nat /\ TakeOne
  BY DEF Prepare, GoTo, clocks, PacedInv, TelemetryTypes, Heard, Buffers
<1>2. Drawn = pubs /\ Drawn' = pubs + 1
  BY <1>1 DEF Drawn
<1>3. CASE pubs = 0
  <2>1. PICK c \in Nat : Len(Line') = c /\ c <= Capacity
    <3>1. PICK a \in Nat, b \in Nat :
            /\ Len(channel') = a /\ Len(outbox') = b
            /\ a <= Capacity /\ b <= 1 /\ Len(Line') = a + b
      BY DEF Shaped, Buffers
    <3>2. CASE channel = <<>>
      <4>1. channel' = <<>>
        BY <1>1, <3>2 DEF TakeOne
      <4>2. a = 0
        BY <3>1, <4>1
      <4> QED
        BY <3>1, <4>2, Spans
    <3>3. CASE channel # <<>>
      <4>1. Len(channel') = Len(channel) - 1
        BY <1>1, <3>3, TakeForward
      <4>2. a < Capacity
        BY <3>1, <4>1, Spans DEF Shaped, Buffers
      <4> QED
        BY <3>1, <4>2, Spans
    <3> QED
      BY <3>2, <3>3
  <2>2. (\A i \in 1 .. c : ~(i + 1 > Capacity + 1)) /\ ~(1 > Capacity + 1)
    BY <2>1, Spans
  <2> QED
    BY <1>2, <1>3, <2>1, <2>2 DEF LineFresh, LastFresh
<1>4. CASE pubs # 0
  <2>1. pubs > 0 /\ Drawn' > 0
    BY <1>1, <1>2, <1>4
  <2>2. LineFresh' /\ last' = Line[1] /\ Len(Line) > 0
    BY <2>1, TakeFresh
  <2>3. ASSUME pubs + 1 > Capacity + 1 PROVE last' + SockTimeout <= StaleAt
    <3>1. PICK c \in Nat : Len(Line) = c /\ 1 \in 1 .. c
      BY <2>2 DEF Shaped
    <3>2. PICK a \in Nat : Line[1] = a
      BY <3>1 DEF Shaped
    <3>3. 1 + pubs > Capacity + 1
      BY <1>1, <2>3, Spans
    <3>4. TimeToGo = 0
      BY <1>1 DEF TimeToGo, Beyond
    <3>5. OnTime(1, a + 0)
      BY <1>2, <3>1, <3>2, <3>3, <3>4 DEF LineFresh
    <3>6. (1 - 1) * Cycle = 0
      BY Spans
    <3>7. a + 0 + 0 + SockTimeout <= StaleAt
      BY <3>5, <3>6 DEF OnTime
    <3> QED
      BY <2>2, <3>2, <3>7, Spans
  <2> QED
    BY <1>1, <1>2, <2>2, <2>3 DEF LastFresh
<1> QED
  BY <1>3, <1>4

\* Time ages the line by as much as it brings its publications nearer.
LEMMA TickFresh ==
  ASSUME PacedInv, PacedInv', Buffers, Buffers', Shaped, Shaped',
         GoTyped, GoTyped', LineFresh, LastFresh, Tick
  PROVE  LineFresh' /\ LastFresh'
<1>1. /\ mqtt' = mqtt /\ left'["mqtt"] = left["mqtt"] - 1 /\ pubs' = pubs
      /\ channel' = OlderSamples(channel) /\ outbox' = OlderSamples(outbox)
      /\ channel \in Seq(Nat) /\ outbox \in Seq(Nat) /\ last \in Nat
      /\ left["mqtt"] \in Nat
  BY DEF Tick, PacedInv, TelemetryTypes, Buffers
<1>2. PICK r \in Nat, s \in Nat : TimeToGo = r /\ TimeToGo' = s /\ s = r - 1
  <2>1. mqtt \in Places
    BY DEF PacedInv, TelemetryTypes
  <2>2. PICK l \in Nat, o \in Nat : left["mqtt"] = l /\ Beyond = o
    <3>1. mqtt \in {"publish", "wait", "ping", "retry", "connect", "hello", "top"}
      BY <2>1 DEF Places
    <3>2. Beyond \in Nat
      BY <3>1, Spans DEF Beyond
    <3> QED
      BY <1>1, <3>2
  <2>3. Beyond' = o
    BY <1>1, <2>2 DEF Beyond
  <2> QED
    BY <1>1, <2>2, <2>3 DEF TimeToGo, GoTyped
<1>3. Drawn' = Drawn
  BY <1>1 DEF Drawn
<1>4. PICK n \in Nat, b \in Nat :
        /\ Len(channel) = n /\ Len(channel') = n
        /\ Len(outbox) = b /\ Len(outbox') = b /\ b <= 1
  BY <1>1, Aged DEF Shaped
<1>5. Len(Line) = n + b /\ Len(Line') = n + b
  BY <1>4 DEF Shaped
<1>6. ASSUME NEW i \in 1 .. n + b
      PROVE  \E a \in Nat, o \in Nat : Line[i] = a /\ Line'[i] = o /\ o <= a + 1
  <2>1. CASE i \in 1 .. n
    <3>1. Line[i] = channel[i] /\ Line'[i] = channel'[i] /\ Line[i] \in Nat
      BY <1>4, <2>1 DEF Shaped
    <3>2. channel'[i] \in Nat /\ channel'[i] <= channel[i] + 1
      BY <1>1, <1>4, <2>1, Aged
    <3> QED
      BY <3>1, <3>2
  <2>2. CASE i \notin 1 .. n
    <3>1. i = n + 1 /\ b = 1
      BY <1>4, <2>2
    <3>2. outbox # <<>> /\ outbox' # <<>>
      BY <1>4, <3>1 DEF Shaped
    <3>3. Line[i] = outbox[1] /\ Line'[i] = outbox'[1] /\ outbox[1] \in Nat
      BY <1>4, <3>1, <3>2 DEF Shaped
    <3>4. outbox'[1] \in Nat /\ outbox'[1] <= outbox[1] + 1
      <4>1. 1 \in 1 .. Len(outbox)
        BY <1>4, <3>1
      <4> QED
        BY <1>1, <4>1, Aged
    <3> QED
      BY <3>3, <3>4
  <2> QED
    BY <2>1, <2>2
<1>7. LineFresh'
  <2>1. ASSUME NEW i \in 1 .. n + b
        PROVE  Line'[i] + s <= Line[i + 0] + r + 0 * Cycle
    <3>1. PICK a \in Nat, o \in Nat : Line[i] = a /\ Line'[i] = o /\ o <= a + 1
      BY <1>6
    <3> QED
      BY <1>2, <3>1, Spans
  <2>2. Drawn' <= Drawn + 0 /\ Len(Line') + 0 = Len(Line)
    BY <1>3, <1>4, <1>5 DEF GoTyped
  <2> QED
    BY <1>2, <1>5, <2>1, <2>2, LineKept
<1>8. LastFresh'
  <2>1. PICK a \in Nat, o \in Nat : last = a /\ last' = o /\ o <= a + 1
    <3>1. last' = Later(last, MaxAge)
      BY DEF Tick, OlderSample
    <3> QED
      BY <1>1, <3>1, LaterBounds, Spans
  <2>2. PICK l \in Nat : left["mqtt"] = l
    BY <1>1
  <2> QED
    BY <1>1, <1>3, <2>1, <2>2, Spans DEF LastFresh
<1> QED
  BY <1>7, <1>8

LEMMA FreshStep ==
  ASSUME Sized, StaleEnough, PacedInv, PacedInv', FreshInv,
         [TelemetryNext]_telemetryVars
  PROVE  FreshInv'
<1>1. /\ Buffers /\ Waits /\ LineFresh /\ LastFresh /\ Supplied
      /\ Buffers' /\ Waits' /\ Supplied'
  BY BuffersStep, WaitsStep, SuppliedStep DEF FreshInv
<1>2. GoTyped /\ GoTyped' /\ Shaped /\ Shaped'
  BY <1>1, GoTypes, GoTypesNext, LineShape, LineShapeNext
<1> SUFFICES LineFresh' /\ LastFresh'
  BY <1>1 DEF FreshInv
<1>3. CASE Measure
  <2>1. UNCHANGED <<mqtt, pubs, last, left>>
    BY <1>3 DEF Measure, clocks
  <2> QED
    BY <1>1, <1>2, <1>3, <2>1, MeasureFresh DEF LastFresh, Drawn
<1>4. CASE SendAverage
  <2>1. left'["mqtt"] = left["mqtt"] /\ UNCHANGED <<mqtt, pubs, last>>
    BY <1>4 DEF SendAverage, clocks, PacedInv, TelemetryTypes
  <2> QED
    BY <1>1, <1>4, <2>1, SendFresh DEF LastFresh, Drawn
<1>5. CASE Connect \/ Connected \/ HelloSent \/ Published \/ StartPing
  <2>1. /\ UNCHANGED <<channel, outbox>>
        /\ mqtt' \in {"connect", "hello", "top", "wait", "ping"}
    BY <1>5 DEF Connect, Connected, HelloSent, Published, StartPing, GoTo
  <2> QED
    BY <1>1, <1>2, <1>5, <2>1, OnwardSteps, KeepStep DEF LastFresh
<1>6. CASE Prepare
  BY <1>1, <1>2, <1>6, PrepareFresh
<1>7. CASE PingSent
  <2>1. mqtt = "ping" /\ mqtt' \in {"top", "wait"} /\ pubs' = pubs
    BY <1>7 DEF PingSent, GoTo
  <2>2. pubs > 0 /\ Drawn' > 0
    BY <1>1, <2>1 DEF Buffers, Drawn
  <2> QED
    BY <1>1, <1>2, <1>7, <2>1, <2>2, TakeFresh DEF LastFresh
<1>8. CASE SockFails \/ SocketClosed
  BY <1>1, <1>2, <1>8, FailFresh
<1>9. CASE Tick
  BY <1>1, <1>2, <1>9, TickFresh
<1>10. CASE BrokerSpeaks \/ UNCHANGED telemetryVars
  <2>1. UNCHANGED <<channel, outbox, mqtt, left, pubs, last>>
    BY <1>10 DEF BrokerSpeaks, telemetryVars, tasks, clocks
  <2> QED
    BY <1>1, <2>1 DEF LineFresh, LastFresh, Line, TimeToGo, Beyond, Drawn
<1> QED
  BY <1>3, <1>4, <1>5, <1>6, <1>7, <1>8, <1>9, <1>10 DEF TelemetryNext, Steps

LEMMA FreshInit == TelemetryInit => FreshInv
<1> SUFFICES ASSUME TelemetryInit PROVE FreshInv
  OBVIOUS
<1>1. /\ mqtt = "retry" /\ pubs = 0 /\ channel = <<>> /\ outbox = <<>>
      /\ Drawn = 0 /\ left["sampler"] = 0
  BY DEF TelemetryInit, Drawn
<1>2. Buffers
  <2>1. <<>> \in Seq(Nat) /\ Len(<<>>) = 0
    OBVIOUS
  <2> QED
    BY <2>1, Spans DEF TelemetryInit, Zero, Buffers
<1>3. LineFresh
  BY <1>1, <1>2, LineShape, NothingTaken
<1> QED
  BY <1>1, <1>2, <1>3 DEF FreshInv, Waits, SockOps, LastFresh, Supplied

\* What is published is no older than StaleAt, for every StaleAt that holds as
\* many rounds as the channel and its sender hold samples; a round is as long as
\* it is on connections that last for one publication only.  That holds from the
\* publication on that these samples are through: over any number of connections
\* that end with a ping that fails, until one cannot be made or dies before that.
THEOREM PublishedFresh ==
  ASSUME Sized, StaleEnough
  PROVE  TelemetrySpec => []BoundedStaleness
<1>1. PacedInv /\ PacedInv' /\ FreshInv /\ [TelemetryNext]_telemetryVars => FreshInv'
  BY FreshStep
<1>2. PacedInv /\ FreshInv => BoundedStaleness
  <2> SUFFICES ASSUME PacedInv, FreshInv, mqtt = "publish", pubs = MaxPubs
               PROVE  last <= StaleAt
    BY DEF BoundedStaleness
  <2>1. Drawn = Capacity + 1 + 1
    BY DEF Drawn, MaxPubs
  <2>2. last + left["mqtt"] <= StaleAt
    BY <2>1, Spans DEF FreshInv, LastFresh
  <2>3. left["mqtt"] \in Nat /\ last \in Nat
    BY DEF PacedInv, TelemetryTypes, FreshInv, Buffers
  <2> QED
    BY <2>2, <2>3, Spans
<1>3. TelemetrySpec => []PacedInv
  BY Paced
<1> QED
  BY <1>1, <1>2, <1>3, FreshInit, PTL DEF TelemetrySpec

-----------------------------------------------------------------------------
\* HeaterClock, for all its periods and timeouts.

\* From the beginning of a period to the end of its request.
Period == Sync + 3 * HttpTimeout

ClockTypes ==
    /\ http \in HttpOps \cup {"sleep", "send"}
    /\ due \in [{"http", "rtc"} -> Nat]
    /\ due.http <= (IF http = "sleep" THEN Sync ELSE HttpTimeout)
    /\ due.rtc <= Round
    /\ since \in Nat /\ failures \in Nat

\* How long the next date may still take to be sent.
ToGo ==
    CASE http = "sleep" -> due.http + 3 * HttpTimeout
      [] http = "connect" -> due.http + 2 * HttpTimeout
      [] http = "write" -> due.http + HttpTimeout
      [] http = "read" -> due.http
      [] http = "send" -> 0

\* The longest that the RTC may wait to be set, with n failed requests.
Longest(n) == (n + 1) * Period

\* Before a date is sent, its request is within its periods; after that,
\* rtc_task takes it in its next round.
Underway ==
    IF epoch_channel = <<>>
    THEN since + ToGo <= Longest(failures)
    ELSE since + due.rtc <= Longest(failures) + Round

ClockInv == ClockTypes /\ Underway

LEMMA LongestGrows ==
  ASSUME NEW n \in Nat
  PROVE  /\ Period \in Nat /\ Longest(n) \in Nat /\ Longest(n) >= Period
         /\ Longest(n + 1) = Longest(n) + Period
<1>1. Period \in Nat
  BY ClockAssumption DEF Period
<1>2. PICK k \in Nat : k = Period
  BY <1>1
<1>3. (n + 1) * k = n * k + k /\ (n + 1 + 1) * k = (n + 1) * k + k /\ n * k \in Nat
  OBVIOUS
<1> QED
  BY <1>2, <1>3 DEF Longest

LEMMA ToGoBounds == ClockTypes => ToGo \in Nat /\ ToGo <= Period
  BY ClockAssumption DEF ClockTypes, ToGo, Period, HttpOps

LEMMA ClockInitial == ClockInit => ClockInv
<1> SUFFICES ASSUME ClockInit PROVE ClockInv
  OBVIOUS
<1>1. ClockTypes
  BY ClockAssumption DEF ClockInit, ClockTypes
<1>2. Longest(0) >= Period /\ ToGo <= Period /\ ToGo \in Nat
  BY <1>1, LongestGrows, ToGoBounds
<1>3. since = 0 /\ failures = 0 /\ epoch_channel = <<>>
  BY DEF ClockInit
<1> QED
  BY <1>1, <1>2, <1>3, LongestGrows DEF ClockInv, Underway

\* The next date is no further away than before.
LEMMA Nearer ==
  ASSUME ClockInv, ClockTypes', UNCHANGED <<epoch_channel, since, failures>>,
         epoch_channel = <<>> => ToGo' <= ToGo,
         epoch_channel # <<>> => due'.rtc <= due.rtc
  PROVE  Underway'
<1>1. PICK m \in Nat : m = Longest(failures) /\ m = Longest(failures)'
  BY LongestGrows DEF ClockInv, ClockTypes, Longest, Period
<1>2. ToGo \in Nat
  BY ToGoBounds DEF ClockInv
<1>3. ToGo' \in Nat
  BY ClockAssumption, SMTT(30) DEF ClockTypes, ToGo, HttpOps
<1> QED
  BY <1>1, <1>2, <1>3, ClockAssumption, SMTT(30) DEF ClockInv, ClockTypes, Underway

\* httpdate_task goes on, in time.
LEMMA HttpStep ==
  ASSUME ClockInv,
         Request \/ HttpConnected \/ HttpWritten \/ ServerAnswers \/ HttpRead
  PROVE  ClockInv'
<1>1. ClockTypes /\ UNCHANGED <<epoch_channel, since, failures>>
  BY DEF ClockInv, Request, HttpConnected, HttpWritten, ServerAnswers, HttpRead,
     clockHistory
<1>2. ClockTypes' /\ due'.rtc = due.rtc
  BY <1>1, ClockAssumption
     DEF ClockTypes, HttpOps, HttpGoTo, Request, HttpConnected, HttpWritten,
         ServerAnswers, HttpRead
<1>3. ToGo' <= ToGo
  BY <1>1, <1>2, ClockAssumption
     DEF ClockTypes, ToGo, HttpGoTo, Request, HttpConnected, HttpWritten,
         ServerAnswers, HttpRead
<1>4. due.rtc \in Nat
  BY <1>1 DEF ClockTypes
<1> QED
  BY <1>1, <1>2, <1>3, <1>4, Nearer DEF ClockInv

LEMMA SendStep ==
  ASSUME ClockInv, SendEpoch
  PROVE  ClockInv'
<1>1. /\ ClockTypes /\ UNCHANGED <<since, failures>> /\ epoch_channel = <<>>
      /\ epoch_channel' = <<ToUnix(answer)>> /\ due'.rtc = due.rtc
  BY DEF ClockInv, ClockTypes, SendEpoch, HttpGoTo, clockHistory
<1>2. ClockTypes'
  BY <1>1, ClockAssumption DEF ClockTypes, SendEpoch, HttpGoTo
<1>3. since <= Longest(failures)
  BY <1>1, ToGoBounds, LongestGrows, SMTT(30) DEF ClockInv, Underway, ClockTypes
<1>4. epoch_channel' # <<>>
  <2>1. PICK ts : epoch_channel' = <<ts>>
    BY <1>1
  <2> QED
    BY <2>1
<1>5. since + due.rtc <= Longest(failures) + Round
  <2>1. since \in Nat /\ due.rtc \in Nat /\ due.rtc <= Round /\ Round \in Nat
        /\ Longest(failures) \in Nat
    BY <1>1, LongestGrows, ClockAssumption DEF ClockTypes
  <2> QED
    BY <1>3, <2>1
<1> QED
  BY <1>1, <1>2, <1>4, <1>5 DEF ClockInv, Underway, Longest, Period

LEMMA FailStep ==
  ASSUME ClockInv, HttpFails
  PROVE  ClockInv'
<1>1. /\ ClockTypes /\ UNCHANGED <<since, epoch_channel>> /\ failures' = failures + 1
      /\ due'.rtc = due.rtc /\ failures \in Nat
  BY DEF ClockInv, ClockTypes, HttpFails, HttpGoTo
<1>2. ClockTypes'
  BY <1>1, ClockAssumption DEF ClockTypes, HttpFails, HttpGoTo
<1>3. ToGo' = Period
  BY <1>1, ClockAssumption DEF ClockTypes, ToGo, Period, HttpFails, HttpGoTo
<1>4. Longest(failures)' = Longest(failures) + Period
  BY <1>1, LongestGrows DEF Longest, Period
<1>5. /\ ToGo \in Nat /\ Period \in Nat /\ Longest(failures) \in Nat
      /\ since \in Nat /\ due.rtc \in Nat /\ Round \in Nat
  BY <1>1, ToGoBounds, LongestGrows, ClockAssumption DEF ClockTypes
<1>6. CASE epoch_channel = <<>>
  <2>1. since + ToGo <= Longest(failures)
    BY <1>6 DEF ClockInv, Underway
  <2>2. since' + ToGo' <= Longest(failures)'
    BY <1>1, <1>3, <1>4, <1>5, <2>1
  <2> QED
    BY <1>1, <1>2, <1>6, <2>2 DEF ClockInv, Underway
<1>7. CASE epoch_channel # <<>>
  <2>1. since + due.rtc <= Longest(failures) + Round
    BY <1>7 DEF ClockInv, Underway
  <2>2. since' + due'.rtc <= Longest(failures)' + Round
    BY <1>1, <1>4, <1>5, <2>1
  <2> QED
    BY <1>1, <1>2, <1>7, <2>2 DEF ClockInv, Underway
<1> QED
  BY <1>6, <1>7

\* The RTC is set, or the device switched on: the wait begins anew.
LEMMA AnewStep ==
  ASSUME ClockTypes', since' = 0, failures' = 0, epoch_channel' = <<>>
  PROVE  ClockInv'
<1>1. ToGo' \in Nat /\ ToGo' <= Period
  <2>1. (ToGo \in Nat /\ ToGo <= Period)'
    BY ToGoBounds, PTL
  <2> QED
    BY <2>1 DEF Period
<1>2. Longest(0) >= Period /\ Longest(0) \in Nat /\ Period \in Nat
  BY LongestGrows
<1>3. Longest(failures)' = Longest(0)
  BY DEF Longest, Period
<1>4. since' + ToGo' <= Longest(failures)'
  BY <1>1, <1>2, <1>3
<1> QED
  BY <1>4 DEF ClockInv, Underway

LEMMA RoundStep ==
  ASSUME ClockInv, RtcRound
  PROVE  ClockInv'
<1>1. /\ ClockTypes /\ http' = http /\ due'.http = due.http /\ due'.rtc = Round
         /\ due.rtc = 0
      /\ due' \in [{"http", "rtc"} -> Nat]
  BY ClockAssumption DEF ClockInv, ClockTypes, RtcRound
<1>2. CASE epoch_channel = <<>>
  <2>1. UNCHANGED <<epoch_channel, since, failures>>
    BY <1>2 DEF RtcRound
  <2>2. ClockTypes' /\ ToGo' = ToGo /\ ToGo \in Nat
    <3>1. ClockTypes'
      BY <1>1, <2>1, ClockAssumption DEF ClockTypes
    <3>2. ToGo' = ToGo
      BY <1>1 DEF ToGo
    <3> QED
      BY <1>1, <3>1, <3>2, ToGoBounds
  <2> QED
    BY <1>2, <2>1, <2>2, Nearer DEF ClockInv
<1>3. CASE epoch_channel # <<>>
  <2>1. since' = 0 /\ failures' = 0 /\ epoch_channel' = <<>>
    BY <1>3 DEF RtcRound
  <2>2. ClockTypes'
    BY <1>1, <2>1, ClockAssumption DEF ClockTypes
  <2> QED
    BY <2>1, <2>2, AnewStep
<1> QED
  BY <1>2, <1>3

LEMMA PowerCycleStep ==
  ASSUME PowerCycle
  PROVE  ClockInv'
<1>1. since' = 0 /\ failures' = 0 /\ epoch_channel' = <<>>
  BY DEF PowerCycle
<1>2. ClockTypes'
  BY <1>1, ClockAssumption DEF ClockTypes, PowerCycle
<1> QED
  BY <1>1, <1>2, AnewStep

\* While time passes the sleeping task comes nearer to its end.
LEMMA ClockTickStep ==
  ASSUME ClockInv, ClockTick
  PROVE  ClockInv'
<1>1. /\ ClockTypes /\ UNCHANGED <<http, epoch_channel, failures>>
         /\ since' = since + 1
      /\ due' = [http |-> IF http = "send" THEN 0 ELSE due.http - 1,
                  rtc |-> due.rtc - 1]
      /\ due.rtc # 0 /\ (http = "send" => epoch_channel # <<>>)
         /\ (http # "send" => due.http # 0)
  BY DEF ClockInv, ClockTick, HttpBusy, RtcBusy
<1>2. /\ due'.http = IF http = "send" THEN 0 ELSE due.http - 1
      /\ due'.rtc = due.rtc - 1
  BY <1>1
<1>3. ClockTypes'
  <2>1. due.http \in Nat /\ due.rtc \in Nat /\ due'.http \in Nat /\ due'.rtc \in Nat
    BY <1>1, <1>2 DEF ClockTypes
  <2>2. due' \in [{"http", "rtc"} -> Nat]
    BY <1>1, <1>2, <2>1
  <2> QED
    BY <1>1, <1>2, <2>1, <2>2, ClockAssumption DEF ClockTypes
<1>4. PICK m \in Nat : m = Longest(failures) /\ m = Longest(failures)'
  BY <1>1, LongestGrows DEF ClockTypes, Longest, Period
<1>5. CASE epoch_channel = <<>>
  <2>1. since + ToGo <= m
    BY <1>4, <1>5 DEF ClockInv, Underway
  <2>2. ToGo \in Nat /\ ToGo' = ToGo - 1
    <3>1. due.http \in Nat \ {0} /\ due'.http = due.http - 1 /\ http' = http
      BY <1>1, <1>2, <1>5 DEF ClockTypes
    <3>2. http \in HttpOps \cup {"sleep"} /\ HttpTimeout \in Nat
      BY <1>1, <1>5, ClockAssumption DEF ClockTypes
    <3>3. PICK n \in Nat \ {0} : n = due.http
      BY <3>1
    <3>4. due'.http = n - 1
      BY <3>1, <3>3
    <3> QED
      BY <3>1, <3>2, <3>3, <3>4 DEF ToGo, HttpOps
  <2>3. since' + ToGo' <= m
    BY <1>1, <2>1, <2>2 DEF ClockTypes
  <2> QED
    BY <1>1, <1>3, <1>4, <1>5, <2>3 DEF ClockInv, Underway
<1>6. CASE epoch_channel # <<>>
  <2>1. since + due.rtc <= m + Round
    BY <1>4, <1>6 DEF ClockInv, Underway
  <2>2. since' + due'.rtc <= m + Round
    BY <1>1, <1>2, <2>1, ClockAssumption DEF ClockTypes
  <2> QED
    BY <1>1, <1>3, <1>4, <1>6, <2>2 DEF ClockInv, Underway
<1> QED
  BY <1>5, <1>6

LEMMA ClockStep == ClockInv /\ [ClockNext]_clockVars => ClockInv'
<1> SUFFICES ASSUME ClockInv, [ClockNext]_clockVars PROVE ClockInv'
  OBVIOUS
<1>1. CASE UNCHANGED clockVars
  BY <1>1
     DEF clockVars, clockTasks, clockHistory, ClockInv, ClockTypes, Underway, ToGo,
         Longest, Period
<1> QED
  BY <1>1, HttpStep, SendStep, FailStep, RoundStep, PowerCycleStep, ClockTickStep
     DEF ClockNext

\* The RTC is set again within a period and the time of a request, and one
\* more of them for each request that failed: RTC_EPOCH_CH holds up neither
\* httpdate_task nor what it sends for longer than a round of rtc_task.
THEOREM SetInTimeAlways == ClockSpec => []SetInTime
<1>1. ClockInv => SetInTime
  <2> SUFFICES ASSUME ClockInv PROVE since <= Longest(failures) + Round
    BY DEF SetInTime, Longest, Period
  <2>1. /\ ToGo \in Nat /\ Longest(failures) \in Nat /\ Round \in Nat
        /\ since \in Nat /\ due.rtc \in Nat
    BY ToGoBounds, LongestGrows, ClockAssumption DEF ClockInv, ClockTypes
  <2> QED
    BY <2>1 DEF ClockInv, Underway
<1> QED
  BY <1>1, ClockInitial, ClockStep, PTL DEF ClockSpec

-----------------------------------------------------------------------------
\* The calendar, for every date from 1970 on.

\* Induction over the natural numbers, about a set of them.
LEMMA Induction ==
  ASSUME NEW T \in SUBSET Nat, 0 \in T, \A n \in T : n + 1 \in T
  PROVE  T = Nat
<1> SUFFICES ASSUME NEW n \in Nat \ T PROVE FALSE
  OBVIOUS
<1>1. PICK m \in Nat \ T : \A k \in Nat \ T : m <= k
  <2>1. Nat \ T \in SUBSET Nat /\ Nat \ T # {}
    OBVIOUS
  <2>2. PICK m \in Nat \ T : \A k \in Nat \ T : ~(<<k, m>> \in OpToRel(<, Nat))
    BY <2>1, WFMin, NatLessThanWellFounded
  <2>3. \A k \in Nat \ T : ~(k < m)
    BY <2>2 DEF OpToRel
  <2> QED
    BY <2>3
<1>2. m - 1 \in Nat /\ (m - 1) + 1 = m
  OBVIOUS
<1>3. m - 1 \in T
  BY <1>1, <1>2
<1> QED
  BY <1>2, <1>3

\* The days from the year 0 on to the first of year y.
DaysUntil(y) == 365 * y + (y + 3) \div 4 - (y + 99) \div 100 + (y + 399) \div 400

LEMMA YearLength ==
  ASSUME NEW y \in Nat
  PROVE  /\ YearDays(y) \in {365, 366}
         /\ DaysUntil(y) \in Int
         /\ DaysUntil(y + 1) = DaysUntil(y) + YearDays(y)
         /\ Gregorian(y) <=> IsLeap(y)
<1>1. (y + 4) \div 4 - (y + 3) \div 4 = IF y % 4 = 0 THEN 1 ELSE 0
  OBVIOUS
<1>2. (y + 100) \div 100 - (y + 99) \div 100 = IF y % 100 = 0 THEN 1 ELSE 0
  OBVIOUS
<1>3. (y + 400) \div 400 - (y + 399) \div 400 = IF y % 400 = 0 THEN 1 ELSE 0
  OBVIOUS
<1>4. /\ y % 400 = 0 => y % 100 = 0
      /\ y % 100 = 0 => y % 4 = 0
  OBVIOUS
<1>5. (y + 1) + 3 = y + 4 /\ (y + 1) + 99 = y + 100 /\ (y + 1) + 399 = y + 400
  OBVIOUS
<1>6. /\ YearDays(y) \in {365, 366}
      /\ DaysUntil(y) \in Int
  BY DEF YearDays, DaysUntil
<1>7. DaysUntil(y + 1) = DaysUntil(y) + YearDays(y)
  BY <1>1, <1>2, <1>3, <1>4, <1>5 DEF DaysUntil, YearDays, IsLeap
<1>8. Gregorian(y) <=> IsLeap(y)
  BY <1>4 DEF Gregorian, IsLeap
<1> QED
  BY <1>6, <1>7, <1>8

LEMMA YearsBefore ==
  ASSUME NEW y \in Nat
  PROVE  DaysBeforeYear[y] = DaysUntil(y) - DaysUntil(1970)
<1> DEFINE Body(g) == [z \in Nat |->
             IF z > 1970 THEN g[z - 1] + YearDays(z - 1)
             ELSE IF z < 1970 THEN g[z + 1] - YearDays(z)
             ELSE 0]
           Days == [z \in Nat |-> DaysUntil(z) - DaysUntil(1970)]
<1>1. Days = Body(Days)
  <2>1. ASSUME NEW z \in Nat
        PROVE  Days[z] = Body(Days)[z]
    <3>1. CASE z > 1970
      <4>1. z - 1 \in Nat /\ (z - 1) + 1 = z
        BY <3>1
      <4>2. DaysUntil(z) = DaysUntil(z - 1) + YearDays(z - 1)
        BY <4>1, YearLength
      <4>3. DaysUntil(z - 1) \in Int /\ YearDays(z - 1) \in Int
            /\ DaysUntil(1970) \in Int
        BY <4>1, YearLength
      <4>4. Days[z - 1] = DaysUntil(z - 1) - DaysUntil(1970)
        BY <4>1
      <4>5. Days[z] = Days[z - 1] + YearDays(z - 1)
        BY <4>2, <4>3, <4>4
      <4> QED
        BY <3>1, <4>5
    <3>2. CASE z < 1970
      <4>1. DaysUntil(z + 1) = DaysUntil(z) + YearDays(z)
        BY YearLength
      <4>2. DaysUntil(z) \in Int /\ YearDays(z) \in Int /\ DaysUntil(1970) \in Int
        BY YearLength
      <4>3. Days[z] = Days[z + 1] - YearDays(z)
        BY <4>1, <4>2
      <4> QED
        BY <3>2, <4>3
    <3>3. CASE z = 1970
      <4>1. DaysUntil(1970) \in Int
        BY YearLength
      <4> QED
        BY <3>3, <4>1
    <3> QED
      BY <3>1, <3>2, <3>3
  <2> HIDE DEF Days
  <2>2. DOMAIN Days = Nat /\ Days = [z \in Nat |-> Days[z]]
    BY DEF Days
  <2>3. Body(Days) = [z \in Nat |-> Body(Days)[z]]
    OBVIOUS
  <2> HIDE DEF Body
  <2> QED
    BY <2>1, <2>2, <2>3
<1>2. DaysBeforeYear = CHOOSE g : g = Body(g)
  BY DEF DaysBeforeYear
<1>3. DaysBeforeYear = Body(DaysBeforeYear)
  <2> HIDE DEF Body, Days
  <2> QED
    BY <1>1, <1>2
<1>4. \A z \in Nat : DaysBeforeYear[z] =
             IF z > 1970 THEN DaysBeforeYear[z - 1] + YearDays(z - 1)
             ELSE IF z < 1970 THEN DaysBeforeYear[z + 1] - YearDays(z)
             ELSE 0
  BY <1>3
<1> DEFINE Up == {n \in Nat :
             DaysBeforeYear[1970 + n] = DaysUntil(1970 + n) - DaysUntil(1970)}
           Down == {n \in Nat : n <= 1970 =>
             DaysBeforeYear[1970 - n] = DaysUntil(1970 - n) - DaysUntil(1970)}
<1>5. DaysUntil(1970) \in Int /\ DaysBeforeYear[1970] = 0
  BY <1>4, YearLength
<1>6. Up = Nat
  <2>1. 0 \in Up
    <3>1. 1970 + 0 = 1970
      OBVIOUS
    <3> QED
      BY <1>5, <3>1
  <2>2. ASSUME NEW n \in Up PROVE n + 1 \in Up
    <3>1. PICK z \in Nat : z = 1970 + n
      OBVIOUS
    <3>2. DaysBeforeYear[z + 1] = DaysBeforeYear[z] + YearDays(z)
      <4>1. z + 1 \in Nat /\ z + 1 > 1970 /\ (z + 1) - 1 = z
        BY <3>1
      <4> QED
        BY <1>4, <4>1
    <3>3. DaysUntil(z + 1) = DaysUntil(z) + YearDays(z) /\ DaysUntil(z) \in Int
          /\ YearDays(z) \in Int
      BY YearLength
    <3>4. DaysBeforeYear[z] = DaysUntil(z) - DaysUntil(1970)
      BY <3>1
    <3>5. DaysBeforeYear[z + 1] = DaysUntil(z + 1) - DaysUntil(1970)
      BY <1>5, <3>2, <3>3, <3>4
    <3>6. 1970 + (n + 1) = z + 1
      BY <3>1
    <3> QED
      BY <3>5, <3>6
  <2> HIDE DEF Up
  <2>3. Up \in SUBSET Nat
    BY DEF Up
  <2> QED
    BY <2>1, <2>2, <2>3, Induction
<1>7. Down = Nat
  <2>1. 0 \in Down
    <3>1. 1970 - 0 = 1970
      OBVIOUS
    <3> QED
      BY <1>5, <3>1
  <2>2. ASSUME NEW n \in Down PROVE n + 1 \in Down
    <3> SUFFICES ASSUME n + 1 <= 1970
                 PROVE  DaysBeforeYear[1970 - (n + 1)] =
                          DaysUntil(1970 - (n + 1)) - DaysUntil(1970)
      OBVIOUS
    <3>1. PICK z \in Nat : z = 1970 - (n + 1)
      OBVIOUS
    <3>2. DaysBeforeYear[z] = DaysBeforeYear[z + 1] - YearDays(z)
      <4>1. z < 1970
        BY <3>1
      <4> QED
        BY <1>4, <4>1
    <3>3. DaysUntil(z + 1) = DaysUntil(z) + YearDays(z) /\ DaysUntil(z) \in Int
          /\ YearDays(z) \in Int
      BY YearLength
    <3>4. 1970 - n = z + 1 /\ n <= 1970
      BY <3>1
    <3>5. DaysBeforeYear[z + 1] = DaysUntil(z + 1) - DaysUntil(1970)
      BY <3>4
    <3>6. DaysBeforeYear[z] = DaysUntil(z) - DaysUntil(1970)
      BY <1>5, <3>2, <3>3, <3>5
    <3> QED
      BY <3>1, <3>6
  <2> HIDE DEF Down
  <2>3. Down \in SUBSET Nat
    BY DEF Down
  <2> QED
    BY <2>1, <2>2, <2>3, Induction
<1> HIDE DEF Body, Days, Up, Down
<1>8. CASE y >= 1970
  <2>1. PICK n \in Nat : y = 1970 + n
    <3>1. y - 1970 \in Nat /\ y = 1970 + (y - 1970)
      BY <1>8
    <3> QED
      BY <3>1
  <2>2. n \in Up
    BY <1>6
  <2> QED
    BY <2>1, <2>2 DEF Up
<1>9. CASE y < 1970
  <2>1. PICK n \in Nat : y = 1970 - n /\ n <= 1970
    <3>1. 1970 - y \in Nat /\ y = 1970 - (1970 - y) /\ 1970 - y <= 1970
      BY <1>9
    <3> QED
      BY <3>1
  <2>2. n \in Down
    BY <1>7
  <2> QED
    BY <2>1, <2>2 DEF Down
<1> QED
  BY <1>8, <1>9

\* The days of a year before month m of it.
DaysInto(y, m) ==
    <<0, 31, 59, 90, 120, 151, 181, 212, 243, 273, 304, 334, 365>>[m]
    + (IF m > 2 /\ IsLeap(y) THEN 1 ELSE 0)

LEMMA MonthLength ==
  ASSUME NEW y \in Nat, NEW m \in 1 .. 12
  PROVE  /\ MonthDays(y, m) \in Nat
         /\ MonthDays(y, m) >= 1
         /\ DaysInto(y, m) \in Nat
         /\ DaysInto(y, m + 1) = DaysInto(y, m) + MonthDays(y, m)
<1>1. \/ m = 1 \/ m = 2 \/ m = 3 \/ m = 4 \/ m = 5 \/ m = 6
      \/ m = 7 \/ m = 8 \/ m = 9 \/ m = 10 \/ m = 11 \/ m = 12
  OBVIOUS
<1> QED
  BY <1>1 DEF MonthDays, MDays, DaysInto

LEMMA MonthStart ==
  ASSUME NEW y \in Nat, NEW m \in 1 .. 13
  PROVE  DaysInto(y, m) \in Nat
<1>1. \/ m = 1 \/ m = 2 \/ m = 3 \/ m = 4 \/ m = 5 \/ m = 6
      \/ m = 7 \/ m = 8 \/ m = 9 \/ m = 10 \/ m = 11 \/ m = 12 \/ m = 13
  OBVIOUS
<1> QED
  BY <1>1 DEF DaysInto

LEMMA YearEnds ==
  ASSUME NEW y \in Nat
  PROVE  DaysInto(y, 1) = 0 /\ DaysInto(y, 13) = YearDays(y)
BY DEF DaysInto, YearDays

LEMMA MonthsBefore ==
  ASSUME NEW y \in Nat, NEW month \in 1 .. 12
  PROVE  DaysBeforeMonth(y, month) = DaysInto(y, month)
<1> DEFINE Body(g) == [m \in 1 .. 12 |->
             IF m = 1 THEN 0 ELSE g[m - 1] + MonthDays(y, m - 1)]
           Days == [m \in 1 .. 12 |-> DaysInto(y, m)]
           f == CHOOSE g : g = Body(g)
<1>1. Days = Body(Days)
  <2>1. ASSUME NEW k \in 1 .. 12
        PROVE  DaysInto(y, k) =
                 IF k = 1 THEN 0 ELSE Days[k - 1] + MonthDays(y, k - 1)
    <3>1. CASE k = 1
      BY <3>1, YearEnds
    <3>2. CASE k # 1
      <4>1. k - 1 \in 1 .. 12 /\ (k - 1) + 1 = k
        BY <3>2
      <4>2. DaysInto(y, k) = DaysInto(y, k - 1) + MonthDays(y, k - 1)
        BY <4>1, MonthLength
      <4>3. Days[k - 1] = DaysInto(y, k - 1)
        BY <4>1
      <4> QED
        BY <3>2, <4>2, <4>3
    <3> QED
      BY <3>1, <3>2
  <2> QED
    BY <2>1
<1>2. f = Body(f)
  <2> HIDE DEF Body, Days
  <2> QED
    BY <1>1
<1>3. DaysBeforeMonth(y, month) = f[month]
  BY DEF DaysBeforeMonth
<1> HIDE DEF f
<1>4. \A k \in 1 .. 12 :
        f[k] = IF k = 1 THEN 0 ELSE f[k - 1] + MonthDays(y, k - 1)
  BY <1>2
<1> HIDE DEF Body, Days
<1> DEFINE T == {n \in Nat : n + 1 <= 12 => f[n + 1] = DaysInto(y, n + 1)}
<1>5. T = Nat
  <2>1. 0 \in T
    <3>1. 0 + 1 = 1
      OBVIOUS
    <3>2. f[1] = 0
      BY <1>4
    <3> QED
      BY <3>1, <3>2, YearEnds
  <2>2. ASSUME NEW n \in T PROVE n + 1 \in T
    <3>1. n \in Nat
      OBVIOUS
    <3>2. ASSUME n + 1 + 1 <= 12 PROVE f[n + 1 + 1] = DaysInto(y, n + 1 + 1)
      <4>1. PICK k \in 1 .. 12 : k = n + 1
        BY <3>1, <3>2
      <4>2. k + 1 \in 1 .. 12 /\ k + 1 # 1 /\ (k + 1) - 1 = k /\ k <= 12
        BY <3>1, <3>2, <4>1
      <4>3. f[k] = DaysInto(y, k)
        BY <4>1, <4>2
      <4>4. f[k + 1] = f[k] + MonthDays(y, k)
        BY <1>4, <4>2
      <4>5. DaysInto(y, k + 1) = DaysInto(y, k) + MonthDays(y, k)
        BY MonthLength
      <4> QED
        BY <4>1, <4>3, <4>4, <4>5
    <3> QED
      BY <3>1, <3>2
  <2> HIDE DEF T
  <2>3. T \in SUBSET Nat
    BY DEF T
  <2> QED
    BY <2>1, <2>2, <2>3, Induction
<1>6. PICK n \in Nat : month = n + 1
  <2>1. month - 1 \in Nat /\ month = (month - 1) + 1
    OBVIOUS
  <2> QED
    BY <2>1
<1> HIDE DEF T
<1>7. n \in T
  BY <1>5
<1>8. n + 1 <= 12
  BY <1>6
<1> QED
  BY <1>3, <1>6, <1>7, <1>8 DEF T

LEMMA YearsGrow ==
  ASSUME NEW y \in Nat, NEW z \in Nat, y <= z
  PROVE  DaysUntil(y) <= DaysUntil(z)
<1> DEFINE T == {n \in Nat : DaysUntil(y) <= DaysUntil(y + n)}
<1>1. 0 \in T
  <2>1. y + 0 = y /\ DaysUntil(y) \in Int
    BY YearLength
  <2> QED
    BY <2>1
<1>2. ASSUME NEW n \in T PROVE n + 1 \in T
  <2>1. PICK x \in Nat : x = y + n /\ y + (n + 1) = x + 1
    OBVIOUS
  <2>2. /\ DaysUntil(x + 1) = DaysUntil(x) + YearDays(x)
        /\ DaysUntil(x) \in Int /\ DaysUntil(y) \in Int /\ YearDays(x) \in Nat
    BY YearLength
  <2>3. DaysUntil(y) <= DaysUntil(x)
    BY <2>1
  <2>4. DaysUntil(y) <= DaysUntil(x + 1)
    BY <2>2, <2>3
  <2> QED
    BY <2>1, <2>4
<1> HIDE DEF T
<1>3. T = Nat
  <2>1. T \in SUBSET Nat
    BY DEF T
  <2> QED
    BY <1>1, <1>2, <2>1, Induction
<1>4. z - y \in T /\ y + (z - y) = z
  BY <1>3
<1> QED
  BY <1>4 DEF T

\* The loop over years, unrolled once.
LEMMA YearLoop ==
  ASSUME NEW y \in Nat, NEW n \in Nat
  PROVE  YearOf[<<y, n>>] =
           IF n >= YearDays(y) THEN YearOf[<<y + 1, n - YearDays(y)>>]
                            ELSE <<y, n>>
<1> DEFINE Body(g) == [p \in Nat \X Nat |->
             IF p[2] >= YearDays(p[1])
               THEN g[<<p[1] + 1, p[2] - YearDays(p[1])>>] ELSE p]
           Same(p) == {s \in Nat \X Nat :
             /\ s[1] >= p[1] /\ s[2] < YearDays(s[1])
             /\ DaysUntil(s[1]) + s[2] = DaysUntil(p[1]) + p[2]}
           One(S) == CHOOSE s \in S : TRUE
           Found == [p \in Nat \X Nat |-> One(Same(p))]
<1>1. ASSUME NEW a \in Nat, NEW d \in Nat
      PROVE  One(Same(<<a, d>>)) =
               IF d >= YearDays(a)
                 THEN Found[<<a + 1, d - YearDays(a)>>] ELSE <<a, d>>
  <2>1. /\ YearDays(a) \in Nat /\ DaysUntil(a) \in Int
        /\ DaysUntil(a + 1) = DaysUntil(a) + YearDays(a)
    BY YearLength
  <2>2. ASSUME NEW b \in Nat, NEW e \in Nat
        PROVE  /\ <<b, e>> \in Same(<<a, d>>) <=>
                   b >= a /\ e < YearDays(b) /\ DaysUntil(b) + e = DaysUntil(a) + d
               /\ DaysUntil(b) \in Int
               /\ b > a => DaysUntil(b) >= DaysUntil(a) + YearDays(a)
    <3>1. b > a => a + 1 <= b /\ a + 1 \in Nat
      OBVIOUS
    <3> QED
      BY <2>1, <3>1, YearLength, YearsGrow
  <2>3. CASE d >= YearDays(a)
    <3>1. PICK c \in Nat, f \in Nat : c = a + 1 /\ f = d - YearDays(a)
      BY <2>1, <2>3
    <3>2. Same(<<a, d>>) = Same(<<c, f>>)
      <4>1. ASSUME NEW b \in Nat, NEW e \in Nat
            PROVE  <<b, e>> \in Same(<<c, f>>) <=>
                     b >= c /\ e < YearDays(b) /\ DaysUntil(b) + e = DaysUntil(c) + f
        OBVIOUS
      <4>2. DaysUntil(c) + f = DaysUntil(a) + d
        BY <2>1, <3>1
      <4>3. ASSUME NEW b \in Nat, NEW e \in Nat
            PROVE  <<b, e>> \in Same(<<a, d>>) <=> <<b, e>> \in Same(<<c, f>>)
        <5>1. CASE b = a
          <6>1. e < YearDays(b) => DaysUntil(b) + e # DaysUntil(a) + d
            BY <2>1, <2>3, <5>1
          <6>2. ~(b >= c)
            BY <3>1, <5>1
          <6> HIDE DEF Same
          <6> QED
            BY <2>2, <4>1, <6>1, <6>2
        <5>2. CASE b # a
          <6>1. b >= a <=> b >= c
            BY <3>1, <5>2
          <6> HIDE DEF Same
          <6> QED
            BY <2>2, <4>1, <4>2, <6>1
        <5> QED
          BY <5>1, <5>2
      <4>4. Same(<<a, d>>) \subseteq Nat \X Nat /\ Same(<<c, f>>) \subseteq Nat \X Nat
        OBVIOUS
      <4> HIDE DEF Same
      <4> QED
        BY <4>3, <4>4
    <3>3. Found[<<c, f>>] = One(Same(<<c, f>>))
      <4> HIDE DEF One, Same
      <4> QED
        OBVIOUS
    <3> HIDE DEF One, Same, Found
    <3> QED
      BY <2>3, <3>1, <3>2, <3>3
  <2>4. CASE d < YearDays(a)
    <3>1. ASSUME NEW b \in Nat, NEW e \in Nat, <<b, e>> \in Same(<<a, d>>)
          PROVE  b = a /\ e = d
      <4>1. ~(b > a)
        BY <2>1, <2>2, <2>4, <3>1
      <4>2. b = a
        BY <2>2, <3>1, <4>1
      <4> QED
        BY <2>1, <2>2, <3>1, <4>2
    <3>2. <<a, d>> \in Same(<<a, d>>)
      BY <2>2, <2>4
    <3>3. Same(<<a, d>>) \subseteq Nat \X Nat
      OBVIOUS
    <3>4. Same(<<a, d>>) = {<<a, d>>}
      <4> HIDE DEF Same
      <4> QED
        BY <3>1, <3>2, <3>3
    <3> HIDE DEF Same
    <3>5. One({<<a, d>>}) = <<a, d>>
      OBVIOUS
    <3>6. ~(d >= YearDays(a))
      BY <2>1, <2>4
    <3> HIDE DEF One, Found
    <3> QED
      BY <3>4, <3>5, <3>6
  <2>5. d >= YearDays(a) \/ d < YearDays(a)
    BY <2>1
  <2> HIDE DEF Same, One, Found
  <2> QED
    BY <2>3, <2>4, <2>5
<1>2. Found = Body(Found)
  <2> HIDE DEF One, Same
  <2>1. \A p \in Nat \X Nat : One(Same(p)) =
          IF p[2] >= YearDays(p[1])
            THEN Found[<<p[1] + 1, p[2] - YearDays(p[1])>>] ELSE p
    <3> SUFFICES ASSUME NEW a \in Nat, NEW d \in Nat
                 PROVE  One(Same(<<a, d>>)) =
                   IF d >= YearDays(a)
                     THEN Found[<<a + 1, d - YearDays(a)>>] ELSE <<a, d>>
      OBVIOUS
    <3> QED
      BY <1>1
  <2>2. Body(Found) = [p \in Nat \X Nat |-> One(Same(p))]
    <3> HIDE DEF Found
    <3> QED
      BY <2>1
  <2> QED
    BY <2>2
<1>3. YearOf = CHOOSE g : g = Body(g)
  BY DEF YearOf
<1> HIDE DEF Found
<1>4. YearOf = Body(YearOf)
  <2> HIDE DEF Body
  <2> QED
    BY <1>2, <1>3
<1>5. <<y, n>> \in Nat \X Nat
  OBVIOUS
<1> QED
  BY <1>4, <1>5

\* n days into year y, counted from 1970, are found again.
LEMMA YearFound ==
  ASSUME NEW y \in Nat, y >= 1970, NEW n \in Nat, n < YearDays(y)
  PROVE  /\ DaysUntil(y) - DaysUntil(1970) + n \in Nat
         /\ YearOf[<<1970, DaysUntil(y) - DaysUntil(1970) + n>>] = <<y, n>>
<1> DEFINE T == {k \in Nat : k <= y =>
                   YearOf[<<y - k, DaysUntil(y) - DaysUntil(y - k) + n>>] = <<y, n>>}
<1>1. 0 \in T
  <2>1. y - 0 = y /\ DaysUntil(y) - DaysUntil(y) + n = n
    BY YearLength
  <2>2. ~(n >= YearDays(y))
    BY YearLength
  <2>3. YearOf[<<y, n>>] = IF n >= YearDays(y) THEN YearOf[<<y + 1, n - YearDays(y)>>]
                           ELSE <<y, n>>
    BY YearLoop
  <2> QED
    BY <2>1, <2>2, <2>3
<1>2. ASSUME NEW k \in T PROVE k + 1 \in T
  <2>1. ASSUME k + 1 <= y
        PROVE  YearOf[<<y - (k + 1), DaysUntil(y) - DaysUntil(y - (k + 1)) + n>>] =
                 <<y, n>>
    <3>1. PICK z \in Nat : z = y - (k + 1) /\ z + 1 = y - k /\ z + 1 <= y
      BY <2>1
    <3>2. /\ DaysUntil(z + 1) = DaysUntil(z) + YearDays(z)
          /\ DaysUntil(z) \in Int /\ YearDays(z) \in Nat /\ DaysUntil(y) \in Int
          /\ DaysUntil(z + 1) <= DaysUntil(y)
      BY <3>1, YearLength, YearsGrow
    <3> DEFINE d == DaysUntil(y) - DaysUntil(z) + n
    <3>3. /\ d \in Nat /\ d >= YearDays(z)
          /\ d - YearDays(z) = DaysUntil(y) - DaysUntil(z + 1) + n
      BY <3>2
    <3>4. YearOf[<<z, d>>] = YearOf[<<z + 1, d - YearDays(z)>>]
      BY <3>3, YearLoop
    <3>5. k <= y
      BY <2>1
    <3>6. YearOf[<<y - k, DaysUntil(y) - DaysUntil(y - k) + n>>] = <<y, n>>
      BY <3>5
    <3>7. YearOf[<<z + 1, DaysUntil(y) - DaysUntil(z + 1) + n>>] = <<y, n>>
      BY <3>1, <3>6
    <3>8. YearOf[<<z, DaysUntil(y) - DaysUntil(z) + n>>] = <<y, n>>
      BY <3>3, <3>4, <3>7
    <3> QED
      BY <3>1, <3>8
  <2> QED
    BY <2>1
<1> HIDE DEF T
<1>3. T = Nat
  <2>1. T \in SUBSET Nat
    BY DEF T
  <2> QED
    BY <1>1, <1>2, <2>1, Induction
<1>4. PICK k \in T : k <= y /\ y - k = 1970
  <2>1. y - 1970 \in T /\ y - 1970 <= y /\ y - (y - 1970) = 1970
    BY <1>3
  <2> QED
    BY <2>1
<1>5. YearOf[<<1970, DaysUntil(y) - DaysUntil(1970) + n>>] = <<y, n>>
  <2>1. YearOf[<<y - k, DaysUntil(y) - DaysUntil(y - k) + n>>] = <<y, n>>
    BY <1>4 DEF T
  <2> QED
    BY <1>4, <2>1
<1>6. DaysUntil(y) - DaysUntil(1970) + n \in Nat
  <2>1. DaysUntil(y) \in Int /\ DaysUntil(1970) \in Int
        /\ DaysUntil(1970) <= DaysUntil(y)
    BY YearLength, YearsGrow
  <2> QED
    BY <2>1
<1> QED
  BY <1>5, <1>6

LEMMA MonthsGrow ==
  ASSUME NEW y \in Nat, NEW a \in 1 .. 13, NEW b \in 1 .. 13, a <= b
  PROVE  DaysInto(y, a) <= DaysInto(y, b)
<1>1. \/ a = 1 \/ a = 2 \/ a = 3 \/ a = 4 \/ a = 5 \/ a = 6
      \/ a = 7 \/ a = 8 \/ a = 9 \/ a = 10 \/ a = 11 \/ a = 12 \/ a = 13
  OBVIOUS
<1>2. \/ b = 1 \/ b = 2 \/ b = 3 \/ b = 4 \/ b = 5 \/ b = 6
      \/ b = 7 \/ b = 8 \/ b = 9 \/ b = 10 \/ b = 11 \/ b = 12 \/ b = 13
  OBVIOUS
<1> QED
  BY <1>1, <1>2 DEF DaysInto

\* The same for the months of a year.
LEMMA MonthFound ==
  ASSUME NEW y \in Nat, NEW month \in 1 .. 12,
         NEW n \in Nat, n < MonthDays(y, month)
  PROVE  MonthOf(y, DaysInto(y, month) + n) = <<month, n>>
<1> DEFINE Body(g) == [p \in (1 .. 13) \X Nat |->
             IF p[1] <= 12 /\ p[2] >= MonthDays(y, p[1])
             THEN g[<<p[1] + 1, p[2] - MonthDays(y, p[1])>>] ELSE p]
           Ends(s) == s[1] = 13 \/ s[2] < MonthDays(y, s[1])
           Same(p) == {s \in (1 .. 13) \X Nat :
             /\ s[1] >= p[1] /\ Ends(s)
             /\ DaysInto(y, s[1]) + s[2] = DaysInto(y, p[1]) + p[2]}
           One(S) == CHOOSE s \in S : TRUE
           Found == [p \in (1 .. 13) \X Nat |-> One(Same(p))]
           f == CHOOSE g : g = Body(g)
<1>1. ASSUME NEW a \in 1 .. 13, NEW d \in Nat
      PROVE  One(Same(<<a, d>>)) =
               IF a <= 12 /\ d >= MonthDays(y, a)
               THEN Found[<<a + 1, d - MonthDays(y, a)>>] ELSE <<a, d>>
  <2>1. /\ DaysInto(y, a) \in Nat
        /\ a <= 12 => /\ MonthDays(y, a) \in Nat
                      /\ DaysInto(y, a + 1) = DaysInto(y, a) + MonthDays(y, a)
    <3>1. CASE a = 13
      BY <3>1, MonthStart
    <3>2. CASE a \in 1 .. 12
      BY <3>2, MonthLength
    <3> QED
      BY <3>1, <3>2
  <2>2. ASSUME NEW b \in 1 .. 13, NEW e \in Nat
        PROVE  /\ <<b, e>> \in Same(<<a, d>>) <=>
                   /\ b >= a /\ (b = 13 \/ e < MonthDays(y, b))
                   /\ DaysInto(y, b) + e = DaysInto(y, a) + d
               /\ DaysInto(y, b) \in Int
               /\ b > a => DaysInto(y, b) >= DaysInto(y, a) + MonthDays(y, a)
    <3>1. b > a => a <= 12 /\ a + 1 <= b /\ a + 1 \in 1 .. 13
      OBVIOUS
    <3>2. DaysInto(y, b) \in Nat
      BY MonthStart
    <3>3. b > a => DaysInto(y, a + 1) <= DaysInto(y, b)
      BY <3>1, MonthsGrow
    <3>4. b > a => DaysInto(y, b) >= DaysInto(y, a) + MonthDays(y, a)
      BY <3>1, <3>3, <2>1
    <3>5. <<b, e>> \in Same(<<a, d>>) <=>
                   /\ b >= a /\ (b = 13 \/ e < MonthDays(y, b))
                   /\ DaysInto(y, b) + e = DaysInto(y, a) + d
      OBVIOUS
    <3> HIDE DEF Same
    <3> QED
      BY <3>2, <3>4, <3>5
  <2>3. CASE a <= 12 /\ d >= MonthDays(y, a)
    <3>1. PICK c \in 1 .. 13, x \in Nat : c = a + 1 /\ x = d - MonthDays(y, a)
      <4>1. a + 1 \in 1 .. 13 /\ d - MonthDays(y, a) \in Nat
        BY <2>1, <2>3
      <4> QED
        BY <4>1
    <3>2. Same(<<a, d>>) = Same(<<c, x>>)
      <4>1. ASSUME NEW b \in 1 .. 13, NEW e \in Nat
            PROVE  <<b, e>> \in Same(<<c, x>>) <=>
                     /\ b >= c /\ (b = 13 \/ e < MonthDays(y, b))
                     /\ DaysInto(y, b) + e = DaysInto(y, c) + x
        OBVIOUS
      <4>2. DaysInto(y, c) + x = DaysInto(y, a) + d
        BY <2>1, <2>3, <3>1
      <4>3. ASSUME NEW b \in 1 .. 13, NEW e \in Nat
            PROVE  <<b, e>> \in Same(<<a, d>>) <=> <<b, e>> \in Same(<<c, x>>)
        <5>1. CASE b = a
          <6>1. ~(b = 13 \/ e < MonthDays(y, b))
                \/ DaysInto(y, b) + e # DaysInto(y, a) + d
            BY <2>1, <2>3, <5>1
          <6>2. ~(b >= c)
            BY <3>1, <5>1
          <6> HIDE DEF Same
          <6> QED
            BY <2>2, <4>1, <6>1, <6>2
        <5>2. CASE b # a
          <6>1. b >= a <=> b >= c
            BY <3>1, <5>2
          <6> HIDE DEF Same
          <6> QED
            BY <2>2, <4>1, <4>2, <6>1
        <5> QED
          BY <5>1, <5>2
      <4>4. /\ Same(<<a, d>>) \subseteq (1 .. 13) \X Nat
            /\ Same(<<c, x>>) \subseteq (1 .. 13) \X Nat
        OBVIOUS
      <4> HIDE DEF Same
      <4> QED
        BY <4>3, <4>4
    <3>3. Found[<<c, x>>] = One(Same(<<c, x>>))
      <4> HIDE DEF One, Same
      <4> QED
        OBVIOUS
    <3> HIDE DEF One, Same, Found
    <3> QED
      BY <2>3, <3>1, <3>2, <3>3
  <2>4. CASE ~(a <= 12 /\ d >= MonthDays(y, a))
    <3>1. ASSUME NEW b \in 1 .. 13, NEW e \in Nat, <<b, e>> \in Same(<<a, d>>)
          PROVE  b = a /\ e = d
      <4>1. b > a => a <= 12
        OBVIOUS
      <4>2. ~(b > a)
        BY <2>1, <2>2, <2>4, <3>1, <4>1
      <4>3. b = a
        BY <2>2, <3>1, <4>2
      <4> QED
        BY <2>1, <2>2, <3>1, <4>3
    <3>2. <<a, d>> \in Same(<<a, d>>)
      <4>1. a = 13 \/ d < MonthDays(y, a)
        BY <2>1, <2>4
      <4> QED
        BY <2>2, <4>1
    <3>3. Same(<<a, d>>) \subseteq (1 .. 13) \X Nat
      OBVIOUS
    <3>4. Same(<<a, d>>) = {<<a, d>>}
      <4> HIDE DEF Same
      <4> QED
        BY <3>1, <3>2, <3>3
    <3> HIDE DEF Same
    <3>5. One({<<a, d>>}) = <<a, d>>
      OBVIOUS
    <3> HIDE DEF One, Found
    <3> QED
      BY <2>4, <3>4, <3>5
  <2> HIDE DEF Same, One, Found
  <2> QED
    BY <2>3, <2>4
<1>2. Found = Body(Found)
  <2> HIDE DEF One, Same
  <2>1. \A p \in (1 .. 13) \X Nat : One(Same(p)) =
          IF p[1] <= 12 /\ p[2] >= MonthDays(y, p[1])
          THEN Found[<<p[1] + 1, p[2] - MonthDays(y, p[1])>>] ELSE p
    <3> HIDE DEF Found
    <3> TAKE p \in (1 .. 13) \X Nat
    <3>1. PICK a \in 1 .. 13, d \in Nat : p = <<a, d>>
      OBVIOUS
    <3>2. p[1] = a /\ p[2] = d
      BY <3>1
    <3> QED
      BY <1>1, <3>1, <3>2
  <2>2. Body(Found) = [p \in (1 .. 13) \X Nat |-> One(Same(p))]
    <3> HIDE DEF Found
    <3> QED
      BY <2>1
  <2> QED
    BY <2>2
<1>3. \A d \in Nat : MonthOf(y, d) = f[<<1, d>>]
  BY DEF MonthOf
<1> HIDE DEF Found
<1>4. f = Body(f)
  <2> HIDE DEF Body
  <2> QED
    BY <1>2
<1> HIDE DEF f
<1>5. ASSUME NEW a \in 1 .. 13, NEW d \in Nat
      PROVE  f[<<a, d>>] = IF a <= 12 /\ d >= MonthDays(y, a)
                           THEN f[<<a + 1, d - MonthDays(y, a)>>] ELSE <<a, d>>
  <2>1. <<a, d>> \in (1 .. 13) \X Nat
    OBVIOUS
  <2> QED
    BY <1>4, <2>1
<1> HIDE DEF Body, Same, One, Ends
<1> DEFINE T == {k \in Nat : k < month =>
                   f[<<month - k, DaysInto(y, month) - DaysInto(y, month - k) + n>>] =
                     <<month, n>>}
<1>6. 0 \in T
  <2>1. month - 0 = month /\ DaysInto(y, month) - DaysInto(y, month) + n = n
    <3>1. DaysInto(y, month) \in Nat
      BY MonthLength
    <3> QED
      BY <3>1
  <2>2. ~(n >= MonthDays(y, month)) /\ month \in 1 .. 13
    <3>1. MonthDays(y, month) \in Nat
      BY MonthLength
    <3> QED
      BY <3>1
  <2>3. f[<<month, n>>] = <<month, n>>
    BY <1>5, <2>2
  <2> QED
    BY <2>1, <2>3
<1>7. ASSUME NEW k \in T PROVE k + 1 \in T
  <2>1. ASSUME k + 1 < month
        PROVE  f[<<month - (k + 1),
                   DaysInto(y, month) - DaysInto(y, month - (k + 1)) + n>>] =
                     <<month, n>>
    <3>1. PICK z \in 1 .. 12 : z = month - (k + 1) /\ z + 1 = month - k
               /\ z + 1 <= month
      BY <2>1
    <3>2. /\ DaysInto(y, z + 1) = DaysInto(y, z) + MonthDays(y, z)
          /\ DaysInto(y, z) \in Nat /\ MonthDays(y, z) \in Nat
             /\ DaysInto(y, month) \in Nat
          /\ DaysInto(y, z + 1) <= DaysInto(y, month)
      <4>1. z + 1 \in 1 .. 13 /\ month \in 1 .. 13
        OBVIOUS
      <4>2. DaysInto(y, z + 1) <= DaysInto(y, month)
        BY <3>1, <4>1, MonthsGrow
      <4> QED
        BY <4>2, MonthLength
    <3> DEFINE d == DaysInto(y, month) - DaysInto(y, z) + n
    <3>3. /\ d \in Nat /\ d >= MonthDays(y, z)
          /\ d - MonthDays(y, z) = DaysInto(y, month) - DaysInto(y, z + 1) + n
      BY <3>2
    <3>4. f[<<z, d>>] = f[<<z + 1, d - MonthDays(y, z)>>]
      <4>1. z \in 1 .. 13 /\ z <= 12
        OBVIOUS
      <4> QED
        BY <1>5, <3>3, <4>1
    <3>5. k < month
      BY <2>1
    <3>6. f[<<month - k, DaysInto(y, month) - DaysInto(y, month - k) + n>>] =
            <<month, n>>
      BY <3>5
    <3>7. f[<<z + 1, DaysInto(y, month) - DaysInto(y, z + 1) + n>>] = <<month, n>>
      BY <3>1, <3>6
    <3>8. f[<<z, DaysInto(y, month) - DaysInto(y, z) + n>>] = <<month, n>>
      BY <3>3, <3>4, <3>7
    <3> QED
      BY <3>1, <3>8
  <2> QED
    BY <2>1
<1> HIDE DEF T
<1>8. T = Nat
  <2>1. T \in SUBSET Nat
    BY DEF T
  <2> QED
    BY <1>6, <1>7, <2>1, Induction
<1>9. PICK k \in T : k < month /\ month - k = 1
  <2>1. month - 1 \in T /\ month - 1 < month /\ month - (month - 1) = 1
    BY <1>8
  <2> QED
    BY <2>1
<1>10. f[<<1, DaysInto(y, month) - DaysInto(y, 1) + n>>] = <<month, n>>
  <2>1. f[<<month - k, DaysInto(y, month) - DaysInto(y, month - k) + n>>] =
          <<month, n>>
    BY <1>9 DEF T
  <2> QED
    BY <1>9, <2>1
<1>11. DaysInto(y, month) - DaysInto(y, 1) + n = DaysInto(y, month) + n
       /\ DaysInto(y, month) + n \in Nat
  <2>1. DaysInto(y, 1) = 0 /\ DaysInto(y, month) \in Nat
    BY MonthLength, YearEnds
  <2> QED
    BY <2>1
<1> QED
  BY <1>3, <1>10, <1>11

LEMMA Divided ==
  ASSUME NEW d \in Nat \ {0}, NEW a \in Nat, NEW t \in 0 .. d - 1
  PROVE  a * d + t \in Nat /\ (a * d + t) \div d = a /\ (a * d + t) % d = t
<1>1. PICK u \in Nat : u = a * d + t
  <2>1. a * d \in Nat
    OBVIOUS
  <2> QED
    BY <2>1
<1>2. PICK q \in Nat, r \in 0 .. d - 1 : q = u \div d /\ r = u % d /\ u = q * d + r
  <2>1. u \div d \in Nat /\ u % d \in 0 .. d - 1 /\ u = (u \div d) * d + (u % d)
    OBVIOUS
  <2> QED
    BY <2>1
<1>3. ASSUME NEW b \in Nat, NEW c \in Nat, b < c
      PROVE  b * d + d <= c * d /\ b * d \in Nat /\ c * d \in Nat
  <2>1. b + 1 <= c
    BY <1>3
  <2>2. (b + 1) * d <= c * d /\ (b + 1) * d = b * d + d
    BY <2>1
  <2>3. b * d \in Nat /\ c * d \in Nat
    OBVIOUS
  <2> QED
    BY <2>2, <2>3
<1>4. ~(q < a)
  BY <1>1, <1>2, <1>3
<1>5. ~(a < q)
  BY <1>1, <1>2, <1>3
<1>6. q = a
  BY <1>4, <1>5
<1>7. r = t
  <2>1. a * d \in Nat
    OBVIOUS
  <2> QED
    BY <1>1, <1>2, <1>6, <2>1
<1> QED
  BY <1>1, <1>2, <1>6, <1>7

\* A day of a month is one of its year's.
LEMMA DayOfYear ==
  ASSUME NEW y \in Nat, NEW m \in 1 .. 12, NEW day \in Nat,
         day >= 1, day <= MonthDays(y, m)
  PROVE  /\ day - 1 \in Nat /\ day - 1 < MonthDays(y, m)
         /\ DaysInto(y, m) \in Nat /\ DaysInto(y, m) + (day - 1) \in Nat
         /\ DaysInto(y, m) + (day - 1) < YearDays(y)
<1>1. /\ MonthDays(y, m) \in Nat
      /\ DaysInto(y, m) \in Nat
      /\ DaysInto(y, m + 1) = DaysInto(y, m) + MonthDays(y, m)
  BY MonthLength
<1>2. DaysInto(y, m + 1) <= YearDays(y) /\ YearDays(y) \in Nat
  <2>1. m + 1 \in 1 .. 13 /\ 13 \in 1 .. 13 /\ m + 1 <= 13
    OBVIOUS
  <2>2. YearDays(y) \in Nat
    BY YearLength
  <2> QED
    BY <2>1, <2>2, MonthsGrow, YearEnds
<1> QED
  BY <1>1, <1>2

\* The days from 1970 on to a date.
LEMMA EpochDay ==
  ASSUME NEW y \in Nat, y >= 1970, NEW m \in 1 .. 12, NEW day \in Nat,
         day >= 1, day <= MonthDays(y, m)
  PROVE  /\ DaysBeforeYear[y] + DaysBeforeMonth(y, m) + day - 1 \in Nat
         /\ DaysBeforeYear[y] + DaysBeforeMonth(y, m) + day - 1 =
              DaysUntil(y) - DaysUntil(1970) + (DaysInto(y, m) + (day - 1))
<1>1. DaysBeforeYear[y] = DaysUntil(y) - DaysUntil(1970)
  BY YearsBefore
<1>2. DaysBeforeMonth(y, m) = DaysInto(y, m)
  BY MonthsBefore
<1>3. DaysInto(y, m) \in Nat /\ day - 1 \in Nat /\ DaysInto(y, m) + (day - 1) \in Nat
  BY DayOfYear
<1>4. DaysUntil(y) \in Int /\ DaysUntil(1970) \in Int
  BY YearLength
<1>5. DaysUntil(1970) <= DaysUntil(y)
  BY YearsGrow
<1>6. day - 1 \in Nat
  OBVIOUS
<1> QED
  BY <1>1, <1>2, <1>3, <1>4, <1>5, <1>6

\* unix_to_datetime finds the date again that days_since_unix_epoch counted.
THEOREM RoundTrip ==
  ASSUME NEW d, IsDate(d)
  PROVE  ToDateTime(ToUnix(d)) = d
<1> DEFINE y == d.year
           m == d.month
           day == d.day
           n == DaysSinceEpoch(d)
<1>1. /\ y \in Nat /\ y >= 1970 /\ m \in 1 .. 12 /\ day \in Nat /\ day >= 1
      /\ d.dow = (n + 4) % 7 /\ d.time \in 0 .. DayLength - 1
      /\ d = [year |-> y, month |-> m, day |-> day, dow |-> d.dow, time |-> d.time]
  BY DEF IsDate
<1>2. day <= MonthDays(y, m)
  <2>1. MonthDays(y, m) \in Nat
    BY <1>1, MonthLength
  <2>2. day \in 1 .. MonthDays(y, m)
    BY DEF IsDate
  <2> QED
    BY <2>1, <2>2
<1> DEFINE k == DaysInto(y, m) + (day - 1)
<1>3. /\ n \in Nat
      /\ n = DaysUntil(y) - DaysUntil(1970) + k
      /\ day - 1 \in Nat /\ day - 1 < MonthDays(y, m)
      /\ k \in Nat /\ k < YearDays(y)
  <2>1. /\ n \in Nat
        /\ n = DaysUntil(y) - DaysUntil(1970) + k
    BY <1>1, <1>2, EpochDay DEF DaysSinceEpoch
  <2>2. /\ day - 1 \in Nat /\ day - 1 < MonthDays(y, m)
        /\ k \in Nat /\ k < YearDays(y)
    BY <1>1, <1>2, DayOfYear
  <2> QED
    BY <2>1, <2>2
<1>4. (n * DayLength + d.time) \div DayLength = n
      /\ (n * DayLength + d.time) % DayLength = d.time
  BY <1>1, <1>3, DayAssumption, Divided
<1>5. YearOf[<<1970, n>>] = <<y, k>>
  <2> HIDE DEF y, k, n
  <2> QED
    BY <1>1, <1>3, YearFound
<1>6. MonthOf(y, k) = <<m, day - 1>>
  <2> HIDE DEF y, m, day
  <2> QED
    BY <1>1, <1>3, MonthFound
<1>7. (day - 1) + 1 = day
  BY <1>1
<1> HIDE DEF k, n
<1>8. ToDateTime(n * DayLength + d.time) =
        [year |-> y, month |-> m, day |-> (day - 1) + 1, dow |-> (n + 4) % 7,
          time |-> d.time]
  <2> HIDE DEF y, m, day
  <2> QED
    BY <1>4, <1>5, <1>6 DEF ToDateTime
<1> QED
  BY <1>1, <1>7, <1>8 DEF ToUnix, n

LEMMA MonthTable ==
  ASSUME NEW y \in Nat, NEW m \in 1 .. 12
  PROVE  /\ MonthDays(y, m) \in Nat
         /\ MonthDays(y, m) = (IF m = 2 /\ Gregorian(y) THEN 29 ELSE MDays[m])
<1>1. MonthDays(y, m) \in Nat
  BY MonthLength
<1>2. MonthDays(y, m) = (IF m = 2 /\ Gregorian(y) THEN 29 ELSE MDays[m])
  BY YearLength DEF MonthDays
<1> QED
  BY <1>1, <1>2

\* A place in the calendar, as days from the year 0 on, and the next one.
DayNumber(y, m, day) == DaysUntil(y) + (DaysInto(y, m) + (day - 1))

LEMMA NextDayNumber ==
  ASSUME NEW y \in Nat, NEW m \in 1 .. 12, NEW day \in Nat,
         NEW ends \in Nat, ends = MonthDays(y, m), 1 <= day, day <= ends
  PROVE  /\ DayNumber(y, m, day) \in Int
         /\ ends >= 1
         /\ DayNumber(y, m, day + 1) = DayNumber(y, m, day) + 1
         /\ day = ends /\ m < 12 => DayNumber(y, m + 1, 1) = DayNumber(y, m, day) + 1
         /\ day = ends /\ m = 12 => DayNumber(y + 1, 1, 1) = DayNumber(y, m, day) + 1
<1>1. PICK a \in Int : a = DaysUntil(y)
  BY YearLength
<1>2. PICK b \in Nat : b = DaysInto(y, m)
  BY MonthLength
<1>3. DaysInto(y, m + 1) = b + ends
  BY <1>2, MonthLength
<1>4. DaysUntil(y + 1) = a + YearDays(y) /\ DaysInto(y + 1, 1) = 0
      /\ DaysInto(y, 13) = YearDays(y)
  BY <1>1, YearLength, YearEnds
<1>5. /\ DayNumber(y, m, day) \in Int
      /\ ends >= 1
      /\ DayNumber(y, m, day + 1) = DayNumber(y, m, day) + 1
  <2>1. ends >= 1
    BY MonthLength
  <2>2. DayNumber(y, m, day) = a + (b + (day - 1))
    BY <1>1, <1>2 DEF DayNumber
  <2>3. DayNumber(y, m, day + 1) = a + (b + ((day + 1) - 1))
    BY <1>1, <1>2 DEF DayNumber
  <2> QED
    BY <2>1, <2>2, <2>3
<1>6. day = ends /\ m < 12 => DayNumber(y, m + 1, 1) = DayNumber(y, m, day) + 1
  BY <1>1, <1>2, <1>3 DEF DayNumber
<1>7. ASSUME day = ends, m = 12
      PROVE  DayNumber(y + 1, 1, 1) = DayNumber(y, m, day) + 1
  <2>1. m + 1 = 13
    BY <1>7
  <2>2. YearDays(y) = b + ends
    BY <1>3, <1>4, <2>1
  <2> QED
    BY <1>1, <1>2, <1>4, <1>7, <2>2 DEF DayNumber
<1> QED
  BY <1>5, <1>6, <1>7

\* The calendar of the world goes from date to date.
LEMMA NextIsDate ==
  ASSUME NEW d, IsDate(d)
  PROVE  IsDate(TrueNext(d))
<1> DEFINE n == DaysSinceEpoch(d)
<1>1. PICK y \in Nat, m \in 1 .. 12, day \in Nat, dow \in 0 .. 6,
             t \in 0 .. DayLength - 1 :
        d = [year |-> y, month |-> m, day |-> day, dow |-> dow, time |-> t]
  <2>1. d = [year |-> d.year, month |-> d.month, day |-> d.day, dow |-> d.dow,
          time |-> d.time]
    BY DEF IsDate
  <2>2. /\ d.year \in Nat /\ d.month \in 1 .. 12 /\ d.day \in Nat /\ d.dow \in 0 .. 6
        /\ d.time \in 0 .. DayLength - 1
    BY DEF IsDate
  <2> QED
    BY <2>1, <2>2
<1>2. /\ d.year = y /\ d.month = m /\ d.day = day /\ d.dow = dow /\ d.time = t
      /\ y >= 1970 /\ day \in 1 .. MonthDays(y, m) /\ dow = (n + 4) % 7
  BY <1>1 DEF IsDate
<1>3. PICK ends \in Nat : ends = MonthDays(y, m)
  BY MonthLength
<1>4. day >= 1 /\ day <= ends
  BY <1>2, <1>3
<1>5. n \in Nat /\ n = DayNumber(y, m, day) - DaysUntil(1970)
  <2>1. /\ n \in Nat
        /\ n = DaysUntil(y) - DaysUntil(1970) + (DaysInto(y, m) + (day - 1))
    BY <1>2, <1>3, <1>4, EpochDay DEF DaysSinceEpoch
  <2>2. DaysUntil(y) \in Int /\ DaysUntil(1970) \in Int
    BY YearLength
  <2>3. DaysInto(y, m) \in Nat
    BY MonthLength
  <2> QED
    BY <2>1, <2>2, <2>3 DEF DayNumber
<1>6. CASE t + 1 < DayLength
  <2>1. PICK s \in 0 .. DayLength - 1 : s = t + 1
    BY <1>6, DayAssumption
  <2> DEFINE e == [year |-> y, month |-> m, day |-> day, dow |-> dow, time |-> s]
  <2>2. TrueNext(d) = e
    BY <1>1, <1>6, <2>1 DEF TrueNext, Advance
  <2>3. DaysSinceEpoch(e) = n
    BY <1>1 DEF DaysSinceEpoch
  <2> HIDE DEF n
  <2> QED
    BY <1>2, <2>2, <2>3 DEF IsDate
<1>7. CASE ~(t + 1 < DayLength)
  <2>1. TrueNext(d) = Tomorrow(d, Gregorian(y))
    BY <1>2, <1>7 DEF TrueNext, Advance
  <2>2. PICK a \in Nat, b \in 1 .. 12, c \in Nat, w \in 0 .. 6 :
          /\ TrueNext(d) = [year |-> a, month |-> b, day |-> c, dow |-> w, time |-> 0]
          /\ w = (dow + 1) % 7
          /\ a >= 1970 /\ c >= 1 /\ c <= MonthDays(a, b)
          /\ DayNumber(a, b, c) = DayNumber(y, m, day) + 1
    <3> DEFINE Is(a, b, c, w) ==
          /\ TrueNext(d) = [year |-> a, month |-> b, day |-> c, dow |-> w, time |-> 0]
          /\ w = (dow + 1) % 7
          /\ a >= 1970 /\ c >= 1 /\ c <= MonthDays(a, b)
          /\ DayNumber(a, b, c) = DayNumber(y, m, day) + 1
    <3>0. PICK w \in 0 .. 6 : w = (dow + 1) % 7
      OBVIOUS
    <3>1. /\ day < ends => TrueNext(d) =
                [year |-> y, month |-> m, day |-> day + 1, dow |-> w, time |-> 0]
          /\ ~(day < ends) /\ m < 12 => TrueNext(d) =
                [year |-> y, month |-> m + 1, day |-> 1, dow |-> w, time |-> 0]
          /\ ~(day < ends) /\ ~(m < 12) => TrueNext(d) =
                [year |-> y + 1, month |-> 1, day |-> 1, dow |-> w, time |-> 0]
      <4> DEFINE leap == Gregorian(y)
      <4>0. ends = (IF m = 2 /\ leap THEN 29 ELSE MDays[m])
        BY <1>3, MonthTable
      <4>1. TrueNext(d) = Tomorrow(d, leap)
        BY <2>1
      <4> HIDE DEF Is, n, leap
      <4>2. ASSUME day < ends
            PROVE  Tomorrow(d, leap) = [year |-> y, month |-> m, day |-> day + 1,
                                        dow |-> (dow + 1) % 7, time |-> 0]
        BY <1>1, <4>0, <4>2 DEF Tomorrow
      <4>3. ASSUME ~(day < ends), m < 12
            PROVE  Tomorrow(d, leap) = [year |-> y, month |-> m + 1, day |-> 1,
                                        dow |-> (dow + 1) % 7, time |-> 0]
        BY <1>1, <4>0, <4>3 DEF Tomorrow
      <4>4. ASSUME ~(day < ends), ~(m < 12)
            PROVE  Tomorrow(d, leap) = [year |-> y + 1, month |-> 1, day |-> 1,
                                        dow |-> (dow + 1) % 7, time |-> 0]
        BY <1>1, <4>0, <4>4 DEF Tomorrow
      <4> QED
        BY <3>0, <4>1, <4>2, <4>3, <4>4
    <3>2. CASE day < ends
      <4>1. day + 1 \in Nat /\ day + 1 >= 1 /\ day + 1 <= MonthDays(y, m)
        BY <1>3, <3>2
      <4>0. DayNumber(y, m, day + 1) = DayNumber(y, m, day) + 1
        BY <1>3, <1>4, NextDayNumber
      <4>2. Is(y, m, day + 1, w)
        BY <1>2, <3>0, <3>1, <3>2, <4>0, <4>1
      <4> HIDE DEF Is
      <4>3. \E a \in Nat, b \in 1 .. 12, c \in Nat, v \in 0 .. 6 : Is(a, b, c, v)
        BY <4>1, <4>2
      <4> QED
        BY <4>3 DEF Is
    <3>3. CASE ~(day < ends) /\ m < 12
      <4>1. PICK k \in 1 .. 12 : k = m + 1
        BY <3>3
      <4>2. 1 <= MonthDays(y, k)
        <5>1. MonthDays(y, k) \in Nat /\ MonthDays(y, k) >= 1
          BY MonthLength
        <5> QED
          BY <5>1
      <4>3. day = ends
        BY <1>4, <3>3
      <4>4. Is(y, k, 1, w)
        BY <1>2, <1>3, <1>4, <3>0, <3>1, <3>3, <4>1, <4>2, <4>3, NextDayNumber
      <4> HIDE DEF Is
      <4>5. \E a \in Nat, b \in 1 .. 12, c \in Nat, v \in 0 .. 6 : Is(a, b, c, v)
        BY <4>4
      <4> QED
        BY <4>5 DEF Is
    <3>4. CASE ~(day < ends) /\ ~(m < 12)
      <4>1. PICK z \in Nat : z = y + 1
        OBVIOUS
      <4>2. 1 \in 1 .. 12 /\ 1 <= MonthDays(z, 1)
        <5>1. 1 \in 1 .. 12
          OBVIOUS
        <5>2. MonthDays(z, 1) \in Nat /\ MonthDays(z, 1) >= 1
          BY <5>1, MonthLength
        <5> QED
          BY <5>1, <5>2
      <4>3. day = ends /\ m = 12
        BY <1>4, <3>4
      <4>4. Is(z, 1, 1, w)
        BY <1>2, <1>3, <1>4, <3>0, <3>1, <3>4, <4>1, <4>2, <4>3, NextDayNumber
      <4> HIDE DEF Is
      <4>5. \E a \in Nat, b \in 1 .. 12, c \in Nat, v \in 0 .. 6 : Is(a, b, c, v)
        BY <4>2, <4>4
      <4> QED
        BY <4>5 DEF Is
    <3> QED
      BY <3>2, <3>3, <3>4
  <2> DEFINE e == [year |-> a, month |-> b, day |-> c, dow |-> w, time |-> 0]
  <2>3. /\ DaysSinceEpoch(e) \in Nat
        /\ DaysSinceEpoch(e) =
             DaysUntil(a) - DaysUntil(1970) + (DaysInto(a, b) + (c - 1))
    <3>1. e.year = a /\ e.month = b /\ e.day = c
      OBVIOUS
    <3> HIDE DEF e
    <3> QED
      BY <2>2, <3>1, EpochDay DEF DaysSinceEpoch
  <2>4. DaysSinceEpoch(e) = n + 1
    <3>1. DaysUntil(a) \in Int /\ DaysUntil(1970) \in Int
      BY YearLength
    <3>2. DaysInto(a, b) \in Nat
      BY MonthLength
    <3>3. DayNumber(y, m, day) \in Int
      BY <1>3, <1>4, NextDayNumber
    <3> HIDE DEF e, n
    <3> QED
      BY <1>5, <2>2, <2>3, <3>1, <3>2, <3>3 DEF DayNumber
  <2>5. w = (DaysSinceEpoch(e) + 4) % 7
    <3>1. (((n + 4) % 7) + 1) % 7 = (n + 1 + 4) % 7
      BY <1>5
    <3> QED
      BY <1>2, <2>2, <2>4, <3>1
  <2>6. c \in 1 .. MonthDays(a, b)
    <3>1. MonthDays(a, b) \in Nat
      BY MonthLength
    <3> QED
      BY <2>2, <3>1
  <2>7. 0 \in 0 .. DayLength - 1
    BY DayAssumption
  <2> QED
    BY <2>2, <2>5, <2>6, <2>7 DEF IsDate
<1> QED
  BY <1>6, <1>7

\* After, step by step.
LEMMA AfterSteps ==
  ASSUME NEW d
  PROVE  /\ After(d, 0) = d
         /\ \A n \in Nat : After(d, n + 1) = TrueNext(After(d, n))
<1> DEFINE Body(n, g) == [i \in 0 .. n |-> IF i = 0 THEN d ELSE TrueNext(g[i - 1])]
           f(n) == CHOOSE g : g = Body(n, g)
           T == {n \in Nat : \E g : g = Body(n, g)}
<1>1. 0 \in T
  <2> DEFINE g == [i \in 0 .. 0 |-> d]
  <2>1. g = Body(0, g)
    OBVIOUS
  <2> HIDE DEF g, Body
  <2> QED
    BY <2>1
<1>2. ASSUME NEW n \in T PROVE n + 1 \in T
  <2>1. PICK g : g = Body(n, g)
    OBVIOUS
  <2> DEFINE h == [i \in 0 .. n + 1 |-> IF i = n + 1 THEN TrueNext(g[n]) ELSE g[i]]
  <2>2. ASSUME NEW i \in 0 .. n + 1
        PROVE  h[i] = IF i = 0 THEN d ELSE TrueNext(h[i - 1])
    <3>1. CASE i = 0
      <4>1. 0 \in 0 .. n /\ 0 # n + 1
        OBVIOUS
      <4>2. g[0] = d
        BY <2>1, <4>1
      <4> QED
        BY <3>1, <4>1, <4>2
    <3>2. CASE i # 0 /\ i # n + 1
      <4>1. i \in 0 .. n /\ i - 1 \in 0 .. n + 1 /\ i - 1 # n + 1
        BY <3>2
      <4>2. g[i] = TrueNext(g[i - 1])
        BY <2>1, <3>2, <4>1
      <4> QED
        BY <3>2, <4>1, <4>2
    <3>3. CASE i = n + 1
      <4>1. i # 0 /\ i - 1 = n /\ n \in 0 .. n + 1 /\ n # n + 1
        BY <3>3
      <4> QED
        BY <3>3, <4>1
    <3> QED
      BY <3>1, <3>2, <3>3
  <2>3. h = [i \in 0 .. n + 1 |-> h[i]]
    OBVIOUS
  <2> HIDE DEF h
  <2>4. h = Body(n + 1, h)
    BY <2>2, <2>3
  <2> HIDE DEF Body
  <2> QED
    BY <2>4
<1>3. T = Nat
  <2> HIDE DEF T
  <2>1. T \in SUBSET Nat
    BY DEF T
  <2> QED
    BY <1>1, <1>2, <2>1, Induction
<1>4. ASSUME NEW n \in Nat PROVE f(n) = Body(n, f(n))
  <2>1. \E g : g = Body(n, g)
    BY <1>3
  <2> HIDE DEF Body, T
  <2> QED
    BY <2>1
<1>5. ASSUME NEW n \in Nat PROVE After(d, n) = f(n)[n]
  BY DEF After
<1> HIDE DEF f, T
<1>6. ASSUME NEW n \in Nat, NEW i \in 0 .. n
      PROVE  f(n)[i] = IF i = 0 THEN d ELSE TrueNext(f(n)[i - 1])
  BY <1>4
<1> HIDE DEF Body
<1>7. ASSUME NEW n \in Nat PROVE f(n + 1)[n] = f(n)[n]
  <2> DEFINE S == {i \in Nat : i <= n => f(n + 1)[i] = f(n)[i]}
  <2>1. 0 \in S
    <3>1. f(n + 1)[0] = d
      <4>1. n + 1 \in Nat /\ 0 \in 0 .. n + 1
        OBVIOUS
      <4> QED
        BY <1>6, <4>1
    <3>2. f(n)[0] = d
      <4>1. 0 \in 0 .. n
        OBVIOUS
      <4> QED
        BY <1>6, <4>1
    <3> QED
      BY <3>1, <3>2
  <2>2. ASSUME NEW i \in S PROVE i + 1 \in S
    <3>1. ASSUME i + 1 <= n PROVE f(n + 1)[i + 1] = f(n)[i + 1]
      <4>1. PICK k \in Nat : k = i + 1 /\ k <= n /\ k # 0 /\ k - 1 = i
        BY <3>1
      <4>2. n + 1 \in Nat /\ k \in 0 .. n + 1 /\ k \in 0 .. n
        BY <4>1
      <4>3. f(n + 1)[k] = TrueNext(f(n + 1)[i])
        BY <1>6, <4>1, <4>2
      <4>4. f(n)[k] = TrueNext(f(n)[i])
        BY <1>6, <4>1, <4>2
      <4>5. f(n + 1)[i] = f(n)[i]
        BY <3>1
      <4> QED
        BY <4>1, <4>3, <4>4, <4>5
    <3> QED
      BY <3>1
  <2> HIDE DEF S
  <2>3. S = Nat
    <3>1. S \in SUBSET Nat
      BY DEF S
    <3> QED
      BY <2>1, <2>2, <3>1, Induction
  <2>4. n \in S /\ n <= n
    BY <2>3
  <2> QED
    BY <2>4 DEF S
<1>8. After(d, 0) = d
  <2>1. 0 \in Nat /\ 0 \in 0 .. 0
    OBVIOUS
  <2>2. f(0)[0] = d
    BY <1>6, <2>1
  <2> QED
    BY <1>5, <2>1, <2>2
<1>9. ASSUME NEW n \in Nat PROVE After(d, n + 1) = TrueNext(After(d, n))
  <2>1. PICK m \in Nat : m = n + 1 /\ m # 0 /\ m - 1 = n /\ m \in 0 .. m
    OBVIOUS
  <2>2. f(m)[m] = TrueNext(f(m)[n])
    BY <1>6, <2>1
  <2>3. f(m)[n] = f(n)[n]
    BY <1>7, <2>1
  <2> QED
    BY <1>5, <2>1, <2>2, <2>3
<1> QED
  BY <1>8, <1>9

LEMMA AfterNext ==
  ASSUME NEW d, NEW n \in Nat
  PROVE  After(TrueNext(d), n) = TrueNext(After(d, n))
<1> DEFINE e == TrueNext(d)
           T == {k \in Nat : After(e, k) = TrueNext(After(d, k))}
<1> HIDE DEF e
<1>1. 0 \in T
  BY AfterSteps DEF e
<1>2. ASSUME NEW k \in T PROVE k + 1 \in T
  <2>1. k \in Nat /\ k + 1 \in Nat /\ After(e, k) = TrueNext(After(d, k))
    OBVIOUS
  <2>2. After(e, k + 1) = TrueNext(After(e, k))
    BY <2>1, AfterSteps
  <2>3. After(d, k + 1) = TrueNext(After(d, k))
    BY <2>1, AfterSteps
  <2> QED
    BY <2>1, <2>2, <2>3
<1> HIDE DEF T
<1>3. T = Nat
  <2>1. T \in SUBSET Nat
    BY DEF T
  <2> QED
    BY <1>1, <1>2, <2>1, Induction
<1> QED
  BY <1>3 DEF T, e

\* The RTC's calendar is the world's, but for a 29 February that it invents.
LEMMA RtcNextIs ==
  ASSUME NEW d, IsDate(d),
         ~(LeapDay(RtcNext(d)) /\ ~Gregorian(RtcNext(d).year))
  PROVE  RtcNext(d) = TrueNext(d)
<1>1. PICK y \in Nat, m \in 1 .. 12, day \in Nat, dow \in 0 .. 6,
             t \in 0 .. DayLength - 1 :
        d = [year |-> y, month |-> m, day |-> day, dow |-> dow, time |-> t]
  <2>1. d = [year |-> d.year, month |-> d.month, day |-> d.day, dow |-> d.dow,
          time |-> d.time]
    BY DEF IsDate
  <2>2. /\ d.year \in Nat /\ d.month \in 1 .. 12 /\ d.day \in Nat /\ d.dow \in 0 .. 6
        /\ d.time \in 0 .. DayLength - 1
    BY DEF IsDate
  <2> QED
    BY <2>1, <2>2
<1>2. d.year = y /\ d.month = m /\ d.day = day /\ d.dow = dow /\ d.time = t
  BY <1>1
<1>3. CASE t + 1 < DayLength
  BY <1>2, <1>3 DEF TrueNext, RtcNext, Advance
<1>4. CASE Gregorian(y) <=> y % 4 = 0
  <2>1. Gregorian(y) = (y % 4 = 0)
    BY <1>4 DEF Gregorian
  <2> QED
    BY <1>2, <2>1 DEF TrueNext, RtcNext
<1>5. CASE ~(t + 1 < DayLength) /\ ~(Gregorian(y) <=> y % 4 = 0)
  <2>1. ~Gregorian(y) /\ y % 4 = 0
    <3>1. Gregorian(y) => y % 4 = 0
      BY DEF Gregorian
    <3> QED
      BY <1>5, <3>1
  <2>2. RtcNext(d) = Tomorrow(d, TRUE) /\ TrueNext(d) = Tomorrow(d, FALSE)
    <3>1. (y % 4 = 0) = TRUE /\ Gregorian(y) = FALSE
      BY <2>1 DEF Gregorian
    <3>2. RtcNext(d) = Tomorrow(d, y % 4 = 0)
          /\ TrueNext(d) = Tomorrow(d, Gregorian(y))
      BY <1>2, <1>5 DEF RtcNext, TrueNext, Advance
    <3> QED
      BY <3>1, <3>2
  <2>3. CASE m # 2
    BY <1>2, <2>2, <2>3 DEF Tomorrow
  <2>4. CASE m = 2 /\ day < 28
    <3> DEFINE next == [d EXCEPT !.dow = (@ + 1) % 7, !.time = 0]
               e == [next EXCEPT !.day = @ + 1]
    <3>1. MDays[2] = 28 /\ day < 28 /\ day < 29 /\ d.month = 2
      BY <1>2, <2>4 DEF MDays
    <3>2. Tomorrow(d, TRUE) = e
      BY <1>2, <3>1 DEF Tomorrow
    <3>3. Tomorrow(d, FALSE) = e
      BY <1>2, <3>1 DEF Tomorrow
    <3> HIDE DEF next, e
    <3> QED
      BY <2>2, <3>2, <3>3
  <2>5. CASE m = 2 /\ ~(day < 28)
    <3>1. day = 28
      <4>1. day <= MonthDays(y, m)
        <5>1. day \in 1 .. MonthDays(y, m)
          BY <1>2 DEF IsDate
        <5>2. MonthDays(y, m) \in Nat
          BY MonthLength
        <5> QED
          BY <5>1, <5>2
      <4>2. MonthDays(y, m) = 28
        <5>1. MonthDays(y, m) = (IF m = 2 /\ Gregorian(y) THEN 29 ELSE MDays[m])
          BY MonthTable
        <5> QED
          BY <2>1, <2>5, <5>1 DEF MDays
      <4> QED
        BY <2>5, <4>1, <4>2
    <3>2. /\ RtcNext(d).year = y /\ RtcNext(d).month = 2 /\ RtcNext(d).day = 29
      <4> DEFINE leap == TRUE
      <4>1. PICK ends \in Nat :
              ends = (IF m = 2 /\ leap THEN 29 ELSE MDays[m]) /\ day < ends
        BY <2>5, <3>1
      <4>2. RtcNext(d) = Tomorrow(d, leap)
        BY <2>2
      <4> HIDE DEF leap
      <4>3. Tomorrow(d, leap) = [year |-> y, month |-> m, day |-> day + 1,
                                 dow |-> (dow + 1) % 7, time |-> 0]
        BY <1>1, <4>1 DEF Tomorrow
      <4>4. PICK w : w = (dow + 1) % 7
        OBVIOUS
      <4>5. RtcNext(d) = [year |-> y, month |-> 2, day |-> 29, dow |-> w, time |-> 0]
        BY <2>5, <3>1, <4>2, <4>3, <4>4
      <4> QED
        BY <4>5
    <3> QED
      BY <2>1, <3>2 DEF LeapDay
  <2> QED
    BY <2>3, <2>4, <2>5
<1> QED
  BY <1>3, <1>4, <1>5

-----------------------------------------------------------------------------
\* What the RTC shows.

\* From d the calendar comes to the moment t, within n ticks.
Behind(d, n, t) == \E k \in 0 .. n : After(d, k) = t

LEMMA BehindNow ==
  ASSUME NEW d, NEW n \in Nat
  PROVE  Behind(d, n, d)
<1>1. After(d, 0) = d /\ 0 \in 0 .. n
  BY AfterSteps
<1> QED
  BY <1>1 DEF Behind

LEMMA BehindMore ==
  ASSUME NEW d, NEW t, NEW n \in Nat, NEW m \in Nat, n <= m, Behind(d, n, t)
  PROVE  Behind(d, m, t)
<1>1. PICK k \in 0 .. n : After(d, k) = t
  BY DEF Behind
<1>2. k \in 0 .. m
  OBVIOUS
<1> QED
  BY <1>1, <1>2 DEF Behind

LEMMA BehindTick ==
  ASSUME NEW d, NEW t, NEW n \in Nat, Behind(d, n, t)
  PROVE  Behind(d, n + 1, TrueNext(t)) /\ Behind(TrueNext(d), n, TrueNext(t))
<1>1. PICK k \in 0 .. n : After(d, k) = t
  BY DEF Behind
<1>2. k \in Nat /\ k + 1 \in 0 .. n + 1
  OBVIOUS
<1>3. After(d, k + 1) = TrueNext(t)
  BY <1>1, <1>2, AfterSteps
<1>4. After(TrueNext(d), k) = TrueNext(t)
  BY <1>1, <1>2, AfterNext
<1> QED
  BY <1>2, <1>3, <1>4 DEF Behind

\* The date that a server has put into its answer.
Answered ==
    /\ http \in {"sleep", "connect", "write"} => answer = None
    /\ http = "read" /\ answer # None =>
          IsDate(answer) /\ Behind(answer, HttpTimeout - due.http, now)
    /\ http = "send" => answer # None /\ IsDate(answer)
       /\ Behind(answer, HttpTimeout, now)

\* The date that rtc_task is sent, and takes in its next round, no later than
\* httpdate_task's next request.
Sent ==
    epoch_channel # <<>> =>
        /\ due.rtc = 0 \/ (http = "sleep" /\ due.rtc <= due.http)
        /\ \E d : /\ IsDate(d) /\ epoch_channel = <<ToUnix(d)>>
                  /\ Behind(d, HttpTimeout + (Round - due.rtc), now)

Shown ==
    rtc # None /\ ~invented => IsDate(rtc) /\ Behind(rtc, HttpTimeout + Round, now)

DateInv == IsDate(now) /\ Answered /\ Sent /\ Shown

\* A step of httpdate_task up to the answer; time stands still.
LEMMA RequestDates ==
  ASSUME ClockTypes, DateInv, Request \/ HttpConnected \/ HttpWritten \/ HttpFails
  PROVE  DateInv'
<1>1. /\ UNCHANGED <<now, rtc, epoch_channel, invented>>
      /\ due'.rtc = due.rtc /\ answer' = None
      /\ http' \in {"connect", "write", "read", "sleep"}
  BY DEF ClockTypes, DateInv, Answered, Request, HttpConnected, HttpWritten,
         HttpFails, HttpGoTo, clockHistory, HttpOps
<1>2. epoch_channel # <<>> => due.rtc = 0
  <2>1. CASE Request
    <3>1. due.http = 0 /\ due.rtc \in Nat
      BY <2>1 DEF Request, ClockTypes
    <3> QED
      BY <3>1 DEF DateInv, Sent
  <2>2. CASE ~Request
    <3>1. http # "sleep"
      BY <2>2 DEF HttpConnected, HttpWritten, HttpFails, HttpOps
    <3> QED
      BY <3>1 DEF DateInv, Sent
  <2> QED
    BY <2>1, <2>2
<1>3. Answered'
  BY <1>1 DEF Answered
<1>4. Sent'
  BY <1>1, <1>2 DEF DateInv, Sent
<1>5. Shown' /\ IsDate(now)'
  BY <1>1 DEF DateInv, Shown
<1> QED
  BY <1>3, <1>4, <1>5 DEF DateInv

LEMMA AnswerDates ==
  ASSUME ClockTypes, DateInv, ServerAnswers
  PROVE  DateInv'
<1>1. /\ UNCHANGED <<now, rtc, http, epoch_channel, due, invented>>
      /\ http = "read" /\ answer' = now /\ IsDate(now)
  BY DEF ServerAnswers, clockHistory, DateInv
<1>2. HttpTimeout - due.http \in Nat
  <2>1. due.http \in Nat /\ due.http <= HttpTimeout /\ HttpTimeout \in Nat
    BY <1>1, ClockAssumption DEF ClockTypes
  <2> QED
    BY <2>1
<1>3. Answered'
  BY <1>1, <1>2, BehindNow DEF Answered
<1>4. Sent' /\ Shown' /\ IsDate(now)'
  BY <1>1 DEF DateInv, Sent, Shown
<1> QED
  BY <1>3, <1>4 DEF DateInv

LEMMA ReadDates ==
  ASSUME ClockTypes, DateInv, HttpRead
  PROVE  DateInv'
<1>1. /\ UNCHANGED <<now, rtc, answer, epoch_channel, invented>>
      /\ http = "read" /\ answer # None /\ http' = "send" /\ due'.rtc = due.rtc
  BY DEF ClockTypes, HttpRead, HttpGoTo, clockHistory
<1>2. PICK n \in Nat : n = HttpTimeout - due.http /\ n <= HttpTimeout
  <2>1. due.http \in Nat /\ due.http <= HttpTimeout /\ HttpTimeout \in Nat
    BY <1>1, ClockAssumption DEF ClockTypes
  <2>2. HttpTimeout - due.http \in Nat /\ HttpTimeout - due.http <= HttpTimeout
    BY <2>1
  <2> QED
    BY <2>2
<1>3. Behind(answer, n, now) /\ IsDate(answer)
  BY <1>1, <1>2 DEF DateInv, Answered
<1>4. Behind(answer, HttpTimeout, now)
  BY <1>2, <1>3, ClockAssumption, BehindMore
<1>5. Answered'
  BY <1>1, <1>3, <1>4 DEF Answered
<1>6. Sent'
  BY <1>1 DEF DateInv, Sent
<1>7. Shown' /\ IsDate(now)'
  BY <1>1 DEF DateInv, Shown
<1> QED
  BY <1>5, <1>6, <1>7 DEF DateInv

LEMMA SendDates ==
  ASSUME ClockTypes, DateInv, SendEpoch
  PROVE  DateInv'
<1>1. /\ UNCHANGED <<now, rtc, invented>> /\ http = "send"
      /\ http' = "sleep" /\ answer' = None /\ due'.rtc = due.rtc /\ due'.http = Sync
      /\ epoch_channel' = <<ToUnix(answer)>>
  BY DEF ClockTypes, SendEpoch, HttpGoTo, clockHistory
<1>2. Answered' /\ Shown' /\ IsDate(now)'
  BY <1>1 DEF DateInv, Answered, Shown
<1>3. PICK n \in Nat : n = HttpTimeout + (Round - due.rtc) /\ HttpTimeout <= n
           /\ due.rtc <= Sync
  <2>1. /\ due.rtc \in Nat /\ due.rtc <= Round /\ HttpTimeout \in Nat
        /\ Round \in Nat /\ Sync \in Nat /\ Round <= Sync
    BY ClockAssumption DEF ClockTypes
  <2>2. /\ HttpTimeout + (Round - due.rtc) \in Nat
        /\ HttpTimeout <= HttpTimeout + (Round - due.rtc) /\ due.rtc <= Sync
    BY <2>1
  <2> QED
    BY <2>2
<1>4. IsDate(answer) /\ Behind(answer, HttpTimeout, now)
  BY <1>1 DEF DateInv, Answered
<1>5. Behind(answer, n, now)
  BY <1>3, <1>4, ClockAssumption, BehindMore
<1>6. Sent'
  BY <1>1, <1>3, <1>4, <1>5 DEF Sent
<1> QED
  BY <1>2, <1>6 DEF DateInv

LEMMA RoundDates ==
  ASSUME ClockTypes, DateInv, RtcRound
  PROVE  DateInv'
<1>1. /\ UNCHANGED <<now, http, answer>> /\ due'.http = due.http /\ due.rtc = 0
      /\ epoch_channel' = <<>>
  BY DEF ClockTypes, RtcRound
<1>2. Answered' /\ Sent' /\ IsDate(now)'
  BY <1>1 DEF DateInv, Answered, Sent
<1>3. CASE epoch_channel = <<>>
  <2>1. UNCHANGED <<rtc, invented>>
    BY <1>3 DEF RtcRound
  <2> QED
    BY <1>1, <1>2, <2>1 DEF DateInv, Shown
<1>4. CASE epoch_channel # <<>>
  <2>1. PICK d : /\ IsDate(d) /\ epoch_channel = <<ToUnix(d)>>
                 /\ Behind(d, HttpTimeout + (Round - due.rtc), now)
    BY <1>4 DEF DateInv, Sent
  <2>2. HttpTimeout + (Round - due.rtc) = HttpTimeout + Round
    BY <1>1, ClockAssumption
  <2>3. rtc' = ToDateTime(Head(epoch_channel))
    BY <1>4 DEF RtcRound
  <2>4. rtc' = d
    BY <2>1, <2>3, RoundTrip
  <2>5. Shown'
    BY <1>1, <2>1, <2>2, <2>4 DEF Shown
  <2> QED
    BY <1>2, <2>5 DEF DateInv
<1> QED
  BY <1>3, <1>4

LEMMA TickDates ==
  ASSUME ClockTypes, DateInv, ClockTick
  PROVE  DateInv'
<1>1. /\ UNCHANGED <<http, answer, epoch_channel>> /\ now' = TrueNext(now)
      /\ rtc' = (IF rtc = None THEN None ELSE RtcNext(rtc))
      /\ invented' =
           (invented \/ (rtc # None /\ LeapDay(rtc') /\ ~Gregorian(rtc'.year)))
      /\ due.rtc # 0 /\ (http = "send" => epoch_channel # <<>>)
         /\ (http # "send" => due.http # 0)
  BY DEF ClockTick, HttpBusy, RtcBusy
<1>2. /\ due'.http = (IF http = "send" THEN 0 ELSE due.http - 1)
      /\ due'.rtc = due.rtc - 1
  BY DEF ClockTick
<1>3. http # "send" /\ (epoch_channel # <<>> => http = "sleep" /\ due.rtc <= due.http)
  BY <1>1 DEF DateInv, Sent
<1>4. PICK h \in Nat \ {0}, r \in Nat \ {0} :
        h = due.http /\ r = due.rtc /\ h - 1 = due'.http /\ r - 1 = due'.rtc
  <2>1. due.http \in Nat \ {0} /\ due.rtc \in Nat \ {0}
    BY <1>1, <1>3 DEF ClockTypes
  <2> QED
    BY <1>2, <1>3, <2>1
<1>5. IsDate(now)'
  BY <1>1, NextIsDate DEF DateInv
<1>6. Answered'
  <2>1. CASE http = "read" /\ answer # None
    <3>1. HttpTimeout - h \in Nat /\ (HttpTimeout - h) + 1 = HttpTimeout - (h - 1)
      BY <1>4, <2>1, ClockAssumption DEF ClockTypes
    <3>2. IsDate(answer) /\ Behind(answer, HttpTimeout - h, now)
      BY <1>4, <2>1 DEF DateInv, Answered
    <3>3. Behind(answer, (HttpTimeout - h) + 1, TrueNext(now))
      BY <3>1, <3>2, BehindTick
    <3> QED
      BY <1>1, <1>3, <1>4, <2>1, <3>1, <3>2, <3>3 DEF Answered
  <2>2. CASE ~(http = "read" /\ answer # None)
    BY <1>1, <1>3, <2>2 DEF DateInv, Answered
  <2> QED
    BY <2>1, <2>2
<1>7. Sent'
  <2> SUFFICES ASSUME epoch_channel # <<>> PROVE Sent'
    BY <1>1 DEF Sent
  <2>1. PICK d : /\ IsDate(d) /\ epoch_channel = <<ToUnix(d)>>
                 /\ Behind(d, HttpTimeout + (Round - r), now)
    BY <1>4 DEF DateInv, Sent
  <2>2. /\ HttpTimeout + (Round - r) \in Nat
        /\ (HttpTimeout + (Round - r)) + 1 = HttpTimeout + (Round - (r - 1))
    <3>1. r <= Round
      BY <1>4 DEF ClockTypes
    <3>2. HttpTimeout \in Nat /\ Round \in Nat
      BY ClockAssumption
    <3> QED
      BY <3>1, <3>2
  <2>3. Behind(d, (HttpTimeout + (Round - r)) + 1, TrueNext(now))
    BY <2>1, <2>2, BehindTick
  <2>4. http = "sleep" /\ r - 1 <= h - 1
    BY <1>3, <1>4
  <2>5. Behind(d, HttpTimeout + (Round - (r - 1)), TrueNext(now))
    BY <2>2, <2>3
  <2> QED
    BY <1>1, <1>4, <2>1, <2>4, <2>5 DEF Sent
<1>8. Shown'
  <2> SUFFICES ASSUME rtc' # None, ~invented'
               PROVE  IsDate(rtc') /\ Behind(rtc', HttpTimeout + Round, now')
    BY DEF Shown
  <2>1. rtc # None /\ ~invented /\ rtc' = RtcNext(rtc)
    BY <1>1
  <2>2. IsDate(rtc) /\ Behind(rtc, HttpTimeout + Round, now)
    BY <2>1 DEF DateInv, Shown
  <2>3. ~(LeapDay(RtcNext(rtc)) /\ ~Gregorian(RtcNext(rtc).year))
    BY <1>1, <2>1
  <2>4. rtc' = TrueNext(rtc)
    BY <2>1, <2>2, <2>3, RtcNextIs
  <2>5. HttpTimeout + Round \in Nat
    BY ClockAssumption
  <2> QED
    BY <1>1, <2>2, <2>4, <2>5, BehindTick, NextIsDate
<1> QED
  BY <1>5, <1>6, <1>7, <1>8 DEF DateInv

LEMMA DatesStep == ClockTypes /\ DateInv /\ [ClockNext]_clockVars => DateInv'
<1> SUFFICES ASSUME ClockTypes, DateInv, [ClockNext]_clockVars PROVE DateInv'
  OBVIOUS
<1>1. CASE UNCHANGED clockVars
  BY <1>1 DEF clockVars, clockTasks, clockHistory, DateInv, Answered, Sent, Shown
<1>2. CASE PowerCycle
  <2>1. /\ now' \in Starts /\ rtc' = None /\ http' = "sleep" /\ answer' = None
        /\ epoch_channel' = <<>>
    BY <1>2 DEF PowerCycle
  <2> QED
    BY <2>1, StartsAssumption DEF DateInv, Answered, Sent, Shown
<1> QED
  BY <1>1, <1>2, RequestDates, AnswerDates, ReadDates, SendDates, RoundDates,
     TickDates
     DEF ClockNext

\* Once it has been set, the RTC shows the date and time of the world, late by no
\* more than an answer takes and a round of rtc_task: whatever the conversions of
\* the date to seconds and back (days_since_unix_epoch, unix_to_datetime) and the
\* ends of months and years and leap days that come in between; but for a 29
\* February that the RTC invents.
THEOREM ShowsDateAlways == ClockSpec => []ShowsDate
<1>1. ClockInit => DateInv
  <2> SUFFICES ASSUME ClockInit PROVE DateInv
    OBVIOUS
  <2>1. now \in Starts /\ rtc = None /\ http = "sleep" /\ answer = None
        /\ epoch_channel = <<>>
    BY DEF ClockInit
  <2> QED
    BY <2>1, StartsAssumption DEF DateInv, Answered, Sent, Shown
<1>2. DateInv => ShowsDate
  BY DEF DateInv, Shown, ShowsDate, Behind
<1>3. ClockSpec => []ClockTypes
  BY ClockInitial, ClockStep, PTL DEF ClockSpec, ClockInv
<1> QED
  BY <1>1, <1>2, <1>3, DatesStep, PTL DEF ClockSpec
=============================================================================
