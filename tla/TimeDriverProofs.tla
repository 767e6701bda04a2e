-------------------------- MODULE TimeDriverProofs --------------------------
(***************************************************************************)
(* Proofs about TimeDriver for any number of tasks, any width of the       *)
(* alarm, any delays and any time.                                         *)
(***************************************************************************)
EXTENDS TimeDriver, TLAPS

-----------------------------------------------------------------------------
\* The inductive invariant.

\* KeptByQueue, also for the task that is inside schedule_wake.
KeptInv ==
    \A t \in Tasks :
        stage[t] \in {"scheduling", "waiting"} /\ t \notin woken /\ timer[t] # Never =>
            t \in Queued /\ queue[t] <= timer[t]

\* Nothing in the queue expires before what the alarm is, or will be, set to.
FirstInv ==
    /\ pc = "write" => \A t \in Queued : next <= queue[t]
    /\ pc \notin {"expire", "write"} => \A t \in Queued : timestamp <= queue[t]

\* The alarm will fire at its timestamp, or before.
Ahead == armed /\ alarm = timestamp % W /\ now < timestamp

\* It has fired a word too early, and there is time to arm it again: what is
\* left of the word, after this latency and the spent one.
Early(spent) == timestamp - now >= W - spent - late

Passed == timestamp <= now

\* However far the driver got, the alarm fires in time or the interrupt that
\* sets it anew is pending, running, or not needed.
AlarmInv ==
    /\ pc = "free" => Queued = {} \/ Ahead \/ (irq /\ (Early(Latency) \/ Passed))
    /\ pc = "irq" => Queued = {} \/ Ahead \/ Early(Latency) \/ Passed
    /\ pc = "rearm" => Queued = {} \/ Ahead \/ Early(Latency) \/ (irq /\ Passed)
    /\ pc = "check" => Passed \/ Ahead \/ (irq /\ Early(0))

IInv == TypeOK /\ KeptInv /\ FirstInv /\ AlarmInv

-----------------------------------------------------------------------------
\* Arithmetic.

\* u64::MAX lies after every time that is counted.
LEMMA NeverLast == Never \in Nat /\ Horizon \in Nat /\ Horizon < Never
<1>1. Never \in Int
  BY WordAssumption DEF Never
<1> QED
  BY <1>1, HorizonAssumption

LEMMA Division ==
  ASSUME NEW x \in Nat
  PROVE  \E q \in Int : x = W * q + (x % W)
<1>1. x = W * (x \div W) + (x % W) /\ x \div W \in Int
  BY WordAssumption
<1> QED
  BY <1>1

LEMMA NextMultiple ==
  ASSUME NEW p \in Int, NEW q \in Int, W * p < W * q
  PROVE  W * p + W <= W * q
<1> USE WordAssumption
<1>1. p < q
  <2>1. ASSUME q <= p PROVE W * q <= W * p
    BY <2>1
  <2> QED
    BY <2>1
<1>2. p + 1 <= q
  BY <1>1
<1>3. W * (p + 1) <= W * q
  BY <1>2
<1> QED
  BY <1>3

LEMMA Shifted ==
  ASSUME NEW a \in Int, NEW b \in Int, NEW r \in Int, NEW x \in Int, NEW y \in Int,
         x = a + r, y = b + r
  PROVE  (x < y => a < b) /\ (a + W <= b => y - x >= W)
BY WordAssumption

\* Two times with the same low word are at least a word apart.
LEMMA SameLowWord ==
  ASSUME NEW x \in Nat, NEW y \in Nat, x % W = y % W, x < y
  PROVE  y - x >= W
<1>1. PICK p \in Int : x = W * p + (x % W)
  BY Division
<1>2. PICK q \in Int : y = W * q + (y % W)
  BY Division
<1>3. y = W * q + (x % W)
  BY <1>2
<1>4. x % W \in Int /\ W * p \in Int /\ W * q \in Int
  BY WordAssumption
<1> HIDE <1>2
<1>5. (x < y => W * p < W * q) /\ (W * p + W <= W * q => y - x >= W)
  BY <1>1, <1>3, <1>4, Shifted
<1> QED
  BY <1>5, NextMultiple

LEMMA LowWord ==
  ASSUME NEW x \in Nat
  PROVE  x % W \in 0 .. W - 1
BY WordAssumption

-----------------------------------------------------------------------------
\* The invariant holds at the start and in every step.

LEMMA InitIInv == Init => IInv
<1> USE NeverLast, WordAssumption, LatencyAssumption
<1> SUFFICES ASSUME Init PROVE IInv
  OBVIOUS
<1>1. TypeOK
  <2>1. Queued = {} /\ queue \in [Queued -> Expirations]
    BY DEF Init, Queued
  <2>2. 0 \in Times /\ 0 \in 0 .. W - 1 /\ 0 \in 0 .. Latency /\ Never \in Expirations
    BY DEF Times, Expirations
  <2>3. stage \in [Tasks -> Stages] /\ timer \in [Tasks -> Expirations]
    BY <2>2 DEF Init, Stages
  <2> QED
    BY <2>1, <2>2, <2>3 DEF Init, TypeOK, Labels
<1>2. KeptInv
  BY DEF Init, KeptInv
<1>3. FirstInv
  BY DEF Init, FirstInv, Queued
<1>4. AlarmInv
  BY DEF Init, AlarmInv, Queued
<1> QED
  BY <1>1, <1>2, <1>3, <1>4 DEF IInv

\* An alarm that is armed for a timestamp ahead fires at it, or a word or more
\* before it.
LEMMA TickStep == IInv /\ Tick => IInv'
<1> USE NeverLast, WordAssumption, LatencyAssumption
<1> SUFFICES ASSUME IInv, Tick PROVE IInv'
  OBVIOUS
<1>1. TypeOK /\ KeptInv /\ FirstInv /\ AlarmInv
  BY DEF IInv
<1>2. now \in Nat /\ now' = now + 1 /\ timestamp \in Nat /\ late \in Nat /\ late' \in Nat
  BY <1>1 DEF TypeOK, Times, Expirations, Tick
<1>3. TypeOK'
  BY <1>1 DEF TypeOK, Tick, driver, tasks, Times, Expirations, Queued, Labels
<1>4. KeptInv' /\ FirstInv'
  BY <1>1 DEF KeptInv, FirstInv, Tick, driver, tasks, Queued
<1>5. late' <= late + 1 /\ (irq \/ pc # "free" => late' = late + 1)
  BY <1>1, <1>2 DEF Tick
<1>6. ASSUME NEW spent \in Nat, Early(spent), irq \/ pc # "free" PROVE Early(spent)'
  BY <1>2, <1>5, <1>6 DEF Early, Tick, driver
<1>7. ASSUME Ahead
      PROVE  Ahead' \/ (irq' /\ (Passed' \/ timestamp - now' >= W))
  <2>1. CASE armed /\ (now + 1) % W = alarm
    <3>1. irq'
      BY <2>1 DEF Tick
    <3>2. timestamp' = timestamp
      BY DEF Tick, driver
    <3>3. (now + 1) % W = timestamp % W
      BY <1>7, <2>1 DEF Ahead
    <3>4. now + 1 < timestamp => timestamp - (now + 1) >= W
      <4>1. now + 1 \in Nat /\ timestamp \in Nat
        BY <1>2
      <4> QED
        BY ONLY <4>1, <3>3, SameLowWord
    <3> QED
      BY <1>2, <3>1, <3>2, <3>4 DEF Passed
  <2>2. CASE ~(armed /\ (now + 1) % W = alarm)
    <3>1. now + 1 # timestamp
      BY <1>7, <2>2 DEF Ahead
    <3>2. armed' /\ alarm' = alarm /\ timestamp' = timestamp
      BY <1>7, <2>2 DEF Ahead, Tick, driver
    <3>3. now' < timestamp
      BY <1>2, <1>7, <3>1 DEF Ahead
    <3> QED
      BY <1>7, <3>2, <3>3 DEF Ahead
  <2> QED
    BY <2>1, <2>2
<1>8. ASSUME NEW spent \in Nat, timestamp - now' >= W PROVE Early(spent)'
  BY <1>2, <1>8 DEF Early, Tick, driver
<1>9. Passed => Passed'
  BY <1>2 DEF Passed, Tick, driver
<1>10. pc' = pc /\ Queued' = Queued /\ (irq => irq')
  BY DEF Tick, driver, Queued
<1>11. AlarmInv'
  <2>1. CASE pc = "free"
    BY <1>1, <1>6, <1>7, <1>8, <1>9, <1>10, <2>1 DEF AlarmInv
  <2>2. CASE pc = "irq"
    BY <1>1, <1>6, <1>7, <1>8, <1>9, <1>10, <2>2 DEF AlarmInv
  <2>3. CASE pc = "rearm"
    BY <1>1, <1>6, <1>7, <1>8, <1>9, <1>10, <2>3 DEF AlarmInv
  <2>4. CASE pc = "check"
    BY <1>1, <1>6, <1>7, <1>8, <1>9, <1>10, <2>4 DEF AlarmInv
  <2> QED
    BY <1>10, <2>1, <2>2, <2>3, <2>4 DEF AlarmInv
<1> QED
  BY <1>3, <1>4, <1>11 DEF IInv

\* What a task does with its timer does not touch the driver.
LEMMA TaskStep ==
  ASSUME IInv, NEW t \in Tasks,
         \/ \E at \in Deadlines : StartTimer(t, at)
         \/ WokenByOther(t) \/ Poll(t) \/ DropTimer(t)
  PROVE  IInv'
<1> USE NeverLast
<1>1. TypeOK /\ KeptInv /\ FirstInv /\ AlarmInv
  BY DEF IInv
<1>2. UNCHANGED <<hardware, driver, late>>
  BY DEF StartTimer, WokenByOther, Poll, DropTimer
<1>3. Deadlines \subseteq Expirations
  BY DEF Deadlines, Expirations
<1>4. TypeOK'
  BY <1>1, <1>2, <1>3
  DEF TypeOK, StartTimer, WokenByOther, Poll, DropTimer, EndTimer, hardware, driver,
      Queued, Stages, Expirations
<1>5. KeptInv'
  BY <1>1, <1>2
  DEF TypeOK, KeptInv, StartTimer, WokenByOther, Poll, DropTimer, EndTimer, driver, Queued
<1>6. FirstInv' /\ AlarmInv'
  BY <1>1, <1>2 DEF FirstInv, AlarmInv, Ahead, Early, Passed, hardware, driver, Queued
<1> QED
  BY <1>4, <1>5, <1>6 DEF IInv

\* An item that is queued keeps the earlier of its two times.
LEMMA ScheduleStep ==
  ASSUME IInv, NEW t \in Tasks, ScheduleWake(t)
  PROVE  IInv'
<1> USE NeverLast
<1>1. TypeOK /\ KeptInv /\ FirstInv /\ AlarmInv
  BY DEF IInv
<1>2. CASE t \in Queued => timer[t] <= queue[t]
  <2>1. /\ Queued' = Queued \cup {t}
        /\ \A u \in Queued' : queue'[u] = IF u = t THEN timer[t] ELSE queue[u]
        /\ pc' = "expire"
    BY <1>2 DEF ScheduleWake, Queued
  <2>2. TypeOK'
    BY <1>1, <1>2, <2>1 DEF TypeOK, ScheduleWake, hardware, Labels, Stages, Queued, Expirations
  <2>3. KeptInv'
    BY <1>1, <1>2, <2>1 DEF TypeOK, KeptInv, ScheduleWake, Expirations, Times
  <2>4. FirstInv' /\ AlarmInv'
    BY <2>1 DEF FirstInv, AlarmInv
  <2> QED
    BY <2>2, <2>3, <2>4 DEF IInv
<1>3. CASE ~(t \in Queued => timer[t] <= queue[t])
  <2>1. pc = "free" /\ stage' = [stage EXCEPT ![t] = "waiting"]
        /\ UNCHANGED <<hardware, timestamp, queue, next, pc, timer, woken, late>>
    BY <1>3 DEF ScheduleWake
  <2>2. TypeOK'
    BY <1>1, <2>1 DEF TypeOK, hardware, Stages, Queued
  <2>3. queue[t] <= timer[t]
    BY <1>1, <1>3 DEF TypeOK, Expirations, Times
  <2>4. KeptInv'
    BY <1>1, <1>3, <2>1, <2>3 DEF TypeOK, KeptInv, Queued
  <2>5. FirstInv' /\ AlarmInv'
    BY <1>1, <2>1 DEF FirstInv, AlarmInv, Ahead, Early, Passed, hardware, Queued
  <2> QED
    BY <2>2, <2>4, <2>5 DEF IInv
<1> QED
  BY <1>2, <1>3

\* Whoever leaves the queue is woken, or waits for nothing.
LEMMA ExpireStep == IInv /\ NextExpiration => IInv'
<1> USE NeverLast
<1> SUFFICES ASSUME IInv, NextExpiration PROVE IInv'
  OBVIOUS
<1>1. TypeOK /\ KeptInv /\ FirstInv /\ AlarmInv
  BY DEF IInv
<1>2. Queued' = Remaining /\ (\A t \in Remaining : queue'[t] = queue[t]) /\ pc' = "write"
  BY DEF NextExpiration, Queued
<1>3. TypeOK'
  <2>1. Remaining \subseteq Queued /\ Expired \subseteq Queued
    BY DEF Remaining, Expired
  <2>2. next' \in Expirations
    BY <1>1, <2>1 DEF NextExpiration, TypeOK, Expirations
  <2> QED
    BY <1>1, <1>2, <2>1, <2>2 DEF TypeOK, NextExpiration, hardware, Labels, Queued
<1>4. KeptInv'
  BY <1>1, <1>2 DEF TypeOK, KeptInv, NextExpiration, Expired, Remaining, Expirations, Times
<1>5. FirstInv'
  BY <1>2 DEF FirstInv, NextExpiration
<1>6. AlarmInv'
  BY <1>2 DEF AlarmInv
<1> QED
  BY <1>3, <1>4, <1>5, <1>6 DEF IInv

\* What arming the alarm for a timestamp ahead achieves.
LEMMA Armed ==
  ASSUME TypeOK, NEW at \in Expirations, Arm(at % W)
  PROVE  /\ alarm' \in 0 .. W - 1 /\ armed' \in BOOLEAN /\ irq' \in BOOLEAN
         /\ now' = now /\ (irq => irq')
         /\ now < at =>
               \/ armed' /\ alarm' = at % W
               \/ irq' /\ at - now >= W
<1> USE NeverLast, WordAssumption
<1>1. at \in Nat /\ now \in Nat
  BY DEF TypeOK, Expirations, Times
<1>2. alarm' \in 0 .. W - 1 /\ armed' \in BOOLEAN /\ irq' \in BOOLEAN
  BY <1>1, LowWord DEF Arm, TypeOK
<1>3. CASE armed' = TRUE /\ UNCHANGED irq
  BY <1>2, <1>3 DEF Arm
<1>4. CASE now % W = at % W /\ armed' = FALSE /\ irq' = TRUE
  BY <1>1, <1>2, <1>4, SameLowWord DEF Arm
<1> QED
  BY <1>3, <1>4 DEF Arm

LEMMA SetAlarmStep == IInv /\ SetAlarm => IInv'
<1> USE NeverLast, WordAssumption, LatencyAssumption
<1> SUFFICES ASSUME IInv, SetAlarm PROVE IInv'
  OBVIOUS
<1>1. TypeOK /\ KeptInv /\ FirstInv /\ AlarmInv
  BY DEF IInv
<1>2. next \in Expirations /\ Arm(next % W) /\ timestamp' = next /\ pc' = "check"
  BY <1>1 DEF TypeOK, SetAlarm
<1>3. /\ alarm' \in 0 .. W - 1 /\ armed' \in BOOLEAN /\ irq' \in BOOLEAN /\ now' = now
      /\ now < next => \/ armed' /\ alarm' = next % W
                       \/ irq' /\ next - now >= W
  BY <1>1, <1>2, Armed
<1>4. TypeOK'
  BY <1>1, <1>2, <1>3 DEF TypeOK, SetAlarm, tasks, Labels, Queued
<1>5. KeptInv'
  BY <1>1 DEF KeptInv, SetAlarm, tasks, Queued
<1>6. FirstInv'
  BY <1>1, <1>2 DEF FirstInv, SetAlarm, Queued
<1>7. AlarmInv'
  BY <1>1, <1>2, <1>3
  DEF TypeOK, AlarmInv, Ahead, Early, Passed, SetAlarm, Expirations, Times
<1> QED
  BY <1>4, <1>5, <1>6, <1>7 DEF IInv

\* Leaving the critical section hides nothing from the tasks.
LEMMA LeaveStep ==
  ASSUME TypeOK, KeptInv, Leave, UNCHANGED <<queue, timer, woken>>
  PROVE  KeptInv' /\ stage' \in [Tasks -> Stages] /\ next' \in Expirations
         /\ pc' = "free" /\ late' = 0
<1>1. KeptInv'
  BY DEF TypeOK, KeptInv, Leave, Queued
<1> QED
  BY <1>1 DEF TypeOK, Leave, Stages, Expirations

LEMMA CheckSetStep == IInv /\ CheckSet => IInv'
<1> USE NeverLast, WordAssumption, LatencyAssumption
<1> SUFFICES ASSUME IInv, CheckSet PROVE IInv'
  OBVIOUS
<1>1. TypeOK /\ KeptInv /\ FirstInv /\ AlarmInv
  BY DEF IInv
<1>2. CASE timestamp <= now
  <2>1. TypeOK'
    BY <1>1, <1>2 DEF TypeOK, CheckSet, Labels, Queued, Expirations
  <2>2. KeptInv' /\ FirstInv' /\ AlarmInv'
    BY <1>1, <1>2 DEF KeptInv, FirstInv, AlarmInv, CheckSet, Queued
  <2> QED
    BY <2>1, <2>2 DEF IInv
<1>3. CASE ~(timestamp <= now)
  <2>1. Leave /\ UNCHANGED <<hardware, timestamp, queue, timer, woken>>
    BY <1>3 DEF CheckSet, hardware
  <2>2. KeptInv' /\ stage' \in [Tasks -> Stages] /\ next' \in Expirations
        /\ pc' = "free" /\ late' = 0
    BY <1>1, <2>1, LeaveStep
  <2>3. TypeOK'
    BY <1>1, <2>1, <2>2 DEF TypeOK, hardware, Labels, Queued
  <2>4. FirstInv'
    BY <1>1, <2>1, <2>2 DEF FirstInv, CheckSet, Queued
  <2>5. AlarmInv'
    BY <1>1, <1>3, <2>1, <2>2
    DEF TypeOK, AlarmInv, Ahead, Early, Passed, CheckSet, hardware, Expirations, Times
  <2> QED
    BY <2>2, <2>3, <2>4, <2>5 DEF IInv
<1> QED
  BY <1>2, <1>3

LEMMA IrqStep == IInv /\ (TakeIrq \/ CheckAlarm) => IInv'
<1> USE NeverLast
<1> SUFFICES ASSUME IInv, TakeIrq \/ CheckAlarm PROVE IInv'
  OBVIOUS
<1>1. TypeOK /\ KeptInv /\ FirstInv /\ AlarmInv
  BY DEF IInv
<1>2. TypeOK'
  BY <1>1 DEF TypeOK, TakeIrq, CheckAlarm, hardware, tasks, Labels, Queued
<1>3. KeptInv' /\ FirstInv'
  BY <1>1 DEF KeptInv, FirstInv, TakeIrq, CheckAlarm, tasks, Queued
<1>4. AlarmInv'
  BY <1>1
  DEF TypeOK, AlarmInv, Ahead, Early, Passed, TakeIrq, CheckAlarm, hardware, Queued
<1> QED
  BY <1>2, <1>3, <1>4 DEF IInv

LEMMA RearmStep == IInv /\ Rearm => IInv'
<1> USE NeverLast, WordAssumption, LatencyAssumption
<1> SUFFICES ASSUME IInv, Rearm PROVE IInv'
  OBVIOUS
<1>1. TypeOK /\ KeptInv /\ FirstInv /\ AlarmInv
  BY DEF IInv
<1>2. /\ timestamp \in Expirations /\ Arm(timestamp % W) /\ Leave
      /\ UNCHANGED <<timestamp, queue, timer, woken>>
  BY <1>1 DEF TypeOK, Rearm
<1>3. /\ alarm' \in 0 .. W - 1 /\ armed' \in BOOLEAN /\ irq' \in BOOLEAN
      /\ now' = now /\ (irq => irq')
      /\ now < timestamp => \/ armed' /\ alarm' = timestamp % W
                            \/ irq' /\ timestamp - now >= W
  BY <1>1, <1>2, Armed
<1>4. KeptInv' /\ stage' \in [Tasks -> Stages] /\ next' \in Expirations
      /\ pc' = "free" /\ late' = 0
  BY <1>1, <1>2, LeaveStep
<1>5. TypeOK'
  BY <1>1, <1>2, <1>3, <1>4 DEF TypeOK, Labels, Queued
<1>6. FirstInv'
  BY <1>1, <1>2, <1>4 DEF FirstInv, Rearm, Queued
<1>7. AlarmInv'
  <2>1. Queued = {} \/ now < timestamp \/ (irq /\ Passed)
    BY <1>1 DEF TypeOK, AlarmInv, Ahead, Early, Rearm, Expirations, Times
  <2> QED
    BY <1>1, <1>2, <1>3, <1>4, <2>1, SMTT(30)
    DEF TypeOK, AlarmInv, Ahead, Early, Passed, Queued, Expirations, Times
<1> QED
  BY <1>4, <1>5, <1>6, <1>7 DEF IInv

\* The invariant is inductive.
THEOREM Inductive == Safety => []IInv
<1>1. IInv /\ [Next]_vars => IInv'
  <2> SUFFICES ASSUME IInv, [Next]_vars PROVE IInv'
    OBVIOUS
  <2>1. CASE UNCHANGED vars
    BY <2>1
    DEF vars, hardware, driver, tasks, IInv, TypeOK, KeptInv, FirstInv, AlarmInv,
        Ahead, Early, Passed, Queued
  <2>2. CASE Next
    BY <2>2, TickStep, TaskStep, ScheduleStep, ExpireStep, SetAlarmStep, CheckSetStep,
       IrqStep, RearmStep
    DEF Next, Driver
  <2> QED
    BY <2>1, <2>2
<1> QED
  BY InitIInv, <1>1, PTL DEF Safety

\* Types, among them that the alarm holds one word.
THEOREM TypeCorrect == Safety => []TypeOK
BY Inductive, PTL DEF IInv

\* However late the driver gets to set an alarm, however far ahead it is and
\* whatever interrupts are pending, no expiration is passed over.
THEOREM NoMissedExpirationAlways == Safety => []NoMissedExpiration
<1>1. IInv => NoMissedExpiration
  BY NeverLast
  DEF IInv, TypeOK, FirstInv, AlarmInv, Ahead, NoMissedExpiration, Expirations, Times, Queued
<1> QED
  BY <1>1, Inductive, PTL

\* A waiting task is in the queue, early enough, whatever timers it had before.
THEOREM KeptByQueueAlways == Safety => []KeptByQueue
<1>1. IInv => KeptByQueue
  BY DEF IInv, KeptInv, KeptByQueue
<1> QED
  BY <1>1, Inductive, PTL
=============================================================================
