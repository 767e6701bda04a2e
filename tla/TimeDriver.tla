----------------------------- MODULE TimeDriver -----------------------------
(***************************************************************************)
(* Timers: tasks that await Timer (embassy-time/src/timer.rs), the timer   *)
(* queue (embassy-time-queue-utils/src/queue_integrated.rs) and the time   *)
(* driver of the RP2040 (embassy-rp/src/time_driver.rs).  The driver's     *)
(* code runs in a critical section, one at a time, while the counter goes  *)
(* on between any two of its accesses to the clock and to the alarm.       *)
(***************************************************************************)
EXTENDS Integers

CONSTANTS
    Tasks,
    W,         \* the alarm compares the counter modulo W: 2^32
    Delays,    \* what tasks pass to Timer::after
    Horizon,   \* time is counted up to here
    Latency    \* ticks that a critical section, or an interrupt that finds it
               \* free, may take

\* u64::MAX: an Instant that never comes.
Never == W * W - 1

ASSUME WordAssumption == W \in Nat \ {0, 1}
ASSUME DelaysAssumption == Delays \subseteq Nat
ASSUME HorizonAssumption == Horizon \in Nat /\ Horizon < Never
\* An interrupt that waits for a critical section is answered before the low
\* word of the counter comes round again, which takes more than an hour.
ASSUME LatencyAssumption == Latency \in Nat /\ 2 * Latency < W

VARIABLES
    now,        \* the counter
    alarm,      \* the ALARM0 register
    armed,      \* the ARMED bit of alarm 0
    irq,        \* the raw interrupt of alarm 0
    timestamp,  \* AlarmState::timestamp
    queue,      \* expires_at of the items in the queue
    next,       \* local of schedule_wake and trigger_alarm
    pc,         \* where the critical section is, or "free"
    stage,      \* stage[t]: where task t is with its timer
    timer,      \* timer[t]: when the timer it awaits expires
    woken,      \* tasks that an executor will poll
    late        \* ticks since the critical section, or the interrupt, began

hardware == <<now, alarm, armed, irq>>
driver == <<timestamp, queue, next, pc>>
tasks == <<stage, timer, woken>>
vars == <<hardware, driver, tasks, late>>

Times == 0 .. Horizon
Expirations == Times \cup {Never}
Queued == DOMAIN queue
Stages == {"idle", "polled", "scheduling", "waiting"}
Labels == {"free", "expire", "write", "check", "irq", "rearm"}

\* After init, which enables the interrupt.
Init ==
    /\ now = 0
    /\ alarm = 0 /\ armed = FALSE /\ irq = FALSE
    /\ timestamp = Never
    /\ queue = [t \in {} |-> Never]
    /\ next = Never
    /\ pc = "free"
    /\ stage = [t \in Tasks |-> "idle"]
    /\ timer = [t \in Tasks |-> Never]
    /\ woken = {}
    /\ late = 0

-----------------------------------------------------------------------------
\* The alarm: it compares for equality, and firing disarms it.

Arm(value) ==
    /\ alarm' = value
    /\ \/ armed' = TRUE /\ UNCHANGED irq
       \/ now % W = value /\ armed' = FALSE /\ irq' = TRUE
    /\ UNCHANGED now

\* Time passes unless that would exceed the latency of the driver.
Tick ==
    /\ now < Horizon
    /\ LET busy == irq \/ pc # "free"
           fires == armed /\ (now + 1) % W = alarm
       IN  /\ busy => late < Latency
           /\ late' = IF busy THEN late + 1 ELSE late
           /\ irq' = (irq \/ fires)
           /\ armed' = (armed /\ ~fires)
    /\ now' = now + 1
    /\ UNCHANGED <<alarm, driver, tasks>>

-----------------------------------------------------------------------------
\* Tasks.

\* A first poll schedules its wake even if the time has come.
StartTimer(t, at) ==
    /\ stage[t] = "idle"
    /\ stage' = [stage EXCEPT ![t] = "polled"]
    /\ timer' = [timer EXCEPT ![t] = at]
    /\ \/ woken' = woken \ {t}
       \/ UNCHANGED woken
    /\ UNCHANGED <<hardware, driver, late>>

\* Another future of the task wakes it too.
WokenByOther(t) ==
    /\ stage[t] = "waiting"
    /\ woken' = woken \cup {t}
    /\ UNCHANGED <<hardware, driver, stage, timer, late>>

EndTimer(t) ==
    /\ stage' = [stage EXCEPT ![t] = "idle"]
    /\ timer' = [timer EXCEPT ![t] = Never]

Poll(t) ==
    /\ stage[t] = "waiting" /\ t \in woken
    /\ woken' = woken \ {t}
    /\ IF timer[t] <= now
       THEN EndTimer(t)
       ELSE /\ stage' = [stage EXCEPT ![t] = "polled"]
            /\ UNCHANGED timer
    /\ UNCHANGED <<hardware, driver, late>>

\* The future is dropped: the queue does not hear of it.
DropTimer(t) ==
    /\ stage[t] = "waiting" /\ t \in woken
    /\ woken' = woken \ {t}
    /\ EndTimer(t)
    /\ UNCHANGED <<hardware, driver, late>>

-----------------------------------------------------------------------------
\* The driver.

\* The critical section ends, and with it the poll that was inside.
Leave ==
    /\ pc' = "free"
    /\ stage' = [t \in Tasks |-> IF stage[t] = "scheduling" THEN "waiting" ELSE stage[t]]
    /\ next' = Never
    /\ late' = 0

\* Mutant: an item in the queue is never moved to an earlier time.
ScheduleWakeKeep(t) ==
    /\ pc = "free" /\ stage[t] = "polled"
    /\ IF t \notin Queued
       THEN /\ queue' = [u \in Queued \cup {t} |-> IF u = t THEN timer[t] ELSE queue[u]]
            /\ pc' = "expire"
            /\ stage' = [stage EXCEPT ![t] = "scheduling"]
       ELSE /\ stage' = [stage EXCEPT ![t] = "waiting"]
            /\ UNCHANGED <<queue, pc>>
    /\ UNCHANGED <<hardware, timestamp, next, timer, woken, late>>

\* An item that is queued for an earlier time stays as it is.
ScheduleWake(t) ==
    /\ pc = "free" /\ stage[t] = "polled"
    /\ IF t \in Queued => timer[t] <= queue[t]
       THEN /\ queue' = [u \in Queued \cup {t} |-> IF u = t THEN timer[t] ELSE queue[u]]
            /\ pc' = "expire"
            /\ stage' = [stage EXCEPT ![t] = "scheduling"]
       ELSE /\ stage' = [stage EXCEPT ![t] = "waiting"]
            /\ UNCHANGED <<queue, pc>>
    /\ UNCHANGED <<hardware, timestamp, next, timer, woken, late>>

Expired == {t \in Queued : queue[t] <= now}
Remaining == {t \in Queued : queue[t] > now /\ queue[t] # Never}

\* next_expiration wakes and removes what has expired; what never expires is
\* removed and not woken.
NextExpiration ==
    /\ pc = "expire"
    /\ woken' = woken \cup Expired
    /\ queue' = [t \in Remaining |-> queue[t]]
    /\ next' \in {queue[t] : t \in Remaining} \cup {Never}
    /\ \A t \in Remaining : next' <= queue[t]
    /\ pc' = "write"
    /\ UNCHANGED <<hardware, timestamp, stage, timer, late>>

SetAlarm ==
    /\ pc = "write"
    /\ timestamp' = next
    /\ Arm(next % W)
    /\ pc' = "check"
    /\ UNCHANGED <<queue, next, tasks, late>>

\* Mutant: set_alarm does not look whether the time has passed meanwhile.
CheckSetNot ==
    /\ pc = "check"
    /\ Leave
    /\ UNCHANGED <<hardware, timestamp, queue, timer, woken>>

\* An alarm that may have been set too late is set anew.
CheckSet ==
    /\ pc = "check"
    /\ IF timestamp <= now
       THEN /\ armed' = FALSE
            /\ timestamp' = Never
            /\ pc' = "expire"
            /\ UNCHANGED <<next, stage, late>>
       ELSE Leave /\ UNCHANGED <<armed, timestamp>>
    /\ UNCHANGED <<now, alarm, irq, queue, timer, woken>>

\* The interrupt handler clears the interrupt,
TakeIrq ==
    /\ pc = "free" /\ irq
    /\ irq' = FALSE
    /\ pc' = "irq"
    /\ UNCHANGED <<now, alarm, armed, timestamp, queue, next, tasks, late>>

\* looks at the clock,
CheckAlarm ==
    /\ pc = "irq"
    /\ pc' = IF timestamp <= now THEN "expire" ELSE "rearm"
    /\ UNCHANGED <<hardware, timestamp, queue, next, tasks, late>>

\* Mutant: an alarm that fired early is not armed again.
RearmNot ==
    /\ pc = "rearm"
    /\ Leave
    /\ UNCHANGED <<hardware, timestamp, queue, timer, woken>>

\* and arms an alarm again that fired W ticks too early.
Rearm ==
    /\ pc = "rearm"
    /\ Arm(timestamp % W)
    /\ Leave
    /\ UNCHANGED <<timestamp, queue, timer, woken>>

-----------------------------------------------------------------------------
Driver == NextExpiration \/ SetAlarm \/ CheckSet \/ CheckAlarm \/ Rearm

\* Timer::after, or a Timer at an Instant that never comes.
Deadlines == ({now + d : d \in Delays} \cap Times) \cup {Never}

Next ==
    \/ Tick
    \/ TakeIrq
    \/ Driver
    \/ \E t \in Tasks :
        \/ \E at \in Deadlines : StartTimer(t, at)
        \/ WokenByOther(t)
        \/ Poll(t)
        \/ DropTimer(t)
        \/ ScheduleWake(t)

Safety == Init /\ [][Next]_vars

\* The clock runs; what has begun goes on; and whoever waits for the critical
\* section, a task or the interrupt, gets it in the end.
Fairness ==
    /\ SF_vars(Tick) /\ WF_vars(Driver) /\ SF_vars(TakeIrq)
    /\ \A t \in Tasks : WF_vars(Poll(t)) /\ SF_vars(ScheduleWake(t))

Spec == Safety /\ Fairness

-----------------------------------------------------------------------------
\* Properties.

\* Types: in particular, the alarm holds the low word of a timestamp.
TypeOK ==
    /\ now \in Times
    /\ alarm \in 0 .. W - 1
    /\ armed \in BOOLEAN /\ irq \in BOOLEAN
    /\ timestamp \in Expirations
    /\ Queued \subseteq Tasks /\ queue \in [Queued -> Expirations]
    /\ next \in Expirations
    /\ pc \in Labels
    /\ stage \in [Tasks -> Stages]
    /\ timer \in [Tasks -> Expirations]
    /\ woken \subseteq Tasks
    /\ late \in 0 .. Latency

\* Whenever the driver is at rest every expiration in the queue lies ahead:
\* none is missed because its alarm was set a moment too late, fired one word
\* too early, was disarmed, or was replaced by another (time_driver.rs).
NoMissedExpiration ==
    pc = "free" /\ ~irq => \A t \in Queued : queue[t] > now

\* A task that waits for its timer is in the queue for no later time, unless
\* it is about to be polled: however its timers were dropped and replaced, and
\* whatever the queue forgot or kept of them (queue_integrated.rs).
KeptByQueue ==
    \A t \in Tasks :
        stage[t] = "waiting" /\ t \notin woken /\ timer[t] # Never =>
            t \in Queued /\ queue[t] <= timer[t]

\* Every timer that expires at some time ends, by itself or dropped.
EveryTimerEnds ==
    \A t \in Tasks :
        stage[t] # "idle" /\ timer[t] # Never ~> stage[t] = "idle"
=============================================================================
