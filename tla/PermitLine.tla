----------------------------- MODULE PermitLine -----------------------------
(***************************************************************************)
(* What a fair semaphore promises: permits are handed out in the order in  *)
(* which tasks lined up, and the first in line gets them when there are    *)
(* enough.  There are no tickets, wakers or polls here.                    *)
(***************************************************************************)
EXTENDS Naturals

CONSTANTS Tasks, Requests, Initial, MaxPermits, Nil

VARIABLES
    permits,     \* how many are available
    held,        \* how many are held
    want,        \* what each task asks for: [min, all], or Nil
    waiting,     \* the tasks in line
    ahead,       \* ahead[t]: the tasks in line before t
    unsignalled  \* who became first because the one before gave up, or Nil

line == <<waiting, ahead>>
lvars == <<permits, held, want, line, unsignalled>>

LineInit ==
    /\ permits = Initial
    /\ held = 0
    /\ want = [t \in Tasks |-> Nil]
    /\ waiting = {}
    /\ ahead = [t \in Tasks |-> {}]
    /\ unsignalled = Nil

Ask(t, request) ==
    /\ want[t] = Nil
    /\ want' = [want EXCEPT ![t] = request]
    /\ UNCHANGED <<permits, held, line, unsignalled>>

LineUp(t) ==
    /\ want[t] # Nil
    /\ t \notin waiting
    /\ waiting' = waiting \cup {t}
    /\ ahead' = [ahead EXCEPT ![t] = waiting]
    /\ UNCHANGED <<permits, held, want, unsignalled>>

\* The call of t comes to an end; whoever was behind t moves up.
Leave(t) ==
    /\ want[t] # Nil
    /\ want' = [want EXCEPT ![t] = Nil]
    /\ waiting' = waiting \ {t}
    /\ ahead' = [u \in Tasks |-> IF u = t THEN {} ELSE ahead[u] \ {t}]

IsFirst(t) == t \in waiting /\ ahead[t] = {}

Amount(request) == IF request.all THEN permits ELSE request.min

Take(request) ==
    /\ request.min <= permits
    /\ permits' = permits - Amount(request)
    /\ held' = held + Amount(request)

\* The first in line, or one who finds no line.
Grant(t) ==
    /\ waiting = {} \/ IsFirst(t)
    /\ Leave(t)
    /\ Take(want[t])
    /\ unsignalled' = Nil

TryTake(request) ==
    /\ waiting = {}
    /\ Take(request)
    /\ UNCHANGED <<want, line, unsignalled>>

\* Who is first when the first gives up, or Nil.
Heirs(t) == {u \in waiting : ahead[u] = {t}}
Heir(t) == IF Heirs(t) = {} THEN {Nil} ELSE Heirs(t)

\* A call that waits gives up, or finds the queue full.
GiveUp(t) ==
    /\ Leave(t)
    /\ unsignalled' \in IF IsFirst(t) THEN Heir(t) ELSE {unsignalled}
    /\ UNCHANGED <<permits, held>>

\* Permits come back or are set; whoever is first hears of an increase.
Change(n) ==
    /\ permits' = n
    /\ unsignalled' = IF n > permits THEN Nil ELSE unsignalled
    /\ UNCHANGED <<want, line>>

GiveBack(n) ==
    /\ n <= held
    /\ held' = held - n
    /\ Change(permits + n)

Forget(n) ==
    /\ n <= held
    /\ held' = held - n
    /\ UNCHANGED <<permits, want, line, unsignalled>>

Reset(n) == Change(n) /\ UNCHANGED held

Next ==
    \/ \E t \in Tasks :
          \/ LineUp(t) \/ Grant(t) \/ GiveUp(t)
          \/ \E request \in Requests : Ask(t, request)
    \/ \E request \in Requests : TryTake(request)
    \/ \E n \in 1 .. MaxPermits : GiveBack(n) \/ Forget(n)
    \/ \E n \in 0 .. MaxPermits : Reset(n)

LineSafety == LineInit /\ [][Next]_lvars

\* Who can be served all the time is served, unless it became first silently.
LineSpec ==
    /\ LineSafety
    /\ \A t \in Tasks : WF_lvars(Grant(t) /\ unsignalled # t)
=============================================================================
