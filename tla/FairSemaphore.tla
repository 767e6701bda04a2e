---------------------------- MODULE FairSemaphore ----------------------------
(***************************************************************************)
(* embassy_sync::semaphore::FairSemaphore: tasks that wait hold a ticket,  *)
(* whose distance to next_ticket is the place of their waker in a Deque of *)
(* N.  A future that is dropped leaves a None in its place.  Every method  *)
(* runs under the semaphore's blocking mutex and is one action.  Tickets   *)
(* do not wrap here: that takes 2^32 waits while one future is kept.       *)
(***************************************************************************)
EXTENDS Naturals, Sequences

CONSTANTS
    Tasks,
    N,           \* length of the Deque
    Requests,    \* what may be asked for: at least min permits, or all of them if all is set
    Initial,     \* permits of a new semaphore
    MaxPermits,  \* bound on the permits in circulation
    MaxTicket,   \* bound on the tickets handed out
    Nil

ASSUME NumbersAssumption ==
    N \in Nat \ {0} /\ {Initial, MaxPermits, MaxTicket} \subseteq Nat
    /\ Initial <= MaxPermits
ASSUME RequestsAssumption == Requests \subseteq [min : Nat \ {0}, all : BOOLEAN]
ASSUME NilAssumption ==
    Nil \notin Tasks /\ Nil \notin Nat /\ Nil \notin Requests

VARIABLES
    permits, next_ticket,
    wakers,      \* the waker of a task, or Nil for a cancelled entry
    ticket,      \* of each task's future, or Nil
    want,        \* what its pending future asks for: [min, all], or Nil
    held,        \* permits of all SemaphoreReleasers
    asleep,      \* tasks whose pending future is not polled until they are woken
    unsignalled  \* history: who became first by a cancellation and was not woken since

vars == <<permits, next_ticket, wakers, ticket, want, held, asleep, unsignalled>>
queue == <<next_ticket, wakers>>

Init ==
    /\ permits = Initial /\ next_ticket = 0 /\ wakers = <<>>
    /\ ticket = [t \in Tasks |-> Nil]
    /\ want = [t \in Tasks |-> Nil]
    /\ held = 0
    /\ asleep = {}
    /\ unsignalled = Nil

\* pop_canceled leaves the entries of w after the k first ones, all cancelled.
Leading(w, k) ==
    /\ k \in 0 .. Len(w)
    /\ \A i \in 1 .. k : w[i] = Nil
    /\ k < Len(w) => w[k + 1] # Nil
From(w, k) == SubSeq(w, k + 1, Len(w))

-----------------------------------------------------------------------------
\* Mutant: cancelled entries are not popped before the front is woken.
WakeFront(w, n) ==
    /\ wakers' = w /\ next_ticket' = n
    /\ asleep' = IF w # <<>> THEN asleep \ {w[1]} ELSE asleep
    /\ unsignalled' = Nil

\* FairSemaphoreState::wake on the queue w with first ticket n.
WakeFirst(w, n) ==
    \E k \in 0 .. Len(w) :
        /\ Leading(w, k)
        /\ wakers' = From(w, k) /\ next_ticket' = n + k
        /\ asleep' = IF k < Len(w) THEN asleep \ {w[k + 1]} ELSE asleep
        /\ unsignalled' = Nil

\* Mutant: a ticket is taken for a place in the Deque.
FixedPlace(x, n) == x + 1

Place(x, n) == x - n + 1
InQueue(x, w, n) == x # Nil /\ x >= n /\ Place(x, n) <= Len(w)

Amount(request) == IF request.all THEN permits ELSE request.min

\* Mutant: a newcomer does not ask for the line.
MayOvertake(x, request, w, n) == request.min <= permits /\ (x = Nil \/ x = n)

\* take, after pop_canceled left w and n, for a future with ticket x or none.
MayTake(x, request, w, n) ==
    /\ request.min <= permits
    /\ IF x = Nil THEN w = <<>> ELSE x = n

Taken(request) ==
    /\ permits' = permits - Amount(request)
    /\ held' = held + Amount(request)

\* acquire or acquire_all is called; nothing happens until the first poll.
Acquire(t, request) ==
    /\ want[t] = Nil /\ ticket[t] = Nil
    /\ want' = [want EXCEPT ![t] = request]
    /\ UNCHANGED <<permits, queue, ticket, held, asleep, unsignalled>>

\* The future is Ready; one with a ticket pops its entry and wakes the next.
Granted(t, w, n) ==
    /\ MayTake(ticket[t], want[t], w, n)
    /\ Taken(want[t])
    /\ want' = [want EXCEPT ![t] = Nil]
    /\ IF ticket[t] # Nil /\ Amount(want[t]) < permits THEN WakeFirst(Tail(w), n + 1)
       ELSE /\ IF ticket[t] # Nil THEN wakers' = Tail(w) /\ next_ticket' = n + 1
                                  ELSE wakers' = w /\ next_ticket' = n
            /\ unsignalled' = Nil /\ UNCHANGED asleep
    /\ UNCHANGED ticket

\* register: a first waker is appended, a later one replaces the old one.
Registered(t, w, n) ==
    /\ ~MayTake(ticket[t], want[t], w, n)
    /\ \/ /\ ticket[t] = Nil /\ Len(w) < N /\ n + Len(w) < MaxTicket
          /\ ticket' = [ticket EXCEPT ![t] = n + Len(w)]
          /\ wakers' = Append(w, t)
       \/ /\ ticket[t] # Nil
          /\ wakers' = IF InQueue(ticket[t], w, n) THEN [w EXCEPT ![Place(ticket[t], n)] = t] ELSE w
          /\ UNCHANGED ticket
    /\ next_ticket' = n
    /\ asleep' = asleep \cup {t}
    /\ UNCHANGED <<permits, want, held, unsignalled>>

\* WaitQueueFull.
Refused(t, w, n) ==
    /\ ~MayTake(ticket[t], want[t], w, n)
    /\ ticket[t] = Nil /\ Len(w) = N
    /\ want' = [want EXCEPT ![t] = Nil]
    /\ wakers' = w /\ next_ticket' = n
    /\ UNCHANGED <<permits, ticket, held, asleep, unsignalled>>

Poll(t) ==
    /\ want[t] # Nil /\ t \notin asleep
    /\ \E k \in 0 .. Len(wakers) :
          LET w == From(wakers, k) n == next_ticket + k
          IN  /\ Leading(wakers, k)
              /\ Granted(t, w, n) \/ Registered(t, w, n) \/ Refused(t, w, n)

\* Another future of the same task wakes it.
WokenByOther(t) ==
    /\ t \in asleep
    /\ asleep' = asleep \ {t}
    /\ UNCHANGED <<permits, queue, ticket, want, held, unsignalled>>

\* try_acquire and try_acquire_all pop cancelled entries also when they fail.
TryAcquire(request) ==
    \E k \in 0 .. Len(wakers) :
        LET w == From(wakers, k) n == next_ticket + k
        IN  /\ Leading(wakers, k)
            /\ wakers' = w /\ next_ticket' = n
            /\ IF MayTake(Nil, request, w, n) THEN Taken(request) ELSE UNCHANGED <<permits, held>>
            /\ UNCHANGED <<ticket, want, asleep, unsignalled>>

\* Who waits, in the order of the tickets.
Waits(t) == want[t] # Nil /\ ticket[t] # Nil
Before(u, t) == Waits(u) /\ ticket[u] < ticket[t]
First(t) == Waits(t) /\ \A u \in Tasks : ~Before(u, t)
NextInLine(t) ==
    {u \in Tasks \ {t} : Waits(u) /\ \A v \in Tasks \ {t} : ~Before(v, u)}

\* The future is dropped, pending or done: cancel clears its entry, if any.
DropFuture(t) ==
    /\ want[t] # Nil \/ ticket[t] # Nil
    /\ wakers' = IF InQueue(ticket[t], wakers, next_ticket)
                 THEN [wakers EXCEPT ![Place(ticket[t], next_ticket)] = Nil] ELSE wakers
    /\ want' = [want EXCEPT ![t] = Nil]
    /\ ticket' = [ticket EXCEPT ![t] = Nil]
    /\ asleep' = asleep \ {t}
    /\ unsignalled' \in IF First(t)
                       THEN IF NextInLine(t) = {} THEN {Nil} ELSE NextInLine(t)
                       ELSE {unsignalled}
    /\ UNCHANGED <<permits, next_ticket, held>>

\* A SemaphoreReleaser of n permits is dropped, or disarmed.
Release(n) ==
    /\ n <= held
    /\ permits' = permits + n
    /\ held' = held - n
    /\ WakeFirst(wakers, next_ticket)
    /\ UNCHANGED <<ticket, want>>

Disarm(n) ==
    /\ n <= held
    /\ held' = held - n
    /\ UNCHANGED <<permits, queue, ticket, want, asleep, unsignalled>>

\* set, and release without a releaser: permits come from outside.
Set(n) ==
    /\ n + held <= MaxPermits
    /\ permits' = n
    /\ IF n > permits THEN WakeFirst(wakers, next_ticket) ELSE UNCHANGED <<queue, asleep, unsignalled>>
    /\ UNCHANGED <<ticket, want, held>>

Next ==
    \/ \E t \in Tasks :
          \/ Poll(t) \/ WokenByOther(t) \/ DropFuture(t)
          \/ \E request \in Requests : Acquire(t, request)
    \/ \E request \in Requests : TryAcquire(request)
    \/ \E n \in 1 .. MaxPermits : Release(n) \/ Disarm(n)
    \/ \E n \in 0 .. MaxPermits : Set(n)

Safety == Init /\ [][Next]_vars

\* An executor polls every task it was asked to poll.
Spec == Safety /\ \A t \in Tasks : WF_vars(Poll(t))

-----------------------------------------------------------------------------
\* Properties.

TypeOK ==
    /\ permits \in Nat /\ next_ticket \in Nat
    /\ wakers \in Seq(Tasks \cup {Nil}) /\ Len(wakers) <= N
    /\ ticket \in [Tasks -> Nat \cup {Nil}]
    /\ want \in [Tasks -> Requests \cup {Nil}]
    /\ held \in Nat
    /\ asleep \subseteq Tasks
    /\ unsignalled \in Tasks \cup {Nil}

\* A ticket leads to the waker of the future that holds it as long as that
\* waits, and to nothing when it is done; every other entry is cancelled.
\* The code that could break it: places that shift with each pop, entries
\* cleared in the middle, a finished future that is dropped much later.
TicketsFindWakers ==
    /\ \A t \in Tasks :
          ticket[t] # Nil =>
              IF want[t] = Nil THEN ~InQueue(ticket[t], wakers, next_ticket)
              ELSE /\ InQueue(ticket[t], wakers, next_ticket)
                   /\ wakers[Place(ticket[t], next_ticket)] = t
    /\ \A i \in 1 .. Len(wakers) :
          wakers[i] # Nil => want[wakers[i]] # Nil /\ ticket[wakers[i]] = next_ticket + i - 1

\* The first in line, if there are enough permits for it, is not asleep,
\* unless the one before it was cancelled and nothing was released since.
NoLostWakeup ==
    /\ \A t \in asleep : Waits(t)
    /\ \A t \in asleep : First(t) /\ want[t].min <= permits => unsignalled = t

\* Permits that are released are "available to be acquired" (semaphore.rs:39):
\* the first in line does not sleep beside permits that are enough for it.
FirstIsWoken == \A t \in asleep : First(t) => want[t].min > permits

\* The line that the tickets make.
Waiting == {t \in Tasks : Waits(t)}
Ahead == [t \in Tasks |-> {u \in Tasks : Waits(t) /\ Before(u, t)}]

L == INSTANCE PermitLine WITH waiting <- Waiting, ahead <- Ahead

\* Tickets, cancelled entries and wakers make a line: permits are granted in
\* its order, whoever joins, gives up or tries without waiting, and the first
\* is served whenever there are enough.
ImplementsLine == L!LineSpec
=============================================================================
