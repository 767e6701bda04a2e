------------------------ MODULE FairSemaphoreProofs ------------------------
(***************************************************************************)
(* For every number of tasks, length of the wait queue and set of          *)
(* requests: the tickets of FairSemaphore lead to the right wakers, the    *)
(* only wakeup it loses is that of a task whose predecessor gave up, and   *)
(* its steps are those of PermitLine.                                      *)
(***************************************************************************)
EXTENDS FairSemaphore, SequenceTheorems, TLAPS

Entries == Tasks \cup {Nil}

\* The queue w, whose first ticket is n, fits the tickets tk of futures wt.
\* A future that is done has a ticket that was passed: it stays without an
\* entry when the queue grows.
Fits(w, n, tk, wt) ==
    /\ w \in Seq(Entries) /\ Len(w) <= N /\ n \in Nat
    /\ \A t \in Tasks :
          tk[t] # Nil =>
              IF wt[t] = Nil THEN tk[t] < n
              ELSE tk[t] >= n /\ Place(tk[t], n) <= Len(w) /\ w[Place(tk[t], n)] = t
    /\ \A i \in 1 .. Len(w) : w[i] # Nil => wt[w[i]] # Nil /\ tk[w[i]] = n + i - 1

IInv == TypeOK /\ Fits(wakers, next_ticket, ticket, want) /\ NoLostWakeup

LEMMA InitEstablishes == Init => IInv
<1> SUFFICES ASSUME Init PROVE IInv
  OBVIOUS
<1>1. wakers \in Seq(Entries) /\ Len(wakers) = 0
  BY EmptySeq DEF Init
<1> QED
  BY <1>1, NumbersAssumption, NilAssumption
  DEF Init, IInv, TypeOK, Fits, NoLostWakeup, Entries, First, Waits

LEMMA FromProperties ==
  ASSUME NEW w \in Seq(Entries), NEW k \in 0 .. Len(w)
  PROVE  /\ From(w, k) \in Seq(Entries)
         /\ Len(From(w, k)) = Len(w) - k
         /\ \A i \in 1 .. Len(w) - k : From(w, k)[i] = w[k + i]
<1>1. Len(w) \in Nat /\ k \in Nat /\ k + 1 \in Int /\ k <= Len(w)
  BY LenProperties
<1>2. \A i \in k + 1 .. Len(w) : w[i] \in Entries
  BY <1>1, ElementOfSeq
<1>3. /\ SubSeq(w, k + 1, Len(w)) \in Seq(Entries)
      /\ Len(SubSeq(w, k + 1, Len(w))) = IF k + 1 <= Len(w) THEN Len(w) - (k + 1) + 1 ELSE 0
      /\ \A i \in 1 .. Len(w) - (k + 1) + 1 : SubSeq(w, k + 1, Len(w))[i] = w[k + 1 + i - 1]
  BY <1>1, <1>2, SubSeqProperties
<1> QED
  BY <1>1, <1>3 DEF From

\* Popping cancelled entries keeps every ticket at its waker.
LEMMA PopKeepsFit ==
  ASSUME NEW w, NEW n, NEW tk \in [Tasks -> Nat \cup {Nil}], NEW wt,
         Fits(w, n, tk, wt), NEW k, Leading(w, k)
  PROVE  /\ Fits(From(w, k), n + k, tk, wt)
         /\ k \in 0 .. Len(w) /\ Len(From(w, k)) = Len(w) - k
         /\ From(w, k) # <<>> => From(w, k)[1] = w[k + 1] /\ w[k + 1] \in Tasks
         /\ From(w, k) = <<>> <=> k = Len(w)
<1> DEFINE v == From(w, k)
<1>1. w \in Seq(Entries) /\ k \in 0 .. Len(w) /\ Len(w) \in Nat /\ n \in Nat /\ Len(w) <= N
  BY LenProperties DEF Fits, Leading
<1>2. v \in Seq(Entries) /\ Len(v) = Len(w) - k /\ \A i \in 1 .. Len(w) - k : v[i] = w[k + i]
  BY <1>1, FromProperties
<1>3. v = <<>> <=> k = Len(w)
  BY <1>1, <1>2, EmptySeq
<1>4. v # <<>> => v[1] = w[k + 1] /\ w[k + 1] \in Tasks
  BY <1>1, <1>2, <1>3, ElementOfSeq DEF Leading, Entries
<1>5. \A t \in Tasks :
         tk[t] # Nil =>
             IF wt[t] = Nil THEN tk[t] < n + k
             ELSE tk[t] >= n + k /\ Place(tk[t], n + k) <= Len(v) /\ v[Place(tk[t], n + k)] = t
  <2> SUFFICES ASSUME NEW t \in Tasks, tk[t] # Nil
               PROVE  IF wt[t] = Nil THEN tk[t] < n + k
                      ELSE tk[t] >= n + k /\ Place(tk[t], n + k) <= Len(v) /\ v[Place(tk[t], n + k)] = t
    OBVIOUS
  <2>1. tk[t] \in Nat /\ t # Nil
    BY NilAssumption
  <2>2. CASE wt[t] = Nil
    BY <2>1, <2>2, <1>1 DEF Fits
  <2>3. CASE wt[t] # Nil
    <3>1. tk[t] >= n /\ tk[t] - n + 1 <= Len(w) /\ w[tk[t] - n + 1] = t
      BY <2>3 DEF Fits, Place
    <3>2. tk[t] - n + 1 > k
      BY <3>1, <2>1, <1>1 DEF Leading
    <3>3. tk[t] - (n + k) + 1 \in 1 .. Len(w) - k /\ k + (tk[t] - (n + k) + 1) = tk[t] - n + 1
      BY <3>1, <3>2, <2>1, <1>1
    <3> QED
      BY <3>1, <3>2, <3>3, <2>3, <2>1, <1>1, <1>2, SMTT(30) DEF Place
  <2> QED
    BY <2>2, <2>3
<1>6. \A i \in 1 .. Len(v) : v[i] # Nil => wt[v[i]] # Nil /\ tk[v[i]] = n + k + i - 1
  BY <1>1, <1>2 DEF Fits
<1> QED
  <2>1. n + k \in Nat /\ Len(v) <= N
    BY <1>1, <1>2, NumbersAssumption
  <2>2. Fits(v, n + k, tk, wt)
    BY <2>1, <1>2, <1>5, <1>6 DEF Fits
  <2> QED
    BY <2>2, <1>1, <1>2, <1>3, <1>4

\* First, for any tickets tk of futures wt, so that it can be said of the
\* state after a step as well.
InLine(t, tk, wt) == wt[t] # Nil /\ tk[t] # Nil
FirstOf(t, tk, wt) ==
    InLine(t, tk, wt) /\ \A u \in Tasks : InLine(u, tk, wt) => ~(tk[u] < tk[t])

LEMMA FirstIsFirstOf ==
  /\ \A t \in Tasks : First(t) <=> FirstOf(t, ticket, want)
  /\ \A t \in Tasks : First(t)' <=> FirstOf(t, ticket', want')
  BY DEF First, Before, Waits, FirstOf, InLine

\* The first live entry is the only one that can be first in line.
LEMMA HeadIsFirst ==
  ASSUME NEW w, NEW n, NEW tk \in [Tasks -> Nat \cup {Nil}], NEW wt,
         Fits(w, n, tk, wt), NEW k, Leading(w, k),
         NEW t \in Tasks, FirstOf(t, tk, wt)
  PROVE  k < Len(w) /\ t = w[k + 1] /\ tk[t] = n + k
<1>1. /\ InLine(t, tk, wt) /\ tk[t] \in Nat /\ n \in Nat
      /\ w \in Seq(Entries) /\ Len(w) \in Nat /\ k \in 0 .. Len(w)
  BY LenProperties, NilAssumption DEF FirstOf, InLine, Fits, Leading
<1>2. tk[t] >= n /\ tk[t] - n + 1 <= Len(w) /\ w[tk[t] - n + 1] = t /\ t # Nil
  BY <1>1, NilAssumption DEF Fits, InLine, Place
<1>3. k < tk[t] - n + 1
  BY <1>1, <1>2 DEF Leading
<1>4. k < Len(w) /\ w[k + 1] # Nil
  BY <1>1, <1>2, <1>3 DEF Leading
<1>5. w[k + 1] \in Tasks /\ InLine(w[k + 1], tk, wt) /\ tk[w[k + 1]] = n + k
  <2>1. w[k + 1] \in Entries
    BY <1>1, <1>4, ElementOfSeq
  <2>2. k + 1 \in 1 .. Len(w) /\ n + (k + 1) - 1 = n + k /\ n + k \in Nat
    BY <1>1, <1>4
  <2> QED
    BY <2>1, <2>2, <1>4, NilAssumption DEF Fits, InLine, Entries
<1>6. ~(tk[w[k + 1]] < tk[t])
  BY <1>5 DEF FirstOf
<1>7. tk[t] = n + k
  BY <1>1, <1>3, <1>5, <1>6, SMTT(30)
<1> QED
  BY <1>1, <1>2, <1>4, <1>7

\* wake leaves a queue that fits and nobody first in line asleep.
LEMMA WakeFirstStep ==
  ASSUME NEW w, NEW n, Fits(w, n, ticket', want'), WakeFirst(w, n),
         ticket' \in [Tasks -> Nat \cup {Nil}], asleep \subseteq Tasks
  PROVE  /\ Fits(wakers', next_ticket', ticket', want')
         /\ asleep' \subseteq asleep /\ unsignalled' = Nil
         /\ \A t \in Tasks : First(t)' => t \notin asleep'
<1>1. PICK k \in 0 .. Len(w) :
        /\ Leading(w, k)
        /\ wakers' = From(w, k) /\ next_ticket' = n + k
        /\ asleep' = IF k < Len(w) THEN asleep \ {w[k + 1]} ELSE asleep
        /\ unsignalled' = Nil
  BY DEF WakeFirst
<1>2. Fits(wakers', next_ticket', ticket', want')
  BY <1>1, PopKeepsFit
<1>3. \A t \in Tasks : First(t)' => k < Len(w) /\ t = w[k + 1]
  BY <1>1, HeadIsFirst, FirstIsFirstOf
<1> QED
  BY <1>1, <1>2, <1>3

-----------------------------------------------------------------------------
\* Nothing but the request of a future that was not polled yet changes.
LEMMA AcquireStep ==
  ASSUME IInv, NEW t \in Tasks, NEW request \in Requests, Acquire(t, request)
  PROVE  IInv'
<1>1. TypeOK'
  BY DEF IInv, TypeOK, Acquire, queue
<1>2. Fits(wakers', next_ticket', ticket', want')
  BY NilAssumption DEF IInv, TypeOK, Fits, Acquire, queue
<1>3. \A u \in Tasks : (Waits(u)' <=> Waits(u)) /\ (Waits(u) => u # t)
  BY DEF IInv, TypeOK, Acquire, Waits
<1>4. NoLostWakeup'
  BY <1>3 DEF IInv, TypeOK, Acquire, NoLostWakeup, First, Before
<1> QED
  BY <1>1, <1>2, <1>4 DEF IInv

LEMMA WokenByOtherStep ==
  ASSUME IInv, NEW t \in Tasks, WokenByOther(t)
  PROVE  IInv'
  BY DEF IInv, TypeOK, Fits, NoLostWakeup, WokenByOther, queue, First, Before, Waits, Place

LEMMA DisarmStep ==
  ASSUME IInv, NEW n \in 1 .. MaxPermits, Disarm(n)
  PROVE  IInv'
  BY NumbersAssumption
  DEF IInv, TypeOK, Fits, NoLostWakeup, Disarm, queue, First, Before, Waits, Place

\* What the conclusions of a step need beside the queue.
LEMMA WokenSuffices ==
  ASSUME IInv, asleep' \subseteq asleep,
         \A t \in asleep' : Waits(t)', \A t \in Tasks : First(t)' => t \notin asleep'
  PROVE  NoLostWakeup'
  BY DEF IInv, TypeOK, NoLostWakeup

LEMMA ReleaseStep ==
  ASSUME IInv, NEW n \in 1 .. MaxPermits, Release(n)
  PROVE  IInv'
<1>1. Fits(wakers, next_ticket, ticket', want')
  BY DEF IInv, Release
<1>2. WakeFirst(wakers, next_ticket) /\ ticket' = ticket /\ want' = want
  BY DEF Release
<1>3. ticket' \in [Tasks -> Nat \cup {Nil}] /\ asleep \subseteq Tasks
  BY <1>2 DEF IInv, TypeOK
<1>4. /\ Fits(wakers', next_ticket', ticket', want')
      /\ asleep' \subseteq asleep /\ unsignalled' = Nil
      /\ \A t \in Tasks : First(t)' => t \notin asleep'
  BY <1>1, <1>2, <1>3, WakeFirstStep
<1>5. TypeOK'
  BY <1>4, NumbersAssumption DEF IInv, TypeOK, Release, Fits, Entries
<1>6. \A t \in asleep' : Waits(t)'
  BY <1>2, <1>4 DEF IInv, NoLostWakeup, Waits
<1>7. NoLostWakeup'
  BY <1>4, <1>6, WokenSuffices
<1> QED
  BY <1>4, <1>5, <1>7 DEF IInv

LEMMA SetStep ==
  ASSUME IInv, NEW n \in 0 .. MaxPermits, Set(n)
  PROVE  IInv'
<1>1. permits' \in Nat /\ held' = held /\ ticket' = ticket /\ want' = want
  BY NumbersAssumption DEF Set
<1>2. CASE n > permits
  <2>1. WakeFirst(wakers, next_ticket) /\ Fits(wakers, next_ticket, ticket', want')
    BY <1>1, <1>2 DEF IInv, Set
  <2>2. /\ Fits(wakers', next_ticket', ticket', want')
        /\ asleep' \subseteq asleep /\ unsignalled' = Nil
        /\ \A t \in Tasks : First(t)' => t \notin asleep'
    BY <1>1, <2>1, WakeFirstStep DEF IInv, TypeOK
  <2>3. TypeOK'
    BY <1>1, <2>2 DEF IInv, TypeOK, Fits, Entries
  <2>4. \A t \in asleep' : Waits(t)'
    BY <1>1, <2>2 DEF IInv, NoLostWakeup, Waits
  <2>5. NoLostWakeup'
    BY <2>2, <2>4, WokenSuffices
  <2> QED
    BY <2>2, <2>3, <2>5 DEF IInv
<1>3. CASE ~(n > permits)
  <2>1. permits' <= permits /\ UNCHANGED <<next_ticket, wakers, ticket, want, held, asleep, unsignalled>>
    BY <1>1, <1>3, NumbersAssumption DEF Set, IInv, TypeOK, queue
  <2>2. TypeOK' /\ Fits(wakers', next_ticket', ticket', want')
    BY <1>1, <2>1 DEF IInv, TypeOK
  <2>3. \A t \in Tasks : First(t)' = First(t) /\ Waits(t)' = Waits(t)
    BY <2>1 DEF First, Before, Waits
  <2>4. \A t \in Tasks : Waits(t) => want[t].min \in Nat
    BY RequestsAssumption DEF IInv, TypeOK, Waits
  <2>5. NoLostWakeup'
    BY <1>1, <2>1, <2>3, <2>4 DEF IInv, TypeOK, NoLostWakeup
  <2> QED
    BY <2>2, <2>5 DEF IInv
<1> QED
  BY <1>2, <1>3

\* A call that does not wait pops cancelled entries, and may take permits.
LEMMA TryAcquireStep ==
  ASSUME IInv, NEW request \in Requests, TryAcquire(request)
  PROVE  IInv'
<1>1. PICK k \in 0 .. Len(wakers) :
        /\ Leading(wakers, k)
        /\ wakers' = From(wakers, k) /\ next_ticket' = next_ticket + k
        /\ \/ Taken(request) /\ request.min <= permits
           \/ UNCHANGED <<permits, held>>
        /\ UNCHANGED <<ticket, want, asleep, unsignalled>>
  BY DEF TryAcquire, MayTake
<1>2. Fits(wakers', next_ticket', ticket', want')
  BY <1>1, PopKeepsFit DEF IInv, TypeOK
<1>3. permits' \in Nat /\ held' \in Nat /\ permits' <= permits
  BY <1>1, RequestsAssumption DEF IInv, TypeOK, Taken, Amount
<1>4. TypeOK'
  BY <1>1, <1>2, <1>3 DEF IInv, TypeOK, Fits, Entries
<1>5. \A t \in Tasks : First(t)' = First(t) /\ Waits(t)' = Waits(t)
  BY <1>1 DEF First, Before, Waits
<1>6. \A t \in Tasks : Waits(t) => want[t].min \in Nat
  BY RequestsAssumption DEF IInv, TypeOK, Waits
<1>7. NoLostWakeup'
  BY <1>1, <1>3, <1>5, <1>6 DEF IInv, TypeOK, NoLostWakeup
<1> QED
  BY <1>2, <1>4, <1>7 DEF IInv

-----------------------------------------------------------------------------
\* Only the entry of the future that is dropped is cleared.
LEMMA DropKeepsFit ==
  ASSUME IInv, NEW t \in Tasks, DropFuture(t)
  PROVE  Fits(wakers', next_ticket', ticket', want')
<1> DEFINE p == Place(ticket[t], next_ticket)
<1>1. /\ wakers \in Seq(Entries) /\ Len(wakers) \in Nat /\ Len(wakers) <= N
      /\ next_ticket \in Nat /\ next_ticket' = next_ticket
      /\ ticket \in [Tasks -> Nat \cup {Nil}] /\ ticket' = [ticket EXCEPT ![t] = Nil]
      /\ want \in [Tasks -> Requests \cup {Nil}] /\ want' = [want EXCEPT ![t] = Nil]
      /\ Fits(wakers, next_ticket, ticket, want)
  BY LenProperties DEF IInv, TypeOK, Fits, DropFuture
<1>2. /\ wakers' \in Seq(Entries) /\ Len(wakers') = Len(wakers)
      /\ \A i \in 1 .. Len(wakers) :
            /\ wakers'[i] = wakers[i] \/ wakers'[i] = Nil
            /\ wakers[i] # t => wakers'[i] = wakers[i]
            /\ wakers[i] = t => wakers'[i] = Nil
  <2>1. CASE InQueue(ticket[t], wakers, next_ticket)
    <3>1. ticket[t] \in Nat /\ p \in 1 .. Len(wakers)
      BY <1>1, <2>1 DEF InQueue, Place
    <3>2. want[t] # Nil /\ wakers[p] = t
      BY <1>1, <2>1, <3>1 DEF Fits, InQueue
    <3>3. wakers' = [wakers EXCEPT ![p] = Nil]
      BY <2>1 DEF DropFuture
    <3>4. \A i \in 1 .. Len(wakers) : wakers[i] = t => i = p
      BY <1>1, <3>1, NilAssumption DEF Fits, Place
    <3>5. /\ wakers' \in Seq(Entries) /\ Len(wakers') = Len(wakers)
          /\ \A i \in 1 .. Len(wakers) : wakers'[i] = IF i = p THEN Nil ELSE wakers[i]
      BY <1>1, <3>1, <3>3, ExceptSeq DEF Entries
    <3> QED
      BY <3>2, <3>4, <3>5
  <2>2. CASE ~InQueue(ticket[t], wakers, next_ticket)
    <3>1. wakers' = wakers
      BY <2>2 DEF DropFuture
    <3>2. ~Waits(t)
      BY <1>1, <2>2 DEF Fits, Waits, InQueue
    <3>3. \A i \in 1 .. Len(wakers) : wakers[i] # t
      BY <1>1, <3>2, NilAssumption DEF Fits, Waits
    <3> QED
      BY <1>1, <3>1, <3>3
  <2> QED
    BY <2>1, <2>2
<1>3. \A u \in Tasks :
         ticket'[u] # Nil =>
             IF want'[u] = Nil THEN ticket'[u] < next_ticket'
             ELSE /\ ticket'[u] >= next_ticket' /\ Place(ticket'[u], next_ticket') <= Len(wakers')
                  /\ wakers'[Place(ticket'[u], next_ticket')] = u
  <2> SUFFICES ASSUME NEW u \in Tasks, ticket'[u] # Nil
               PROVE  IF want'[u] = Nil THEN ticket'[u] < next_ticket'
                      ELSE /\ ticket'[u] >= next_ticket' /\ Place(ticket'[u], next_ticket') <= Len(wakers')
                           /\ wakers'[Place(ticket'[u], next_ticket')] = u
    OBVIOUS
  <2>1. u # t /\ ticket'[u] = ticket[u] /\ want'[u] = want[u] /\ ticket[u] \in Nat
    BY <1>1
  <2>2. CASE want[u] = Nil
    BY <1>1, <2>1, <2>2 DEF Fits
  <2>3. CASE want[u] # Nil
    <3>1. ticket[u] >= next_ticket /\ Place(ticket[u], next_ticket) <= Len(wakers)
          /\ wakers[Place(ticket[u], next_ticket)] = u
      BY <1>1, <2>1, <2>3 DEF Fits
    <3>2. Place(ticket[u], next_ticket) \in 1 .. Len(wakers)
      BY <1>1, <2>1, <3>1 DEF Place
    <3>3. wakers'[Place(ticket[u], next_ticket)] = u
      BY <1>2, <2>1, <3>1, <3>2
    <3> QED
      BY <1>1, <1>2, <2>1, <2>3, <3>1, <3>3
  <2> QED
    BY <2>2, <2>3
<1>4. \A i \in 1 .. Len(wakers') :
         wakers'[i] # Nil => want'[wakers'[i]] # Nil /\ ticket'[wakers'[i]] = next_ticket' + i - 1
  <2> SUFFICES ASSUME NEW i \in 1 .. Len(wakers'), wakers'[i] # Nil
               PROVE  want'[wakers'[i]] # Nil /\ ticket'[wakers'[i]] = next_ticket' + i - 1
    OBVIOUS
  <2>1. wakers'[i] = wakers[i] /\ wakers[i] # t /\ wakers[i] \in Tasks /\ i \in 1 .. Len(wakers)
    BY <1>1, <1>2, ElementOfSeq DEF Entries
  <2>2. want[wakers[i]] # Nil /\ ticket[wakers[i]] = next_ticket + i - 1
    BY <1>1, <2>1 DEF Fits
  <2> QED
    BY <1>1, <2>1, <2>2
<1> QED
  BY <1>1, <1>2, <1>3, <1>4 DEF Fits

\* Two who wait have different tickets.
LEMMA TicketsDiffer ==
  ASSUME Fits(wakers, next_ticket, ticket, want),
         NEW t \in Tasks, NEW u \in Tasks, Waits(t), Waits(u), ticket[t] = ticket[u]
  PROVE  t = u
  BY DEF Fits, Waits

\* Who was asleep and is first after the drop was first before it, or comes
\* next in line after the one that is dropped.
LEMMA DropFutureStep ==
  ASSUME IInv, NEW t \in Tasks, DropFuture(t)
  PROVE  IInv'
<1>1. Fits(wakers', next_ticket', ticket', want')
  BY DropKeepsFit
<1>2. /\ permits' = permits /\ held' = held /\ asleep' = asleep \ {t}
      /\ ticket' = [ticket EXCEPT ![t] = Nil] /\ want' = [want EXCEPT ![t] = Nil]
      /\ ticket \in [Tasks -> Nat \cup {Nil}] /\ want \in [Tasks -> Requests \cup {Nil}]
  BY DEF IInv, TypeOK, DropFuture
<1>3. unsignalled' \in Tasks \cup {Nil}
  BY DEF IInv, TypeOK, DropFuture, NextInLine
<1>4. TypeOK'
  BY <1>1, <1>2, <1>3 DEF IInv, TypeOK, Fits, Entries
<1>5. /\ ~Waits(t)'
      /\ \A u \in Tasks \ {t} : (Waits(u)' <=> Waits(u)) /\ ticket'[u] = ticket[u] /\ want'[u] = want[u]
  BY <1>2 DEF Waits
<1>6. ASSUME NEW u \in asleep', First(u)', want'[u].min <= permits'
      PROVE  unsignalled' = u
  <2>1. u \in asleep /\ u \in Tasks \ {t} /\ Waits(u) /\ want[u].min <= permits
    BY <1>2, <1>5, <1>6 DEF IInv, TypeOK, NoLostWakeup
  <2>2. \A v \in Tasks \ {t} : ~Before(v, u)
    BY <1>5, <1>6, <2>1 DEF First, Before
  <2>3. CASE First(t)
    <3>1. u \in NextInLine(t)
      BY <2>1, <2>2 DEF NextInLine
    <3>2. unsignalled' \in NextInLine(t)
      BY <2>3, <3>1 DEF DropFuture
    <3>3. /\ unsignalled' \in Tasks /\ Waits(unsignalled')
          /\ ~Before(u, unsignalled') /\ ~Before(unsignalled', u)
      BY <2>1, <2>2, <3>1, <3>2 DEF NextInLine
    <3>4. ticket[u] = ticket[unsignalled']
      BY <1>2, <2>1, <3>3 DEF Before, Waits
    <3> QED
      BY <2>1, <3>3, <3>4, TicketsDiffer DEF IInv
  <2>4. CASE ~First(t)
    <3>1. unsignalled' = unsignalled
      BY <2>4 DEF DropFuture
    <3>2. ~Before(t, u)
      <4> SUFFICES ASSUME Before(t, u) PROVE FALSE
        OBVIOUS
      <4>1. PICK v \in Tasks : Before(v, t)
        BY <2>4 DEF First, Before
      <4>2. ticket[v] \in Nat /\ ticket[t] \in Nat /\ ticket[u] \in Nat
        BY <1>2, <2>1, <4>1 DEF Before, Waits
      <4>3. v # t /\ Before(v, u)
        BY <4>1, <4>2 DEF Before
      <4> QED
        BY <2>2, <4>3
    <3>3. First(u)
      BY <2>1, <2>2, <3>2 DEF First
    <3> QED
      BY <2>1, <3>1, <3>3 DEF IInv, NoLostWakeup
  <2> QED
    BY <2>3, <2>4
<1>7. \A u \in asleep' : Waits(u)'
  BY <1>2, <1>5 DEF IInv, TypeOK, NoLostWakeup
<1> QED
  BY <1>1, <1>4, <1>6, <1>7 DEF IInv, NoLostWakeup

-----------------------------------------------------------------------------
\* The first future in line takes its permits and leaves the queue.
LEMMA HeadLeaves ==
  ASSUME IInv, NEW w, NEW n, Fits(w, n, ticket, want),
         NEW t \in Tasks, want[t] # Nil, ticket[t] = n, want' = [want EXCEPT ![t] = Nil],
         ticket' = ticket
  PROVE  Fits(Tail(w), n + 1, ticket', want')
<1>1. /\ w \in Seq(Entries) /\ Len(w) \in Nat /\ Len(w) <= N /\ n \in Nat
      /\ ticket \in [Tasks -> Nat \cup {Nil}] /\ want \in [Tasks -> Requests \cup {Nil}]
  BY LenProperties DEF IInv, TypeOK, Fits
<1>2. ticket[t] # Nil /\ Place(ticket[t], n) = 1
  BY <1>1, NilAssumption DEF Place
<1>3. 1 <= Len(w) /\ w[1] = t
  BY <1>2 DEF Fits
<1>4. /\ Tail(w) \in Seq(Entries) /\ Len(Tail(w)) = Len(w) - 1
      /\ \A i \in 1 .. Len(w) - 1 : Tail(w)[i] = w[i + 1]
  BY <1>1, <1>3, HeadTailProperties, EmptySeq
<1>5. ASSUME NEW u \in Tasks, ticket[u] # Nil
      PROVE  IF want'[u] = Nil THEN ticket[u] < n + 1
             ELSE /\ ticket[u] >= n + 1 /\ Place(ticket[u], n + 1) <= Len(Tail(w))
                  /\ Tail(w)[Place(ticket[u], n + 1)] = u
  <2>1. CASE u = t
    BY <1>1, <2>1
  <2>2. CASE u # t /\ want[u] = Nil
    BY <1>1, <1>5, <2>2 DEF Fits
  <2>3. CASE u # t /\ want[u] # Nil
    <3>1. ticket[u] \in Nat /\ ticket[u] >= n /\ ticket[u] - n + 1 <= Len(w) /\ w[ticket[u] - n + 1] = u
      BY <1>1, <1>5, <2>3 DEF Fits, Place
    <3>2. ticket[u] # n
      BY <1>1, <1>3, <2>3, <3>1
    <3>3. /\ ticket[u] - (n + 1) + 1 \in 1 .. Len(w) - 1
          /\ ticket[u] - (n + 1) + 1 + 1 = ticket[u] - n + 1
      BY <1>1, <3>1, <3>2
    <3> QED
      BY <1>1, <1>4, <2>3, <3>1, <3>2, <3>3 DEF Place
  <2> QED
    BY <2>1, <2>2, <2>3
<1>6. ASSUME NEW i \in 1 .. Len(Tail(w)), Tail(w)[i] # Nil
      PROVE  want'[Tail(w)[i]] # Nil /\ ticket[Tail(w)[i]] = n + 1 + i - 1
  <2>1. Tail(w)[i] = w[i + 1] /\ i + 1 \in 1 .. Len(w) /\ w[i + 1] \in Tasks
    BY <1>1, <1>4, <1>6, ElementOfSeq DEF Entries
  <2>2. want[w[i + 1]] # Nil /\ ticket[w[i + 1]] = n + (i + 1) - 1
    BY <1>6, <2>1 DEF Fits
  <2>3. w[i + 1] # t
    BY <1>1, <1>4, <2>2
  <2> QED
    BY <1>1, <2>1, <2>2, <2>3
<1>7. Len(Tail(w)) <= N /\ n + 1 \in Nat
  BY <1>1, <1>4, NumbersAssumption
<1> QED
  BY <1>4, <1>5, <1>6, <1>7 DEF Fits

LEMMA GrantedStep ==
  ASSUME IInv, NEW t \in Tasks, want[t] # Nil, t \notin asleep,
         NEW w, NEW n, Fits(w, n, ticket, want), Granted(t, w, n)
  PROVE  IInv'
<1>1. /\ ticket \in [Tasks -> Nat \cup {Nil}] /\ want \in [Tasks -> Requests \cup {Nil}]
      /\ ticket' = ticket /\ want' = [want EXCEPT ![t] = Nil]
      /\ want[t] \in Requests /\ want[t].min \in Nat \ {0} /\ want[t].min <= permits
      /\ permits \in Nat /\ held \in Nat /\ asleep \subseteq Tasks
      /\ permits' = permits - Amount(want[t]) /\ held' = held + Amount(want[t])
  BY RequestsAssumption DEF IInv, TypeOK, Granted, MayTake, Taken
<1>2. permits' \in Nat /\ held' \in Nat /\ (Amount(want[t]) >= permits => permits' = 0)
  BY <1>1 DEF Amount
<1>3. \A u \in asleep : Waits(u)'
  BY <1>1 DEF IInv, TypeOK, NoLostWakeup, Waits
<1>4. \A u \in asleep : want'[u].min \in Nat \ {0}
  BY <1>1, <1>3, RequestsAssumption DEF Waits
<1>5. CASE ticket[t] = Nil
  <2>1. w = <<>> /\ wakers' = w /\ next_ticket' = n /\ unsignalled' = Nil /\ asleep' = asleep
    BY <1>5 DEF Granted, MayTake
  <2>2. Fits(wakers', next_ticket', ticket', want')
    BY <1>1, <1>5, <2>1, NilAssumption DEF Fits
  <2>3. \A u \in Tasks : ~Waits(u)
    BY <1>1, <2>1, EmptySeq DEF Fits, Waits, Place
  <2>4. asleep' = {}
    BY <2>1, <2>3 DEF IInv, TypeOK, NoLostWakeup
  <2>5. TypeOK'
    BY <1>1, <1>2, <2>1, <2>2 DEF IInv, TypeOK, Fits, Entries
  <2> QED
    BY <2>2, <2>4, <2>5 DEF IInv, NoLostWakeup
<1>6. CASE ticket[t] # Nil
  <2>1. ticket[t] = n
    BY <1>6 DEF Granted, MayTake
  <2>2. Fits(Tail(w), n + 1, ticket', want')
    BY <1>1, <2>1, HeadLeaves
  <2>3. CASE Amount(want[t]) < permits
    <3>1. WakeFirst(Tail(w), n + 1)
      BY <1>6, <2>3 DEF Granted
    <3>2. /\ Fits(wakers', next_ticket', ticket', want')
          /\ asleep' \subseteq asleep /\ unsignalled' = Nil
          /\ \A u \in Tasks : First(u)' => u \notin asleep'
      BY <1>1, <2>2, <3>1, WakeFirstStep
    <3>3. TypeOK'
      BY <1>1, <1>2, <3>2 DEF IInv, TypeOK, Fits, Entries
    <3>4. NoLostWakeup'
      BY <1>3, <3>2, WokenSuffices
    <3> QED
      BY <3>2, <3>3, <3>4 DEF IInv
  <2>4. CASE ~(Amount(want[t]) < permits)
    <3>1. wakers' = Tail(w) /\ next_ticket' = n + 1 /\ unsignalled' = Nil /\ asleep' = asleep
      BY <1>6, <2>4 DEF Granted
    <3>2. permits' = 0
      BY <1>1, <1>2, <2>4 DEF Amount
    <3>3. TypeOK'
      BY <1>1, <1>2, <2>2, <3>1 DEF IInv, TypeOK, Fits, Entries
    <3>4. \A u \in asleep' : Waits(u)' /\ ~(want'[u].min <= permits')
      BY <1>3, <1>4, <3>1, <3>2
    <3>5. NoLostWakeup'
      BY <3>4 DEF NoLostWakeup
    <3> QED
      BY <2>2, <3>1, <3>3, <3>5 DEF IInv
  <2> QED
    BY <2>3, <2>4
<1> QED
  BY <1>5, <1>6

\* A newcomer gets the ticket of the place at the end.
LEMMA AppendKeepsFit ==
  ASSUME IInv, NEW w, NEW n, Fits(w, n, ticket, want), Len(w) < N,
         NEW t \in Tasks, want[t] # Nil, ticket[t] = Nil,
         ticket' = [ticket EXCEPT ![t] = n + Len(w)], want' = want
  PROVE  Fits(Append(w, t), n, ticket', want')
<1>1. /\ w \in Seq(Entries) /\ Len(w) \in Nat /\ n \in Nat
      /\ ticket \in [Tasks -> Nat \cup {Nil}] /\ t \in Entries /\ N \in Nat
  BY LenProperties, NumbersAssumption DEF IInv, TypeOK, Fits, Entries
<1>2. /\ Append(w, t) \in Seq(Entries) /\ Len(Append(w, t)) = Len(w) + 1
      /\ \A i \in 1 .. Len(w) : Append(w, t)[i] = w[i]
      /\ Append(w, t)[Len(w) + 1] = t
  BY <1>1, AppendProperties
<1>3. ASSUME NEW u \in Tasks, ticket'[u] # Nil
      PROVE  IF want[u] = Nil THEN ticket'[u] < n
             ELSE /\ ticket'[u] >= n /\ Place(ticket'[u], n) <= Len(Append(w, t))
                  /\ Append(w, t)[Place(ticket'[u], n)] = u
  <2>1. CASE u = t
    <3>1. ticket'[u] = n + Len(w) /\ n + Len(w) - n + 1 = Len(w) + 1
      BY <1>1, <2>1
    <3> QED
      BY <1>1, <1>2, <2>1, <3>1 DEF Place
  <2>2. CASE u # t /\ want[u] = Nil
    BY <1>1, <1>3, <2>2 DEF Fits
  <2>3. CASE u # t /\ want[u] # Nil
    <3>1. ticket'[u] = ticket[u] /\ ticket[u] \in Nat
      BY <1>1, <1>3, <2>3
    <3>2. ticket[u] >= n /\ Place(ticket[u], n) <= Len(w) /\ w[Place(ticket[u], n)] = u
      BY <1>3, <2>3, <3>1 DEF Fits
    <3>3. Place(ticket[u], n) \in 1 .. Len(w)
      BY <1>1, <3>1, <3>2 DEF Place
    <3> QED
      BY <1>1, <1>2, <2>3, <3>1, <3>2, <3>3
  <2> QED
    BY <2>1, <2>2, <2>3
<1>4. ASSUME NEW i \in 1 .. Len(Append(w, t)), Append(w, t)[i] # Nil
      PROVE  want[Append(w, t)[i]] # Nil /\ ticket'[Append(w, t)[i]] = n + i - 1
  <2>1. CASE i = Len(w) + 1
    BY <1>1, <1>2, <2>1
  <2>2. CASE i \in 1 .. Len(w)
    <3>1. Append(w, t)[i] = w[i] /\ w[i] # Nil /\ w[i] \in Tasks
      BY <1>1, <1>2, <1>4, <2>2, ElementOfSeq DEF Entries
    <3>2. want[w[i]] # Nil /\ ticket[w[i]] = n + i - 1 /\ ticket[w[i]] \in Nat
      BY <1>1, <2>2, <3>1 DEF Fits
    <3>3. w[i] # t
      BY <1>1, <3>2, NilAssumption
    <3> QED
      BY <1>1, <3>1, <3>2, <3>3
  <2> QED
    BY <1>1, <1>2, <1>4, <2>1, <2>2
<1>5. Len(Append(w, t)) <= N
  BY <1>1, <1>2
<1> QED
  BY <1>1, <1>2, <1>3, <1>4, <1>5 DEF Fits

LEMMA NewcomerStep ==
  ASSUME IInv, NEW t \in Tasks, want[t] # Nil, ticket[t] = Nil,
         NEW w, NEW n, Fits(w, n, ticket, want), w # <<>> => w[1] # Nil,
         Registered(t, w, n)
  PROVE  IInv'
<1>1. /\ ticket' = [ticket EXCEPT ![t] = n + Len(w)] /\ wakers' = Append(w, t)
      /\ next_ticket' = n /\ asleep' = asleep \cup {t} /\ Len(w) < N
      /\ UNCHANGED <<permits, want, held, unsignalled>>
  BY DEF Registered
<1>2. /\ w \in Seq(Entries) /\ Len(w) \in Nat /\ n \in Nat
      /\ ticket \in [Tasks -> Nat \cup {Nil}] /\ want \in [Tasks -> Requests \cup {Nil}]
  BY LenProperties DEF IInv, TypeOK, Fits
<1>3. Fits(wakers', next_ticket', ticket', want')
  BY <1>1, AppendKeepsFit
<1>4. TypeOK'
  BY <1>1, <1>2, <1>3 DEF IInv, TypeOK, Fits, Entries
<1>5. /\ \A u \in Tasks \ {t} : (Waits(u)' <=> Waits(u)) /\ ticket'[u] = ticket[u]
      /\ Waits(t)' /\ ticket'[t] = n + Len(w) /\ ~Waits(t)
  BY <1>1, <1>2, NilAssumption DEF Waits
<1>6. ASSUME NEW u \in asleep', First(u)', want'[u].min <= permits'
      PROVE  unsignalled' = u
  <2>1. CASE u = t
    <3>1. w # <<>>
      BY <1>1, <1>6, <2>1 DEF Registered, MayTake
    <3>2. Len(w) >= 1 /\ w[1] \in Tasks
      BY <1>2, <3>1, EmptySeq, ElementOfSeq DEF Entries
    <3>3. want[w[1]] # Nil /\ ticket[w[1]] = n
      BY <1>2, <3>1, <3>2 DEF Fits
    <3>4. w[1] # t /\ Waits(w[1]) /\ ticket[w[1]] < n + Len(w)
      BY <1>2, <3>2, <3>3, NilAssumption DEF Waits
    <3>5. Before(w[1], t)'
      BY <1>5, <3>2, <3>4 DEF Before
    <3> QED
      BY <1>6, <2>1, <3>2, <3>5 DEF First
  <2>2. CASE u # t
    <3>1. u \in asleep /\ u \in Tasks \ {t} /\ want[u].min <= permits
      BY <1>1, <1>6, <2>2 DEF IInv, TypeOK
    <3>2. First(u)
      BY <1>5, <1>6, <3>1 DEF First, Before
    <3> QED
      BY <1>1, <3>1, <3>2 DEF IInv, NoLostWakeup
  <2> QED
    BY <2>1, <2>2
<1>7. \A u \in asleep' : Waits(u)'
  BY <1>1, <1>5 DEF IInv, TypeOK, NoLostWakeup
<1> QED
  BY <1>3, <1>4, <1>6, <1>7 DEF IInv, NoLostWakeup

\* A future that waits and cannot take registers in its own place, again.
LEMMA RegisteredAgainStep ==
  ASSUME IInv, NEW t \in Tasks, want[t] # Nil, ticket[t] # Nil,
         NEW w, NEW n, Fits(w, n, ticket, want), Leading(w, 0),
         Registered(t, w, n)
  PROVE  IInv'
<1>1. /\ next_ticket' = n /\ asleep' = asleep \cup {t}
      /\ UNCHANGED <<permits, want, held, unsignalled, ticket>>
  BY DEF Registered
<1>2. /\ w \in Seq(Entries) /\ Len(w) \in Nat /\ n \in Nat
      /\ ticket \in [Tasks -> Nat \cup {Nil}] /\ want \in [Tasks -> Requests \cup {Nil}]
  BY LenProperties DEF IInv, TypeOK, Fits
<1>3. wakers' = w
  <2>1. /\ ticket[t] \in Nat /\ Place(ticket[t], n) \in 1 .. Len(w)
        /\ InQueue(ticket[t], w, n) /\ w[Place(ticket[t], n)] = t
    BY <1>2 DEF Fits, InQueue, Place
  <2>2. wakers' = [w EXCEPT ![Place(ticket[t], n)] = t]
    BY <2>1 DEF Registered
  <2>3. /\ wakers' \in Seq(Entries) /\ Len(wakers') = Len(w)
        /\ \A i \in 1 .. Len(w) : wakers'[i] = w[i]
    BY <1>2, <2>1, <2>2, ExceptSeq DEF Entries
  <2> QED
    BY <1>2, <2>3, SeqEqual
<1>4. Fits(wakers', next_ticket', ticket', want')
  BY <1>1, <1>3
<1>5. TypeOK'
  BY <1>1, <1>4 DEF IInv, TypeOK, Fits, Entries
<1>6. \A u \in Tasks : (First(u)' <=> First(u)) /\ (Waits(u)' <=> Waits(u))
  BY <1>1 DEF First, Before, Waits
<1>7. ASSUME First(t), want[t].min <= permits
      PROVE  FALSE
  <2>1. ticket[t] = n + 0
    BY <1>2, <1>7, HeadIsFirst, FirstIsFirstOf
  <2> QED
    BY <1>2, <1>7, <2>1 DEF Registered, MayTake
<1>8. \A u \in asleep' : First(u)' /\ want'[u].min <= permits' => unsignalled' = u
  BY <1>1, <1>6, <1>7 DEF IInv, TypeOK, NoLostWakeup
<1>9. \A u \in asleep' : Waits(u)'
  BY <1>1, <1>6 DEF IInv, TypeOK, NoLostWakeup, Waits
<1> QED
  BY <1>4, <1>5, <1>8, <1>9 DEF IInv, NoLostWakeup

LEMMA RefusedStep ==
  ASSUME IInv, NEW t \in Tasks, NEW w, NEW n, Fits(w, n, ticket, want), Refused(t, w, n)
  PROVE  IInv'
<1>1. /\ ticket[t] = Nil /\ want' = [want EXCEPT ![t] = Nil]
      /\ wakers' = w /\ next_ticket' = n
      /\ UNCHANGED <<permits, ticket, held, asleep, unsignalled>>
  BY DEF Refused
<1>2. /\ w \in Seq(Entries) /\ n \in Nat
      /\ ticket \in [Tasks -> Nat \cup {Nil}] /\ want \in [Tasks -> Requests \cup {Nil}]
  BY DEF IInv, TypeOK, Fits
<1>3. Fits(wakers', next_ticket', ticket', want')
  BY <1>1, <1>2, NilAssumption DEF Fits
<1>4. TypeOK'
  BY <1>1, <1>2, <1>3 DEF IInv, TypeOK, Fits, Entries
<1>5. \A u \in Tasks : (Waits(u)' <=> Waits(u)) /\ (Waits(u) => u # t)
  BY <1>1, <1>2 DEF Waits
<1>6. NoLostWakeup'
  BY <1>1, <1>2, <1>5 DEF IInv, TypeOK, NoLostWakeup, First, Before
<1> QED
  BY <1>3, <1>4, <1>6 DEF IInv

LEMMA PollStep ==
  ASSUME IInv, NEW t \in Tasks, Poll(t)
  PROVE  IInv'
<1>1. want[t] # Nil /\ t \notin asleep
  BY DEF Poll
<1>2. PICK k \in 0 .. Len(wakers) :
        /\ Leading(wakers, k)
        /\ \/ Granted(t, From(wakers, k), next_ticket + k)
           \/ Registered(t, From(wakers, k), next_ticket + k)
           \/ Refused(t, From(wakers, k), next_ticket + k)
  BY DEF Poll
<1> DEFINE w == From(wakers, k)
           n == next_ticket + k
<1>3. Fits(w, n, ticket, want) /\ (w # <<>> => w[1] # Nil)
  <2>1. /\ Fits(wakers, next_ticket, ticket, want)
        /\ ticket \in [Tasks -> Nat \cup {Nil}] /\ wakers \in Seq(Entries)
    BY DEF IInv, TypeOK, Entries
  <2> QED
    BY <1>2, <2>1, PopKeepsFit, NilAssumption
<1>4. Leading(w, 0)
  <2>1. w \in Seq(Entries) /\ Len(w) \in Nat
    BY <1>3, LenProperties DEF Fits
  <2>2. 0 < Len(w) => w # <<>>
    BY <2>1, EmptySeq
  <2> QED
    BY <1>3, <2>1, <2>2 DEF Leading
<1> HIDE DEF w, n
<1>5. CASE Granted(t, w, n)
  BY <1>1, <1>3, <1>5, GrantedStep
<1>6. CASE Registered(t, w, n) /\ ticket[t] = Nil
  BY <1>1, <1>3, <1>6, NewcomerStep
<1>7. CASE Registered(t, w, n) /\ ticket[t] # Nil
  BY <1>1, <1>3, <1>4, <1>7, RegisteredAgainStep
<1>8. CASE Refused(t, w, n)
  BY <1>3, <1>8, RefusedStep
<1> QED
  BY <1>2, <1>5, <1>6, <1>7, <1>8 DEF w, n

-----------------------------------------------------------------------------
LEMMA NextStep == IInv /\ [Next]_vars => IInv'
<1> SUFFICES ASSUME IInv, [Next]_vars PROVE IInv'
  OBVIOUS
<1>1. ASSUME NEW t \in Tasks, Poll(t) PROVE IInv'
  BY <1>1, PollStep
<1>2. ASSUME NEW t \in Tasks, WokenByOther(t) PROVE IInv'
  BY <1>2, WokenByOtherStep
<1>3. ASSUME NEW t \in Tasks, DropFuture(t) PROVE IInv'
  BY <1>3, DropFutureStep
<1>4. ASSUME NEW t \in Tasks, NEW request \in Requests, Acquire(t, request) PROVE IInv'
  BY <1>4, AcquireStep
<1>5. ASSUME NEW request \in Requests, TryAcquire(request) PROVE IInv'
  BY <1>5, TryAcquireStep
<1>6. ASSUME NEW n \in 1 .. MaxPermits, Release(n) PROVE IInv'
  BY <1>6, ReleaseStep
<1>7. ASSUME NEW n \in 1 .. MaxPermits, Disarm(n) PROVE IInv'
  BY <1>7, DisarmStep
<1>8. ASSUME NEW n \in 0 .. MaxPermits, Set(n) PROVE IInv'
  BY <1>8, SetStep
<1>9. CASE UNCHANGED vars
  BY <1>9 DEF vars, IInv, TypeOK, Fits, NoLostWakeup, First, Before, Waits, Place
<1> QED
  BY <1>1, <1>2, <1>3, <1>4, <1>5, <1>6, <1>7, <1>8, <1>9 DEF Next

LEMMA Invariance == Spec => []IInv
  BY InitEstablishes, NextStep, PTL DEF Spec, Safety

\* FairSemaphoreState keeps at most N wakers, counts of permits that are
\* never negative and tickets that are numbers.
THEOREM TypeCorrect == Spec => []TypeOK
<1>1. IInv => TypeOK
  BY DEF IInv
<1> QED
  BY <1>1, Invariance, PTL

\* The place of a waker is always the distance of its ticket to next_ticket,
\* however many entries were popped before it or cleared around it.
THEOREM TicketsFindWakersAlways == Spec => []TicketsFindWakers
<1>1. IInv => TicketsFindWakers
  <2> SUFFICES ASSUME IInv PROVE TicketsFindWakers
    OBVIOUS
  <2>1. Fits(wakers, next_ticket, ticket, want) /\ ticket \in [Tasks -> Nat \cup {Nil}]
    BY DEF IInv, TypeOK
  <2> QED
    BY <2>1 DEF Fits, TicketsFindWakers, InQueue
<1> QED
  BY <1>1, Invariance, PTL

\* A future that could take its permits is polled again, unless it became
\* first because the one before it was dropped.
THEOREM NoLostWakeupAlways == Spec => []NoLostWakeup
<1>1. IInv => NoLostWakeup
  BY DEF IInv
<1> QED
  BY <1>1, Invariance, PTL

-----------------------------------------------------------------------------
\* The steps of FairSemaphore are those of PermitLine.

\* The line stays as it is as long as tickets and requests do.
LEMMA LineStays ==
  ASSUME UNCHANGED <<ticket, want>>
  PROVE  UNCHANGED L!line
  BY DEF L!line, Waiting, Ahead, Waits, Before

\* A future that is done or dropped leaves the line.
LEMMA LineLeft ==
  ASSUME IInv, NEW t \in Tasks, want[t] # Nil,
         want' = [want EXCEPT ![t] = Nil],
         \A u \in Tasks \ {t} : ticket'[u] = ticket[u]
  PROVE  L!Leave(t)
<1>1. want \in [Tasks -> Requests \cup {Nil}] /\ want'[t] = Nil
      /\ \A u \in Tasks \ {t} : want'[u] = want[u]
  BY DEF IInv, TypeOK
<1>2. ~Waits(t)' /\ \A u \in Tasks \ {t} : Waits(u)' <=> Waits(u)
  BY <1>1 DEF Waits
<1>3. Waiting' = Waiting \ {t}
  BY <1>2 DEF Waiting
<1>4. \A u \in Tasks, v \in Tasks :
        Waits(u)' /\ Before(v, u)' <=> Waits(u) /\ Before(v, u) /\ u # t /\ v # t
  BY <1>2 DEF Before
<1>5. Ahead' = [u \in Tasks |-> IF u = t THEN {} ELSE Ahead[u] \ {t}]
  <2>1. ASSUME NEW u \in Tasks
        PROVE  {v \in Tasks : Waits(u)' /\ Before(v, u)'}
               = IF u = t THEN {} ELSE {v \in Tasks : Waits(u) /\ Before(v, u)} \ {t}
    BY <1>4
  <2> QED
    BY <2>1 DEF Ahead
<1> QED
  BY <1>3, <1>5 DEF L!Leave

\* A future without a ticket joins at the end.
LEMMA LineJoined ==
  ASSUME IInv, NEW t \in Tasks, want[t] # Nil, ticket[t] = Nil, UNCHANGED want,
         NEW m \in Nat, ticket' = [ticket EXCEPT ![t] = m],
         \A u \in Tasks : Waits(u) => ticket[u] < m
  PROVE  /\ t \notin Waiting /\ Waiting' = Waiting \cup {t}
         /\ Ahead' = [Ahead EXCEPT ![t] = Waiting]
<1>1. ticket \in [Tasks -> Nat \cup {Nil}] /\ ticket'[t] = m
      /\ \A u \in Tasks \ {t} : ticket'[u] = ticket[u]
  BY DEF IInv, TypeOK
<1>2. ~Waits(t) /\ Waits(t)' /\ \A u \in Tasks \ {t} : Waits(u)' <=> Waits(u)
  BY <1>1, NilAssumption DEF Waits
<1>3. t \notin Waiting /\ Waiting' = Waiting \cup {t}
  BY <1>2 DEF Waiting
<1>4. \A u \in Tasks : Waits(u) => ticket[u] \in Nat
  BY <1>1 DEF Waits
<1>5. \A u \in Tasks : Before(u, t)' <=> Waits(u)
  BY <1>1, <1>2, <1>4 DEF Before
<1>6. \A u \in Tasks \ {t}, v \in Tasks :
        Waits(u)' /\ Before(v, u)' <=> Waits(u) /\ Before(v, u)
  BY <1>1, <1>2, <1>4 DEF Before
<1>7. ASSUME NEW u \in Tasks
      PROVE  Ahead'[u] = [Ahead EXCEPT ![t] = Waiting][u]
  BY <1>2, <1>5, <1>6 DEF Ahead, Waiting
<1>8. Ahead' = [Ahead EXCEPT ![t] = Waiting]
  BY <1>7 DEF Ahead
<1> QED
  BY <1>3, <1>8

\* A queue without entries has nobody in line, and whoever has its first
\* ticket is the first in line.
LEMMA FrontIsFirst ==
  ASSUME IInv, NEW w, NEW n, Fits(w, n, ticket, want)
  PROVE  /\ w = <<>> => Waiting = {}
         /\ \A t \in Tasks : want[t] # Nil /\ ticket[t] = n => L!IsFirst(t)
<1>1. ticket \in [Tasks -> Nat \cup {Nil}] /\ n \in Nat /\ n # Nil
  BY NilAssumption DEF IInv, TypeOK, Fits
<1>2. \A u \in Tasks : Waits(u) => ticket[u] \in Nat /\ ticket[u] >= n /\ ticket[u] - n + 1 <= Len(w)
  BY <1>1 DEF Fits, Waits, Place
<1>3. w = <<>> => Waiting = {}
  BY <1>1, <1>2, EmptySeq DEF Waiting
<1>4. ASSUME NEW t \in Tasks, want[t] # Nil, ticket[t] = n
      PROVE  L!IsFirst(t)
  BY <1>1, <1>2, <1>4 DEF L!IsFirst, Waiting, Ahead, Waits, Before
<1> QED
  BY <1>3, <1>4

LEMMA TakenIsTake ==
  ASSUME NEW request, request.min <= permits, Taken(request)
  PROVE  L!Take(request)
  BY DEF Taken, L!Take, Amount, L!Amount

LEMMA PollRefines ==
  ASSUME IInv, NEW t \in Tasks, Poll(t)
  PROVE  L!Grant(t) \/ L!LineUp(t) \/ L!GiveUp(t) \/ UNCHANGED L!lvars
<1>1. want[t] # Nil /\ want \in [Tasks -> Requests \cup {Nil}]
      /\ ticket \in [Tasks -> Nat \cup {Nil}]
  BY DEF Poll, IInv, TypeOK
<1>2. PICK k \in 0 .. Len(wakers) :
        /\ Leading(wakers, k)
        /\ \/ Granted(t, From(wakers, k), next_ticket + k)
           \/ Registered(t, From(wakers, k), next_ticket + k)
           \/ Refused(t, From(wakers, k), next_ticket + k)
  BY DEF Poll
<1> DEFINE w == From(wakers, k)
           n == next_ticket + k
<1>3. Fits(w, n, ticket, want)
  <2>1. Fits(wakers, next_ticket, ticket, want)
    BY DEF IInv
  <2> QED
    BY <1>1, <1>2, <2>1, PopKeepsFit
<1> HIDE DEF w, n
<1>4. CASE Granted(t, w, n)
  <2>1. L!Take(want[t])
    BY <1>4, TakenIsTake DEF Granted, MayTake
  <2>2. L!Leave(t)
    BY <1>1, <1>4, LineLeft DEF Granted
  <2>3. Waiting = {} \/ L!IsFirst(t)
    BY <1>1, <1>3, <1>4, FrontIsFirst DEF Granted, MayTake
  <2>4. unsignalled' = Nil
    BY <1>4 DEF Granted, WakeFirst
  <2> QED
    BY <2>1, <2>2, <2>3, <2>4 DEF L!Grant
<1>5. CASE Registered(t, w, n) /\ ticket[t] = Nil
  <2>1. n \in Nat /\ Len(w) \in Nat /\ n + Len(w) \in Nat
    BY <1>3, LenProperties DEF Fits
  <2>2. ticket' = [ticket EXCEPT ![t] = n + Len(w)]
        /\ UNCHANGED <<permits, want, held, unsignalled>>
    BY <1>5 DEF Registered
  <2>3. \A u \in Tasks : Waits(u) => ticket[u] < n + Len(w)
    BY <1>1, <1>3, <2>1 DEF Fits, Waits, Place
  <2>4. /\ t \notin Waiting /\ Waiting' = Waiting \cup {t}
        /\ Ahead' = [Ahead EXCEPT ![t] = Waiting]
    BY <1>1, <1>5, <2>1, <2>2, <2>3, LineJoined
  <2> QED
    BY <1>1, <2>2, <2>4 DEF L!LineUp
<1>6. CASE Registered(t, w, n) /\ ticket[t] # Nil
  <2>1. UNCHANGED <<permits, want, held, unsignalled, ticket>>
    BY <1>6 DEF Registered
  <2> QED
    BY <2>1, LineStays DEF L!lvars
<1>7. CASE Refused(t, w, n)
  <2>1. L!Leave(t)
    BY <1>1, <1>7, LineLeft DEF Refused
  <2>2. ~L!IsFirst(t)
    BY <1>7 DEF Refused, L!IsFirst, Waiting, Waits
  <2> QED
    BY <1>7, <2>1, <2>2 DEF Refused, L!GiveUp
<1> QED
  BY <1>2, <1>4, <1>5, <1>6, <1>7 DEF w, n

\* Whoever is next by ticket has nobody but the first before it.
LEMMA DropRefines ==
  ASSUME IInv, NEW t \in Tasks, DropFuture(t)
  PROVE  L!GiveUp(t) \/ UNCHANGED L!lvars
<1>1. /\ want' = [want EXCEPT ![t] = Nil] /\ ticket' = [ticket EXCEPT ![t] = Nil]
      /\ want \in [Tasks -> Requests \cup {Nil}]
      /\ ticket \in [Tasks -> Nat \cup {Nil}]
      /\ UNCHANGED <<permits, held>>
  BY DEF DropFuture, IInv, TypeOK
<1>2. First(t) <=> L!IsFirst(t)
  BY DEF First, L!IsFirst, Waiting, Ahead
<1>3. CASE want[t] = Nil
  <2>1. want' = want
    BY <1>1, <1>3
  <2>2. ~First(t) /\ unsignalled' = unsignalled
    BY <1>3 DEF DropFuture, First, Waits
  <2>3. \A u \in Tasks : Waits(u) => u # t /\ ticket'[u] = ticket[u]
    BY <1>1, <1>3 DEF Waits
  <2>4. \A u \in Tasks : Waits(u)' <=> Waits(u)
    BY <1>1, <1>3, <2>1 DEF Waits
  <2>5. \A u \in Tasks, v \in Tasks :
          Waits(u)' /\ Before(v, u)' <=> Waits(u) /\ Before(v, u)
    BY <2>3, <2>4 DEF Before
  <2>6. Waiting' = Waiting /\ Ahead' = Ahead
    BY <2>4, <2>5 DEF Waiting, Ahead
  <2> QED
    BY <1>1, <2>1, <2>2, <2>6 DEF L!lvars, L!line
<1>4. CASE want[t] # Nil
  <2>1. L!Leave(t)
    BY <1>1, <1>4, LineLeft
  <2>2. First(t) => NextInLine(t) = L!Heirs(t)
    <3> SUFFICES ASSUME First(t), NEW u \in Tasks
                 PROVE  u \in NextInLine(t) <=> u \in L!Heirs(t)
      BY DEF NextInLine, L!Heirs, Waiting
    <3>1. Waits(u) /\ u # t => Before(t, u)
      <4> SUFFICES ASSUME Waits(u), u # t PROVE Before(t, u)
        OBVIOUS
      <4>1. Waits(t) /\ ticket[t] \in Nat /\ ticket[u] \in Nat /\ ~Before(u, t)
        BY <1>1 DEF First, Waits
      <4>2. ticket[t] # ticket[u]
        BY <4>1, TicketsDiffer DEF IInv
      <4> QED
        BY <4>1, <4>2 DEF Before
    <3>2. Waits(t) /\ ~Before(t, t)
      BY <1>1 DEF First, Before, Waits
    <3>3. u \in NextInLine(t) <=> u # t /\ Waits(u) /\ \A v \in Tasks \ {t} : ~Before(v, u)
      BY DEF NextInLine
    <3>4. u \in L!Heirs(t) <=> Waits(u) /\ {v \in Tasks : Waits(u) /\ Before(v, u)} = {t}
      BY DEF L!Heirs, Waiting, Ahead
    <3> QED
      BY <3>1, <3>2, <3>3, <3>4
  <2>3. unsignalled' \in IF L!IsFirst(t) THEN L!Heir(t) ELSE {unsignalled}
    BY <1>2, <2>2 DEF DropFuture, L!Heir
  <2> QED
    BY <1>1, <2>1, <2>3 DEF L!GiveUp
<1> QED
  BY <1>3, <1>4

LEMMA TryAcquireRefines ==
  ASSUME IInv, NEW request \in Requests, TryAcquire(request)
  PROVE  L!TryTake(request) \/ UNCHANGED L!lvars
<1>1. PICK k \in 0 .. Len(wakers) :
        /\ Leading(wakers, k)
        /\ IF MayTake(Nil, request, From(wakers, k), next_ticket + k)
           THEN Taken(request) ELSE UNCHANGED <<permits, held>>
        /\ UNCHANGED <<ticket, want, unsignalled>>
  BY DEF TryAcquire
<1>2. Fits(From(wakers, k), next_ticket + k, ticket, want)
  BY <1>1, PopKeepsFit DEF IInv, TypeOK
<1>3. UNCHANGED L!line
  BY <1>1, LineStays
<1>4. CASE MayTake(Nil, request, From(wakers, k), next_ticket + k)
  <2>1. Waiting = {}
    BY <1>2, <1>4, FrontIsFirst DEF MayTake
  <2>2. L!Take(request)
    BY <1>1, <1>4, TakenIsTake DEF MayTake
  <2> QED
    BY <1>1, <1>3, <2>1, <2>2 DEF L!TryTake
<1>5. CASE ~MayTake(Nil, request, From(wakers, k), next_ticket + k)
  BY <1>1, <1>3, <1>5 DEF L!lvars
<1> QED
  BY <1>4, <1>5

LEMMA PermitsRefine ==
  ASSUME IInv
  PROVE  /\ \A n \in 1 .. MaxPermits : Release(n) => L!GiveBack(n)
         /\ \A n \in 1 .. MaxPermits : Disarm(n) => L!Forget(n)
         /\ \A n \in 0 .. MaxPermits : Set(n) => L!Reset(n)
<1>1. ASSUME NEW n \in 1 .. MaxPermits, Release(n) PROVE L!GiveBack(n)
  <2>1. permits + n > permits /\ unsignalled' = Nil /\ UNCHANGED L!line
    BY <1>1, NumbersAssumption, LineStays DEF Release, WakeFirst, IInv, TypeOK
  <2> QED
    BY <1>1, <2>1 DEF Release, L!GiveBack, L!Change
<1>2. ASSUME NEW n \in 1 .. MaxPermits, Disarm(n) PROVE L!Forget(n)
  BY <1>2, LineStays DEF Disarm, L!Forget
<1>3. ASSUME NEW n \in 0 .. MaxPermits, Set(n) PROVE L!Reset(n)
  <2>1. UNCHANGED L!line /\ unsignalled' = IF n > permits THEN Nil ELSE unsignalled
    BY <1>3, LineStays DEF Set, WakeFirst
  <2> QED
    BY <1>3, <2>1 DEF Set, L!Reset, L!Change
<1> QED
  BY <1>1, <1>2, <1>3

LEMMA NextRefines == IInv /\ [Next]_vars => [L!Next]_(L!lvars)
<1> SUFFICES ASSUME IInv, [Next]_vars PROVE L!Next \/ UNCHANGED L!lvars
  OBVIOUS
<1>1. ASSUME NEW t \in Tasks, Poll(t) PROVE L!Next \/ UNCHANGED L!lvars
  BY <1>1, PollRefines DEF L!Next
<1>2. ASSUME NEW t \in Tasks, WokenByOther(t) PROVE UNCHANGED L!lvars
  BY <1>2, LineStays DEF WokenByOther, L!lvars
<1>3. ASSUME NEW t \in Tasks, DropFuture(t) PROVE L!Next \/ UNCHANGED L!lvars
  BY <1>3, DropRefines DEF L!Next
<1>4. ASSUME NEW t \in Tasks, NEW request \in Requests, Acquire(t, request) PROVE L!Next
  <2>1. \A u \in Tasks : (Waits(u)' <=> Waits(u)) /\ ticket'[u] = ticket[u]
    BY <1>4 DEF Acquire, IInv, TypeOK, Waits
  <2>2. UNCHANGED L!line
    BY <2>1 DEF L!line, Waiting, Ahead, Before
  <2> QED
    BY <1>4, <2>2 DEF Acquire, L!Ask, L!Next
<1>5. ASSUME NEW request \in Requests, TryAcquire(request) PROVE L!Next \/ UNCHANGED L!lvars
  BY <1>5, TryAcquireRefines DEF L!Next
<1>6. ASSUME NEW n \in 1 .. MaxPermits, Release(n) \/ Disarm(n) PROVE L!Next
  BY <1>6, PermitsRefine DEF L!Next
<1>7. ASSUME NEW n \in 0 .. MaxPermits, Set(n) PROVE L!Next
  BY <1>7, PermitsRefine DEF L!Next
<1>8. CASE UNCHANGED vars
  BY <1>8, LineStays DEF vars, L!lvars
<1> QED
  BY <1>1, <1>2, <1>3, <1>4, <1>5, <1>6, <1>7, <1>8 DEF Next

\* Permits are granted in the order in which futures were first polled: every
\* step of the semaphore is one of the line that PermitLine describes, or none.
THEOREM RefinesLine == Spec => L!LineSafety
<1>1. Init => L!LineInit
  <2> SUFFICES ASSUME Init PROVE L!LineInit
    OBVIOUS
  <2>1. \A t \in Tasks : ~Waits(t)
    BY DEF Init, Waits
  <2>2. Waiting = {} /\ Ahead = [t \in Tasks |-> {}]
    BY <2>1 DEF Waiting, Ahead
  <2> QED
    BY <2>2 DEF Init, L!LineInit
<1> QED
  BY <1>1, NextRefines, Invariance, PTL DEF Spec, Safety, L!LineSafety
=============================================================================
