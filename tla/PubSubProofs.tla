---------------------------- MODULE PubSubProofs ----------------------------
(***************************************************************************)
(* For every number of subscribers and publishers and every capacity: the  *)
(* counter of a message is the number of subscribers that are yet to read  *)
(* it, unless one that lagged was dropped, nobody sleeps who has something *)
(* to do, and every step of the one queue is a step of the inboxes that    *)
(* Broadcast gives each subscriber.                                        *)
(***************************************************************************)
EXTENDS PubSub, SequenceTheorems, FiniteSetTheorems, TLAPS

Entry == [message : Nat, count : Nat]
QueueOK(q, id) == q \in Seq(Entry) /\ Len(q) <= CAP /\ id \in Nat /\ Len(q) <= id

\* The subscribers of S at positions pos that are yet to read message a.
Readers(S, pos, a) == {s \in S : pos[s] <= a}
Right(c, R, exact) == c >= Cardinality(R) /\ (exact => c = Cardinality(R))
Counted(q, id, S, pos, exact) ==
    \A i \in 1 .. Len(q) : Right(q[i].count, Readers(S, pos, id - Len(q) + i - 1), exact)

Positions == \A s \in subscribers : position[s] <= next_message_id

\* NoLostWakeup, in terms of positions and lengths.
Rested ==
    /\ \A s \in asleep \cap Subs : s \in subscriber_wakers /\ position[s] = next_message_id
    /\ \A p \in asleep \cap Pubs :
          lagging_drop \/ (p \in publisher_wakers /\ Len(queue) = CAP /\ subscribers # {})

IInv ==
    /\ TypeOK /\ Positions /\ Rested
    /\ Counted(queue, next_message_id, subscribers, position, ~lagging_drop)

LEMMA Finite ==
  ASSUME NEW S \in SUBSET Subs
  PROVE  IsFiniteSet(S) /\ Cardinality(S) \in Nat
  BY TasksAssumption, FS_Subset, FS_CardinalityType

LEMMA ReadersAreSubs ==
  ASSUME NEW S \in SUBSET Subs, NEW pos, NEW a
  PROVE  /\ Readers(S, pos, a) \in SUBSET Subs
         /\ IsFiniteSet(Readers(S, pos, a)) /\ Cardinality(Readers(S, pos, a)) \in Nat
  BY Finite DEF Readers

LEMMA InitEstablishes == Init => IInv
<1> SUFFICES ASSUME Init PROVE IInv
  OBVIOUS
<1>1. queue \in Seq(Entry) /\ Len(queue) = 0
  BY EmptySeq DEF Init
<1>2. Cardinality({}) = 0
  BY FS_EmptySet
<1>3. TypeOK
  <2>1. 0 <= CAP /\ 0 <= SUBS /\ 0 <= PUBS
    BY SizesAssumption
  <2>2. position \in [Subs -> Nat] /\ delivered \in [Subs -> Nat \cup {Nil}] /\ next_message_id = 0
    BY DEF Init
  <2>3. /\ subscribers = {} /\ publishers = {} /\ subscriber_wakers = {} /\ publisher_wakers = {}
        /\ waiting = {} /\ asleep = {} /\ lagging_drop = FALSE
    BY DEF Init
  <2>4. queue \in Seq([message : Nat, count : Nat]) /\ Len(queue) <= CAP /\ Len(queue) <= next_message_id
    BY <1>1, <2>1, <2>2 DEF Entry
  <2>5. next_message_id \in Nat /\ lagging_drop \in BOOLEAN
    BY <2>2, <2>3
  <2>6. /\ Cardinality(subscribers) <= SUBS /\ Cardinality(publishers) <= PUBS
        /\ Cardinality(subscriber_wakers) <= SUBS /\ Cardinality(publisher_wakers) <= PUBS
    BY <1>2, <2>1, <2>3
  <2> QED
    BY <2>2, <2>3, <2>4, <2>5, <2>6 DEF TypeOK
<1>4. Counted(queue, next_message_id, subscribers, position, ~lagging_drop)
  <2>1. 1 .. Len(queue) = {}
    BY <1>1
  <2> QED
    BY <2>1 DEF Counted
<1>5. Positions /\ Rested
  BY DEF Init, Positions, Rested
<1> QED
  BY <1>3, <1>4, <1>5 DEF IInv

-----------------------------------------------------------------------------
\* The queue without its first k messages.
LEMMA SuffixCounted ==
  ASSUME NEW q, NEW id, QueueOK(q, id), NEW S, NEW pos, NEW exact,
         Counted(q, id, S, pos, exact), NEW k \in 0 .. Len(q)
  PROVE  /\ QueueOK(SubSeq(q, k + 1, Len(q)), id)
         /\ Counted(SubSeq(q, k + 1, Len(q)), id, S, pos, exact)
         /\ Len(SubSeq(q, k + 1, Len(q))) = Len(q) - k
         /\ \A i \in 1 .. Len(q) - k : SubSeq(q, k + 1, Len(q))[i] = q[k + i]
<1> DEFINE r == SubSeq(q, k + 1, Len(q))
<1>1. q \in Seq(Entry) /\ Len(q) \in Nat /\ id \in Nat /\ CAP \in Nat /\ k \in Nat
  BY LenProperties, SizesAssumption DEF QueueOK
<1>2. \A i \in k + 1 .. Len(q) : q[i] \in Entry
  BY <1>1, ElementOfSeq
<1>3. /\ r \in Seq(Entry) /\ Len(r) = IF k + 1 <= Len(q) THEN Len(q) - (k + 1) + 1 ELSE 0
      /\ \A i \in 1 .. Len(q) - (k + 1) + 1 : r[i] = q[k + 1 + i - 1]
  BY <1>1, <1>2, SubSeqProperties
<1>4. Len(r) = Len(q) - k /\ \A i \in 1 .. Len(q) - k : r[i] = q[k + i]
  BY <1>1, <1>3
<1> HIDE DEF r
<1>5. ASSUME NEW i \in 1 .. Len(r)
      PROVE  Right(r[i].count, Readers(S, pos, id - Len(r) + i - 1), exact)
  <2>1. k + i \in 1 .. Len(q) /\ r[i] = q[k + i]
    BY <1>1, <1>4
  <2>3. id - Len(q) + (k + i) - 1 = id - Len(r) + i - 1
    BY <1>1, <1>4
  <2>2. Right(q[k + i].count, Readers(S, pos, id - Len(q) + (k + i) - 1), exact)
    BY <2>1 DEF Counted
  <2> QED
    BY <2>1, <2>2, <2>3
<1>6. QueueOK(r, id)
  BY <1>1, <1>3, <1>4 DEF QueueOK
<1>7. Counted(r, id, S, pos, exact)
  BY <1>5 DEF Counted
<1> QED
  BY <1>4, <1>6, <1>7 DEF r

LEMMA TailCounted ==
  ASSUME NEW q, NEW id, QueueOK(q, id), NEW S, NEW pos, NEW exact,
         Counted(q, id, S, pos, exact), q # <<>>
  PROVE  QueueOK(Tail(q), id) /\ Counted(Tail(q), id, S, pos, exact) /\ Len(Tail(q)) = Len(q) - 1
<1>1. q \in Seq(Entry) /\ Len(q) \in Nat \ {0}
  BY EmptySeq DEF QueueOK
<1>2. Tail(q) = SubSeq(q, 1 + 1, Len(q))
  BY <1>1, TailIsSubSeq
<1>3. 1 \in 0 .. Len(q)
  BY <1>1
<1> QED
  BY <1>2, <1>3, SuffixCounted

\* A message for every subscriber at the end of the queue.
LEMMA AppendCounted ==
  ASSUME NEW q, NEW id, QueueOK(q, id), Len(q) < CAP, NEW S \in SUBSET Subs, NEW pos, NEW exact,
         Counted(q, id, S, pos, exact), \A s \in S : pos[s] <= id, NEW next, next = id + 1
  PROVE  LET r == Append(q, [message |-> id, count |-> Cardinality(S)])
         IN  QueueOK(r, next) /\ Counted(r, next, S, pos, exact) /\ Len(r) = Len(q) + 1
<1> DEFINE m == [message |-> id, count |-> Cardinality(S)]
           r == Append(q, m)
<1>1. q \in Seq(Entry) /\ Len(q) \in Nat /\ id \in Nat /\ CAP \in Nat /\ m \in Entry
  BY LenProperties, SizesAssumption, Finite DEF QueueOK, Entry
<1>2. /\ r \in Seq(Entry) /\ Len(r) = Len(q) + 1
      /\ \A i \in 1 .. Len(q) : r[i] = q[i]
      /\ r[Len(q) + 1] = m
  BY <1>1, AppendProperties
<1> HIDE DEF r
<1>3. ASSUME NEW i \in 1 .. Len(r)
      PROVE  Right(r[i].count, Readers(S, pos, next - Len(r) + i - 1), exact)
  <2>1. CASE i = Len(q) + 1
    <3>1. next - Len(r) + i - 1 = id /\ r[i].count = Cardinality(S)
      BY <1>1, <1>2, <2>1
    <3>2. Readers(S, pos, id) = S
      BY DEF Readers
    <3> QED
      BY <3>1, <3>2, Finite DEF Right
  <2>2. CASE i \in 1 .. Len(q)
    <3>1. r[i] = q[i] /\ next - Len(r) + i - 1 = id - Len(q) + i - 1
      BY <1>1, <1>2, <2>2, SMTT(30)
    <3> QED
      BY <2>2, <3>1 DEF Counted
  <2> QED
    BY <1>1, <1>2, <2>1, <2>2
<1>4. QueueOK(r, next)
  BY <1>1, <1>2 DEF QueueOK
<1>5. Counted(r, next, S, pos, exact)
  BY <1>3 DEF Counted
<1> QED
  BY <1>2, <1>4, <1>5 DEF r

\* One reader less, and the counter one less.
LEMMA OneLess ==
  ASSUME NEW S \in SUBSET Subs, NEW R \in SUBSET Subs, NEW s \in R, S = R \ {s},
         NEW c \in Nat, NEW exact, Right(c, R, exact)
  PROVE  c - 1 \in Nat /\ Right(c - 1, S, exact)
<1>1. IsFiniteSet(R) /\ Cardinality(R) \in Nat
  BY Finite
<1>2. Cardinality(S) = Cardinality(R) - 1 /\ Cardinality(S) \in Nat
  BY <1>1, FS_RemoveElement, Finite
<1>3. c - 1 >= Cardinality(S) /\ (exact => c - 1 = Cardinality(S))
  BY <1>1, <1>2 DEF Right
<1> QED
  BY <1>2, <1>3 DEF Right

\* A subscriber reads the message at its position.
ReadAt(q, j) == [q EXCEPT ![j].count = @ - 1]

LEMMA ReadCounted ==
  ASSUME NEW q, NEW id, QueueOK(q, id), NEW S \in SUBSET Subs, NEW pos \in [Subs -> Nat], NEW exact,
         Counted(q, id, S, pos, exact), NEW s \in S,
         NEW j \in 1 .. Len(q), pos[s] = id - Len(q) + j - 1,
         NEW pos2 \in [Subs -> Nat], pos2[s] = pos[s] + 1, \A u \in S \ {s} : pos2[u] = pos[u]
  PROVE  QueueOK(ReadAt(q, j), id) /\ Counted(ReadAt(q, j), id, S, pos2, exact)
<1> DEFINE r == ReadAt(q, j)
<1>1. /\ q \in Seq(Entry) /\ Len(q) \in Nat /\ id \in Nat /\ CAP \in Nat /\ Len(q) <= CAP /\ Len(q) <= id
      /\ q[j] \in Entry /\ s \in Subs /\ pos[s] \in Nat
  BY LenProperties, ElementOfSeq, SizesAssumption DEF QueueOK
<1> DEFINE e == [q[j] EXCEPT !.count = q[j].count - 1]
<1>2. /\ Right(q[j].count, Readers(S, pos, pos[s]), exact)
      /\ q[j].count \in Nat /\ s \in Readers(S, pos, pos[s])
  <2>1. Right(q[j].count, Readers(S, pos, id - Len(q) + j - 1), exact)
    BY DEF Counted
  <2> QED
    BY <1>1, <2>1, SMTT(30) DEF Entry, Readers
<1>3. \A a \in Nat : Readers(S, pos2, a) = IF a = pos[s] THEN Readers(S, pos, a) \ {s} ELSE Readers(S, pos, a)
  <2> SUFFICES ASSUME NEW a \in Nat
               PROVE  Readers(S, pos2, a) = IF a = pos[s] THEN Readers(S, pos, a) \ {s} ELSE Readers(S, pos, a)
    OBVIOUS
  <2>1. pos2[s] <= a <=> pos[s] <= a /\ a # pos[s]
    <3>1. PICK x \in Nat : x = pos[s]
      BY <1>1
    <3>2. pos2[s] = x + 1
      BY <3>1
    <3>3. x + 1 <= a <=> x <= a /\ a # x
      BY <3>1
    <3> QED
      BY <3>1, <3>2, <3>3
  <2>2. \A u \in S : u # s => pos2[u] = pos[u]
    OBVIOUS
  <2>3. CASE a = pos[s]
    <3>1. \A u \in S : pos2[u] <= a <=> pos[u] <= a /\ u # s
      BY <2>1, <2>2, <2>3
    <3>2. Readers(S, pos2, a) = Readers(S, pos, a) \ {s}
      BY <3>1 DEF Readers
    <3> QED
      BY <2>3, <3>2
  <2>4. CASE a # pos[s]
    <3>1. \A u \in S : pos2[u] <= a <=> pos[u] <= a
      BY <2>1, <2>2, <2>4
    <3>2. Readers(S, pos2, a) = Readers(S, pos, a)
      BY <3>1 DEF Readers
    <3> QED
      BY <2>4, <3>2
  <2> QED
    BY <2>3, <2>4
<1>4. q[j].count - 1 \in Nat /\ Right(q[j].count - 1, Readers(S, pos2, pos[s]), exact)
  <2>1. Readers(S, pos2, pos[s]) = Readers(S, pos, pos[s]) \ {s}
    BY <1>1, <1>3
  <2> QED
    BY <1>2, <2>1, OneLess, ReadersAreSubs
<1>5. e \in Entry /\ e.count = q[j].count - 1
  BY <1>1, <1>4 DEF Entry
<1>6. r = [q EXCEPT ![j] = e]
  BY DEF ReadAt
<1>7. /\ r \in Seq(Entry) /\ Len(r) = Len(q)
      /\ \A i \in 1 .. Len(q) : r[i] = IF i = j THEN e ELSE q[i]
  BY <1>1, <1>5, <1>6, ExceptSeq
<1> HIDE DEF e, r
<1>8. ASSUME NEW i \in 1 .. Len(r)
      PROVE  Right(r[i].count, Readers(S, pos2, id - Len(r) + i - 1), exact)
  <2>1. CASE i = j
    <3>1. r[i].count = q[j].count - 1 /\ id - Len(r) + i - 1 = pos[s]
      BY <1>1, <1>5, <1>7, <2>1
    <3> QED
      BY <1>4, <3>1
  <2>2. CASE i # j
    <3>1. r[i] = q[i] /\ i \in 1 .. Len(q) /\ Len(r) = Len(q)
      BY <1>7, <2>2
    <3>2. id - Len(r) + i - 1 \in Nat /\ id - Len(r) + i - 1 # pos[s]
      BY <1>1, <1>7, <2>2
    <3>3. Readers(S, pos2, id - Len(r) + i - 1) = Readers(S, pos, id - Len(q) + i - 1)
      BY <1>3, <3>1, <3>2
    <3>4. Right(q[i].count, Readers(S, pos, id - Len(q) + i - 1), exact)
      BY <3>1 DEF Counted
    <3> QED
      BY <3>1, <3>3, <3>4
  <2> QED
    BY <2>1, <2>2
<1>9. QueueOK(r, id)
  BY <1>1, <1>7 DEF QueueOK
<1>10. Counted(r, id, S, pos2, exact)
  BY <1>8 DEF Counted
<1> QED
  BY <1>9, <1>10 DEF r

LEMMA ReadLength ==
  ASSUME NEW q \in Seq(Entry), NEW j \in 1 .. Len(q), ReadAt(q, j) \in Seq(Entry)
  PROVE  Len(ReadAt(q, j)) = Len(q)
<1> DEFINE r == ReadAt(q, j)
<1>1. DOMAIN r = DOMAIN q
  BY DEF ReadAt
<1> HIDE DEF r
<1>2. /\ Len(q) \in Nat /\ DOMAIN q = 1 .. Len(q)
      /\ Len(r) \in Nat /\ DOMAIN r = 1 .. Len(r)
  BY LenProperties DEF r
<1>3. /\ Len(q) >= 1 => Len(q) \in DOMAIN r
      /\ Len(r) >= 1 => Len(r) \in DOMAIN q
  BY <1>1, <1>2
<1>4. Len(r) = Len(q)
  BY <1>1, <1>2, <1>3
<1> QED
  BY <1>4 DEF r

\* The same readers for every message in the queue.
LEMMA SameReaders ==
  ASSUME NEW q, NEW id, QueueOK(q, id), NEW S, NEW pos, NEW exact, Counted(q, id, S, pos, exact),
         NEW S2, NEW pos2,
         \A a \in Nat : id - Len(q) <= a /\ a < id => Readers(S2, pos2, a) = Readers(S, pos, a)
  PROVE  Counted(q, id, S2, pos2, exact)
<1>1. Len(q) \in Nat /\ id \in Nat /\ Len(q) <= id
  BY LenProperties DEF QueueOK
<1>2. ASSUME NEW i \in 1 .. Len(q)
      PROVE  Right(q[i].count, Readers(S2, pos2, id - Len(q) + i - 1), exact)
  <2>1. /\ id - Len(q) + i - 1 \in Nat /\ id - Len(q) + i - 1 < id
        /\ id - Len(q) <= id - Len(q) + i - 1
    BY <1>1
  <2>2. Readers(S2, pos2, id - Len(q) + i - 1) = Readers(S, pos, id - Len(q) + i - 1)
    BY <2>1
  <2>3. Right(q[i].count, Readers(S, pos, id - Len(q) + i - 1), exact)
    BY DEF Counted
  <2> QED
    BY <2>2, <2>3
<1> QED
  BY <1>2 DEF Counted

LEMMA CountedDownLength ==
  ASSUME NEW q \in Seq(Entry), NEW j, CountedDown(q, j) \in Seq(Entry)
  PROVE  Len(CountedDown(q, j)) = Len(q)
<1> DEFINE r == CountedDown(q, j)
<1>1. DOMAIN r = DOMAIN q
  BY DEF CountedDown
<1> HIDE DEF r
<1>2. /\ Len(q) \in Nat /\ DOMAIN q = 1 .. Len(q)
      /\ Len(r) \in Nat /\ DOMAIN r = 1 .. Len(r)
  BY LenProperties DEF r
<1>3. /\ Len(q) >= 1 => Len(q) \in DOMAIN r
      /\ Len(r) >= 1 => Len(r) \in DOMAIN q
  BY <1>1, <1>2
<1>4. Len(r) = Len(q)
  BY <1>1, <1>2, <1>3
<1> QED
  BY <1>4 DEF r

\* A subscriber that does not lag leaves: its messages are counted down.
LEMMA CountedDownCounted ==
  ASSUME NEW q, NEW id, QueueOK(q, id), NEW S \in SUBSET Subs, NEW pos \in [Subs -> Nat], NEW exact,
         Counted(q, id, S, pos, exact), NEW s \in S,
         NEW j \in Nat \ {0}, pos[s] = id - Len(q) + j - 1,
         NEW pos2 \in [Subs -> Nat], \A u \in S \ {s} : pos2[u] = pos[u]
  PROVE  /\ QueueOK(CountedDown(q, j), id)
         /\ Counted(CountedDown(q, j), id, S \ {s}, pos2, exact)
<1> DEFINE r == CountedDown(q, j)
           S2 == S \ {s}
<1>1. /\ q \in Seq(Entry) /\ Len(q) \in Nat /\ id \in Nat /\ CAP \in Nat /\ Len(q) <= CAP /\ Len(q) <= id
      /\ \A i \in 1 .. Len(q) : q[i] \in Entry /\ q[i].count \in Nat
      /\ DOMAIN q = 1 .. Len(q) /\ s \in Subs /\ pos[s] \in Nat
  <2>1. q \in Seq(Entry) /\ Len(q) <= CAP /\ id \in Nat /\ Len(q) <= id
    BY DEF QueueOK
  <2>2. Len(q) \in Nat /\ DOMAIN q = 1 .. Len(q)
    BY <2>1, LenProperties
  <2>3. \A i \in 1 .. Len(q) : q[i] \in Entry
    BY <2>1, ElementOfSeq
  <2>4. \A i \in 1 .. Len(q) : q[i].count \in Nat
    BY <2>3 DEF Entry
  <2>5. s \in Subs /\ pos[s] \in Nat /\ CAP \in Nat
    BY SizesAssumption
  <2> QED
    BY <2>1, <2>2, <2>3, <2>4, <2>5
<1>2. \A a \in Nat : Readers(S2, pos2, a) = Readers(S, pos, a) \ {s}
  BY <1>1 DEF Readers
<1> HIDE DEF S2
<1>3. ASSUME NEW i \in 1 .. Len(q)
      PROVE  /\ r[i] \in Entry
             /\ Right(r[i].count, Readers(S2, pos2, id - Len(q) + i - 1), exact)
  <2> DEFINE a == id - Len(q) + i - 1
             R == Readers(S, pos, a)
  <2>1. a \in Nat /\ Right(q[i].count, R, exact)
    BY <1>1 DEF Counted
  <2>2. Readers(S2, pos2, a) = R \ {s} /\ R \in SUBSET Subs
    BY <1>2, <2>1, ReadersAreSubs
  <2>3. CASE i >= j
    <3>1. s \in R
      BY <1>1, <2>1, <2>3 DEF Readers
    <3>2. q[i].count - 1 \in Nat /\ Right(q[i].count - 1, R \ {s}, exact)
      <4> HIDE DEF R
      <4>1. R \ {s} \in SUBSET Subs
        BY <2>2
      <4> QED
        BY <1>1, <2>1, <2>2, <3>1, <4>1, OneLess
    <3>3. r[i] = [q[i] EXCEPT !.count = @ - 1]
      BY <1>1, <2>3 DEF CountedDown
    <3>4. r[i] \in Entry /\ r[i].count = q[i].count - 1
      BY <1>1, <3>2, <3>3 DEF Entry
    <3> QED
      BY <2>2, <3>2, <3>4
  <2>4. CASE ~(i >= j)
    <3>1. s \notin R
      BY <1>1, <2>1, <2>4 DEF Readers
    <3>2. r[i] = q[i]
      BY <1>1, <2>4 DEF CountedDown
    <3>3. Readers(S2, pos2, a) = R
      BY <2>2, <3>1
    <3> QED
      BY <1>1, <2>1, <3>2, <3>3
  <2> QED
    BY <2>3, <2>4
<1>4. r \in [1 .. Len(q) -> Entry]
  <2>1. r = [i \in 1 .. Len(q) |-> r[i]]
    BY <1>1 DEF CountedDown
  <2> QED
    BY <1>3, <2>1
<1> HIDE DEF r
<1>5. r \in Seq(Entry) /\ Len(r) = Len(q)
  <2>1. r \in Seq(Entry)
    BY <1>1, <1>4, SeqDef, ZenonT(30)
  <2> QED
    BY <1>1, <2>1, CountedDownLength DEF r
<1>6. QueueOK(r, id)
  BY <1>1, <1>5 DEF QueueOK
<1>7. Counted(r, id, S2, pos2, exact)
  BY <1>3, <1>5 DEF Counted
<1> QED
  BY <1>6, <1>7 DEF r, S2

-----------------------------------------------------------------------------
\* What the steps use of the invariant.
LEMMA Facts ==
  ASSUME IInv
  PROVE  /\ QueueOK(queue, next_message_id) /\ Len(queue) \in Nat
         /\ Counted(queue, next_message_id, subscribers, position, ~lagging_drop)
         /\ subscribers \in SUBSET Subs /\ position \in [Subs -> Nat]
         /\ \A s \in waiting \cap Subs : s \in subscribers
         /\ asleep \subseteq waiting
         /\ CAP \in Nat \ {0} /\ SUBS \in Nat \ {0} /\ PUBS \in Nat \ {0}
<1>1. queue \in Seq(Entry)
  BY DEF IInv, TypeOK, Entry
<1> QED
  BY <1>1, LenProperties, SizesAssumption, TasksAssumption DEF IInv, TypeOK, QueueOK

LEMMA Places ==
  ASSUME IInv, NEW s \in subscribers
  PROVE  /\ position[s] \in Nat /\ position[s] <= next_message_id
         /\ Lagging(s) <=> position[s] < next_message_id - Len(queue)
         /\ ~Lagging(s) => /\ Index(s) \in Nat \ {0}
                           /\ position[s] = next_message_id - Len(queue) + Index(s) - 1
         /\ HasMessage(s) => Index(s) \in 1 .. Len(queue) /\ position[s] < next_message_id
         /\ ~Lagging(s) /\ ~HasMessage(s) => position[s] = next_message_id
<1>1. /\ position[s] \in Nat /\ next_message_id \in Nat /\ Len(queue) \in Nat
      /\ Len(queue) <= next_message_id /\ position[s] <= next_message_id
  BY Facts DEF IInv, Positions, QueueOK
<1> QED
  BY <1>1 DEF Lagging, Index, HasMessage, Start

\* The sizes of finite sets that gain or lose a member.
LEMMA Sizes ==
  ASSUME NEW T, IsFiniteSet(T), NEW w \in SUBSET T, NEW t
  PROVE  /\ Cardinality(w) \in Nat
         /\ Cardinality(w \cup {t}) = IF t \in w THEN Cardinality(w) ELSE Cardinality(w) + 1
         /\ Cardinality(w \ {t}) = IF t \in w THEN Cardinality(w) - 1 ELSE Cardinality(w)
<1>1. IsFiniteSet(w)
  BY FS_Subset
<1>2. Cardinality(w) \in Nat
  BY <1>1, FS_CardinalityType
<1>3. Cardinality(w \cup {t}) = IF t \in w THEN Cardinality(w) ELSE Cardinality(w) + 1
  BY <1>1, FS_AddElement
<1>4. Cardinality(w \ {t}) = IF t \in w THEN Cardinality(w) - 1 ELSE Cardinality(w)
  BY <1>1, FS_RemoveElement
<1> QED
  BY <1>2, <1>3, <1>4

\* A list of wakers never holds more than its n places, and who is dropped
\* from it is woken.
LEMMA WakerListKept ==
  ASSUME NEW T, IsFiniteSet(T), NEW w \in SUBSET T, NEW t \in T,
         NEW n \in Nat \ {0}, Cardinality(w) <= n
  PROVE  /\ Registered(w, t, n) \in SUBSET T /\ Cardinality(Registered(w, t, n)) <= n
         /\ t \in Registered(w, t, n)
         /\ \A u \in w \ Evicted(w, t, n) : u \in Registered(w, t, n)
         /\ Evicted(w, t, n) \in SUBSET w
<1>1. IsFiniteSet(w) /\ Cardinality(w) \in Nat
  BY FS_Subset, FS_CardinalityType
<1>2. CASE Fits(w, t, n)
  <2>1. Cardinality(w \cup {t}) <= n
    <3>1. /\ Cardinality(w \cup {t}) = IF t \in w THEN Cardinality(w) ELSE Cardinality(w) + 1
          /\ t \in w \/ Cardinality(w) < n
      BY <1>2, Sizes DEF Fits
    <3> QED
      BY <1>1, <3>1
  <2> QED
    BY <1>2, <2>1 DEF Registered, Evicted
<1>3. CASE ~Fits(w, t, n)
  <2>1. Cardinality({t}) <= n
    <3>1. Cardinality({t}) = 1
      BY FS_Singleton
    <3> QED
      BY <3>1
  <2> QED
    BY <1>3, <2>1 DEF Registered, Evicted
<1> QED
  BY <1>2, <1>3

LEMMA SubscribeStep ==
  ASSUME IInv, NEW s \in Subs, Subscribe(s)
  PROVE  IInv'
<1>1. /\ subscribers' = subscribers \cup {s} /\ position' = [position EXCEPT ![s] = next_message_id]
      /\ s \notin subscribers /\ Cardinality(subscribers) < SUBS
      /\ UNCHANGED <<queue, next_message_id, publishers, delivered, subscriber_wakers,
                     publisher_wakers, waiting, asleep, lagging_drop>>
  BY DEF Subscribe, wakers
<1>2. Cardinality(subscribers') <= SUBS
  <2>1. /\ Cardinality(subscribers) \in Nat /\ SUBS \in Nat
        /\ Cardinality(subscribers \cup {s}) = Cardinality(subscribers) + 1
    BY <1>1, Facts, Sizes, TasksAssumption
  <2> QED
    BY <1>1, <2>1
<1>3. next_message_id \in Nat /\ position \in [Subs -> Nat] /\ subscribers \in SUBSET Subs
  BY Facts DEF QueueOK
<1>4. TypeOK'
  BY <1>1, <1>2, <1>3 DEF IInv, TypeOK
<1>5. Positions'
  BY <1>1, <1>3 DEF IInv, Positions
<1>6. Counted(queue', next_message_id', subscribers', position', ~lagging_drop')
  <2>1. ASSUME NEW a \in Nat, a < next_message_id
        PROVE  Readers(subscribers', position', a) = Readers(subscribers, position, a)
    BY <1>1, <1>3, <2>1 DEF Readers
  <2>2. Counted(queue, next_message_id, subscribers', position', ~lagging_drop)
    BY <2>1, Facts, SameReaders
  <2> QED
    BY <1>1, <2>2
<1>7. Rested'
  <2>1. \A t \in asleep \cap Subs : t # s
    BY <1>1, Facts
  <2> QED
    BY <1>1, <1>3, <2>1 DEF IInv, Rested
<1> QED
  BY <1>4, <1>5, <1>6, <1>7 DEF IInv

\* A subscriber that lags leaves counters behind that are too high.
LEMMA UnsubscribeLaggingStep ==
  ASSUME IInv, NEW s \in Subs, Unsubscribe(s), Lagging(s)
  PROVE  IInv'
<1>1. /\ s \in subscribers \ waiting /\ subscribers' = subscribers \ {s}
      /\ position' = [position EXCEPT ![s] = 0] /\ delivered' = [delivered EXCEPT ![s] = Nil]
      /\ lagging_drop' = TRUE
      /\ UNCHANGED <<queue, next_message_id, publishers, subscriber_wakers, publisher_wakers, waiting, asleep>>
  BY DEF Unsubscribe
<1>2. /\ subscribers \in SUBSET Subs /\ position \in [Subs -> Nat]
      /\ subscribers' \in SUBSET Subs /\ QueueOK(queue, next_message_id)
  BY <1>1, Facts
<1>3. Cardinality(subscribers') <= SUBS
  <2>1. /\ Cardinality(subscribers) \in Nat /\ SUBS \in Nat
        /\ Cardinality(subscribers \ {s}) = Cardinality(subscribers) - 1
    BY <1>1, Facts, Sizes, TasksAssumption
  <2>2. Cardinality(subscribers) <= SUBS
    BY DEF IInv, TypeOK
  <2> QED
    BY <1>1, <2>1, <2>2
<1>4. TypeOK'
  BY <1>1, <1>2, <1>3 DEF IInv, TypeOK
<1>5. Positions'
  BY <1>1, <1>2 DEF IInv, Positions
<1>6. Counted(queue', next_message_id', subscribers', position', ~lagging_drop')
  <2>1. ASSUME NEW i \in 1 .. Len(queue)
        PROVE  Right(queue[i].count, Readers(subscribers', position', next_message_id - Len(queue) + i - 1), FALSE)
    <3> DEFINE R == Readers(subscribers, position, next_message_id - Len(queue) + i - 1)
               R2 == Readers(subscribers', position', next_message_id - Len(queue) + i - 1)
    <3>1. Right(queue[i].count, R, ~lagging_drop) /\ queue[i].count \in Nat
      <4>1. queue[i] \in Entry
        BY <1>2, ElementOfSeq DEF QueueOK
      <4> QED
        BY <4>1, Facts DEF Counted, Entry
    <3>2. R2 \subseteq R
      BY <1>1, <1>2 DEF Readers
    <3>3. IsFiniteSet(R) /\ Cardinality(R) \in Nat /\ Cardinality(R2) \in Nat
      BY <1>2, ReadersAreSubs
    <3> HIDE DEF R, R2
    <3>4. Cardinality(R2) <= Cardinality(R)
      BY <3>2, <3>3, FS_Subset
    <3>5. Right(queue[i].count, R2, FALSE)
      BY <3>1, <3>3, <3>4 DEF Right
    <3> QED
      BY <3>5 DEF R2
  <2> QED
    BY <1>1, <2>1 DEF Counted
<1>7. Rested'
  <2>1. \A t \in asleep \cap Subs : t # s
    BY <1>1, Facts
  <2> QED
    BY <1>1, <1>2, <2>1 DEF IInv, Rested
<1> QED
  BY <1>4, <1>5, <1>6, <1>7 DEF IInv

\* Once a queue without readers was trimmed nothing is left of it.
LEMMA UnsubscribeStep ==
  ASSUME IInv, NEW s \in Subs, Unsubscribe(s)
  PROVE  IInv'
<1>1. CASE Lagging(s)
  BY <1>1, UnsubscribeLaggingStep
<1>2. CASE ~Lagging(s)
  <2> DEFINE cd == CountedDown(queue, Index(s))
  <2>1. /\ s \in subscribers \ waiting /\ subscribers' = subscribers \ {s}
        /\ position' = [position EXCEPT ![s] = 0] /\ delivered' = [delivered EXCEPT ![s] = Nil]
        /\ lagging_drop' = lagging_drop
        /\ UNCHANGED <<next_message_id, publishers, subscriber_wakers, waiting>>
        /\ Trimmed(cd, queue')
        /\ IF queue' = cd THEN UNCHANGED <<publisher_wakers, asleep>>
           ELSE asleep' = asleep \ publisher_wakers /\ publisher_wakers' = {}
    BY <1>2 DEF Unsubscribe, Wake, IInv, TypeOK
  <2>2. /\ subscribers \in SUBSET Subs /\ position \in [Subs -> Nat]
        /\ subscribers' \in SUBSET Subs /\ QueueOK(queue, next_message_id)
        /\ CAP \in Nat \ {0} /\ Len(queue) \in Nat
    BY <2>1, Facts
  <2>3. /\ QueueOK(cd, next_message_id) /\ Len(cd) = Len(queue)
        /\ Counted(cd, next_message_id, subscribers', position', ~lagging_drop)
    <3>1. Index(s) \in Nat \ {0} /\ position[s] = next_message_id - Len(queue) + Index(s) - 1
      BY <1>2, <2>1, Places
    <3>2. Counted(queue, next_message_id, subscribers, position, ~lagging_drop) /\ s \in subscribers
      BY <2>1, Facts
    <3>3. subscribers' = subscribers \ {s} /\ position' = [position EXCEPT ![s] = 0]
      BY <2>1
    <3>4. PICK j \in Nat \ {0} : j = Index(s)
      BY <3>1
    <3>5. position[s] = next_message_id - Len(queue) + j - 1
      BY <3>1, <3>4
    <3>6. /\ QueueOK(CountedDown(queue, j), next_message_id) /\ Len(CountedDown(queue, j)) = Len(queue)
          /\ Counted(CountedDown(queue, j), next_message_id, subscribers', position', ~lagging_drop)
      <4>1. position' \in [Subs -> Nat] /\ \A u \in subscribers \ {s} : position'[u] = position[u]
        BY <2>2, <3>3
      <4>2. /\ QueueOK(CountedDown(queue, j), next_message_id)
            /\ Counted(CountedDown(queue, j), next_message_id, subscribers \ {s}, position', ~lagging_drop)
        BY <2>2, <3>2, <3>5, <4>1, CountedDownCounted
      <4>3. Len(CountedDown(queue, j)) = Len(queue)
        BY <2>2, <4>2, CountedDownLength DEF QueueOK
      <4> QED
        BY <3>3, <4>2, <4>3
    <3> QED
      BY <3>4, <3>6
  <2> HIDE DEF cd
  <2>4. PICK k \in 0 .. Len(cd) :
          /\ k < Len(cd) => cd[k + 1].count # 0
          /\ queue' = SubSeq(cd, k + 1, Len(cd))
    BY <2>1 DEF Trimmed
  <2>5. /\ QueueOK(queue', next_message_id) /\ Len(queue') = Len(cd) - k
        /\ Counted(queue', next_message_id, subscribers', position', ~lagging_drop)
    BY <2>3, <2>4, SuffixCounted
  <2>6. Counted(queue', next_message_id', subscribers', position', ~lagging_drop')
    BY <2>1, <2>5
  <2>7. Cardinality(subscribers') <= SUBS
    <3>1. /\ Cardinality(subscribers) \in Nat /\ SUBS \in Nat
          /\ Cardinality(subscribers \ {s}) = Cardinality(subscribers) - 1
      BY <2>1, Facts, Sizes, TasksAssumption
    <3>2. Cardinality(subscribers) <= SUBS
      BY DEF IInv, TypeOK
    <3> QED
      BY <2>1, <3>1, <3>2
  <2>8. TypeOK'
    <3>1. asleep' \subseteq asleep /\ publisher_wakers' \subseteq publisher_wakers
          /\ Cardinality(publisher_wakers') <= PUBS
      <4>1. Cardinality({}) = 0 /\ 0 <= PUBS
        BY FS_EmptySet, SizesAssumption
      <4> QED
        BY <2>1, <4>1 DEF IInv, TypeOK
    <3>2. /\ waiting' \subseteq subscribers' \cup publishers'
          /\ asleep' \subseteq waiting' /\ publisher_wakers' \subseteq Pubs
          /\ subscribers' \subseteq Subs
      BY <2>1, <3>1 DEF IInv, TypeOK
    <3>3. queue' \in Seq([message : Nat, count : Nat]) /\ Len(queue') <= CAP /\ Len(queue') <= next_message_id'
      BY <2>1, <2>5 DEF QueueOK, Entry
    <3>4. position' \in [Subs -> Nat] /\ delivered' \in [Subs -> Nat \cup {Nil}]
      BY <2>1 DEF IInv, TypeOK
    <3> QED
      BY <2>1, <2>7, <3>1, <3>2, <3>3, <3>4 DEF IInv, TypeOK
  <2>9. Positions'
    BY <2>1, <2>2 DEF IInv, Positions
  <2>10. Rested'
    <3>1. ASSUME NEW t \in asleep' \cap Subs
          PROVE  t \in subscriber_wakers' /\ position'[t] = next_message_id'
      <4>1. t \in asleep /\ t # s
        BY <2>1, Facts
      <4> QED
        BY <2>1, <2>2, <4>1 DEF IInv, Rested
    <3>2. ASSUME NEW p \in asleep' \cap Pubs, ~lagging_drop'
          PROVE  p \in publisher_wakers' /\ Len(queue') = CAP /\ subscribers' # {}
      <4>1. p \in asleep /\ p \in publisher_wakers /\ Len(queue) = CAP /\ ~lagging_drop
        <5>1. p \in asleep /\ p \in Pubs /\ ~lagging_drop
          BY <2>1, <3>2
        <5> QED
          BY <5>1 DEF IInv, Rested
      <4>2. queue' = cd /\ publisher_wakers' = publisher_wakers
        BY <2>1, <4>1
      <4>3. Len(queue') = CAP /\ k = 0 /\ 0 < Len(cd)
        BY <2>2, <2>3, <2>5, <4>1, <4>2
      <4>4. cd[1].count # 0
        BY <2>4, <4>3
      <4>5. subscribers' # {}
        <5> SUFFICES ASSUME subscribers' = {} PROVE FALSE
          OBVIOUS
        <5>1. 1 \in 1 .. Len(cd)
          BY <2>2, <2>3, <4>3
        <5>2. PICK R : R = Readers(subscribers', position', next_message_id - Len(cd) + 1 - 1)
          OBVIOUS
        <5>3. Right(cd[1].count, R, ~lagging_drop)
          BY <2>3, <5>1, <5>2 DEF Counted
        <5>4. Cardinality(R) = 0
          BY <5>2, FS_EmptySet DEF Readers
        <5> QED
          BY <4>1, <4>4, <5>3, <5>4 DEF Right
      <4> QED
        BY <4>1, <4>2, <4>3, <4>5
    <3> QED
      BY <3>1, <3>2 DEF Rested
  <2> QED
    BY <2>6, <2>8, <2>9, <2>10 DEF IInv
<1> QED
  BY <1>1, <1>2

-----------------------------------------------------------------------------
\* Handles of publishers, calls that begin or end, and wakes from elsewhere.
LEMMA CreatePublisherStep ==
  ASSUME IInv, NEW p \in Pubs, CreatePublisher(p)
  PROVE  IInv'
<1>1. Cardinality(publishers \cup {p}) <= PUBS
  <2>1. /\ Cardinality(publishers) \in Nat /\ PUBS \in Nat
        /\ Cardinality(publishers \cup {p}) = Cardinality(publishers) + 1
        /\ Cardinality(publishers) < PUBS
    BY Facts, Sizes, TasksAssumption, ZenonT(30) DEF CreatePublisher, IInv, TypeOK
  <2> QED
    BY <2>1
<1> QED
  BY <1>1 DEF CreatePublisher, wakers, IInv, TypeOK, Positions, Rested

LEMMA DropPublisherStep ==
  ASSUME IInv, NEW p \in Pubs, DropPublisher(p)
  PROVE  IInv'
<1>1. Cardinality(publishers \ {p}) <= PUBS
  <2>1. /\ Cardinality(publishers) \in Nat /\ PUBS \in Nat
        /\ Cardinality(publishers \ {p}) = Cardinality(publishers) - 1
        /\ Cardinality(publishers) <= PUBS
    BY Facts, Sizes, TasksAssumption DEF DropPublisher, IInv, TypeOK
  <2> QED
    BY <2>1
<1> QED
  BY <1>1 DEF DropPublisher, wakers, IInv, TypeOK, Positions, Rested

LEMMA AskStep ==
  ASSUME IInv, NEW t \in Subs \cup Pubs, Ask(t)
  PROVE  IInv'
  BY DEF Ask, wakers, handles, IInv, TypeOK, Positions, Rested

LEMMA CancelStep ==
  ASSUME IInv, NEW t \in Subs \cup Pubs, Cancel(t)
  PROVE  IInv'
  BY DEF Cancel, Wake, wakers, handles, IInv, TypeOK, Positions, Rested

LEMMA WokenByOtherStep ==
  ASSUME IInv, NEW t \in Subs \cup Pubs, WokenByOther(t)
  PROVE  IInv'
  BY DEF WokenByOther, Wake, wakers, handles, IInv, TypeOK, Positions, Rested

-----------------------------------------------------------------------------
\* A subscriber that is not asleep reads its next message.
\* What a read leaves of the queue, before a message that was read by all goes.
LEMMA ReadKeeps ==
  ASSUME IInv, NEW s \in subscribers, HasMessage(s), position' = [position EXCEPT ![s] = @ + 1]
  PROVE  /\ QueueOK(ReadAt(queue, Index(s)), next_message_id)
         /\ Counted(ReadAt(queue, Index(s)), next_message_id, subscribers, position', ~lagging_drop)
         /\ Len(ReadAt(queue, Index(s))) = Len(queue)
<1>2. /\ QueueOK(queue, next_message_id) /\ Len(queue) \in Nat
      /\ subscribers \in SUBSET Subs /\ position \in [Subs -> Nat]
      /\ Index(s) \in 1 .. Len(queue) /\ position[s] < next_message_id /\ position[s] \in Nat
      /\ position[s] = next_message_id - Len(queue) + Index(s) - 1
  BY Facts, Places DEF HasMessage
<1>3. /\ position' \in [Subs -> Nat] /\ position'[s] = position[s] + 1
      /\ \A u \in subscribers \ {s} : position'[u] = position[u]
  BY <1>2
<1>4. /\ QueueOK(ReadAt(queue, Index(s)), next_message_id)
      /\ Counted(ReadAt(queue, Index(s)), next_message_id, subscribers, position', ~lagging_drop)
  <2>1. PICK j \in 1 .. Len(queue) : j = Index(s)
    BY <1>2
  <2>2. position[s] = next_message_id - Len(queue) + j - 1
    BY <1>2, <2>1
  <2>3. Counted(queue, next_message_id, subscribers, position, ~lagging_drop)
    BY Facts
  <2>4. PICK pos2 : pos2 = position'
    OBVIOUS
  <2>5. PICK exact : exact = ~lagging_drop
    OBVIOUS
  <2>6. pos2 \in [Subs -> Nat] /\ pos2[s] = position[s] + 1 /\ \A u \in subscribers \ {s} : pos2[u] = position[u]
    BY <1>3, <2>4
  <2>7. Counted(queue, next_message_id, subscribers, position, exact)
    BY <2>3, <2>5
  <2>8. /\ QueueOK(ReadAt(queue, j), next_message_id)
        /\ Counted(ReadAt(queue, j), next_message_id, subscribers, pos2, exact)
    BY <1>2, <2>2, <2>6, <2>7, ReadCounted
  <2> QED
    BY <2>1, <2>4, <2>5, <2>8
<1>5. Len(ReadAt(queue, Index(s))) = Len(queue)
  <2>1. queue \in Seq(Entry) /\ ReadAt(queue, Index(s)) \in Seq(Entry) /\ Index(s) \in 1 .. Len(queue)
    BY <1>2, <1>4 DEF QueueOK
  <2> QED
    BY <2>1, ReadLength
<1> QED
  BY <1>4, <1>5

LEMMA ReadStep ==
  ASSUME IInv, NEW s \in subscribers, s \notin asleep, Read(s),
         UNCHANGED <<next_message_id, handles, subscriber_wakers>>,
         waiting' = waiting \/ waiting' = waiting \ {s}
  PROVE  IInv'
<1> DEFINE r == ReadAt(queue, Index(s))
<1>1. /\ HasMessage(s)
      /\ position' = [position EXCEPT ![s] = @ + 1]
      /\ delivered' = [delivered EXCEPT ![s] = queue[Index(s)].message]
      /\ UNCHANGED <<next_message_id, subscribers, publishers, lagging_drop, subscriber_wakers>>
      /\ \/ r # <<>> /\ queue' = Tail(r) /\ asleep' = asleep \ publisher_wakers /\ publisher_wakers' = {}
         \/ queue' = r /\ UNCHANGED <<publisher_wakers, asleep>>
  <2>1. /\ HasMessage(s)
        /\ position' = [position EXCEPT ![s] = @ + 1]
        /\ delivered' = [delivered EXCEPT ![s] = queue[Index(s)].message]
        /\ IF Index(s) = 1 /\ r[1].count = 0
           THEN queue' = Tail(r) /\ asleep' = asleep \ publisher_wakers /\ publisher_wakers' = {}
           ELSE queue' = r /\ UNCHANGED <<publisher_wakers, asleep>>
    BY DEF Read, Wake, ReadAt
  <2>2. r # <<>>
    <3>1. 1 .. Len(queue) = DOMAIN r
      BY Facts, LenProperties DEF ReadAt, QueueOK
    <3>2. Index(s) \in DOMAIN r
      BY <2>1, <3>1, Places
    <3> HIDE DEF r
    <3> QED
      BY <3>2
  <2> QED
    BY <2>1, <2>2 DEF handles
<1>2. /\ QueueOK(queue, next_message_id) /\ Len(queue) \in Nat
      /\ subscribers \in SUBSET Subs /\ position \in [Subs -> Nat]
      /\ Index(s) \in 1 .. Len(queue) /\ position[s] < next_message_id /\ position[s] \in Nat
      /\ position[s] = next_message_id - Len(queue) + Index(s) - 1
  BY <1>1, Facts, Places DEF HasMessage
<1>3. /\ position' \in [Subs -> Nat] /\ position'[s] = position[s] + 1
      /\ \A u \in subscribers \ {s} : position'[u] = position[u]
  BY <1>1, <1>2
<1>4. QueueOK(r, next_message_id) /\ Counted(r, next_message_id, subscribers, position', ~lagging_drop)
  BY <1>1, ReadKeeps
<1>5. Len(r) = Len(queue)
  BY <1>1, ReadKeeps
<1> HIDE DEF r
<1>6. QueueOK(queue', next_message_id) /\ Counted(queue', next_message_id, subscribers, position', ~lagging_drop)
  <2>1. CASE queue' = r
    BY <1>4, <2>1
  <2>2. CASE r # <<>> /\ queue' = Tail(r)
    <3>1. /\ QueueOK(Tail(r), next_message_id)
          /\ Counted(Tail(r), next_message_id, subscribers, position', ~lagging_drop)
      BY <1>4, <2>2, TailCounted
    <3> QED
      BY <2>2, <3>1
  <2> QED
    BY <1>1, <2>1, <2>2
<1>7. Counted(queue', next_message_id', subscribers', position', ~lagging_drop')
  BY <1>1, <1>6
<1>8. asleep' \subseteq asleep /\ publisher_wakers' \subseteq publisher_wakers
      /\ Cardinality(publisher_wakers') <= PUBS
  <2>1. Cardinality({}) = 0 /\ 0 <= PUBS
    BY FS_EmptySet, SizesAssumption
  <2> QED
    BY <1>1, <2>1 DEF IInv, TypeOK
<1>9. TypeOK'
  <2>1. delivered' \in [Subs -> Nat \cup {Nil}]
    <3>1. queue[Index(s)] \in Entry
      BY <1>2, ElementOfSeq DEF QueueOK
    <3> QED
      BY <1>1, <3>1 DEF IInv, TypeOK, Entry
  <2>2. queue' \in Seq([message : Nat, count : Nat]) /\ Len(queue') <= CAP /\ Len(queue') <= next_message_id'
    BY <1>1, <1>6 DEF QueueOK, Entry
  <2>3. waiting' \subseteq subscribers' \cup publishers' /\ asleep' \subseteq waiting'
    BY <1>1, <1>8 DEF IInv, TypeOK
  <2> QED
    BY <1>1, <1>3, <1>8, <2>1, <2>2, <2>3 DEF IInv, TypeOK
<1>10. Positions'
  <2>1. ASSUME NEW u \in subscribers
        PROVE  position'[u] <= next_message_id
    <3>1. CASE u = s
      BY <1>2, <1>3, <3>1 DEF QueueOK
    <3>2. CASE u # s
      BY <1>3, <3>2 DEF IInv, Positions
    <3> QED
      BY <3>1, <3>2
  <2> QED
    BY <1>1, <2>1 DEF Positions
<1>11. Rested'
  <2>1. ASSUME NEW t \in asleep' \cap Subs
        PROVE  t \in subscriber_wakers' /\ position'[t] = next_message_id'
    <3>1. t \in asleep \cap Subs /\ t \in subscribers \ {s}
      BY <1>8, Facts
    <3>2. t \in subscriber_wakers /\ position[t] = next_message_id
      BY <3>1 DEF IInv, Rested
    <3> QED
      BY <1>1, <1>3, <3>1, <3>2
  <2>2. ASSUME NEW p \in asleep' \cap Pubs, ~lagging_drop'
        PROVE  p \in publisher_wakers' /\ Len(queue') = CAP /\ subscribers' # {}
    <3>1. p \in asleep /\ p \in Pubs /\ ~lagging_drop
      BY <1>1, <1>8, <2>2
    <3>2. p \in publisher_wakers /\ Len(queue) = CAP /\ subscribers # {}
      BY <3>1 DEF IInv, Rested
    <3>3. queue' = r /\ UNCHANGED publisher_wakers
      BY <1>1, <3>2
    <3> QED
      BY <1>1, <1>5, <3>2, <3>3
  <2> QED
    BY <2>1, <2>2 DEF Rested
<1> QED
  BY <1>7, <1>9, <1>10, <1>11 DEF IInv

\* A subscriber that lags goes on with the oldest message there is.
LEMMA SkipLostStep ==
  ASSUME IInv, NEW s \in subscribers, s \notin asleep, SkipLost(s),
         UNCHANGED <<next_message_id, handles, subscriber_wakers>>,
         waiting' = waiting \/ waiting' = waiting \ {s}
  PROVE  IInv'
<1>1. /\ Lagging(s) /\ position' = [position EXCEPT ![s] = @ + (Start - @)]
      /\ UNCHANGED <<queue, delivered, publisher_wakers, asleep, next_message_id, subscribers,
                     publishers, lagging_drop, subscriber_wakers>>
  BY DEF SkipLost, handles
<1>2. /\ QueueOK(queue, next_message_id) /\ Len(queue) \in Nat /\ Len(queue) <= next_message_id
      /\ next_message_id \in Nat
      /\ subscribers \in SUBSET Subs /\ position \in [Subs -> Nat]
      /\ position[s] \in Nat /\ position[s] < next_message_id - Len(queue)
  BY <1>1, Facts, Places DEF QueueOK
<1>3. /\ position' \in [Subs -> Nat] /\ position'[s] = next_message_id - Len(queue)
      /\ \A u \in subscribers \ {s} : position'[u] = position[u]
  <2>1. position[s] + (Start - position[s]) = next_message_id - Len(queue)
        /\ next_message_id - Len(queue) \in Nat
    BY <1>2 DEF Start
  <2>2. position' = [position EXCEPT ![s] = next_message_id - Len(queue)]
    BY <1>1, <2>1
  <2> QED
    BY <1>2, <2>1, <2>2
<1>4. Counted(queue', next_message_id', subscribers', position', ~lagging_drop')
  <2>1. ASSUME NEW a \in Nat, next_message_id - Len(queue) <= a
        PROVE  Readers(subscribers, position', a) = Readers(subscribers, position, a)
    <3>1. position[s] <= a /\ position'[s] <= a
      BY <1>2, <1>3, <2>1
    <3>2. \A u \in subscribers : position'[u] <= a <=> position[u] <= a
      BY <1>3, <3>1
    <3> QED
      BY <3>2 DEF Readers
  <2>2. Counted(queue, next_message_id, subscribers, position', ~lagging_drop)
    BY <2>1, Facts, SameReaders
  <2> QED
    BY <1>1, <2>2
<1>5. TypeOK'
  BY <1>1, <1>3 DEF IInv, TypeOK
<1>6. Positions'
  BY <1>1, <1>2, <1>3 DEF IInv, Positions
<1>7. Rested'
  <2>1. \A t \in asleep \cap Subs : t \in subscribers \ {s}
    BY Facts
  <2> QED
    BY <1>1, <1>3, <2>1 DEF IInv, Rested
<1> QED
  BY <1>4, <1>5, <1>6, <1>7 DEF IInv

\* A subscriber finds nothing: it is registered and sleeps.
LEMMA RegisterSubscriberStep ==
  ASSUME IInv, NEW s \in subscribers, s \in waiting, ~HasMessage(s), ~Lagging(s),
         subscriber_wakers' = Registered(subscriber_wakers, s, SUBS),
         Sleep(s, Evicted(subscriber_wakers, s, SUBS)),
         UNCHANGED <<queue, position, delivered, publisher_wakers, waiting, next_message_id, handles>>
  PROVE  IInv'
<1>1. UNCHANGED <<queue, position, delivered, publisher_wakers, waiting, next_message_id,
                  subscribers, publishers, lagging_drop>>
  BY DEF handles
<1>2. /\ subscriber_wakers' \subseteq Subs /\ Cardinality(subscriber_wakers') <= SUBS
      /\ s \in subscriber_wakers'
      /\ \A u \in subscriber_wakers \ Evicted(subscriber_wakers, s, SUBS) : u \in subscriber_wakers'
  <2>1. /\ IsFiniteSet(Subs) /\ subscriber_wakers \in SUBSET Subs /\ s \in Subs
        /\ SUBS \in Nat \ {0} /\ Cardinality(subscriber_wakers) <= SUBS
    BY Facts, TasksAssumption DEF IInv, TypeOK
  <2> QED
    BY <2>1, WakerListKept
<1>3. asleep' = (asleep \ Evicted(subscriber_wakers, s, SUBS)) \cup {s}
  BY DEF Sleep
<1>4. TypeOK'
  BY <1>1, <1>2, <1>3 DEF IInv, TypeOK
<1>5. Rested'
  <2>1. position[s] = next_message_id /\ s \notin Pubs
    BY Places, Facts, TasksAssumption
  <2> QED
    BY <1>1, <1>2, <1>3, <2>1 DEF IInv, Rested
<1>6. Positions' /\ Counted(queue', next_message_id', subscribers', position', ~lagging_drop')
  BY <1>1 DEF IInv, Positions
<1> QED
  BY <1>4, <1>5, <1>6 DEF IInv

LEMMA PollSubscriberStep ==
  ASSUME IInv, NEW s \in Subs, PollSubscriber(s)
  PROVE  IInv'
<1>1. s \in subscribers /\ s \in waiting /\ s \notin asleep
  BY Facts DEF PollSubscriber
<1>2. CASE Read(s) /\ waiting' = waiting \ {s} /\ UNCHANGED subscriber_wakers
  BY <1>1, <1>2, ReadStep DEF PollSubscriber
<1>3. CASE SkipLost(s) /\ waiting' \in {waiting, waiting \ {s}} /\ UNCHANGED subscriber_wakers
  BY <1>1, <1>3, SkipLostStep DEF PollSubscriber
<1>4. CASE /\ ~HasMessage(s) /\ ~Lagging(s)
           /\ subscriber_wakers' = Registered(subscriber_wakers, s, SUBS)
           /\ Sleep(s, Evicted(subscriber_wakers, s, SUBS))
           /\ UNCHANGED <<queue, position, delivered, publisher_wakers, waiting>>
  <2>1. UNCHANGED <<next_message_id, handles>>
    BY DEF PollSubscriber
  <2> QED
    BY <1>1, <1>4, <2>1, RegisterSubscriberStep
<1> QED
  BY <1>2, <1>3, <1>4 DEF PollSubscriber

LEMMA TryNextMessageStep ==
  ASSUME IInv, NEW s \in Subs, TryNextMessage(s)
  PROVE  IInv'
<1>1. s \in subscribers /\ s \notin asleep /\ waiting' = waiting
      /\ UNCHANGED <<next_message_id, handles, subscriber_wakers>>
  BY Facts DEF TryNextMessage
<1> QED
  BY <1>1, ReadStep, SkipLostStep DEF TryNextMessage

-----------------------------------------------------------------------------
\* Publishing on a queue q that was made fit for it.
LEMMA PushKeeps ==
  ASSUME IInv, NEW q, QueueOK(q, next_message_id),
         Counted(q, next_message_id, subscribers, position, ~lagging_drop),
         Push(q), UNCHANGED <<handles, position>>
  PROVE  /\ QueueOK(queue', next_message_id') /\ next_message_id <= next_message_id'
         /\ Counted(queue', next_message_id', subscribers', position', ~lagging_drop')
         /\ subscriber_wakers' \subseteq subscriber_wakers /\ Cardinality(subscriber_wakers') <= SUBS
         /\ asleep' \subseteq asleep /\ asleep' \cap Subs = {}
         /\ subscribers # {} => Len(queue') = Len(q) + 1 /\ Len(q) < CAP
<1>1. UNCHANGED <<subscribers, lagging_drop, position>>
  BY DEF handles
<1>2. next_message_id \in Nat /\ asleep \cap Subs \subseteq subscribers
  BY Facts DEF QueueOK
<1>3. CASE subscribers = {}
  <2>1. queue' = q /\ UNCHANGED <<next_message_id, subscriber_wakers, asleep>>
    BY <1>3 DEF Push
  <2> QED
    BY <1>1, <1>2, <1>3, <2>1 DEF IInv, TypeOK
<1>4. CASE subscribers # {}
  <2> DEFINE m == [message |-> next_message_id, count |-> Cardinality(subscribers)]
  <2>1. /\ Len(q) < CAP /\ queue' = Append(q, m)
        /\ next_message_id' = next_message_id + 1
        /\ asleep' = asleep \ subscriber_wakers /\ subscriber_wakers' = {}
    BY <1>4 DEF Push, Wake
  <2>2. /\ QueueOK(Append(q, m), next_message_id')
        /\ Counted(Append(q, m), next_message_id', subscribers, position, ~lagging_drop)
        /\ Len(Append(q, m)) = Len(q) + 1
    <3>1. subscribers \in SUBSET Subs /\ \A s \in subscribers : position[s] <= next_message_id
      BY Facts DEF IInv, Positions
    <3> QED
      BY <2>1, <3>1, AppendCounted
  <2>3. asleep' \cap Subs = {}
    BY <2>1 DEF IInv, Rested
  <2>4. Cardinality(subscriber_wakers') <= SUBS
    <3>1. Cardinality({}) = 0 /\ 0 <= SUBS
      BY FS_EmptySet, SizesAssumption
    <3> QED
      BY <2>1, <3>1
  <2> QED
    BY <1>1, <1>2, <2>1, <2>2, <2>3, <2>4
<1> QED
  BY <1>3, <1>4

\* A message is published on the queue as it is, or, if that is full, on all
\* but its oldest message.
LEMMA PublishKeeps ==
  ASSUME IInv, NEW q, Push(q), UNCHANGED <<handles, position, delivered, publisher_wakers>>,
         q = queue \/ (Full /\ q = Tail(queue)),
         waiting' \subseteq waiting, \A t \in asleep : t \in waiting'
  PROVE  IInv'
<1>1. /\ QueueOK(queue, next_message_id) /\ Len(queue) \in Nat /\ CAP \in Nat \ {0}
      /\ Counted(queue, next_message_id, subscribers, position, ~lagging_drop)
      /\ position \in [Subs -> Nat] /\ subscribers \in SUBSET Subs
  BY Facts
<1>2. UNCHANGED <<subscribers, publishers, lagging_drop, position, delivered, publisher_wakers>>
  BY DEF handles
<1>3. /\ QueueOK(q, next_message_id)
      /\ Counted(q, next_message_id, subscribers, position, ~lagging_drop)
      /\ Len(q) = Len(queue) \/ (Len(queue) = CAP /\ Len(q) = CAP - 1)
  <2>1. CASE q = queue
    BY <1>1, <2>1
  <2>2. CASE Full /\ q = Tail(queue)
    <3>1. Len(queue) = CAP /\ queue # <<>>
      BY <1>1, <2>2, EmptySeq DEF Full
    <3>2. /\ QueueOK(Tail(queue), next_message_id)
          /\ Counted(Tail(queue), next_message_id, subscribers, position, ~lagging_drop)
          /\ Len(Tail(queue)) = Len(queue) - 1
      BY <1>1, <3>1, TailCounted
    <3> QED
      BY <2>2, <3>1, <3>2
  <2> QED
    BY <2>1, <2>2
<1>4. /\ QueueOK(queue', next_message_id') /\ next_message_id <= next_message_id'
      /\ Counted(queue', next_message_id', subscribers', position', ~lagging_drop')
      /\ subscriber_wakers' \subseteq subscriber_wakers /\ Cardinality(subscriber_wakers') <= SUBS
      /\ asleep' \subseteq asleep /\ asleep' \cap Subs = {}
      /\ subscribers # {} => Len(queue') = Len(q) + 1 /\ Len(q) < CAP
  BY <1>3, PushKeeps
<1>5. TypeOK'
  <2>1. queue' \in Seq([message : Nat, count : Nat]) /\ Len(queue') <= CAP
        /\ next_message_id' \in Nat /\ Len(queue') <= next_message_id'
    BY <1>4 DEF QueueOK, Entry
  <2>2. waiting' \subseteq subscribers' \cup publishers' /\ asleep' \subseteq waiting'
        /\ subscriber_wakers' \subseteq Subs
    BY <1>2, <1>4 DEF IInv, TypeOK
  <2> QED
    BY <1>2, <1>4, <2>1, <2>2 DEF IInv, TypeOK
<1>6. Positions'
  <2>1. ASSUME NEW s \in subscribers
        PROVE  position[s] <= next_message_id'
    <3>1. position[s] \in Nat /\ position[s] <= next_message_id
      BY <1>1 DEF IInv, Positions
    <3>2. next_message_id \in Nat /\ next_message_id' \in Nat
      BY <1>1, <1>4 DEF QueueOK
    <3> QED
      BY <1>4, <3>1, <3>2
  <2> QED
    BY <1>2, <2>1 DEF Positions
<1>7. Rested'
  <2>1. ASSUME NEW p \in asleep' \cap Pubs, ~lagging_drop'
        PROVE  p \in publisher_wakers' /\ Len(queue') = CAP /\ subscribers' # {}
    <3>1. p \in asleep /\ p \in Pubs /\ ~lagging_drop
      BY <1>2, <1>4, <2>1
    <3>2. p \in publisher_wakers /\ Len(queue) = CAP /\ subscribers # {}
      BY <3>1 DEF IInv, Rested
    <3>3. Len(queue') = Len(q) + 1 /\ Len(q) < CAP
      BY <1>4, <3>2
    <3>4. Len(queue') = CAP
      BY <1>1, <1>3, <3>2, <3>3
    <3> QED
      BY <1>2, <3>2, <3>4
  <2> QED
    BY <1>4, <2>1 DEF Rested
<1> QED
  BY <1>4, <1>5, <1>6, <1>7 DEF IInv

LEMMA TryPublishStep ==
  ASSUME IInv, TryPublish
  PROVE  IInv'
<1>1. \A t \in asleep : t \in waiting
  BY Facts
<1> QED
  BY <1>1, PublishKeeps DEF TryPublish

LEMMA PublishImmediateStep ==
  ASSUME IInv, PublishImmediate
  PROVE  IInv'
<1>1. PICK q : q = IF Full THEN Tail(queue) ELSE queue
  OBVIOUS
<1>2. Push(q) /\ (q = queue \/ (Full /\ q = Tail(queue)))
  BY <1>1 DEF PublishImmediate
<1>3. waiting' = waiting /\ \A t \in asleep : t \in waiting
  BY Facts DEF PublishImmediate
<1>4. UNCHANGED <<handles, position, delivered, publisher_wakers>>
  BY DEF PublishImmediate
<1> QED
  BY <1>2, <1>3, <1>4, PublishKeeps

\* A publisher finds no room: it is registered and sleeps.
LEMMA RegisterPublisherStep ==
  ASSUME IInv, NEW p \in Pubs, p \in waiting, subscribers # {}, Full,
         publisher_wakers' = Registered(publisher_wakers, p, PUBS),
         Sleep(p, Evicted(publisher_wakers, p, PUBS)),
         UNCHANGED <<queue, next_message_id, subscriber_wakers, waiting, handles, position, delivered>>
  PROVE  IInv'
<1>1. UNCHANGED <<queue, position, delivered, subscriber_wakers, waiting, next_message_id,
                  subscribers, publishers, lagging_drop>>
  BY DEF handles
<1>2. /\ publisher_wakers' \subseteq Pubs /\ Cardinality(publisher_wakers') <= PUBS
      /\ p \in publisher_wakers'
      /\ \A u \in publisher_wakers \ Evicted(publisher_wakers, p, PUBS) : u \in publisher_wakers'
  <2>1. /\ IsFiniteSet(Pubs) /\ publisher_wakers \in SUBSET Pubs
        /\ PUBS \in Nat \ {0} /\ Cardinality(publisher_wakers) <= PUBS
    BY Facts, TasksAssumption DEF IInv, TypeOK
  <2> QED
    BY <2>1, WakerListKept
<1>3. asleep' = (asleep \ Evicted(publisher_wakers, p, PUBS)) \cup {p}
  BY DEF Sleep
<1>4. TypeOK'
  BY <1>1, <1>2, <1>3 DEF IInv, TypeOK
<1>5. Rested'
  <2>1. Len(queue) = CAP /\ p \notin Subs
    BY TasksAssumption DEF Full
  <2> QED
    BY <1>1, <1>2, <1>3, <2>1 DEF IInv, Rested
<1>6. Positions' /\ Counted(queue', next_message_id', subscribers', position', ~lagging_drop')
  BY <1>1 DEF IInv, Positions
<1> QED
  BY <1>4, <1>5, <1>6 DEF IInv

LEMMA PollPublisherStep ==
  ASSUME IInv, NEW p \in Pubs, PollPublisher(p)
  PROVE  IInv'
<1>1. p \in waiting /\ p \notin asleep /\ UNCHANGED <<handles, position, delivered>>
  BY DEF PollPublisher
<1>2. CASE Push(queue) /\ waiting' = waiting \ {p} /\ UNCHANGED publisher_wakers
  <2>1. waiting' \subseteq waiting /\ \A t \in asleep : t \in waiting'
    BY <1>1, <1>2, Facts
  <2> QED
    BY <1>1, <1>2, <2>1, PublishKeeps
<1>3. CASE /\ subscribers # {} /\ Full
           /\ publisher_wakers' = Registered(publisher_wakers, p, PUBS)
           /\ Sleep(p, Evicted(publisher_wakers, p, PUBS))
           /\ UNCHANGED <<queue, next_message_id, subscriber_wakers, waiting>>
  BY <1>1, <1>3, RegisterPublisherStep
<1> QED
  BY <1>2, <1>3 DEF PollPublisher

LEMMA ClearStep ==
  ASSUME IInv, Clear
  PROVE  IInv'
<1>1. /\ queue' = <<>>
      /\ IF Full THEN asleep' = asleep \ publisher_wakers /\ publisher_wakers' = {}
         ELSE UNCHANGED <<publisher_wakers, asleep>>
      /\ UNCHANGED <<next_message_id, subscribers, publishers, lagging_drop, position, delivered,
                     subscriber_wakers, waiting>>
  BY DEF Clear, Wake, handles
<1>2. queue' \in Seq([message : Nat, count : Nat]) /\ Len(queue') = 0
  BY <1>1, EmptySeq
<1>3. /\ asleep' \subseteq asleep /\ publisher_wakers' \subseteq publisher_wakers
      /\ Cardinality(publisher_wakers') <= PUBS
  <2>1. Cardinality({}) = 0 /\ 0 <= PUBS
    BY FS_EmptySet, SizesAssumption
  <2> QED
    BY <1>1, <2>1 DEF IInv, TypeOK
<1>4. TypeOK'
  <2>1. Len(queue') <= CAP /\ Len(queue') <= next_message_id'
    BY <1>1, <1>2, Facts DEF QueueOK
  <2> QED
    BY <1>1, <1>2, <1>3, <2>1 DEF IInv, TypeOK
<1>5. Counted(queue', next_message_id', subscribers', position', ~lagging_drop')
  <2>1. 1 .. Len(queue') = {}
    BY <1>2
  <2> QED
    BY <2>1 DEF Counted
<1>6. Positions'
  BY <1>1 DEF IInv, Positions
<1>7. Rested'
  BY <1>1, <1>3 DEF IInv, Rested, Full
<1> QED
  BY <1>4, <1>5, <1>6, <1>7 DEF IInv

-----------------------------------------------------------------------------
LEMMA NextStep == IInv /\ [Next]_vars => IInv'
<1> SUFFICES ASSUME IInv, [Next]_vars PROVE IInv'
  OBVIOUS
<1>1. ASSUME NEW s \in Subs, Subscribe(s) \/ Unsubscribe(s) \/ TryNextMessage(s) PROVE IInv'
  BY <1>1, SubscribeStep, UnsubscribeStep, TryNextMessageStep
<1>2. ASSUME NEW p \in Pubs, CreatePublisher(p) \/ DropPublisher(p) PROVE IInv'
  BY <1>2, CreatePublisherStep, DropPublisherStep
<1>3. ASSUME NEW t \in Subs \cup Pubs, Ask(t) \/ Cancel(t) \/ WokenByOther(t) PROVE IInv'
  BY <1>3, AskStep, CancelStep, WokenByOtherStep
<1>4. ASSUME NEW t \in Subs \cup Pubs, Poll(t) PROVE IInv'
  <2>1. CASE PollSubscriber(t)
    <3>1. t \in Subs
      BY <2>1 DEF PollSubscriber
    <3> QED
      BY <2>1, <3>1, PollSubscriberStep
  <2>2. CASE PollPublisher(t)
    <3>1. t \in Pubs
      BY <2>2 DEF PollPublisher
    <3> QED
      BY <2>2, <3>1, PollPublisherStep
  <2> QED
    BY <1>4, <2>1, <2>2 DEF Poll
<1>5. CASE TryPublish \/ PublishImmediate \/ Clear
  BY <1>5, TryPublishStep, PublishImmediateStep, ClearStep
<1>6. CASE UNCHANGED vars
  BY <1>6 DEF vars, IInv, TypeOK, Positions, Rested
<1> QED
  BY <1>1, <1>2, <1>3, <1>4, <1>5, <1>6 DEF Next

LEMMA Invariance == Spec => []IInv
  BY InitEstablishes, NextStep, PTL DEF Spec, Safety

\* The Deque and the waker lists of PubSubState stay within their sizes, and
\* no counter is decremented below zero.
THEOREM TypeCorrect == Spec => []TypeOK
<1>1. IInv => TypeOK
  BY DEF IInv
<1> QED
  BY <1>1, Invariance, PTL

\* The counter of a queued message is the number of subscribers that are yet
\* to read it, never less, and never more before a lagging one is dropped.
THEOREM CountsReadersAlways == Spec => []CountsReaders
<1>1. IInv => CountsReaders
  <2> SUFFICES ASSUME IInv, NEW i \in 1 .. Len(queue)
               PROVE  /\ queue[i].count >= Cardinality(Unread(i))
                      /\ ~lagging_drop => queue[i].count = Cardinality(Unread(i))
    BY DEF CountsReaders
  <2>1. Right(queue[i].count, Readers(subscribers, position, next_message_id - Len(queue) + i - 1), ~lagging_drop)
    BY Facts DEF Counted
  <2>2. Unread(i) = Readers(subscribers, position, next_message_id - Len(queue) + i - 1)
    <3>1. ASSUME NEW s \in subscribers
          PROVE  Lagging(s) \/ Index(s) <= i <=> position[s] <= next_message_id - Len(queue) + i - 1
      <4>1. /\ position[s] \in Nat /\ next_message_id \in Nat /\ Len(queue) \in Nat
            /\ Len(queue) <= next_message_id
        BY Facts, Places DEF QueueOK
      <4> QED
        BY <4>1 DEF Lagging, Index, Start
    <3> QED
      BY <3>1 DEF Unread, Readers
  <2> QED
    BY <2>1, <2>2 DEF Right
<1> QED
  BY <1>1, Invariance, PTL

\* A subscriber that sleeps has nothing to read and is registered
\* (get_message_with_context).  So is a publisher that sleeps, in front of a
\* full queue that somebody reads (publish_with_context), as long as no
\* subscriber was dropped while it lagged: what unregister_subscriber leaves in
\* the queue then may keep publishers asleep for good (pubsub/mod.rs:396).
THEOREM NoLostWakeupAlways == Spec => []NoLostWakeup
<1>1. IInv => NoLostWakeup
  <2> SUFFICES ASSUME IInv PROVE NoLostWakeup
    OBVIOUS
  <2>1. ASSUME NEW s \in asleep \cap Subs
        PROVE  s \in subscriber_wakers /\ ~HasMessage(s) /\ ~Lagging(s)
    <3>1. s \in subscribers /\ s \in subscriber_wakers /\ position[s] = next_message_id
      BY Facts DEF IInv, Rested
    <3>2. next_message_id \in Nat /\ Len(queue) \in Nat /\ Len(queue) <= next_message_id
      BY Facts DEF QueueOK
    <3> QED
      BY <3>1, <3>2 DEF HasMessage, Lagging, Index, Start
  <2>2. \A p \in asleep \cap Pubs : lagging_drop \/ (p \in publisher_wakers /\ Full /\ subscribers # {})
    BY DEF IInv, Rested, Full
  <2> QED
    BY <2>1, <2>2 DEF NoLostWakeup
<1> QED
  BY <1>1, Invariance, PTL

-----------------------------------------------------------------------------
\* The steps of PubSub are those of Broadcast.

\* A message is found by its position: its number is that of its place.
Numbered(q, id) == \A i \in 1 .. Len(q) : q[i].message = id - Len(q) + i - 1

\* The queue after one that loses its first k messages.
LEMMA SuffixNumbered ==
  ASSUME NEW q, NEW id, QueueOK(q, id), Numbered(q, id), NEW k \in 0 .. Len(q)
  PROVE  Numbered(SubSeq(q, k + 1, Len(q)), id)
<1> DEFINE r == SubSeq(q, k + 1, Len(q))
<1>1. q \in Seq(Entry) /\ Len(q) \in Nat /\ id \in Nat /\ k \in Nat
  BY LenProperties DEF QueueOK
<1>2. \A i \in k + 1 .. Len(q) : q[i] \in Entry
  BY <1>1, ElementOfSeq
<1>3. /\ Len(r) = IF k + 1 <= Len(q) THEN Len(q) - (k + 1) + 1 ELSE 0
      /\ \A i \in 1 .. Len(q) - (k + 1) + 1 : r[i] = q[k + 1 + i - 1]
  BY <1>1, <1>2, SubSeqProperties
<1>4. Len(r) = Len(q) - k /\ \A i \in 1 .. Len(q) - k : r[i] = q[k + i]
  BY <1>1, <1>3
<1> HIDE DEF r
<1>5. ASSUME NEW i \in 1 .. Len(r)
      PROVE  r[i].message = id - Len(r) + i - 1
  <2>1. k + i \in 1 .. Len(q) /\ r[i] = q[k + i] /\ id - Len(q) + (k + i) - 1 = id - Len(r) + i - 1
    BY <1>1, <1>4
  <2> QED
    BY <2>1 DEF Numbered
<1> QED
  BY <1>5 DEF Numbered, r

LEMMA TailNumbered ==
  ASSUME NEW q, NEW id, QueueOK(q, id), Numbered(q, id), q # <<>>
  PROVE  Numbered(Tail(q), id)
<1>1. q \in Seq(Entry) /\ Len(q) \in Nat \ {0}
  BY EmptySeq DEF QueueOK
<1>2. Tail(q) = SubSeq(q, 1 + 1, Len(q)) /\ 1 \in 0 .. Len(q)
  BY <1>1, TailIsSubSeq
<1> QED
  BY <1>2, SuffixNumbered

\* Counting down leaves the messages as they are.
LEMMA SameNumbered ==
  ASSUME NEW q, NEW id, Numbered(q, id), NEW r, Len(r) = Len(q),
         \A i \in 1 .. Len(q) : r[i].message = q[i].message
  PROVE  Numbered(r, id)
  BY DEF Numbered

LEMMA AppendNumbered ==
  ASSUME NEW q, NEW id, QueueOK(q, id), Numbered(q, id), NEW m \in Entry, m.message = id,
         NEW next, next = id + 1
  PROVE  Numbered(Append(q, m), next)
<1> DEFINE r == Append(q, m)
<1>1. q \in Seq(Entry) /\ Len(q) \in Nat /\ id \in Nat
  BY LenProperties DEF QueueOK
<1>2. /\ Len(r) = Len(q) + 1 /\ r[Len(q) + 1] = m
      /\ \A i \in 1 .. Len(q) : r[i] = q[i]
  BY <1>1, AppendProperties
<1> HIDE DEF r
<1>3. ASSUME NEW i \in 1 .. Len(r)
      PROVE  r[i].message = next - Len(r) + i - 1
  <2>1. CASE i = Len(q) + 1
    BY <1>1, <1>2, <2>1
  <2>2. CASE i \in 1 .. Len(q)
    BY <1>1, <1>2, <2>2 DEF Numbered
  <2> QED
    BY <1>1, <1>2, <2>1, <2>2
<1>4. Numbered(r, next)
  BY <1>3 DEF Numbered
<1> QED
  BY <1>4 DEF r

\* The messages from number a to number b - 1.
Ids(a, b) == [i \in 1 .. b - a |-> a + i - 1]

LEMMA IdsSeq ==
  ASSUME NEW a \in Nat, NEW b \in Nat, a <= b
  PROVE  /\ Ids(a, b) \in Seq(Nat) /\ Len(Ids(a, b)) = b - a
         /\ \A i \in 1 .. b - a : Ids(a, b)[i] = a + i - 1
<1>1. b - a \in Nat /\ Ids(a, b) \in [1 .. b - a -> Nat]
  BY DEF Ids
<1>2. Ids(a, b) \in Seq(Nat)
  BY <1>1, SeqDef
<1>3. Len(Ids(a, b)) \in Nat /\ 1 .. Len(Ids(a, b)) = 1 .. b - a
  BY <1>1, <1>2, LenProperties
<1>4. Len(Ids(a, b)) = b - a
  <2>1. /\ Len(Ids(a, b)) >= 1 => Len(Ids(a, b)) \in 1 .. b - a
        /\ b - a >= 1 => b - a \in 1 .. Len(Ids(a, b))
    BY <1>1, <1>3
  <2> QED
    BY <1>1, <1>3, <2>1
<1> QED
  BY <1>2, <1>4 DEF Ids

LEMMA IdsEmpty ==
  ASSUME NEW a \in Nat, NEW b \in Nat, a <= b
  PROVE  Ids(a, b) = <<>> <=> a = b
<1>1. Ids(a, b) \in Seq(Nat) /\ Len(Ids(a, b)) = b - a
  BY IdsSeq
<1> QED
  BY <1>1, EmptySeq

LEMMA IdsFirst ==
  ASSUME NEW a \in Nat, NEW b \in Nat, a < b
  PROVE  Head(Ids(a, b)) = a /\ Tail(Ids(a, b)) = Ids(a + 1, b)
<1>1. /\ Ids(a, b) \in Seq(Nat) /\ Len(Ids(a, b)) = b - a /\ Ids(a, b) # <<>>
      /\ \A i \in 1 .. b - a : Ids(a, b)[i] = a + i - 1
      /\ Ids(a + 1, b) \in Seq(Nat) /\ Len(Ids(a + 1, b)) = b - (a + 1)
      /\ \A i \in 1 .. b - (a + 1) : Ids(a + 1, b)[i] = a + 1 + i - 1
  <2>1. a <= b /\ a # b /\ a + 1 \in Nat /\ a + 1 <= b
    OBVIOUS
  <2>2. /\ Ids(a, b) \in Seq(Nat) /\ Len(Ids(a, b)) = b - a
        /\ \A i \in 1 .. b - a : Ids(a, b)[i] = a + i - 1
    BY <2>1, IdsSeq
  <2>3. /\ Ids(a + 1, b) \in Seq(Nat) /\ Len(Ids(a + 1, b)) = b - (a + 1)
        /\ \A i \in 1 .. b - (a + 1) : Ids(a + 1, b)[i] = a + 1 + i - 1
    BY <2>1, IdsSeq
  <2> QED
    BY <2>1, <2>2, <2>3, IdsEmpty
<1>2. /\ Head(Ids(a, b)) = Ids(a, b)[1]
      /\ Tail(Ids(a, b)) \in Seq(Nat) /\ Len(Tail(Ids(a, b))) = b - a - 1
      /\ \A i \in 1 .. b - a - 1 : Tail(Ids(a, b))[i] = Ids(a, b)[i + 1]
  BY <1>1, HeadTailProperties
<1>3. Tail(Ids(a, b)) = Ids(a + 1, b)
  <2>1. \A i \in 1 .. b - a - 1 : Tail(Ids(a, b))[i] = Ids(a + 1, b)[i]
    BY <1>1, <1>2
  <2>2. Len(Tail(Ids(a, b))) = Len(Ids(a + 1, b))
    BY <1>1, <1>2
  <2> QED
    BY <1>1, <1>2, <2>1, <2>2, SeqEqual
<1>4. Head(Ids(a, b)) = a
  BY <1>1, <1>2
<1> QED
  BY <1>3, <1>4

LEMMA IdsAppend ==
  ASSUME NEW a \in Nat, NEW b \in Nat, a <= b
  PROVE  Append(Ids(a, b), b) = Ids(a, b + 1)
<1> DEFINE p == Ids(a, b)
           q == Append(p, b)
           r == Ids(a, b + 1)
<1>1. p \in Seq(Nat) /\ Len(p) = b - a /\ \A i \in 1 .. b - a : p[i] = a + i - 1
  BY IdsSeq
<1>2. r \in Seq(Nat) /\ Len(r) = b + 1 - a /\ \A i \in 1 .. b + 1 - a : r[i] = a + i - 1
  <2>1. b + 1 \in Nat /\ a <= b + 1
    OBVIOUS
  <2> QED
    BY <2>1, IdsSeq
<1> HIDE DEF p, r
<1>3. /\ q \in Seq(Nat) /\ Len(q) = b - a + 1
      /\ \A i \in 1 .. b - a : q[i] = p[i]
      /\ q[b - a + 1] = b
  BY <1>1, AppendProperties
<1> HIDE DEF q
<1>4. \A i \in 1 .. Len(q) : q[i] = r[i]
  <2> SUFFICES ASSUME NEW i \in 1 .. Len(q) PROVE q[i] = r[i]
    OBVIOUS
  <2>1. CASE i = b - a + 1
    BY <1>2, <1>3, <2>1
  <2>2. CASE i \in 1 .. b - a
    BY <1>1, <1>2, <1>3, <2>2
  <2> QED
    BY <1>3, <2>1, <2>2
<1>5. Len(q) = Len(r)
  BY <1>2, <1>3
<1>6. q = r
  BY <1>2, <1>3, <1>4, <1>5, SeqEqual
<1> QED
  BY <1>6 DEF p, q, r

-----------------------------------------------------------------------------
\* How the steps that change the queue move its start.

Found == Numbered(queue, next_message_id)

LEMMA ReadMoves ==
  ASSUME IInv, Found, NEW s \in subscribers, Read(s),
         UNCHANGED <<next_message_id, subscribers, lagging_drop>>
  PROVE  /\ Found'
         /\ position[s] >= Start /\ position[s] < next_message_id
         /\ delivered' = [delivered EXCEPT ![s] = position[s]]
         /\ \/ Start' = Start
            \/ Start' = Start + 1 /\ \A u \in subscribers : position'[u] >= Start'
<1>0. PICK j \in 1 .. Len(queue) : j = Index(s)
  BY Places DEF Read
<1> DEFINE r == ReadAt(queue, j)
<1>1. /\ HasMessage(s)
      /\ position' = [position EXCEPT ![s] = @ + 1]
      /\ delivered' = [delivered EXCEPT ![s] = queue[j].message]
      /\ \/ j = 1 /\ r[1].count = 0 /\ queue' = Tail(r)
         \/ queue' = r
  BY <1>0 DEF Read, ReadAt
<1>2. /\ QueueOK(queue, next_message_id) /\ queue \in Seq(Entry) /\ Len(queue) \in Nat
      /\ next_message_id \in Nat /\ Len(queue) <= next_message_id
      /\ subscribers \in SUBSET Subs /\ position \in [Subs -> Nat]
      /\ position[s] < next_message_id /\ position[s] \in Nat
      /\ position[s] = next_message_id - Len(queue) + j - 1
  BY <1>0, <1>1, Facts, Places DEF HasMessage, QueueOK
<1>3. /\ position' \in [Subs -> Nat] /\ position'[s] = position[s] + 1
      /\ \A u \in subscribers \ {s} : position'[u] = position[u]
  BY <1>1, <1>2
<1>4. /\ QueueOK(r, next_message_id) /\ Len(r) = Len(queue)
      /\ Counted(r, next_message_id, subscribers, position', ~lagging_drop)
  BY <1>0, <1>1, ReadKeeps
<1>5. Len(r) = Len(queue)
  BY <1>4
<1>6. Numbered(r, next_message_id)
  <2>1. DOMAIN queue = 1 .. Len(queue) /\ \A i \in 1 .. Len(queue) : queue[i] \in Entry
    BY <1>2, LenProperties, ElementOfSeq
  <2>2. \A i \in 1 .. Len(queue) : r[i].message = queue[i].message
    BY <1>2, <2>1 DEF ReadAt, Entry
  <2> HIDE DEF r
  <2> QED
    BY <1>5, <2>2, SameNumbered DEF Found
<1>7. delivered' = [delivered EXCEPT ![s] = position[s]] /\ position[s] >= Start
  <2>1. queue[j].message = position[s]
    BY <1>2 DEF Found, Numbered
  <2>2. position[s] >= next_message_id - Len(queue)
    BY <1>2
  <2> QED
    BY <1>1, <2>1, <2>2 DEF Start
<1> HIDE DEF r
<1>8. CASE queue' = r
  BY <1>2, <1>5, <1>6, <1>7, <1>8 DEF Found, Start
<1>9. CASE j = 1 /\ r[1].count = 0 /\ queue' = Tail(r)
  <2>1. r # <<>>
    BY <1>2, <1>4, <1>5, EmptySeq DEF QueueOK
  <2>2. Numbered(Tail(r), next_message_id)
    BY <1>4, <1>6, <2>1, TailNumbered
  <2>3. Len(Tail(r)) = Len(r) - 1
    BY <1>4, <2>1, TailCounted
  <2>4. Start' = Start + 1 /\ Start \in Nat
    <3>1. Len(queue') = Len(queue) - 1
      BY <1>5, <1>9, <2>3
    <3>2. Start' = next_message_id - Len(queue')
      BY DEF Start
    <3> QED
      BY <1>2, <3>1, <3>2 DEF Start
  <2>5. Right(r[1].count, Readers(subscribers, position', Start), ~lagging_drop)
    <3>1. 1 \in 1 .. Len(r) /\ next_message_id - Len(r) + 1 - 1 = Start
      BY <1>2, <1>5 DEF Start
    <3> QED
      BY <1>4, <3>1 DEF Counted
  <2>6. Readers(subscribers, position', Start) = {}
    <3>1. /\ IsFiniteSet(Readers(subscribers, position', Start))
          /\ Cardinality(Readers(subscribers, position', Start)) \in Nat
      BY <1>2, ReadersAreSubs
    <3>2. Cardinality(Readers(subscribers, position', Start)) = 0
      BY <1>9, <2>5, <3>1 DEF Right
    <3> QED
      BY <3>1, <3>2, FS_EmptySet
  <2>7. \A u \in subscribers : position'[u] >= Start'
    <3> SUFFICES ASSUME NEW u \in subscribers PROVE position'[u] >= Start'
      OBVIOUS
    <3>1. ~(position'[u] <= Start) /\ position'[u] \in Nat
      BY <1>2, <1>3, <2>6 DEF Readers
    <3> QED
      BY <2>4, <3>1
  <2> QED
    BY <1>2, <1>7, <1>9, <2>2, <2>4, <2>7 DEF Found
<1> QED
  BY <1>1, <1>8, <1>9

LEMMA UnsubscribeMoves ==
  ASSUME IInv, Found, NEW s \in Subs, Unsubscribe(s)
  PROVE  /\ Found'
         /\ \/ Start' = Start
            \/ Start' > Start /\ \A u \in subscribers' : position'[u] >= Start'
<1>1. /\ s \in subscribers /\ subscribers' = subscribers \ {s}
      /\ position' = [position EXCEPT ![s] = 0] /\ UNCHANGED next_message_id
  BY DEF Unsubscribe
<1>2. /\ QueueOK(queue, next_message_id) /\ queue \in Seq(Entry) /\ Len(queue) \in Nat
      /\ next_message_id \in Nat /\ Len(queue) <= next_message_id
      /\ subscribers \in SUBSET Subs /\ position \in [Subs -> Nat]
  BY Facts DEF QueueOK
<1>3. CASE Lagging(s)
  BY <1>1, <1>3 DEF Unsubscribe, Found, Start
<1>4. CASE ~Lagging(s)
  <2>1. PICK j \in Nat \ {0} : j = Index(s) /\ position[s] = next_message_id - Len(queue) + j - 1
    BY <1>1, <1>4, Places
  <2> DEFINE r == CountedDown(queue, j)
  <2>2. position' \in [Subs -> Nat] /\ \A u \in subscribers \ {s} : position'[u] = position[u]
    BY <1>1, <1>2
  <2>3. /\ QueueOK(r, next_message_id)
        /\ Counted(r, next_message_id, subscribers \ {s}, position', ~lagging_drop)
    <3>1. Counted(queue, next_message_id, subscribers, position, ~lagging_drop)
      BY Facts
    <3> QED
      BY <1>1, <1>2, <2>1, <2>2, <3>1, CountedDownCounted, ZenonT(30)
  <2>4. Len(r) = Len(queue)
    BY <1>2, <2>3, CountedDownLength DEF QueueOK
  <2>5. Numbered(r, next_message_id)
    <3>1. DOMAIN queue = 1 .. Len(queue) /\ \A i \in 1 .. Len(queue) : queue[i] \in Entry
      BY <1>2, LenProperties, ElementOfSeq
    <3>2. \A i \in 1 .. Len(queue) : r[i].message = queue[i].message
      BY <3>1 DEF CountedDown, Entry
    <3> HIDE DEF r
    <3> QED
      BY <2>4, <3>2, SameNumbered DEF Found
  <2> HIDE DEF r
  <2>6. PICK k \in 0 .. Len(r) :
          /\ \A i \in 1 .. k : r[i].count = 0
          /\ queue' = SubSeq(r, k + 1, Len(r))
    BY <1>4, <2>1 DEF Unsubscribe, Trimmed, r
  <2>7. Len(queue') = Len(r) - k /\ Numbered(queue', next_message_id)
    BY <2>3, <2>5, <2>6, SuffixCounted, SuffixNumbered
  <2>8. Start' = Start + k /\ Start \in Nat /\ k \in Nat
    <3>1. Len(queue') = Len(queue) - k /\ k \in Nat
      BY <1>2, <2>4, <2>6, <2>7
    <3>2. Start' = next_message_id - Len(queue')
      BY <1>1 DEF Start
    <3> QED
      BY <1>2, <3>1, <3>2 DEF Start
  <2>9. CASE k = 0
    BY <1>1, <2>7, <2>8, <2>9 DEF Found
  <2>10. CASE k # 0
    <3>1. \A u \in subscribers' : position'[u] >= Start'
      <4> SUFFICES ASSUME NEW u \in subscribers' PROVE position'[u] >= Start'
        OBVIOUS
      <4> DEFINE a == Start + k - 1
                 R == Readers(subscribers \ {s}, position', a)
      <4>1. Right(r[k].count, R, ~lagging_drop) /\ r[k].count = 0
        <5>1. k \in 1 .. Len(r) /\ k \in 1 .. k /\ next_message_id - Len(r) + k - 1 = a
          BY <1>2, <2>4, <2>6, <2>10 DEF Start
        <5> QED
          BY <2>3, <2>6, <5>1 DEF Counted
      <4>2. subscribers \ {s} \in SUBSET Subs
        BY <1>2
      <4>3. R = {}
        <5>1. IsFiniteSet(R) /\ Cardinality(R) \in Nat
          BY <4>2, ReadersAreSubs
        <5>2. Cardinality(R) = 0
          BY <4>1, <5>1 DEF Right
        <5> HIDE DEF R
        <5> QED
          BY <5>1, <5>2, FS_EmptySet
      <4>4. ~(position'[u] <= a) /\ position'[u] \in Nat
        BY <1>1, <2>2, <4>2, <4>3 DEF Readers
      <4> QED
        BY <2>8, <2>10, <4>4
    <3> QED
      BY <1>1, <2>7, <2>8, <2>10, <3>1 DEF Found
  <2> QED
    BY <2>9, <2>10
<1> QED
  BY <1>3, <1>4

LEMMA PushMoves ==
  ASSUME IInv, Found, NEW q, Push(q), q = queue \/ (Full /\ q = Tail(queue)),
         UNCHANGED <<subscribers, position, lagging_drop>>
  PROVE  /\ Found'
         /\ subscribers = {} => UNCHANGED next_message_id
         /\ subscribers # {} =>
              /\ next_message_id < MaxId /\ next_message_id' = next_message_id + 1
              /\ \/ q = queue /\ Len(queue) < CAP /\ Start' = Start
                 \/ Len(queue) = CAP /\ Start' = Start + 1
<1>1. /\ QueueOK(queue, next_message_id) /\ Len(queue) \in Nat /\ next_message_id \in Nat
      /\ CAP \in Nat \ {0} /\ Len(queue) <= next_message_id
      /\ Counted(queue, next_message_id, subscribers, position, ~lagging_drop)
      /\ subscribers \in SUBSET Subs
  BY Facts DEF QueueOK
<1>2. /\ QueueOK(q, next_message_id) /\ Numbered(q, next_message_id)
      /\ \/ q = queue
         \/ Len(queue) = CAP /\ Len(q) = CAP - 1
  <2>1. CASE q = queue
    BY <1>1, <2>1 DEF Found
  <2>2. CASE Full /\ q = Tail(queue)
    <3>1. Len(queue) = CAP /\ queue # <<>>
      BY <1>1, <2>2, EmptySeq DEF Full
    <3>2. /\ QueueOK(Tail(queue), next_message_id) /\ Len(Tail(queue)) = Len(queue) - 1
          /\ Numbered(Tail(queue), next_message_id)
      BY <1>1, <3>1, TailCounted, TailNumbered DEF Found
    <3> QED
      BY <2>2, <3>1, <3>2
  <2> QED
    BY <2>1, <2>2
<1>3. CASE subscribers = {}
  <2>1. queue' = q /\ UNCHANGED next_message_id
    BY <1>3 DEF Push
  <2> QED
    BY <1>2, <1>3, <2>1 DEF Found
<1>4. CASE subscribers # {}
  <2> DEFINE m == [message |-> next_message_id, count |-> Cardinality(subscribers)]
  <2>1. /\ Len(q) < CAP /\ queue' = Append(q, m) /\ next_message_id < MaxId
        /\ next_message_id' = next_message_id + 1
    BY <1>4 DEF Push
  <2>2. m \in Entry /\ m.message = next_message_id
    BY <1>1, Finite DEF Entry
  <2>3. Numbered(queue', next_message_id') /\ Len(queue') = Len(q) + 1
    <3>1. q \in Seq(Entry)
      BY <1>2 DEF QueueOK
    <3> HIDE DEF m
    <3>2. Len(Append(q, m)) = Len(q) + 1
      BY <2>2, <3>1, AppendProperties
    <3> QED
      BY <1>2, <2>1, <2>2, <3>2, AppendNumbered
  <2>4. Len(q) \in Nat
    BY <1>2, LenProperties DEF QueueOK
  <2>5. \/ q = queue /\ Len(queue) < CAP /\ Start' = Start
        \/ Len(queue) = CAP /\ Start' = Start + 1
    BY <1>1, <1>2, <2>1, <2>3, <2>4, SMTT(30) DEF Start
  <2> QED
    BY <1>4, <2>1, <2>3, <2>5 DEF Found
<1> QED
  BY <1>3, <1>4

-----------------------------------------------------------------------------
\* What an inbox holds, in terms of the position pos of its subscriber, the
\* first message st in the queue and the next one id.

Oldest(pos, st) == IF pos < st THEN st ELSE pos
Box(S, pos, st, id) == [s \in Subs |-> IF s \in S THEN Ids(Oldest(pos[s], st), id) ELSE <<>>]
Late(S, pos, st) == [s \in Subs |-> IF s \in S THEN Oldest(pos[s], st) - pos[s] ELSE 0]

LEMMA UnseenAre ==
  ASSUME NEW q, NEW id, QueueOK(q, id), Numbered(q, id), NEW p \in Nat, p <= id,
         NEW un, un = IF p < id - Len(q) THEN Len(q) ELSE Len(q) - (p - (id - Len(q)) + 1) + 1
  PROVE  [i \in 1 .. un |-> q[Len(q) - un + i].message] = Ids(Oldest(p, id - Len(q)), id)
<1>1. q \in Seq(Entry) /\ Len(q) \in Nat /\ id \in Nat /\ Len(q) <= id
  BY LenProperties DEF QueueOK
<1>2. PICK a : a = Oldest(p, id - Len(q))
  OBVIOUS
<1>3. a \in Nat /\ a <= id /\ un = id - a /\ un \in 0 .. Len(q)
  BY <1>1, <1>2 DEF Oldest
<1>4. \A i \in 1 .. un : q[Len(q) - un + i].message = a + i - 1
  <2> SUFFICES ASSUME NEW i \in 1 .. un PROVE q[Len(q) - un + i].message = a + i - 1
    OBVIOUS
  <2>0. Len(q) - un + i \in 1 .. Len(q)
    BY <1>1, <1>3
  <2>1. PICK k \in 1 .. Len(q) : k = Len(q) - un + i
    BY <2>0
  <2>2. q[k].message = id - Len(q) + k - 1
    BY DEF Numbered
  <2>3. id - Len(q) + k - 1 = a + i - 1
    BY <1>1, <1>3, <2>1
  <2> QED
    BY <2>1, <2>2, <2>3
<1>5. [i \in 1 .. un |-> q[Len(q) - un + i].message] = [i \in 1 .. id - a |-> a + i - 1]
  BY <1>3, <1>4
<1> QED
  BY <1>2, <1>5 DEF Ids

Views ==
    /\ Inboxes = Box(subscribers, position, Start, next_message_id)
    /\ Lags = Late(subscribers, position, Start)
    /\ Start \in Nat /\ Start <= next_message_id /\ next_message_id \in Nat
    /\ Len(queue) = next_message_id - Start /\ next_message_id - Start <= CAP
    /\ position \in [Subs -> Nat] /\ subscribers \in SUBSET Subs
    /\ \A s \in subscribers : position[s] <= next_message_id

LEMMA InboxesAre == IInv /\ Found => Views
<1> SUFFICES ASSUME IInv, Found PROVE Views
  OBVIOUS
<1>1. /\ QueueOK(queue, next_message_id) /\ Len(queue) \in Nat /\ next_message_id \in Nat
      /\ Len(queue) <= next_message_id /\ Len(queue) <= CAP
      /\ position \in [Subs -> Nat] /\ subscribers \in SUBSET Subs
      /\ \A s \in subscribers : position[s] <= next_message_id
  BY Facts DEF QueueOK, IInv, Positions
<1>2. ASSUME NEW s \in subscribers
      PROVE  Inbox(s) = Ids(Oldest(position[s], Start), next_message_id)
             /\ Lag(s) = Oldest(position[s], Start) - position[s]
  <2>1. position[s] \in Nat /\ position[s] <= next_message_id
    BY <1>1
  <2>2. Unseen(s) = IF position[s] < next_message_id - Len(queue) THEN Len(queue)
                    ELSE Len(queue) - (position[s] - (next_message_id - Len(queue)) + 1) + 1
    BY DEF Unseen, Lagging, Index, Start
  <2>3. [i \in 1 .. Unseen(s) |-> queue[Len(queue) - Unseen(s) + i].message]
        = Ids(Oldest(position[s], next_message_id - Len(queue)), next_message_id)
    BY <1>1, <2>1, <2>2, UnseenAre DEF Found
  <2>4. Lag(s) = Oldest(position[s], Start) - position[s]
    BY <1>1, <2>1 DEF Lag, Lagging, Oldest, Start
  <2> QED
    BY <2>3, <2>4 DEF Inbox, Start
<1>3. Inboxes = Box(subscribers, position, Start, next_message_id)
  BY <1>2 DEF Inboxes, Box, Inbox
<1>4. Lags = Late(subscribers, position, Start)
  BY <1>2 DEF Lags, Late, Lag
<1> QED
  BY <1>1, <1>3, <1>4 DEF Start, Views

LEMMA FoundNext == IInv /\ Found /\ [Next]_vars => Found'
<1> SUFFICES ASSUME IInv, Found, [Next]_vars PROVE Found'
  OBVIOUS
<1>1. CASE UNCHANGED <<queue, next_message_id>>
  BY <1>1 DEF Found
<1>2. ASSUME NEW s \in Subs, TryNextMessage(s) \/ PollSubscriber(s) PROVE Found'
  <2>1. s \in subscribers
    BY <1>2, Facts DEF TryNextMessage, PollSubscriber
  <2>2. UNCHANGED <<next_message_id, subscribers, lagging_drop>>
    BY <1>2 DEF TryNextMessage, PollSubscriber, handles
  <2>3. Read(s) \/ UNCHANGED <<queue, next_message_id>>
    BY <1>2 DEF TryNextMessage, PollSubscriber, SkipLost
  <2> QED
    BY <1>1, <2>1, <2>2, <2>3, ReadMoves
<1>3. ASSUME NEW q, Push(q), q = queue \/ (Full /\ q = Tail(queue)), UNCHANGED <<handles, position>>
      PROVE  Found'
  BY <1>3, PushMoves DEF handles
<1>4. ASSUME NEW p \in Pubs, PollPublisher(p) PROVE Found'
  <2>1. Push(queue) \/ UNCHANGED <<queue, next_message_id>>
    BY <1>4 DEF PollPublisher
  <2> QED
    BY <1>1, <1>3, <1>4, <2>1 DEF PollPublisher
<1>5. ASSUME TryPublish \/ PublishImmediate PROVE Found'
  BY <1>3, <1>5 DEF TryPublish, PublishImmediate
<1>6. ASSUME Clear PROVE Found'
  <2>1. queue' = <<>> /\ 1 .. Len(<<>>) = {}
    BY <1>6, EmptySeq DEF Clear
  <2> QED
    BY <2>1 DEF Found, Numbered
<1>7. ASSUME NEW s \in Subs, Unsubscribe(s) PROVE Found'
  BY <1>7, UnsubscribeMoves
<1>8. ASSUME NEW t \in Subs \cup Pubs, Ask(t) \/ Cancel(t) \/ WokenByOther(t) PROVE Found'
  BY <1>1, <1>8 DEF Ask, Cancel, WokenByOther
<1>9. ASSUME NEW s \in Subs, Subscribe(s) PROVE Found'
  BY <1>1, <1>9 DEF Subscribe
<1>10. ASSUME NEW p \in Pubs, CreatePublisher(p) \/ DropPublisher(p) PROVE Found'
  BY <1>1, <1>10 DEF CreatePublisher, DropPublisher
<1>11. CASE UNCHANGED vars
  BY <1>1, <1>11 DEF vars
<1>12. ASSUME NEW t \in Subs \cup Pubs, Poll(t) PROVE Found'
  <2>1. PollSubscriber(t) => t \in Subs
    BY DEF PollSubscriber
  <2>2. PollPublisher(t) => t \in Pubs
    BY DEF PollPublisher
  <2> QED
    BY <1>2, <1>4, <1>12, <2>1, <2>2 DEF Poll
<1> QED
  BY <1>2, <1>5, <1>6, <1>7, <1>8, <1>9, <1>10, <1>11, <1>12 DEF Next

RInv == IInv /\ Found /\ Views

LEMMA RInvariance == Spec => []RInv
<1>1. Init => Found
  <2>1. 1 .. Len(<<>>) = {}
    BY EmptySeq
  <2> QED
    BY <2>1 DEF Init, Found, Numbered
<1> QED
  BY <1>1, InitEstablishes, NextStep, FoundNext, InboxesAre, PTL DEF Spec, Safety, RInv

-----------------------------------------------------------------------------
\* What a step does to the inboxes box and to what is lost of them, late.

Kept(box, late, box2, late2) == box2 = box /\ late2 = late
Emptied(box, late, box2, late2, s) == box2 = [box EXCEPT ![s] = <<>>] /\ late2 = [late EXCEPT ![s] = 0]
Shortened(box, late, box2, late2, s, a) ==
    /\ late[s] = 0 /\ box[s] # <<>> /\ Head(box[s]) = a
    /\ box2 = [box EXCEPT ![s] = Tail(@)] /\ late2 = late
Told(box, late, box2, late2, s) == late[s] > 0 /\ box2 = box /\ late2 = [late EXCEPT ![s] = 0]
Cleared(box, late, box2, late2) ==
    /\ box2 = [s \in Subs |-> <<>>]
    /\ late2 = [s \in Subs |-> late[s] + Len(box[s])]
Given(box, late, box2, late2, S, id) ==
    LET lost == {s \in S : Len(box[s]) = CAP}
    IN  /\ box2 = [s \in Subs |->
              CASE s \notin S -> <<>>
                [] s \in lost -> Append(Tail(box[s]), id)
                [] OTHER -> Append(box[s], id)]
        /\ late2 = [s \in Subs |-> IF s \in lost THEN late[s] + 1 ELSE late[s]]

\* The subscribers, their positions, the start of the queue and the next
\* message are S, pos, st, id before and S2, pos2, st2, id2 after the step.
Moved(pos, pos2, S, s) ==
    pos \in [Subs -> Nat] /\ pos2 \in [Subs -> Nat] /\ \A u \in S \ {s} : pos2[u] = pos[u]

\* The start moves past nobody who is left.
Onward(st, st2, S, pos) ==
    /\ st \in Nat /\ st2 \in Nat
    /\ st2 = st \/ (st2 > st /\ \A s \in S : pos[s] >= st2)

LEMMA SameBoxes ==
  ASSUME NEW S \in SUBSET Subs, NEW pos \in [Subs -> Nat], NEW id, NEW st, NEW st2, Onward(st, st2, S, pos)
  PROVE  Box(S, pos, st2, id) = Box(S, pos, st, id) /\ Late(S, pos, st2) = Late(S, pos, st)
<1>1. \A s \in S : Oldest(pos[s], st2) = Oldest(pos[s], st)
  BY DEF Oldest, Onward
<1> QED
  BY <1>1 DEF Box, Late

LEMMA SubscribeBoxes ==
  ASSUME NEW S \in SUBSET Subs, NEW id \in Nat, NEW st \in Nat, st <= id, NEW s \in Subs \ S,
         NEW pos, NEW pos2, Moved(pos, pos2, S, s), pos2[s] = id, NEW S2, S2 = S \cup {s}
  PROVE  Kept(Box(S, pos, st, id), Late(S, pos, st), Box(S2, pos2, st, id), Late(S2, pos2, st))
<1>1. \A u \in S : u # s /\ pos2[u] = pos[u]
  BY DEF Moved
<1>2. Oldest(pos2[s], st) = id /\ pos2[s] = id
  BY DEF Oldest
<1>3. Ids(id, id) = <<>> /\ id - id = 0
  BY IdsEmpty
<1>4. \A u \in Subs : u \in S2 <=> u \in S \/ u = s
  OBVIOUS
<1>5. Box(S2, pos2, st, id) = Box(S, pos, st, id)
  BY <1>1, <1>2, <1>3, <1>4 DEF Box
<1>6. Late(S2, pos2, st) = Late(S, pos, st)
  BY <1>1, <1>2, <1>3, <1>4 DEF Late
<1> QED
  BY <1>5, <1>6 DEF Kept

LEMMA UnsubscribeBoxes ==
  ASSUME NEW S \in SUBSET Subs, NEW id, NEW s \in S, NEW S2, S2 = S \ {s},
         NEW pos, NEW pos2, Moved(pos, pos2, S, s), NEW st, NEW st2, Onward(st, st2, S2, pos2)
  PROVE  Emptied(Box(S, pos, st, id), Late(S, pos, st), Box(S2, pos2, st2, id), Late(S2, pos2, st2), s)
<1>1. \A u \in S2 : u # s /\ pos2[u] = pos[u]
  BY DEF Moved
<1>2. Box(S2, pos2, st2, id) = Box(S2, pos2, st, id) /\ Late(S2, pos2, st2) = Late(S2, pos2, st)
  <2>1. pos2 \in [Subs -> Nat] /\ S2 \in SUBSET Subs
    BY DEF Moved
  <2> QED
    BY <2>1, SameBoxes
<1>3. \A u \in Subs : u \in S2 <=> u \in S /\ u # s
  OBVIOUS
<1>4. Box(S2, pos2, st, id) = [Box(S, pos, st, id) EXCEPT ![s] = <<>>]
  BY <1>1, <1>3 DEF Box
<1>5. Late(S2, pos2, st) = [Late(S, pos, st) EXCEPT ![s] = 0]
  BY <1>1, <1>3 DEF Late
<1> QED
  BY <1>2, <1>4, <1>5 DEF Emptied

LEMMA ReadBoxes ==
  ASSUME NEW S \in SUBSET Subs, NEW id \in Nat, NEW s \in S,
         NEW pos, NEW pos2, Moved(pos, pos2, S, s), pos2[s] = pos[s] + 1,
         NEW st, NEW st2, st <= pos[s], pos[s] < id, Onward(st, st2, S, pos2)
  PROVE  Shortened(Box(S, pos, st, id), Late(S, pos, st), Box(S, pos2, st2, id), Late(S, pos2, st2), s, pos[s])
<1>1. /\ pos2 \in [Subs -> Nat] /\ pos[s] \in Nat /\ st \in Nat
      /\ \A u \in S : u # s => pos2[u] = pos[u]
  BY DEF Moved, Onward
<1>2. Box(S, pos2, st2, id) = Box(S, pos2, st, id) /\ Late(S, pos2, st2) = Late(S, pos2, st)
  BY <1>1, SameBoxes
<1>3. Oldest(pos[s], st) = pos[s] /\ Oldest(pos2[s], st) = pos[s] + 1
  BY <1>1 DEF Oldest
<1>4. Box(S, pos, st, id)[s] = Ids(pos[s], id)
  BY <1>3 DEF Box
<1>5. Head(Ids(pos[s], id)) = pos[s] /\ Tail(Ids(pos[s], id)) = Ids(pos[s] + 1, id) /\ Ids(pos[s], id) # <<>>
  <2>1. pos[s] <= id /\ pos[s] # id
    BY <1>1
  <2> QED
    BY <1>1, <2>1, IdsEmpty, IdsFirst
<1>6. Box(S, pos2, st, id) = [Box(S, pos, st, id) EXCEPT ![s] = Tail(@)]
  BY <1>1, <1>3, <1>5 DEF Box
<1>7. Late(S, pos2, st) = Late(S, pos, st) /\ Late(S, pos, st)[s] = 0
  <2>1. (pos[s] + 1) - (pos[s] + 1) = 0 /\ pos[s] - pos[s] = 0
    BY <1>1
  <2> QED
    BY <1>1, <1>3, <2>1 DEF Late
<1> QED
  BY <1>2, <1>4, <1>5, <1>6, <1>7 DEF Shortened

LEMMA SkipBoxes ==
  ASSUME NEW S \in SUBSET Subs, NEW id, NEW s \in S, NEW st \in Nat,
         NEW pos, NEW pos2, Moved(pos, pos2, S, s), pos[s] < st, pos2[s] = st
  PROVE  Told(Box(S, pos, st, id), Late(S, pos, st), Box(S, pos2, st, id), Late(S, pos2, st), s)
<1>1. pos[s] \in Nat /\ pos2[s] = st /\ \A u \in S : u # s => pos2[u] = pos[u]
  BY DEF Moved
<1>2. Oldest(pos[s], st) = st /\ Oldest(pos2[s], st) = st /\ st - st = 0 /\ st - pos[s] > 0
  BY <1>1 DEF Oldest
<1>3. Box(S, pos2, st, id) = Box(S, pos, st, id)
  BY <1>1, <1>2 DEF Box
<1>4. Late(S, pos2, st) = [Late(S, pos, st) EXCEPT ![s] = 0] /\ Late(S, pos, st)[s] > 0
  BY <1>1, <1>2 DEF Late
<1> QED
  BY <1>3, <1>4 DEF Told

LEMMA ClearBoxes ==
  ASSUME NEW S \in SUBSET Subs, NEW pos \in [Subs -> Nat], NEW id \in Nat, NEW st \in Nat, st <= id,
         \A s \in S : pos[s] <= id
  PROVE  Cleared(Box(S, pos, st, id), Late(S, pos, st), Box(S, pos, id, id), Late(S, pos, id))
<1>1. \A s \in S : Oldest(pos[s], id) = id
  BY DEF Oldest
<1>2. Ids(id, id) = <<>>
  BY IdsEmpty
<1>3. Box(S, pos, id, id) = [s \in Subs |-> <<>>]
  BY <1>1, <1>2 DEF Box
<1>4. ASSUME NEW s \in S
      PROVE  Oldest(pos[s], st) - pos[s] + Len(Ids(Oldest(pos[s], st), id)) = id - pos[s]
  <2>1. PICK a : a = Oldest(pos[s], st)
    OBVIOUS
  <2>2. a \in Nat /\ a <= id /\ pos[s] \in Nat
    BY <2>1 DEF Oldest
  <2>3. Len(Ids(a, id)) = id - a
    BY <2>2, IdsSeq
  <2> QED
    BY <2>1, <2>2, <2>3
<1>5. Len(<<>>) = 0 /\ 0 + 0 = 0
  BY EmptySeq
<1>6. Late(S, pos, id) = [s \in Subs |-> Late(S, pos, st)[s] + Len(Box(S, pos, st, id)[s])]
  BY <1>1, <1>4, <1>5 DEF Late, Box
<1> QED
  BY <1>3, <1>6 DEF Cleared

\* A message is added, in the place of the oldest one if the queue is full.
LEMMA PushBoxes ==
  ASSUME NEW S \in SUBSET Subs, NEW pos \in [Subs -> Nat], NEW id \in Nat, NEW st \in Nat, st <= id,
         \A s \in S : pos[s] <= id, id - st <= CAP, NEW next, next = id + 1,
         NEW st2, (st2 = st /\ id - st < CAP) \/ (st2 = st + 1 /\ id - st = CAP)
  PROVE  Given(Box(S, pos, st, id), Late(S, pos, st), Box(S, pos, st2, next), Late(S, pos, st2), S, id)
<1> DEFINE inbox == Box(S, pos, st, id)
           lag == Late(S, pos, st)
           lost == {s \in S : Len(inbox[s]) = CAP}
<1>0. inbox = Box(S, pos, st, id) /\ lag = Late(S, pos, st) /\ lost = {s \in S : Len(inbox[s]) = CAP}
  OBVIOUS
<1> HIDE DEF inbox, lag, lost
<1>1. CAP \in Nat \ {0}
  BY SizesAssumption
<1>2. ASSUME NEW s \in S
      PROVE  /\ s \in lost <=> id - Oldest(pos[s], st) = CAP
             /\ Oldest(pos[s], st) \in Nat /\ Oldest(pos[s], st) <= id
             /\ inbox[s] = Ids(Oldest(pos[s], st), id)
  <2>1. inbox[s] = Ids(Oldest(pos[s], st), id)
    BY <1>0 DEF Box
  <2>2. pos[s] \in Nat /\ pos[s] <= id
    OBVIOUS
  <2>3. Oldest(pos[s], st) \in Nat /\ Oldest(pos[s], st) <= id
    BY <2>2 DEF Oldest
  <2>4. Len(inbox[s]) = id - Oldest(pos[s], st)
    BY <2>1, <2>3, IdsSeq
  <2> QED
    BY <1>0, <2>1, <2>3, <2>4
<1>3. ASSUME NEW s \in S, s \in lost
      PROVE  /\ Oldest(pos[s], st2) = Oldest(pos[s], st) + 1
             /\ Ids(Oldest(pos[s], st2), next) = Append(Tail(inbox[s]), id)
             /\ Oldest(pos[s], st2) - pos[s] = Oldest(pos[s], st) - pos[s] + 1
  <2>1. PICK a \in Nat : a = Oldest(pos[s], st)
    BY <1>2
  <2>2. id - a = CAP /\ a < id /\ pos[s] \in Nat
    BY <1>1, <1>2, <1>3, <2>1
  <2>3. a = st /\ st2 = st + 1 /\ pos[s] <= st
    BY <1>1, <2>1, <2>2 DEF Oldest
  <2>4. Oldest(pos[s], st2) = a + 1
    BY <2>2, <2>3 DEF Oldest
  <2>5. Tail(Ids(a, id)) = Ids(a + 1, id)
    BY <2>2, IdsFirst
  <2>6. a + 1 \in Nat /\ a + 1 <= id
    BY <2>2
  <2>7. Append(Ids(a + 1, id), id) = Ids(a + 1, id + 1)
    BY <2>6, IdsAppend
  <2>8. (a + 1) - pos[s] = (a - pos[s]) + 1
    BY <2>2
  <2>9. Ids(a + 1, next) = Append(Tail(inbox[s]), id)
    BY <1>2, <2>1, <2>5, <2>7
  <2> QED
    BY <2>1, <2>4, <2>8, <2>9
<1>4. ASSUME NEW s \in S, s \notin lost
      PROVE  /\ Oldest(pos[s], st2) = Oldest(pos[s], st)
             /\ Ids(Oldest(pos[s], st2), next) = Append(inbox[s], id)
  <2>1. PICK a \in Nat : a = Oldest(pos[s], st)
    BY <1>2
  <2>2. id - a # CAP /\ a <= id /\ pos[s] \in Nat
    BY <1>2, <1>4, <2>1
  <2>3. Oldest(pos[s], st2) = a
    BY <1>1, <2>1, <2>2 DEF Oldest
  <2>4. Append(Ids(a, id), id) = Ids(a, id + 1)
    BY <2>2, IdsAppend
  <2> QED
    BY <1>2, <2>1, <2>3, <2>4
<1>5. lost \in SUBSET S
  BY <1>0
<1>6. Box(S, pos, st2, next) = [s \in Subs |->
               CASE s \notin S -> <<>>
                 [] s \in lost -> Append(Tail(inbox[s]), id)
                 [] OTHER -> Append(inbox[s], id)]
  <2>1. ASSUME NEW s \in Subs
        PROVE  (IF s \in S THEN Ids(Oldest(pos[s], st2), next) ELSE <<>>) =
               CASE s \notin S -> <<>>
                 [] s \in lost -> Append(Tail(inbox[s]), id)
                 [] OTHER -> Append(inbox[s], id)
    <3>1. CASE s \notin S
      BY <3>1, <1>5
    <3>2. CASE s \in S /\ s \in lost
      BY <3>2, <1>3
    <3>3. CASE s \in S /\ s \notin lost
      BY <3>3, <1>4
    <3> QED
      BY <3>1, <3>2, <3>3
  <2> QED
    BY <2>1 DEF Box
<1>7. Late(S, pos, st2) = [s \in Subs |-> IF s \in lost THEN lag[s] + 1 ELSE lag[s]]
  <2>1. ASSUME NEW s \in Subs
        PROVE  (IF s \in S THEN Oldest(pos[s], st2) - pos[s] ELSE 0) =
               IF s \in lost THEN lag[s] + 1 ELSE lag[s]
    <3>1. lag[s] = IF s \in S THEN Oldest(pos[s], st) - pos[s] ELSE 0
      BY <1>0 DEF Late
    <3> QED
      BY <1>3, <1>4, <1>5, <3>1
  <2> QED
    BY <2>1 DEF Late
<1> QED
  BY <1>0, <1>6, <1>7 DEF Given

-----------------------------------------------------------------------------
\* Each step is one of Broadcast, or none.

\* Nothing is read, lost or sent.
LEMMA ViewsStay ==
  ASSUME RInv, RInv', UNCHANGED <<queue, next_message_id, subscribers, position>>
  PROVE  UNCHANGED B!channel
<1>1. UNCHANGED Start
  BY DEF Start
<1> QED
  BY <1>1 DEF RInv, Views, B!channel

LEMMA ViewFacts ==
  ASSUME RInv
  PROVE  /\ Inboxes = Box(subscribers, position, Start, next_message_id)
         /\ Lags = Late(subscribers, position, Start)
         /\ Start \in Nat /\ Start <= next_message_id /\ next_message_id \in Nat
         /\ position \in [Subs -> Nat] /\ subscribers \in SUBSET Subs
         /\ next_message_id - Start <= CAP
  BY DEF RInv, Views

LEMMA ViewFactsNext ==
  ASSUME RInv'
  PROVE  /\ Inboxes' = Box(subscribers', position', Start', next_message_id')
         /\ Lags' = Late(subscribers', position', Start')
         /\ Start' \in Nat
  BY DEF RInv, Views

LEMMA SubscribeRefines ==
  ASSUME RInv, RInv', NEW s \in Subs, Subscribe(s)
  PROVE  B!Subscribe(s)
<1>1. /\ UNCHANGED Start /\ UNCHANGED next_message_id
      /\ subscribers' = subscribers \cup {s} /\ s \in Subs \ subscribers
      /\ position' = [position EXCEPT ![s] = next_message_id]
  BY DEF Subscribe, Start
<1>2. Moved(position, position', subscribers, s) /\ position'[s] = next_message_id
  BY <1>1, ViewFacts DEF Moved
<1>3. Kept(Box(subscribers, position, Start, next_message_id), Late(subscribers, position, Start),
           Box(subscribers', position', Start, next_message_id), Late(subscribers', position', Start))
  BY <1>1, <1>2, ViewFacts, SubscribeBoxes
<1>4. Kept(Inboxes, Lags, Inboxes', Lags')
  BY <1>1, <1>3, ViewFacts, ViewFactsNext
<1>5. Cardinality(subscribers) = B!Cardinality(subscribers)
  BY DEF Cardinality, B!Cardinality
<1> QED
  BY <1>1, <1>4, <1>5 DEF Kept, Subscribe, B!Subscribe, B!channel

LEMMA CreatePublisherRefines ==
  ASSUME NEW p \in Pubs, CreatePublisher(p), UNCHANGED B!channel
  PROVE  B!CreatePublisher(p)
<1>1. Cardinality(publishers) = B!Cardinality(publishers)
  BY DEF Cardinality, B!Cardinality
<1> QED
  BY <1>1 DEF CreatePublisher, B!CreatePublisher

LEMMA UnsubscribeRefines ==
  ASSUME RInv, RInv', NEW s \in Subs, Unsubscribe(s)
  PROVE  B!Unsubscribe(s)
<1>1. /\ UNCHANGED next_message_id
      /\ subscribers' = subscribers \ {s} /\ s \in subscribers
      /\ position' = [position EXCEPT ![s] = 0]
  BY DEF Unsubscribe
<1>2. Onward(Start, Start', subscribers', position')
  BY UnsubscribeMoves, ViewFacts, ViewFactsNext DEF RInv, Onward
<1>3. Moved(position, position', subscribers, s)
  BY <1>1, ViewFacts DEF Moved
<1>4. Emptied(Box(subscribers, position, Start, next_message_id), Late(subscribers, position, Start),
              Box(subscribers', position', Start', next_message_id), Late(subscribers', position', Start'), s)
  BY <1>1, <1>2, <1>3, ViewFacts, UnsubscribeBoxes
<1>5. Emptied(Inboxes, Lags, Inboxes', Lags', s)
  BY <1>1, <1>4, ViewFacts, ViewFactsNext
<1>6. Lags[s] > 0 <=> Lagging(s)
  BY <1>1, ViewFacts DEF Late, Lagging, Oldest
<1> QED
  BY <1>1, <1>5, <1>6 DEF Emptied, Unsubscribe, B!Unsubscribe

LEMMA ReadRefines ==
  ASSUME RInv, RInv', NEW s \in subscribers, Read(s),
         UNCHANGED <<next_message_id, subscribers, lagging_drop>>
  PROVE  B!Deliver(s)
<1>1. /\ position[s] >= Start /\ position[s] < next_message_id
      /\ delivered' = [delivered EXCEPT ![s] = position[s]]
      /\ Start' = Start \/ (Start' = Start + 1 /\ \A u \in subscribers : position'[u] >= Start')
  BY ReadMoves DEF RInv
<1>2. position' = [position EXCEPT ![s] = @ + 1]
  BY DEF Read
<1>3. Onward(Start, Start', subscribers, position') /\ Start <= position[s]
  BY <1>1, ViewFacts, ViewFactsNext DEF Onward
<1>4. Moved(position, position', subscribers, s) /\ position'[s] = position[s] + 1
  BY <1>2, ViewFacts DEF Moved
<1>5. Shortened(Box(subscribers, position, Start, next_message_id), Late(subscribers, position, Start),
                Box(subscribers, position', Start', next_message_id), Late(subscribers, position', Start'),
                s, position[s])
  BY <1>1, <1>3, <1>4, ViewFacts, ReadBoxes
<1>6. Shortened(Inboxes, Lags, Inboxes', Lags', s, position[s])
  BY <1>5, ViewFacts, ViewFactsNext
<1> QED
  BY <1>1, <1>6 DEF Shortened, B!Deliver

LEMMA SkipLostRefines ==
  ASSUME RInv, RInv', NEW s \in subscribers, SkipLost(s), UNCHANGED <<next_message_id, subscribers>>
  PROVE  B!TellLag(s)
<1>1. UNCHANGED Start /\ UNCHANGED delivered /\ position[s] < Start
  BY DEF SkipLost, Start, Lagging
<1>2. position' = [position EXCEPT ![s] = Start]
  <2>1. position[s] + (Start - position[s]) = Start
    BY ViewFacts
  <2> QED
    BY <2>1 DEF SkipLost
<1>3. Moved(position, position', subscribers, s) /\ position'[s] = Start
  BY <1>2, ViewFacts DEF Moved
<1>4. Told(Box(subscribers, position, Start, next_message_id), Late(subscribers, position, Start),
           Box(subscribers, position', Start, next_message_id), Late(subscribers, position', Start), s)
  BY <1>1, <1>3, ViewFacts, SkipBoxes
<1>5. Told(Inboxes, Lags, Inboxes', Lags', s)
  BY <1>1, <1>4, ViewFacts, ViewFactsNext
<1> QED
  BY <1>1, <1>5 DEF Told, B!TellLag

LEMMA PushRefines ==
  ASSUME RInv, RInv', NEW q, Push(q), q = queue \/ (Full /\ q = Tail(queue)),
         UNCHANGED <<subscribers, position, lagging_drop>>
  PROVE  /\ B!Accept
         /\ q = queue /\ subscribers # {} => B!Room
<1>1. /\ subscribers = {} => UNCHANGED next_message_id
      /\ subscribers # {} =>
           /\ next_message_id < MaxId /\ next_message_id' = next_message_id + 1
           /\ \/ q = queue /\ Len(queue) < CAP /\ Start' = Start
              \/ Len(queue) = CAP /\ Start' = Start + 1
  BY PushMoves DEF RInv
<1>2. CASE subscribers = {}
  <2>1. Inboxes' = Inboxes /\ Lags' = Lags
    BY <1>2 DEF RInv, Views, Box, Late
  <2> QED
    BY <1>1, <1>2, <2>1 DEF B!Accept, B!channel
<1>3. CASE subscribers # {}
  <2>1. Given(Inboxes, Lags, Inboxes', Lags', subscribers, next_message_id)
    <3>1. PICK st2 : st2 = Start'
      OBVIOUS
    <3>2. PICK next : next = next_message_id'
      OBVIOUS
    <3>3. /\ next = next_message_id + 1
          /\ (st2 = Start /\ next_message_id - Start < CAP) \/ (st2 = Start + 1 /\ next_message_id - Start = CAP)
      BY <1>1, <1>3, <3>1, <3>2 DEF RInv, Views
    <3>4. \A s \in subscribers : position[s] <= next_message_id
      BY DEF RInv, Views
    <3>5. Given(Box(subscribers, position, Start, next_message_id), Late(subscribers, position, Start),
                Box(subscribers, position, st2, next), Late(subscribers, position, st2),
                subscribers, next_message_id)
      BY <3>3, <3>4, ViewFacts, PushBoxes
    <3> QED
      BY <3>1, <3>2, <3>5, ViewFacts, ViewFactsNext
  <2>2. B!Accept
    BY <1>1, <1>3, <2>1 DEF Given, B!Accept
  <2>3. ASSUME q = queue PROVE B!Room
    <3>1. Len(queue) < CAP
      BY <1>3, <2>3 DEF Push
    <3>2. SUFFICES ASSUME NEW s \in subscribers PROVE Len(Inboxes[s]) < CAP
      BY DEF B!Room
    <3>3. PICK a : a = Oldest(position[s], Start)
      OBVIOUS
    <3>4. a \in Nat /\ Start <= a /\ a <= next_message_id /\ next_message_id \in Nat /\ Start \in Nat
      BY <3>3 DEF RInv, Views, Oldest
    <3>5. Inboxes[s] = Ids(a, next_message_id)
      BY <3>3 DEF RInv, Views, Box
    <3>6. Len(Inboxes[s]) = next_message_id - a
      BY <3>4, <3>5, IdsSeq
    <3>7. CAP \in Nat /\ next_message_id - Start < CAP
      BY <3>1, SizesAssumption DEF RInv, Views
    <3> QED
      BY <3>4, <3>6, <3>7
  <2> QED
    BY <2>2, <2>3
<1> QED
  BY <1>2, <1>3

LEMMA ClearRefines ==
  ASSUME RInv, RInv', Clear
  PROVE  B!Clear
<1>1. UNCHANGED <<next_message_id, subscribers, publishers, position, delivered, waiting, lagging_drop>>
  BY DEF Clear, handles
<1>2. Start' = next_message_id
  <2>1. Len(queue') = 0
    BY EmptySeq DEF Clear
  <2>2. Start' = next_message_id - Len(queue')
    BY <1>1 DEF Start
  <2> QED
    BY <2>1, <2>2 DEF RInv, Views
<1>3. Cleared(Inboxes, Lags, Inboxes', Lags')
  <2>1. \A s \in subscribers : position[s] <= next_message_id
    BY DEF RInv, Views
  <2>2. Cleared(Box(subscribers, position, Start, next_message_id),
                Late(subscribers, position, Start),
                Box(subscribers, position, next_message_id, next_message_id),
                Late(subscribers, position, next_message_id))
    BY <2>1, ViewFacts, ClearBoxes
  <2> QED
    BY <1>1, <1>2, <2>2, ViewFacts, ViewFactsNext
<1> QED
  BY <1>1, <1>3 DEF Cleared, B!Clear, B!handles

LEMMA PollSubscriberRefines ==
  ASSUME RInv, RInv', NEW s \in Subs, PollSubscriber(s)
  PROVE  B!Answer(s) \/ UNCHANGED B!avars
<1>1. /\ UNCHANGED <<next_message_id, subscribers, publishers, lagging_drop>>
      /\ s \in waiting
  BY DEF PollSubscriber, handles
<1>2. s \in subscribers
  BY <1>1, Facts DEF RInv
<1>3. CASE Read(s) /\ waiting' = waiting \ {s}
  BY <1>1, <1>2, <1>3, ReadRefines DEF B!Answer, B!handles
<1>4. CASE SkipLost(s) /\ waiting' \in {waiting, waiting \ {s}}
  BY <1>1, <1>2, <1>4, SkipLostRefines DEF B!Answer, B!handles
<1>5. CASE UNCHANGED <<queue, position, delivered, waiting>>
  BY <1>1, <1>5, ViewsStay DEF B!avars, B!handles
<1> QED
  BY <1>3, <1>4, <1>5 DEF PollSubscriber

LEMMA TryNextMessageRefines ==
  ASSUME RInv, RInv', NEW s \in Subs, TryNextMessage(s)
  PROVE  B!ReadNow(s)
<1>1. /\ UNCHANGED <<next_message_id, subscribers, publishers, lagging_drop, waiting>>
      /\ s \in subscribers \ waiting
      /\ Read(s) \/ SkipLost(s)
  BY DEF TryNextMessage, handles
<1> QED
  BY <1>1, ReadRefines, SkipLostRefines DEF B!ReadNow, B!handles

LEMMA PollPublisherRefines ==
  ASSUME RInv, RInv', NEW p \in Pubs, PollPublisher(p)
  PROVE  B!Published(p) \/ UNCHANGED B!avars
<1>1. /\ UNCHANGED <<subscribers, publishers, lagging_drop, position, delivered>>
      /\ p \in waiting
  BY DEF PollPublisher, handles
<1>2. CASE Push(queue) /\ waiting' = waiting \ {p}
  <2>1. B!Accept
    BY <1>1, <1>2, PushRefines
  <2>2. B!Room
    <3>1. CASE subscribers = {}
      BY <3>1 DEF B!Room
    <3> QED
      BY <1>1, <1>2, <3>1, PushRefines
  <2> QED
    BY <1>1, <1>2, <2>1, <2>2 DEF B!Published, B!handles
<1>3. CASE UNCHANGED <<queue, next_message_id, waiting>>
  BY <1>1, <1>3, ViewsStay DEF B!avars, B!handles
<1> QED
  BY <1>2, <1>3 DEF PollPublisher

LEMMA PublishRefines ==
  ASSUME RInv, RInv', TryPublish \/ PublishImmediate
  PROVE  B!PublishNow
<1>1. UNCHANGED <<subscribers, publishers, lagging_drop, position, delivered, waiting>>
  BY DEF TryPublish, PublishImmediate, handles
<1>2. B!Accept
  <2>1. CASE Push(queue)
    BY <1>1, <2>1, PushRefines
  <2>2. CASE Full /\ Push(Tail(queue))
    BY <1>1, <2>2, PushRefines
  <2> QED
    BY <2>1, <2>2 DEF TryPublish, PublishImmediate
<1> QED
  BY <1>1, <1>2 DEF B!PublishNow, B!handles

\* A call, or the end of one, without an answer; and what is not seen at all.
LEMMA QuietRefines ==
  ASSUME RInv, RInv', NEW t, Ask(t) \/ Cancel(t) \/ WokenByOther(t)
  PROVE  B!Ask(t) \/ B!Leave(t) \/ UNCHANGED B!avars
<1>1. UNCHANGED <<queue, next_message_id, subscribers, publishers, lagging_drop, position, delivered>>
  BY DEF Ask, Cancel, WokenByOther, handles
<1>2. UNCHANGED B!channel
  BY <1>1, ViewsStay
<1> QED
  BY <1>1, <1>2 DEF Ask, Cancel, WokenByOther, B!Ask, B!Leave, B!avars, B!handles

LEMMA NextRefines == RInv /\ RInv' /\ [Next]_vars => [B!Next]_(B!avars)
<1> SUFFICES ASSUME RInv, RInv', [Next]_vars PROVE B!Next \/ UNCHANGED B!avars
  OBVIOUS
<1>1. ASSUME NEW s \in Subs, Subscribe(s) \/ Unsubscribe(s) \/ TryNextMessage(s) PROVE B!Next
  BY <1>1, SubscribeRefines, UnsubscribeRefines, TryNextMessageRefines DEF B!Next
<1>2. ASSUME NEW p \in Pubs, CreatePublisher(p) \/ DropPublisher(p) PROVE B!Next
  <2>1. UNCHANGED B!channel
    BY <1>2, ViewsStay DEF CreatePublisher, DropPublisher
  <2>2. B!CreatePublisher(p) \/ B!DropPublisher(p)
    BY <1>2, <2>1, CreatePublisherRefines DEF DropPublisher, B!DropPublisher
  <2> QED
    BY <2>2 DEF B!Next
<1>3. ASSUME NEW t \in Subs \cup Pubs, Ask(t) \/ Cancel(t) \/ WokenByOther(t)
      PROVE  B!Next \/ UNCHANGED B!avars
  BY <1>3, QuietRefines DEF B!Next
<1>4. ASSUME NEW t \in Subs \cup Pubs, Poll(t) PROVE B!Next \/ UNCHANGED B!avars
  <2>1. CASE PollSubscriber(t)
    <3>1. t \in Subs
      BY <2>1 DEF PollSubscriber
    <3> QED
      BY <2>1, <3>1, PollSubscriberRefines DEF B!Next
  <2>2. CASE PollPublisher(t)
    <3>1. t \in Pubs
      BY <2>2 DEF PollPublisher
    <3> QED
      BY <2>2, <3>1, PollPublisherRefines DEF B!Next
  <2> QED
    BY <1>4, <2>1, <2>2 DEF Poll
<1>5. ASSUME TryPublish \/ PublishImmediate PROVE B!Next
  BY <1>5, PublishRefines DEF B!Next
<1>6. ASSUME Clear PROVE B!Next
  BY <1>6, ClearRefines DEF B!Next
<1>7. CASE UNCHANGED vars
  BY <1>7, ViewsStay DEF vars, handles, wakers, B!avars, B!handles
<1> QED
  BY <1>1, <1>2, <1>3, <1>4, <1>5, <1>6, <1>7 DEF Next

\* One queue with a counter for each message is an inbox for each subscriber:
\* every step of the channel is one of Broadcast, or none.
THEOREM RefinesBroadcast == Spec => B!BroadcastSafety
<1>1. Init => B!Init
  <2> SUFFICES ASSUME Init PROVE B!Init
    OBVIOUS
  <2>1. Inboxes = [s \in Subs |-> <<>>] /\ Lags = [s \in Subs |-> 0]
    BY DEF Init, Inboxes, Inbox, Lags, Lag
  <2> QED
    BY <2>1 DEF Init, B!Init
<1> QED
  BY <1>1, NextRefines, RInvariance, PTL DEF Spec, Safety, B!BroadcastSafety
=============================================================================
