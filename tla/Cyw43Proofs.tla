----------------------------- MODULE Cyw43Proofs -----------------------------
(***************************************************************************)
(* Proofs about Cyw43, for every size of the chip, the channels and the    *)
(* counters: a call gets its own answer, the chip has room for every frame *)
(* that it is sent, packets keep their order, and nobody sleeps with       *)
(* something to do.                                                        *)
(***************************************************************************)
EXTENDS Cyw43, SequenceTheorems, FiniteSetTheorems, TLAPS

---------------------------------------------------------------------------
(* The inductive invariant.                                                *)

\* How many of the frames i .. j of s are of this kind.
Positions(s, kind, i, j) == {m \in i .. j : s[m].kind = kind}
Count(s, kind, i, j) == Cardinality(Positions(s, kind, i, j))

\* What the runner is writing.
Writing(kind) == IF pc = "write" /\ out.kind = kind THEN 1 ELSE 0

\* The credits.  Seen from the chip's own count, they lie between what is on
\* the way to it and what it has room for, in the order in which it gave them.
Ahead(x) == Minus(x, consumed)
Lag == Len(inbox) + (IF pc = "write" THEN 1 ELSE 0)
CreditInv ==
    /\ Ahead(seq) = Lag
    /\ Lag <= Ahead(seqMax) /\ Ahead(seqMax) <= Window
    /\ \A i \in 1 .. Len(outbox) :
          Ahead(seqMax) <= Ahead(outbox[i].credit) /\ Ahead(outbox[i].credit) <= Window
    /\ \A i, j \in 1 .. Len(outbox) :
          i <= j => Ahead(outbox[i].credit) <= Ahead(outbox[j].credit)

\* The ids.  A frame is no older than the ioctls that were sent after it, which
\* are still on their way; so an id is not used again before it is answered.
Age(id) == (ioctlId + IdMod - id) % IdMod
Asked == Count(inbox, "ioctl", 1, Len(inbox)) + Writing("ioctl")
AgeInv ==
    /\ pc = "write" /\ out.kind = "ioctl" => out.id = ioctlId
    /\ \A i \in 1 .. Len(inbox) : inbox[i].kind = "ioctl" =>
          Age(inbox[i].id) <= Count(inbox, "ioctl", i + 1, Len(inbox)) + Writing("ioctl")
    /\ \A i \in 1 .. Len(outbox) : outbox[i].kind = "reply" =>
          Age(outbox[i].id) <= Len(outbox) - i + Asked

\* The frame with the last id belongs to the call that is awaited.
Awaited(f) == f.id = ioctlId => f.live
LiveInv ==
    ioctl.tag = "Sent" =>
        /\ pc = "write" /\ out.kind = "ioctl" => Awaited(out)
        /\ \A i \in 1 .. Len(inbox) : inbox[i].kind = "ioctl" => Awaited(inbox[i])
        /\ \A i \in 1 .. Len(outbox) : outbox[i].kind = "reply" => Awaited(outbox[i])

\* The packets.  Those in the tx channel are numbered one after the other up to
\* the next one, and those in the chip up to the first in the channel.
Occupied(ch, i) ==
    \/ ch.full
    \/ ch.front <= ch.back /\ ch.front <= i /\ i < ch.back
    \/ ch.back < ch.front /\ (ch.front <= i \/ i < ch.back)
Following(ch, i, next) ==
    IF Increment(i, TxSize) = ch.back THEN next ELSE ch.element[Increment(i, TxSize)]
Numbered(ch, next) ==
    /\ ch.full => ch.front = ch.back
    /\ \A i \in 0 .. TxSize - 1 :
          Occupied(ch, i) => Following(ch, i, next) = (ch.element[i] + 1) % Numbers
FirstNumber(ch, next) == IF IsEmpty(ch) THEN next ELSE First(ch)
PacketInv ==
    /\ Numbered(tx, number)
    /\ pc = "write" /\ out.kind = "data" => ~IsEmpty(tx) /\ out.number = First(tx)
    /\ FirstNumber(tx, number) = (expected + Count(inbox, "data", 1, Len(inbox))) % Numbers
    /\ \A i \in 1 .. Len(inbox) : inbox[i].kind = "data" =>
          inbox[i].number = (expected + Count(inbox, "data", 1, i - 1)) % Numbers

\* The wakers.  Who waits for something is registered with whoever will do it.
WakerInv ==
    /\ calling /\ ioctl.tag # "Done" => "control" \in wakers
    /\ "runner" \notin woken /\ pc = "select" => "runner" \in wakers /\ tx.receiver
    /\ "stack" \notin woken /\ ~busy /\ IsEmpty(rx) => rx.receiver

\* The runner reads only what is there.
ReadInv == pc = "read" => outbox # <<>>

IInv ==
    /\ TypeOK /\ ReadInv
    /\ CreditInv /\ AgeInv /\ LiveInv /\ PacketInv /\ WakerInv
    /\ AnswersTheCaller /\ NoLostWakeup
---------------------------------------------------------------------------
(* Arithmetic of counters that wrap.                                       *)

LEMMA Division ==
  ASSUME NEW N \in Nat \ {0}, NEW x \in Nat
  PROVE  \E q \in Nat : x = N * q + (x % N)
<1>1. x = N * (x \div N) + (x % N) /\ x \div N \in Nat
  OBVIOUS
<1> QED
  BY <1>1

LEMMA ModRange ==
  ASSUME NEW N \in Nat \ {0}, NEW x \in Nat
  PROVE  x % N \in 0 .. N - 1
OBVIOUS

LEMMA NextMultiple ==
  ASSUME NEW N \in Nat \ {0}, NEW p \in Int, NEW q \in Int, p < q
  PROVE  N * p + N <= N * q
<1>1. p + 1 <= q
  OBVIOUS
<1>2. N * (p + 1) <= N * q
  BY <1>1
<1> QED
  BY <1>2

LEMMA Unique ==
  ASSUME NEW N \in Nat \ {0}, NEW q \in Nat, NEW r \in 0 .. N - 1, NEW x \in Nat, x = N * q + r
  PROVE  x % N = r
<1>1. PICK p \in Nat : x = N * p + (x % N)
  BY Division
<1>2. x % N \in 0 .. N - 1
  BY ModRange
<1>3. p < q => N * p + N <= N * q
  BY NextMultiple
<1>4. q < p => N * q + N <= N * p
  BY NextMultiple
<1>6. N * p \in Int /\ N * q \in Int
  OBVIOUS
<1>5. ~(p < q) /\ ~(q < p)
  BY <1>1, <1>2, <1>3, <1>4, <1>6
<1> QED
  BY <1>1, <1>2, <1>5

LEMMA Residue ==
  ASSUME NEW N \in Nat \ {0}, NEW q \in Nat, NEW r \in 0 .. N - 1
  PROVE  (N * q + r) % N = r
<1>1. N * q + r \in Nat
  <2>1. N * q \in Nat
    OBVIOUS
  <2> QED
    BY <2>1
<1> QED
  BY <1>1, Unique

LEMMA ModNext ==
  ASSUME NEW N \in Nat \ {0}, NEW x \in Nat
  PROVE  ((x % N) + 1) % N = (x + 1) % N
<1>1. PICK q \in Nat : x = N * q + (x % N)
  BY Division
<1>2. PICK r \in 0 .. N - 1 : r = x % N
  BY ModRange
<1>3. CASE r + 1 \in 0 .. N - 1
  <2>1. x + 1 = N * q + (r + 1)
    BY <1>1, <1>2
  <2>2. (N * q + (r + 1)) % N = r + 1
    BY <1>3, Residue
  <2>3. (r + 1) % N = r + 1
    BY <1>3
  <2> QED
    BY <1>2, <2>1, <2>2, <2>3
<1>4. CASE r + 1 = N
  <2>1. x + 1 = N * (q + 1) + 0
    BY <1>1, <1>2, <1>4
  <2>2. q + 1 \in Nat /\ 0 \in 0 .. N - 1
    OBVIOUS
  <2>3. (N * (q + 1) + 0) % N = 0
    BY <2>2, Residue
  <2>4. (r + 1) % N = 0
    BY <1>4
  <2> QED
    BY <1>2, <2>1, <2>3, <2>4
<1> QED
  BY <1>3, <1>4

\* Below the modulus, and for one period more, a remainder is a difference.
LEMMA SmallMod ==
  ASSUME NEW N \in Nat \ {0}, NEW x \in 0 .. N - 1
  PROVE  x % N = x
OBVIOUS

LEMMA OnceAround ==
  ASSUME NEW N \in Nat \ {0}, NEW x \in N .. 2 * N - 1
  PROVE  x % N = x - N
OBVIOUS

LEMMA Wraps ==
  ASSUME NEW N \in Nat \ {0}, NEW a \in 0 .. N - 1, NEW b \in 0 .. N
  PROVE  (a + b) % N = IF a + b < N THEN a + b ELSE a + b - N
BY SmallMod, OnceAround

LEMMA Distance ==
  ASSUME NEW N \in Nat \ {0}, NEW a \in 0 .. N - 1, NEW b \in 0 .. N - 1
  PROVE  (a + N - b) % N = IF b <= a THEN a - b ELSE a + N - b
<1>1. CASE b <= a
  <2>1. a + N - b \in N .. 2 * N - 1
    BY <1>1
  <2> QED
    BY <1>1, <2>1, OnceAround
<1>2. CASE a < b
  <2>1. a + N - b \in 0 .. N - 1
    BY <1>2
  <2> QED
    BY <1>2, <2>1, SmallMod
<1> QED
  BY <1>1, <1>2

LEMMA ModAdd ==
  ASSUME NEW N \in Nat \ {0}, NEW x \in Nat, NEW c \in Nat
  PROVE  ((x % N) + c) % N = (x + c) % N
<1>1. PICK q \in Nat : x = N * q + (x % N)
  BY Division
<1>2. PICK r \in 0 .. N - 1 : r = x % N
  BY ModRange
<1>3. r + c \in Nat
  OBVIOUS
<1>4. PICK p \in Nat : r + c = N * p + ((r + c) % N)
  BY <1>3, Division
<1>5. PICK m \in 0 .. N - 1 : m = (r + c) % N
  BY <1>3, ModRange
<1>6. N * (q + p) = N * q + N * p /\ N * q \in Nat /\ N * p \in Nat
  OBVIOUS
<1>7. x + c = N * (q + p) + m
  BY <1>1, <1>2, <1>4, <1>5, <1>6
<1>8. q + p \in Nat
  OBVIOUS
<1>9. (N * (q + p) + m) % N = m
  BY <1>8, Residue
<1> QED
  BY <1>2, <1>5, <1>7, <1>9

\* How far b is behind a, on a circle of N.
Gap(a, b, N) == (a + N - b) % N

LEMMA GapIs ==
  ASSUME NEW N \in Nat \ {0}, NEW a \in 0 .. N - 1, NEW b \in 0 .. N - 1
  PROVE  /\ Gap(a, b, N) = IF b <= a THEN a - b ELSE a + N - b
         /\ Gap(a, b, N) \in 0 .. N - 1
         /\ Gap(a, b, N) = 0 <=> a = b
<1>1. Gap(a, b, N) = IF b <= a THEN a - b ELSE a + N - b
  BY Distance DEF Gap
<1> QED
  BY <1>1

LEMMA GapNext ==
  ASSUME NEW N \in Nat \ {0}, NEW a \in 0 .. N - 1, NEW b \in 0 .. N - 1,
         Gap(a, b, N) < N - 1
  PROVE  (a + 1) % N \in 0 .. N - 1 /\ Gap((a + 1) % N, b, N) = Gap(a, b, N) + 1
<1> DEFINE n == (a + 1) % N
<1>1. 1 \in 0 .. N
  OBVIOUS
<1>2. n = IF a + 1 < N THEN a + 1 ELSE a + 1 - N
  BY <1>1, Wraps
<1>3. n \in 0 .. N - 1
  BY <1>2
<1> HIDE DEF n
<1>4. Gap(n, b, N) = IF b <= n THEN n - b ELSE n + N - b
  BY <1>3, Distance DEF Gap
<1>5. Gap(a, b, N) = IF b <= a THEN a - b ELSE a + N - b
  BY GapIs
<1>6. Gap(n, b, N) = Gap(a, b, N) + 1
  BY <1>2, <1>3, <1>4, <1>5
<1> QED
  BY <1>3, <1>6 DEF n

LEMMA GapFirst ==
  ASSUME NEW N \in Nat \ {0}, NEW a \in 0 .. N - 1, NEW b \in 0 .. N - 1,
         Gap(a, b, N) >= 1
  PROVE  (b + 1) % N \in 0 .. N - 1 /\ Gap(a, (b + 1) % N, N) = Gap(a, b, N) - 1
<1> DEFINE n == (b + 1) % N
<1>1. 1 \in 0 .. N
  OBVIOUS
<1>2. n = IF b + 1 < N THEN b + 1 ELSE b + 1 - N
  BY <1>1, Wraps
<1>3. n \in 0 .. N - 1
  BY <1>2
<1> HIDE DEF n
<1>4. Gap(a, n, N) = IF n <= a THEN a - n ELSE a + N - n
  BY <1>3, Distance DEF Gap
<1>5. Gap(a, b, N) = IF b <= a THEN a - b ELSE a + N - b
  BY GapIs
<1>6. Gap(a, n, N) = Gap(a, b, N) - 1
  BY <1>2, <1>3, <1>4, <1>5
<1> QED
  BY <1>3, <1>6 DEF n

LEMMA GapOver ==
  ASSUME NEW N \in Nat \ {0}, NEW b \in 0 .. N - 1, NEW w \in 0 .. N - 1
  PROVE  (b + w) % N \in 0 .. N - 1 /\ Gap((b + w) % N, b, N) = w
<1> DEFINE n == (b + w) % N
<1>1. w \in 0 .. N
  OBVIOUS
<1>2. n = IF b + w < N THEN b + w ELSE b + w - N
  BY <1>1, Wraps
<1>3. n \in 0 .. N - 1
  BY <1>2
<1> HIDE DEF n
<1>4. Gap(n, b, N) = IF b <= n THEN n - b ELSE n + N - b
  BY <1>3, Distance DEF Gap
<1>5. Gap(n, b, N) = w
  BY <1>2, <1>3, <1>4
<1> QED
  BY <1>3, <1>5 DEF n

LEMMA GapBetween ==
  ASSUME NEW N \in Nat \ {0}, NEW a \in 0 .. N - 1, NEW b \in 0 .. N - 1,
         NEW c \in 0 .. N - 1, Gap(b, c, N) <= Gap(a, c, N)
  PROVE  Gap(a, b, N) = Gap(a, c, N) - Gap(b, c, N)
<1>1. Gap(a, b, N) = IF b <= a THEN a - b ELSE a + N - b
  BY GapIs
<1>2. Gap(a, c, N) = IF c <= a THEN a - c ELSE a + N - c
  BY GapIs
<1>3. Gap(b, c, N) = IF c <= b THEN b - c ELSE b + N - c
  BY GapIs
<1> QED
  BY <1>1, <1>2, <1>3

---------------------------------------------------------------------------
(* Counting frames.                                                        *)

LEMMA CountBounds ==
  ASSUME NEW s, NEW kind, NEW i \in Int, NEW j \in Int
  PROVE  /\ IsFiniteSet(Positions(s, kind, i, j))
         /\ Count(s, kind, i, j) \in Nat
         /\ Count(s, kind, i, j) <= IF i > j THEN 0 ELSE j - i + 1
<1>1. IsFiniteSet(i .. j) /\ Cardinality(i .. j) = IF i > j THEN 0 ELSE j - i + 1
  BY FS_Interval
<1>2. Positions(s, kind, i, j) \in SUBSET (i .. j)
  BY DEF Positions
<1> QED
  BY <1>1, <1>2, FS_Subset, FS_CardinalityType DEF Count

LEMMA CountSame ==
  ASSUME NEW s, NEW t, NEW kind, NEW i \in Int, NEW j \in Int,
         \A m \in i .. j : t[m].kind = s[m].kind
  PROVE  Count(t, kind, i, j) = Count(s, kind, i, j)
<1>1. Positions(t, kind, i, j) = Positions(s, kind, i, j)
  BY DEF Positions
<1> QED
  BY <1>1 DEF Count

LEMMA CountShift ==
  ASSUME NEW s, NEW t, NEW kind, NEW i \in Int, NEW j \in Int,
         \A m \in i .. j : t[m].kind = s[m + 1].kind
  PROVE  Count(t, kind, i, j) = Count(s, kind, i + 1, j + 1)
<1> DEFINE A == Positions(t, kind, i, j)
           B == Positions(s, kind, i + 1, j + 1)
           f == [m \in A |-> m + 1]
<1>1. f \in Bijection(A, B)
  <2>1. \A m \in A : m + 1 \in B
    BY DEF Positions
  <2>2. f \in Injection(A, B)
    <3>1. A \subseteq Int
      BY DEF Positions
    <3>2. f \in [A -> B]
      BY <2>1
    <3>3. \A a, b \in A : a + 1 = b + 1 => a = b
      BY <3>1
    <3> QED
      BY <3>2, <3>3 DEF Injection, IsInjective
  <2>3. \A n \in B : \E m \in A : f[m] = n
    <3> TAKE n \in B
    <3>1. n - 1 \in i .. j /\ (n - 1) + 1 = n
      BY DEF Positions
    <3>2. n - 1 \in A
      BY <3>1 DEF Positions
    <3> WITNESS n - 1 \in A
    <3> QED
      BY <3>1, <3>2
  <2> QED
    BY <2>2, <2>3 DEF Bijection, Surjection, Injection
<1>2. IsFiniteSet(A)
  BY CountBounds
<1>3. Cardinality(A) = Cardinality(B)
  BY <1>1, <1>2, FS_Bijection DEF ExistsBijection
<1> QED
  BY <1>3 DEF Count

\* One frame more at the end, or at the beginning.
LEMMA CountNext ==
  ASSUME NEW s, NEW kind, NEW i \in Int, NEW j \in Int, i <= j + 1
  PROVE  Count(s, kind, i, j + 1)
            = Count(s, kind, i, j) + (IF s[j + 1].kind = kind THEN 1 ELSE 0)
<1> DEFINE A == Positions(s, kind, i, j)
           B == Positions(s, kind, i, j + 1)
<1>1. IsFiniteSet(A) /\ Cardinality(A) \in Nat
  BY CountBounds DEF Count
<1>2. j + 1 \notin A
  BY DEF Positions
<1>3. CASE s[j + 1].kind = kind
  <2>1. B = A \cup {j + 1}
    BY <1>3 DEF Positions
  <2>2. Cardinality(A \cup {j + 1}) = Cardinality(A) + 1
    BY <1>1, <1>2, FS_AddElement
  <2> QED
    BY <1>3, <2>1, <2>2 DEF Count
<1>4. CASE s[j + 1].kind # kind
  <2>1. B = A
    BY <1>4 DEF Positions
  <2>2. Cardinality(B) = Cardinality(A) + 0
    BY <1>1, <2>1
  <2> QED
    BY <1>4, <2>2 DEF Count
<1> QED
  BY <1>3, <1>4

LEMMA CountFirst ==
  ASSUME NEW s, NEW kind, NEW i \in Int, NEW j \in Int, i <= j
  PROVE  Count(s, kind, i, j)
            = Count(s, kind, i + 1, j) + (IF s[i].kind = kind THEN 1 ELSE 0)
<1> DEFINE A == Positions(s, kind, i + 1, j)
           B == Positions(s, kind, i, j)
<1>1. IsFiniteSet(A) /\ Cardinality(A) \in Nat
  BY CountBounds DEF Count
<1>2. i \notin A
  BY DEF Positions
<1>3. CASE s[i].kind = kind
  <2>1. B = A \cup {i}
    BY <1>3 DEF Positions
  <2>2. Cardinality(A \cup {i}) = Cardinality(A) + 1
    BY <1>1, <1>2, FS_AddElement
  <2> QED
    BY <1>3, <2>1, <2>2 DEF Count
<1>4. CASE s[i].kind # kind
  <2>1. B = A
    BY <1>4 DEF Positions
  <2>2. Cardinality(B) = Cardinality(A) + 0
    BY <1>1, <2>1
  <2> QED
    BY <1>4, <2>2 DEF Count
<1> QED
  BY <1>3, <1>4

---------------------------------------------------------------------------
(* Queues of frames.                                                       *)

LEMMA Shortened ==
  ASSUME NEW S, NEW s \in Seq(S), s # <<>>
  PROVE  /\ Len(s) \in Nat \ {0} /\ Head(s) = s[1] /\ Head(s) \in S
         /\ Tail(s) \in Seq(S) /\ Len(Tail(s)) = Len(s) - 1
         /\ \A i \in 1 .. Len(s) - 1 : Tail(s)[i] = s[i + 1]
         /\ \A kind : \A i \in 1 .. Len(s), j \in 0 .. Len(s) - 1 :
               Count(Tail(s), kind, i, j) = Count(s, kind, i + 1, j + 1)
<1>1. /\ Len(s) \in Nat \ {0} /\ Head(s) = s[1] /\ Head(s) \in S
      /\ Tail(s) \in Seq(S) /\ Len(Tail(s)) = Len(s) - 1
      /\ \A i \in 1 .. Len(s) - 1 : Tail(s)[i] = s[i + 1]
  BY HeadTailProperties
<1>2. ASSUME NEW kind, NEW i \in 1 .. Len(s), NEW j \in 0 .. Len(s) - 1
      PROVE  Count(Tail(s), kind, i, j) = Count(s, kind, i + 1, j + 1)
  <2> DEFINE r == Tail(s)
  <2>1. i \in Int /\ j \in Int /\ \A m \in i .. j : r[m].kind = s[m + 1].kind
    BY <1>1
  <2> HIDE DEF r
  <2>2. Count(r, kind, i, j) = Count(s, kind, i + 1, j + 1)
    BY <2>1, CountShift
  <2> QED
    BY <2>2 DEF r
<1> QED
  BY <1>1, <1>2

LEMMA Extended ==
  ASSUME NEW S, NEW s \in Seq(S), NEW e \in S
  PROVE  /\ Len(s) \in Nat
         /\ Append(s, e) \in Seq(S) /\ Len(Append(s, e)) = Len(s) + 1
         /\ \A i \in 1 .. Len(s) : Append(s, e)[i] = s[i]
         /\ Append(s, e)[Len(s) + 1] = e
         /\ \A kind : \A i \in 1 .. Len(s) + 1, j \in 0 .. Len(s) :
               Count(Append(s, e), kind, i, j) = Count(s, kind, i, j)
         /\ \A kind : \A i \in 1 .. Len(s) + 1 :
               Count(Append(s, e), kind, i, Len(s) + 1)
                  = Count(s, kind, i, Len(s)) + (IF e.kind = kind THEN 1 ELSE 0)
<1>1. /\ Len(s) \in Nat
      /\ Append(s, e) \in Seq(S) /\ Len(Append(s, e)) = Len(s) + 1
      /\ \A i \in 1 .. Len(s) : Append(s, e)[i] = s[i]
      /\ Append(s, e)[Len(s) + 1] = e
  BY AppendProperties, LenProperties
<1>2. ASSUME NEW kind, NEW i \in 1 .. Len(s) + 1, NEW j \in 0 .. Len(s)
      PROVE  Count(Append(s, e), kind, i, j) = Count(s, kind, i, j)
  <2> DEFINE r == Append(s, e)
  <2>1. i \in Int /\ j \in Int /\ \A m \in i .. j : r[m].kind = s[m].kind
    BY <1>1
  <2> HIDE DEF r
  <2>2. Count(r, kind, i, j) = Count(s, kind, i, j)
    BY <2>1, CountSame
  <2> QED
    BY <2>2 DEF r
<1>3. ASSUME NEW kind, NEW i \in 1 .. Len(s) + 1
      PROVE  Count(Append(s, e), kind, i, Len(s) + 1)
                = Count(s, kind, i, Len(s)) + (IF e.kind = kind THEN 1 ELSE 0)
  <2> DEFINE r == Append(s, e)
             n == Len(s)
  <2>1. i \in Int /\ n \in Int /\ i <= n + 1 /\ r[n + 1] = e
    BY <1>1
  <2>2. Count(r, kind, i, n) = Count(s, kind, i, n)
    BY <1>1, <1>2
  <2> HIDE DEF r, n
  <2>3. Count(r, kind, i, n + 1) = Count(r, kind, i, n) + (IF e.kind = kind THEN 1 ELSE 0)
    BY <2>1, CountNext
  <2>4. Count(r, kind, i, n + 1) = Count(s, kind, i, n) + (IF e.kind = kind THEN 1 ELSE 0)
    BY <2>2, <2>3
  <2> QED
    BY <2>4 DEF r, n
<1> QED
  BY <1>1, <1>2, <1>3

LEMMA Staled ==
  ASSUME NEW S, \A f \in S : [f EXCEPT !.live = FALSE] \in S, NEW s \in Seq(S)
  PROVE  /\ StaleFrames(s) \in Seq(S) /\ Len(StaleFrames(s)) = Len(s)
         /\ \A i \in 1 .. Len(s) : StaleFrames(s)[i] = [s[i] EXCEPT !.live = FALSE]
<1>1. Len(s) \in Nat /\ DOMAIN s = 1 .. Len(s) /\ \A i \in 1 .. Len(s) : s[i] \in S
  BY LenProperties, ElementOfSeq
<1>2. StaleFrames(s) \in [1 .. Len(s) -> S]
  BY <1>1 DEF StaleFrames
<1>3. StaleFrames(s) \in Seq(S) /\ Len(StaleFrames(s)) = Len(s)
  BY <1>1, <1>2
<1> QED
  BY <1>1, <1>3 DEF StaleFrames

LEMMA StaleFrame ==
  /\ \A f \in Frames :
        /\ [f EXCEPT !.live = FALSE] \in Frames
        /\ [f EXCEPT !.live = FALSE].kind = f.kind
        /\ [f EXCEPT !.live = FALSE].id = f.id
        /\ [f EXCEPT !.live = FALSE].number = f.number
  /\ \A f \in Answers :
        /\ [f EXCEPT !.live = FALSE] \in Answers
        /\ [f EXCEPT !.live = FALSE].kind = f.kind
        /\ [f EXCEPT !.live = FALSE].id = f.id
        /\ [f EXCEPT !.live = FALSE].credit = f.credit
BY DEF Frames, Answers

---------------------------------------------------------------------------
(* Types.                                                                  *)

\* What the constants are.
LEMMA Sizes ==
  /\ SeqMod \in Nat \ {0} /\ IdMod \in Nat \ {0} /\ Numbers \in Nat \ {0}
  /\ TxSize \in Nat \ {0} /\ RxSize \in Nat \ {0}
  /\ Window \in Nat \ {0} /\ Waiting \in Nat \ {0}
  /\ 4 * Window <= SeqMod /\ Window + Waiting < IdMod
<1>1. /\ SeqMod \in Nat \ {0} /\ IdMod \in Nat \ {0} /\ Numbers \in Nat \ {0}
      /\ TxSize \in Nat \ {0} /\ RxSize \in Nat \ {0}
      /\ Window \in Nat \ {0} /\ Waiting \in Nat \ {0}
  BY ChipAssumption
<1>2. 4 * Window <= SeqMod
  BY <1>1, ChipAssumption
<1> QED
  BY <1>1, <1>2, ChipAssumption

LEMMA ChannelTypes ==
  ASSUME NEW E, NEW size \in Nat \ {0}, NEW ch \in Channel(E, size), NEW e \in E
  PROVE  /\ NewChannel(e, size) \in Channel(E, size)
         /\ PushDone(ch, e, size) \in Channel(E, size)
         /\ PopDone(ch, size) \in Channel(E, size)
         /\ AwaitRoom(ch) \in Channel(E, size)
         /\ AwaitElement(ch) \in Channel(E, size)
         /\ First(ch) \in E
         /\ IsEmpty(ch) \in BOOLEAN /\ IsFull(ch) \in BOOLEAN
<1>1. \A i \in 0 .. size - 1 : Increment(i, size) \in 0 .. size - 1
  BY DEF Increment
<1>2. /\ ch.front \in 0 .. size - 1 /\ ch.back \in 0 .. size - 1 /\ ch.full \in BOOLEAN
      /\ ch.element \in [0 .. size - 1 -> E]
      /\ ch.sender \in BOOLEAN /\ ch.receiver \in BOOLEAN
  BY DEF Channel
<1>3. NewChannel(e, size) \in Channel(E, size)
  BY DEF Channel, NewChannel
<1>4. PushDone(ch, e, size) \in Channel(E, size)
  BY <1>1, <1>2 DEF Channel, PushDone
<1>5. PopDone(ch, size) \in Channel(E, size)
  BY <1>1, <1>2 DEF Channel, PopDone
<1>6. AwaitRoom(ch) \in Channel(E, size) /\ AwaitElement(ch) \in Channel(E, size)
  BY <1>2 DEF Channel, AwaitRoom, AwaitElement, IsFull, IsEmpty
<1>7. First(ch) \in E /\ IsEmpty(ch) \in BOOLEAN /\ IsFull(ch) \in BOOLEAN
  BY <1>2 DEF First, IsEmpty, IsFull
<1> QED
  BY <1>3, <1>4, <1>5, <1>6, <1>7

LEMMA InitTypes == Init => TypeOK
<1> SUFFICES ASSUME Init PROVE TypeOK
  OBVIOUS
<1> USE Sizes
<1>1. 0 \in 0 .. Numbers - 1 /\ 0 \in 0 .. SeqMod - 1 /\ 0 \in 0 .. IdMod - 1
      /\ 1 \in 0 .. SeqMod - 1
  OBVIOUS
<1>2. tx \in Channel(0 .. Numbers - 1, TxSize) /\ rx \in Channel({0}, RxSize)
  BY <1>1 DEF Init, NewChannel, Channel
<1>3. out \in Frames
  BY <1>1 DEF Init, Nothing, Frame, Frames
<1>4. inbox \in Seq(Frames) /\ outbox \in Seq(Answers) /\ Len(outbox) = 0
  BY EmptySeq DEF Init
<1>5. ioctl \in [tag : {"Pending", "Sent", "Done"}, live : BOOLEAN]
  BY DEF Init
<1>6. /\ seq \in 0 .. SeqMod - 1 /\ seqMax \in 0 .. SeqMod - 1 /\ consumed \in 0 .. SeqMod - 1
      /\ ioctlId \in 0 .. IdMod - 1 /\ number \in 0 .. Numbers - 1
      /\ expected \in 0 .. Numbers - 1
  BY <1>1 DEF Init
<1>7. calling \in BOOLEAN /\ busy \in BOOLEAN /\ backlog \in BOOLEAN
  BY DEF Init
<1>8. wakers \in SUBSET {"control", "runner"} /\ woken \in SUBSET Tasks
  BY DEF Init, Tasks
<1>9. pc \in {"loop", "select", "stalled", "write", "read_irq", "read"}
  BY DEF Init
<1>10. Len(outbox) <= Waiting
  BY <1>4
<1> QED
  BY <1>2, <1>3, <1>4, <1>5, <1>6, <1>7, <1>8, <1>9, <1>10 DEF TypeOK

\* What the steps that matter to types do, one by one.
LEMMA TypeStep ==
  ASSUME TypeOK, ReadInv, [Next]_vars
  PROVE  TypeOK'
<1> USE Sizes
<1> DEFINE Packets == 0 .. Numbers - 1
<1>1. tx \in Channel(Packets, TxSize) /\ rx \in Channel({0}, RxSize) /\ number \in Packets
  BY DEF TypeOK
<1>2. (number + 1) % Numbers \in Packets /\ (seq + 1) % SeqMod \in 0 .. SeqMod - 1
      /\ (ioctlId + 1) % IdMod \in 0 .. IdMod - 1 /\ (consumed + 1) % SeqMod \in 0 .. SeqMod - 1
  <2>1. number + 1 \in Nat /\ seq + 1 \in Nat /\ ioctlId + 1 \in Nat /\ consumed + 1 \in Nat
    BY DEF TypeOK
  <2> QED
    BY <2>1, ModRange
<1>3. /\ PopDone(tx, TxSize) \in Channel(Packets, TxSize)
      /\ AwaitRoom(tx) \in Channel(Packets, TxSize)
      /\ AwaitElement(tx) \in Channel(Packets, TxSize)
      /\ PushDone(tx, number, TxSize) \in Channel(Packets, TxSize)
      /\ First(tx) \in Packets
  BY <1>1, ChannelTypes
<1>4. /\ PopDone(rx, RxSize) \in Channel({0}, RxSize)
      /\ AwaitElement(rx) \in Channel({0}, RxSize)
      /\ PushDone(rx, 0, RxSize) \in Channel({0}, RxSize)
  <2>1. 0 \in {0}
    OBVIOUS
  <2> QED
    BY <1>1, <2>1, ChannelTypes
<1>5. inbox \in Seq(Frames) /\ outbox \in Seq(Answers)
  BY DEF TypeOK
<1> HIDE DEF Packets
<1>6. CASE DoIoctl
  BY <1>6 DEF DoIoctl, TypeOK, stackVars, seqVars, chipVars, Tasks
<1>7. CASE Cancel
  <2>1. StaleFrames(inbox) \in Seq(Frames) /\ StaleFrames(outbox) \in Seq(Answers)
        /\ Len(StaleFrames(outbox)) = Len(outbox)
    BY <1>5, StaleFrame, Staled
  <2>2. [out EXCEPT !.live = FALSE] \in Frames
    BY StaleFrame DEF TypeOK
  <2> QED
    BY <1>7, <2>1, <2>2 DEF Cancel, GiveUp, TypeOK, stackVars, seqVars
<1>8. CASE PollControl
  BY <1>8 DEF PollControl, TypeOK, stackVars, seqVars, chipVars
<1>9. CASE AppSend
  BY <1>9 DEF AppSend, TypeOK, ioctlVars, seqVars, chipVars, Tasks
<1>10. CASE PollStack
  BY <1>10 DEF PollStack, TypeOK, ioctlVars, seqVars, chipVars
<1>11. CASE StackReceives
  <2>1. rx' \in Channel({0}, RxSize)
    BY <1>4, <1>11 DEF StackReceives
  <2>2. tx' \in Channel(Packets, TxSize) /\ number' \in Packets /\ woken' \in SUBSET Tasks
    BY <1>1, <1>2, <1>3, <1>11 DEF StackReceives, Push, Woken, TypeOK, Tasks
  <2> QED
    BY <1>11, <2>1, <2>2 DEF StackReceives, TypeOK, ioctlVars, seqVars, chipVars, Packets
<1>12. CASE StackTransmits
  <2>2. tx' \in Channel(Packets, TxSize) /\ number' \in Packets /\ woken' \in SUBSET Tasks
    BY <1>1, <1>2, <1>3, <1>12 DEF StackTransmits, Push, Woken, TypeOK, Tasks
  <2> QED
    BY <1>12, <2>2 DEF StackTransmits, TypeOK, ioctlVars, seqVars, chipVars, Packets
<1>13. CASE StackWaits
  BY <1>1, <1>3, <1>4, <1>13 DEF StackWaits, TypeOK, ioctlVars, seqVars, chipVars, Packets
<1>14. CASE TakeIoctl
  <2>1. Frame("ioctl", ioctlId', TRUE, 0) \in Frames
    BY <1>2, <1>14 DEF TakeIoctl, Frame, Frames
  <2> QED
    BY <1>2, <1>14, <2>1 DEF TakeIoctl, Send, TypeOK, stackVars, chipVars
<1>15. CASE TakePacket
  <2>1. Frame("data", 0, FALSE, First(tx)) \in Frames
    BY <1>3 DEF Frame, Frames, Packets
  <2> QED
    BY <1>2, <1>15, <2>1 DEF TakePacket, Send, TypeOK, stackVars, chipVars
<1>16. CASE Await
  BY <1>3, <1>16 DEF Await, TypeOK, stackVars, seqVars, chipVars, Packets
<1>17. CASE Stall
  BY <1>17 DEF Stall, TypeOK, ioctlVars, stackVars, seqVars, chipVars
<1>18. CASE PollRunner
  BY <1>18 DEF PollRunner, TypeOK, ioctlVars, stackVars, seqVars, chipVars
<1>19. CASE PollInVain
  BY <1>19 DEF PollInVain, TypeOK, ioctlVars, stackVars, seqVars, chipVars
<1>20. CASE Written
  <2>1. inbox' \in Seq(Frames) /\ Nothing \in Frames
    BY <1>5, <1>20, Extended DEF Written, TypeOK, Nothing, Frame, Frames
  <2>2. tx' \in Channel(Packets, TxSize) /\ woken' \in SUBSET Tasks
    BY <1>1, <1>3, <1>20 DEF Written, Woken, TypeOK, Tasks
  <2> QED
    BY <1>20, <2>1, <2>2 DEF Written, CheckStatus, TypeOK, ioctlVars, stackVars, seqVars, Packets
<1>21. CASE IrqRead
  BY <1>21 DEF IrqRead, CheckStatus, TypeOK, ioctlVars, stackVars, seqVars, chipVars
<1>22. CASE Read
  <2> DEFINE a == Head(outbox)
  <2>1. outbox # <<>>
    BY <1>22 DEF Read, ReadInv
  <2>2. a \in Answers /\ Tail(outbox) \in Seq(Answers) /\ Len(Tail(outbox)) = Len(outbox) - 1
        /\ Len(outbox) \in Nat
    BY <1>5, <2>1, Shortened
  <2>3. seqMax' \in 0 .. SeqMod - 1
    <3>1. seq + 2 \in Nat /\ a.credit \in 0 .. SeqMod - 1
      BY <2>2 DEF TypeOK, Answers
    <3>2. (seq + 2) % SeqMod \in 0 .. SeqMod - 1
      BY <3>1, ModRange
    <3> QED
      BY <1>22, <3>1, <3>2 DEF Read, Credit
  <2>4. /\ ioctl' \in [tag : {"Pending", "Sent", "Done"}, live : BOOLEAN]
        /\ wakers' \in SUBSET {"control", "runner"} /\ woken' \in SUBSET Tasks
        /\ rx' \in Channel({0}, RxSize)
    <3>1. a.live \in BOOLEAN
      BY <2>2 DEF Answers
    <3> HIDE DEF a
    <3>2. IoctlDone(a) \/ RxDone(a) \/ Dropped(a)
      BY <1>22 DEF Read, a
    <3>3. CASE IoctlDone(a)
      BY <1>1, <3>1, <3>3 DEF IoctlDone, TypeOK, Tasks
    <3>4. CASE RxDone(a)
      BY <1>4, <3>4 DEF RxDone, Woken, TypeOK, Tasks
    <3>5. CASE Dropped(a)
      BY <1>1, <3>5 DEF Dropped, TypeOK, Tasks
    <3> QED
      BY <3>2, <3>3, <3>4, <3>5
  <2>5. Len(Tail(outbox)) <= Waiting
    BY <2>2 DEF TypeOK
  <2> HIDE DEF a
  <2> QED
    BY <1>22, <2>2, <2>3, <2>4, <2>5 DEF Read, CheckStatus, TypeOK, stackVars
<1>23. CASE ChipTakes
  <2>1. inbox' \in Seq(Frames) /\ Head(inbox) \in Frames
    BY <1>5, <1>23, Shortened DEF ChipTakes
  <2>2. expected' \in Packets
    <3>1. Head(inbox).number + 1 \in Nat
      BY <2>1 DEF Frames
    <3>2. (Head(inbox).number + 1) % Numbers \in Packets
      BY <3>1, ModRange DEF Packets
    <3> QED
      BY <1>23, <3>2 DEF ChipTakes, TypeOK, Packets
  <2>3. outbox' \in Seq(Answers) /\ Len(outbox') <= Waiting
    <3>1. Granted' \in 0 .. SeqMod - 1
      <4>1. consumed' + Window \in Nat
        BY <1>2, <1>23, SMTT(30) DEF ChipTakes
      <4> QED
        BY <4>1, ModRange DEF Granted
    <3>2. Answer("reply", Head(inbox).id, Head(inbox).live, Granted') \in Answers
      BY <2>1, <3>1 DEF Answer, Answers, Frames
    <3>3. CASE UNCHANGED outbox
      BY <1>5, <3>3 DEF TypeOK
    <3>4. CASE /\ Len(outbox) < Waiting
               /\ outbox' = Append(outbox, Answer("reply", Head(inbox).id, Head(inbox).live, Granted'))
      BY <1>5, <3>2, <3>4, Extended
    <3> QED
      BY <1>23, <3>3, <3>4 DEF ChipTakes
  <2> QED
    BY <1>2, <1>23, <2>1, <2>2, <2>3
    DEF ChipTakes, TypeOK, ioctlVars, seqVars, stackVars, Packets
<1>24. ASSUME NEW kind \in {"data", "event"}, ChipSends(kind)
       PROVE  TypeOK'
  <2>1. Granted \in 0 .. SeqMod - 1
    <3>1. consumed + Window \in Nat
      BY DEF TypeOK
    <3> QED
      BY <3>1, ModRange DEF Granted
  <2>2. Answer(kind, 0, FALSE, Granted) \in Answers
    BY <2>1 DEF Answer, Answers
  <2>3. outbox' \in Seq(Answers) /\ Len(outbox') <= Waiting
    <3> DEFINE a == Answer(kind, 0, FALSE, Granted)
    <3>2. outbox' = Append(outbox, a) /\ Len(outbox) < Waiting /\ a \in Answers
      BY <1>24, <2>2 DEF ChipSends
    <3> HIDE DEF a
    <3>1. Append(outbox, a) \in Seq(Answers) /\ Len(Append(outbox, a)) = Len(outbox) + 1
          /\ Len(outbox) \in Nat
      BY <1>5, <3>2, Extended
    <3> QED
      BY <3>1, <3>2
  <2> QED
    BY <1>24, <2>3 DEF ChipSends, TypeOK, ioctlVars, seqVars, stackVars
<1>25. CASE UNCHANGED vars
  BY <1>25 DEF vars, ioctlVars, stackVars, seqVars, chipVars, TypeOK
<1> QED
  BY <1>6, <1>7, <1>8, <1>9, <1>10, <1>11, <1>12, <1>13, <1>14, <1>15, <1>16, <1>17, <1>18,
     <1>19, <1>20, <1>21, <1>22, <1>23, <1>24, <1>25
  DEF Next, Control, StackSteps, RunnerSteps, Chip

---------------------------------------------------------------------------
(* What a step does to the counters and the frames.                        *)

\* A step of no interest to them.
Quiet ==
    /\ UNCHANGED <<inbox, outbox, consumed, expected, seq, seqMax, ioctlId, out>>
    /\ pc' = "write" <=> pc = "write"

LEMMA GivenUp ==
  ASSUME TypeOK, GiveUp
  PROVE  /\ Len(inbox') = Len(inbox) /\ Len(outbox') = Len(outbox)
         /\ out'.kind = out.kind /\ out'.id = out.id /\ out'.number = out.number
         /\ \A i \in 1 .. Len(inbox) : /\ inbox'[i].kind = inbox[i].kind
                                       /\ inbox'[i].id = inbox[i].id
                                       /\ inbox'[i].number = inbox[i].number
         /\ \A i \in 1 .. Len(outbox) : /\ outbox'[i].kind = outbox[i].kind
                                        /\ outbox'[i].id = outbox[i].id
                                        /\ outbox'[i].credit = outbox[i].credit
         /\ \A kind : \A i \in 1 .. Len(inbox) + 1, j \in 0 .. Len(inbox) :
               Count(inbox', kind, i, j) = Count(inbox, kind, i, j)
<1>1. inbox \in Seq(Frames) /\ outbox \in Seq(Answers) /\ out \in Frames
  BY DEF TypeOK
<1>2. /\ Len(inbox') = Len(inbox)
      /\ \A i \in 1 .. Len(inbox) : inbox'[i] = [inbox[i] EXCEPT !.live = FALSE]
  <2>1. \A f \in Frames : [f EXCEPT !.live = FALSE] \in Frames
    BY StaleFrame
  <2>2. /\ Len(StaleFrames(inbox)) = Len(inbox)
        /\ \A i \in 1 .. Len(inbox) : StaleFrames(inbox)[i] = [inbox[i] EXCEPT !.live = FALSE]
    BY <1>1, <2>1, Staled
  <2> QED
    BY <2>2 DEF GiveUp
<1>3. /\ Len(outbox') = Len(outbox)
      /\ \A i \in 1 .. Len(outbox) : outbox'[i] = [outbox[i] EXCEPT !.live = FALSE]
  <2>1. \A f \in Answers : [f EXCEPT !.live = FALSE] \in Answers
    BY StaleFrame
  <2>2. /\ Len(StaleFrames(outbox)) = Len(outbox)
        /\ \A i \in 1 .. Len(outbox) : StaleFrames(outbox)[i] = [outbox[i] EXCEPT !.live = FALSE]
    BY <1>1, <2>1, Staled
  <2> QED
    BY <2>2 DEF GiveUp
<1>4. /\ \A i \in 1 .. Len(inbox) : inbox[i] \in Frames
      /\ \A i \in 1 .. Len(outbox) : outbox[i] \in Answers
      /\ Len(inbox) \in Nat
  BY <1>1, ElementOfSeq, LenProperties
<1>5. out'.kind = out.kind /\ out'.id = out.id /\ out'.number = out.number
  BY <1>1, StaleFrame DEF GiveUp
<1>6. \A i \in 1 .. Len(inbox) : /\ inbox'[i].kind = inbox[i].kind
                                 /\ inbox'[i].id = inbox[i].id
                                 /\ inbox'[i].number = inbox[i].number
  BY <1>2, <1>4, StaleFrame
<1>7. \A i \in 1 .. Len(outbox) : /\ outbox'[i].kind = outbox[i].kind
                                  /\ outbox'[i].id = outbox[i].id
                                  /\ outbox'[i].credit = outbox[i].credit
  BY <1>3, <1>4, StaleFrame
<1>8. ASSUME NEW kind, NEW i \in 1 .. Len(inbox) + 1, NEW j \in 0 .. Len(inbox)
      PROVE  Count(inbox', kind, i, j) = Count(inbox, kind, i, j)
  <2>1. i \in Int /\ j \in Int /\ \A m \in i .. j : inbox'[m].kind = inbox[m].kind
    BY <1>4, <1>6
  <2> QED
    BY <2>1, CountSame
<1> QED
  BY <1>2, <1>3, <1>5, <1>6, <1>7, <1>8

\* A frame goes to the chip.
LEMMA FrameWritten ==
  ASSUME TypeOK, Written
  PROVE  /\ pc = "write" /\ pc' # "write" /\ Len(inbox) \in Nat
         /\ Len(inbox') = Len(inbox) + 1 /\ inbox'[Len(inbox) + 1] = out
         /\ \A i \in 1 .. Len(inbox) : inbox'[i] = inbox[i]
         /\ \A kind : \A i \in 1 .. Len(inbox) + 1 :
               /\ Count(inbox', kind, i, Len(inbox) + 1)
                     = Count(inbox, kind, i, Len(inbox)) + Writing(kind)
               /\ Count(inbox', kind, 1, i - 1) = Count(inbox, kind, 1, i - 1)
         /\ \A kind : Count(inbox', kind, Len(inbox) + 2, Len(inbox) + 1) = 0
<1> DEFINE n == Len(inbox)
           r == Append(inbox, out)
<1>1. inbox \in Seq(Frames) /\ out \in Frames
  BY DEF TypeOK
<1>2. pc = "write" /\ pc' # "write" /\ inbox' = r
  BY DEF Written, CheckStatus
<1>3. /\ n \in Nat /\ Len(r) = n + 1 /\ r[n + 1] = out
      /\ \A i \in 1 .. n : r[i] = inbox[i]
  BY <1>1, Extended
<1>4. ASSUME NEW kind, NEW i \in 1 .. n + 1
      PROVE  /\ Count(r, kind, i, n + 1) = Count(inbox, kind, i, n) + Writing(kind)
             /\ Count(r, kind, 1, i - 1) = Count(inbox, kind, 1, i - 1)
  <2>1. Count(r, kind, i, n + 1) = Count(inbox, kind, i, n) + (IF out.kind = kind THEN 1 ELSE 0)
    BY <1>1, Extended
  <2>2. 1 \in 1 .. n + 1 /\ i - 1 \in 0 .. n
    BY <1>3
  <2>3. Count(r, kind, 1, i - 1) = Count(inbox, kind, 1, i - 1)
    BY <1>1, <2>2, Extended
  <2> HIDE DEF r, n
  <2> QED
    BY <1>2, <2>1, <2>3 DEF Writing
<1>5. ASSUME NEW kind
      PROVE  Count(r, kind, n + 2, n + 1) = 0
  <2>1. n + 2 \in Int /\ n + 1 \in Int /\ n + 2 > n + 1
    BY <1>3
  <2>2. Count(r, kind, n + 2, n + 1) \in Nat
    BY <2>1, CountBounds
  <2>3. Count(r, kind, n + 2, n + 1) <= IF n + 2 > n + 1 THEN 0 ELSE (n + 1) - (n + 2) + 1
    BY <2>1, CountBounds
  <2> QED
    BY <2>1, <2>2, <2>3
<1> HIDE DEF n
<1> QED
  BY <1>2, <1>3, <1>4, <1>5 DEF n

\* The chip takes a frame.
LEMMA FrameTaken ==
  ASSUME TypeOK, ChipTakes
  PROVE  /\ Len(inbox) \in Nat \ {0} /\ Head(inbox) = inbox[1] /\ inbox[1] \in Frames
         /\ Len(inbox') = Len(inbox) - 1
         /\ \A i \in 1 .. Len(inbox) - 1 : inbox'[i] = inbox[i + 1]
         /\ \A kind : \A i \in 1 .. Len(inbox) :
               /\ Count(inbox', kind, i, Len(inbox) - 1) = Count(inbox, kind, i + 1, Len(inbox))
               /\ Count(inbox, kind, 1, i)
                     = Count(inbox', kind, 1, i - 1) + (IF inbox[1].kind = kind THEN 1 ELSE 0)
<1> DEFINE n == Len(inbox)
           r == Tail(inbox)
<1>1. inbox \in Seq(Frames) /\ inbox # <<>> /\ inbox' = r
  BY DEF TypeOK, ChipTakes
<1>2. /\ n \in Nat \ {0} /\ Head(inbox) = inbox[1] /\ inbox[1] \in Frames /\ Len(r) = n - 1
      /\ \A i \in 1 .. n - 1 : r[i] = inbox[i + 1]
  BY <1>1, Shortened
<1>3. ASSUME NEW kind, NEW i \in 1 .. n
      PROVE  /\ Count(r, kind, i, n - 1) = Count(inbox, kind, i + 1, n)
             /\ Count(inbox, kind, 1, i) = Count(r, kind, 1, i - 1)
                                           + (IF inbox[1].kind = kind THEN 1 ELSE 0)
  <2>1. /\ n - 1 \in 0 .. n - 1 /\ (n - 1) + 1 = n /\ i - 1 \in 0 .. n - 1 /\ (i - 1) + 1 = i
        /\ 1 \in 1 .. n /\ i \in Int /\ 1 \in Int /\ 1 <= i
    BY <1>2
  <2>2. Count(r, kind, i, n - 1) = Count(inbox, kind, i + 1, (n - 1) + 1)
    BY <1>1, <2>1, Shortened
  <2>3. Count(r, kind, 1, i - 1) = Count(inbox, kind, 1 + 1, (i - 1) + 1)
    BY <1>1, <2>1, Shortened
  <2>4. Count(inbox, kind, 1, i)
           = Count(inbox, kind, 1 + 1, i) + (IF inbox[1].kind = kind THEN 1 ELSE 0)
    BY <2>1, CountFirst
  <2> HIDE DEF r, n
  <2> QED
    BY <2>1, <2>2, <2>3, <2>4
<1> HIDE DEF n
<1> QED
  BY <1>1, <1>2, <1>3 DEF n

LEMMA Kinds ==
  ASSUME [Next]_vars
  PROVE  \/ Quiet \/ Cancel \/ TakeIoctl \/ TakePacket \/ Written \/ Read
         \/ ChipTakes \/ \E kind \in {"data", "event"} : ChipSends(kind)
<1>1. CASE DoIoctl \/ PollControl
  BY <1>1 DEF DoIoctl, PollControl, Quiet, seqVars, chipVars
<1>2. CASE AppSend \/ PollStack \/ StackReceives \/ StackTransmits \/ StackWaits
  BY <1>2 DEF AppSend, PollStack, StackReceives, StackTransmits, StackWaits, Quiet,
              seqVars, chipVars
<1>3. CASE Await \/ Stall \/ PollRunner \/ PollInVain \/ IrqRead
  BY <1>3 DEF Await, Stall, PollRunner, PollInVain, IrqRead, CheckStatus, Quiet,
              seqVars, chipVars
<1>4. CASE UNCHANGED vars
  BY <1>4 DEF vars, Quiet, seqVars, chipVars
<1> QED
  BY <1>1, <1>2, <1>3, <1>4 DEF Next, Control, StackSteps, RunnerSteps, Chip

LEMMA Granting ==
  ASSUME NEW c \in 0 .. SeqMod - 1
  PROVE  /\ (c + Window) % SeqMod \in 0 .. SeqMod - 1
         /\ Gap((c + Window) % SeqMod, c, SeqMod) = Window
<1>1. Window \in 0 .. SeqMod - 1
  BY Sizes
<1> QED
  BY <1>1, Sizes, GapOver

LEMMA ReadStep ==
  ASSUME TypeOK, ReadInv, [Next]_vars
  PROVE  ReadInv'
<1>1. inbox \in Seq(Frames) /\ outbox \in Seq(Answers)
  BY DEF TypeOK
<1>2. CASE UNCHANGED <<pc, outbox>>
  BY <1>2 DEF ReadInv
<1>3. CASE Cancel
  <2>1. StaleFrames(outbox) \in Seq(Answers) /\ Len(StaleFrames(outbox)) = Len(outbox)
    BY <1>1, StaleFrame, Staled
  <2>2. outbox # <<>> => StaleFrames(outbox) # <<>>
    BY <1>1, <2>1, EmptySeq
  <2> QED
    BY <1>3, <2>2 DEF Cancel, GiveUp, ReadInv
<1>4. CASE TakeIoctl \/ TakePacket \/ Await \/ Stall \/ PollRunner
  BY <1>4 DEF TakeIoctl, TakePacket, Await, Stall, PollRunner, Send, ReadInv
<1>5. CASE Written \/ IrqRead \/ Read
  BY <1>5 DEF Written, IrqRead, Read, CheckStatus, ReadInv, chipVars
<1>6. CASE UNCHANGED pc /\ \E a \in Answers : outbox' = Append(outbox, a)
  <2>1. PICK a \in Answers : outbox' = Append(outbox, a)
    BY <1>6
  <2>2. outbox' # <<>>
    BY <1>1, <2>1, AppendProperties
  <2> QED
    BY <2>2 DEF ReadInv
<1>7. ChipTakes => UNCHANGED pc /\ (UNCHANGED outbox \/ \E a \in Answers : outbox' = Append(outbox, a))
  <2> SUFFICES ASSUME ChipTakes, ~UNCHANGED outbox
               PROVE  \E a \in Answers : outbox' = Append(outbox, a)
    BY DEF ChipTakes
  <2> DEFINE a == Answer("reply", Head(inbox).id, Head(inbox).live, Granted')
  <2>1. outbox' = Append(outbox, a)
    BY DEF ChipTakes
  <2>2. Head(inbox) \in Frames
    BY <1>1, Shortened DEF ChipTakes
  <2>3. consumed' \in 0 .. SeqMod - 1
    <3>1. consumed + 1 \in Nat
      BY DEF TypeOK
    <3> QED
      BY <3>1, Sizes, ModRange DEF ChipTakes
  <2>4. Granted' \in 0 .. SeqMod - 1
    BY <2>3, Granting DEF Granted
  <2>5. a \in Answers
    BY <2>2, <2>4 DEF Answer, Answers, Frames
  <2> QED
    BY <2>1, <2>5
<1>8. ASSUME NEW kind \in {"data", "event"}, ChipSends(kind)
      PROVE  UNCHANGED pc /\ \E a \in Answers : outbox' = Append(outbox, a)
  <2>2. Granted \in 0 .. SeqMod - 1
    BY Granting DEF Granted, TypeOK
  <2>3. Answer(kind, 0, FALSE, Granted) \in Answers
    BY <2>2, Sizes DEF Answer, Answers
  <2> QED
    BY <1>8, <2>3 DEF ChipSends
<1>9. CASE DoIoctl \/ PollControl \/ AppSend \/ PollStack \/ StackReceives \/ StackTransmits
           \/ StackWaits \/ PollInVain \/ UNCHANGED vars
  BY <1>2, <1>9 DEF DoIoctl, PollControl, AppSend, PollStack, StackReceives, StackTransmits,
                    StackWaits, PollInVain, vars, chipVars
<1> QED
  BY <1>2, <1>3, <1>4, <1>5, <1>6, <1>7, <1>8, <1>9
  DEF Next, Control, StackSteps, RunnerSteps, Chip

---------------------------------------------------------------------------
(* The credits.                                                            *)

\* A credit that the chip gives is the largest so far.
LEMMA CreditsAppended ==
  ASSUME outbox \in Seq(Answers), NEW a, outbox' = Append(outbox, a), a.credit = Granted',
         consumed' \in 0 .. SeqMod - 1, Ahead(seqMax)' <= Window,
         \A i \in 1 .. Len(outbox) :
            /\ Ahead(seqMax)' <= Minus(outbox[i].credit, consumed')
            /\ Minus(outbox[i].credit, consumed') <= Window,
         \A i, j \in 1 .. Len(outbox) : i <= j =>
            Minus(outbox[i].credit, consumed') <= Minus(outbox[j].credit, consumed')
  PROVE  /\ \A i \in 1 .. Len(outbox') :
               Ahead(seqMax)' <= Ahead(outbox[i].credit)' /\ Ahead(outbox[i].credit)' <= Window
         /\ \A i, j \in 1 .. Len(outbox') :
               i <= j => Ahead(outbox[i].credit)' <= Ahead(outbox[j].credit)'
<1> DEFINE n == Len(outbox)
           o == outbox'
<1>1. /\ n \in Nat /\ Len(o) = n + 1 /\ o[n + 1] = a
      /\ \A i \in 1 .. n : o[i] = outbox[i]
  OBVIOUS
<1>2. Minus(o[n + 1].credit, consumed') = Window
  <2> DEFINE c == consumed'
  <2>1. Granted' = (c + Window) % SeqMod
    BY DEF Granted
  <2> HIDE DEF c
  <2>2. Gap((c + Window) % SeqMod, c, SeqMod) = Window
    BY Granting DEF c
  <2>3. Minus((c + Window) % SeqMod, c) = Window
    BY <2>2 DEF Gap, Minus
  <2> QED
    BY <1>1, <2>1, <2>3 DEF c
<1>3. \A i \in 1 .. n : Minus(o[i].credit, consumed') = Minus(outbox[i].credit, consumed')
  BY <1>1
<1>4. Window \in Nat
  BY Sizes
<1>5. \A i \in 1 .. n + 1 : /\ Ahead(seqMax)' <= Minus(o[i].credit, consumed')
                            /\ Minus(o[i].credit, consumed') <= Window
  <2> TAKE i \in 1 .. n + 1
  <2>1. i \in 1 .. n \/ i = n + 1
    BY <1>1
  <2> QED
    BY <1>2, <1>3, <1>4, <2>1
<1>6. \A i, j \in 1 .. n + 1 : i <= j =>
          Minus(o[i].credit, consumed') <= Minus(o[j].credit, consumed')
  <2> SUFFICES ASSUME NEW i \in 1 .. n + 1, NEW j \in 1 .. n + 1, i <= j
               PROVE  Minus(o[i].credit, consumed') <= Minus(o[j].credit, consumed')
    OBVIOUS
  <2>1. CASE j = n + 1
    BY <1>2, <1>5, <2>1
  <2>2. CASE j # n + 1
    <3>1. i \in 1 .. n /\ j \in 1 .. n
      BY <1>1, <2>2
    <3> QED
      BY <1>3, <3>1
  <2> QED
    BY <2>1, <2>2
<1> HIDE DEF n
<1> QED
  BY <1>1, <1>5, <1>6 DEF Ahead

\* The same for every credit: a frame goes to the chip, the chip takes one.
LEMMA CreditStep ==
  ASSUME TypeOK, ReadInv, CreditInv, [Next]_vars
  PROVE  CreditInv'
<1> DEFINE D == 0 .. SeqMod - 1
<1>1. seq \in D /\ seqMax \in D /\ consumed \in D
  BY DEF TypeOK
<1>2. \A i \in 1 .. Len(outbox) : outbox[i].credit \in D
  <2>1. \A i \in 1 .. Len(outbox) : outbox[i] \in Answers
    BY ElementOfSeq DEF TypeOK
  <2> QED
    BY <2>1 DEF Answers
<1>3. inbox \in Seq(Frames) /\ outbox \in Seq(Answers) /\ Len(inbox) \in Nat /\ Len(outbox) \in Nat
  BY LenProperties DEF TypeOK
<1>4. Window \in Nat \ {0} /\ 4 * Window <= SeqMod /\ SeqMod \in Nat \ {0}
  BY Sizes
<1>5. \A x : Ahead(x) = Gap(x, consumed, SeqMod)
  BY DEF Ahead, Minus, Gap
<1>6. \A x \in D : Ahead(x) \in D
  BY <1>1, <1>4, <1>5, GapIs
<1> HIDE DEF D
<1>7. CASE Quiet
  BY <1>7 DEF Quiet, CreditInv, Lag, Ahead, Minus
<1>8. CASE Cancel
  <2>1. /\ Len(inbox') = Len(inbox) /\ Len(outbox') = Len(outbox)
        /\ \A i \in 1 .. Len(outbox) : outbox'[i].credit = outbox[i].credit
    BY <1>8, GivenUp DEF Cancel
  <2>2. UNCHANGED <<seq, seqMax, consumed, pc>>
    BY <1>8 DEF Cancel, seqVars
  <2> QED
    BY <1>3, <2>1, <2>2 DEF CreditInv, Lag, Ahead, Minus
<1>9. CASE TakeIoctl \/ TakePacket
  <2>1. /\ seq' = (seq + 1) % SeqMod /\ pc = "loop" /\ pc' = "write"
        /\ seq # seqMax
        /\ UNCHANGED <<inbox, outbox, consumed, seqMax>>
    BY <1>9 DEF TakeIoctl, TakePacket, Send, HasCredit, chipVars
  <2>2. Lag = Len(inbox) /\ Lag' = Len(inbox) + 1
    BY <1>3, <2>1 DEF Lag
  <2>3. Ahead(seq) # Ahead(seqMax)
    <3>1. Gap(seq, consumed, SeqMod) = IF consumed <= seq THEN seq - consumed
                                       ELSE seq + SeqMod - consumed
      BY <1>1, <1>4, GapIs DEF D
    <3>2. Gap(seqMax, consumed, SeqMod) = IF consumed <= seqMax THEN seqMax - consumed
                                          ELSE seqMax + SeqMod - consumed
      BY <1>1, <1>4, GapIs DEF D
    <3> QED
      BY <1>1, <1>4, <1>5, <2>1, <3>1, <3>2 DEF D
  <2>4. Len(inbox) = Ahead(seq) /\ Ahead(seq) + 1 <= Ahead(seqMax) /\ Ahead(seqMax) <= Window
    BY <1>1, <1>3, <1>4, <1>6, <2>2, <2>3 DEF CreditInv, D
  <2>5. Gap(seq, consumed, SeqMod) < SeqMod - 1
    BY <1>1, <1>4, <1>5, <1>6, <2>4 DEF D
  <2>6. Gap(seq', consumed, SeqMod) = Ahead(seq) + 1
    BY <1>1, <1>4, <1>5, <2>1, <2>5, GapNext DEF D
  <2>7. Ahead(seq)' = Ahead(seq) + 1
    BY <2>1, <2>6 DEF Ahead, Minus, Gap
  <2>8. /\ Ahead(seqMax)' = Ahead(seqMax)
        /\ \A i \in 1 .. Len(outbox) : Ahead(outbox[i].credit)' = Ahead(outbox[i].credit)
    BY <2>1 DEF Ahead, Minus
  <2> QED
    BY <2>1, <2>2, <2>4, <2>7, <2>8 DEF CreditInv
<1>10. CASE Written
  <2>1. /\ pc = "write" /\ pc' # "write" /\ inbox' = Append(inbox, out)
        /\ UNCHANGED <<outbox, consumed, seq, seqMax>>
    BY <1>10 DEF Written, CheckStatus, seqVars
  <2>2. Len(inbox') = Len(inbox) + 1
    BY <1>3, <2>1, AppendProperties DEF TypeOK
  <2>3. Lag' = Lag
    BY <1>3, <2>1, <2>2 DEF Lag
  <2> QED
    BY <2>1, <2>3 DEF CreditInv, Ahead, Minus
<1>11. CASE Read
  <2> DEFINE a == Head(outbox)
             t == Tail(outbox)
  <2>1. outbox # <<>>
    BY <1>11 DEF Read, ReadInv
  <2>2. /\ Len(outbox) \in Nat \ {0} /\ a = outbox[1] /\ Len(t) = Len(outbox) - 1
        /\ \A i \in 1 .. Len(outbox) - 1 : t[i] = outbox[i + 1]
    BY <1>3, <2>1, Shortened
  <2>3. /\ pc = "read" /\ pc' # "write" /\ outbox' = t /\ seqMax' = Credit(a.credit)
        /\ UNCHANGED <<inbox, consumed, seq>>
    BY <1>11 DEF Read, CheckStatus
  <2> HIDE DEF a, t
  <2>4. a.credit \in D /\ Ahead(seqMax) <= Ahead(a.credit) /\ Ahead(a.credit) <= Window
    BY <1>2, <2>2 DEF CreditInv
  <2>5. Ahead(seq) = Len(inbox) /\ Ahead(seq) <= Ahead(seqMax)
    BY <1>3, <2>3 DEF CreditInv, Lag
  <2>6. Minus(a.credit, seq) = Ahead(a.credit) - Ahead(seq)
    <3>1. /\ Ahead(seq) \in Nat /\ Ahead(seqMax) \in Nat /\ Ahead(a.credit) \in Nat
      BY <1>1, <1>6, <2>4 DEF D
    <3>2. Gap(seq, consumed, SeqMod) <= Gap(a.credit, consumed, SeqMod)
      BY <1>5, <2>4, <2>5, <3>1
    <3>3. Gap(a.credit, seq, SeqMod) = Gap(a.credit, consumed, SeqMod) - Gap(seq, consumed, SeqMod)
      BY <1>1, <1>4, <2>4, <3>2, GapBetween DEF D
    <3> QED
      BY <1>5, <3>3 DEF Minus, Gap
  <2>7. seqMax' = a.credit
    <3>1. Ahead(seq) \in Nat /\ Ahead(a.credit) \in Nat
      BY <1>1, <1>6, <2>4 DEF D
    <3>2. Minus(a.credit, seq) <= SeqMod \div 4
      BY <1>4, <2>4, <2>6, <3>1
    <3>3. ~(Minus(a.credit, seq) > SeqMod \div 4)
      BY <1>4, <2>6, <3>1, <3>2
    <3> QED
      BY <2>3, <3>3 DEF Credit
  <2>8. Lag' = Lag
    BY <2>3 DEF Lag
  <2>9. \A i \in 1 .. Len(outbox) : Ahead(outbox[1].credit) <= Ahead(outbox[i].credit)
    BY <2>2 DEF CreditInv
  <2>10. /\ Ahead(seqMax)' = Ahead(outbox[1].credit)
         /\ Ahead(seq)' = Ahead(seq)
         /\ \A i \in 1 .. Len(outbox') :
               /\ i + 1 \in 1 .. Len(outbox)
               /\ Ahead(outbox[i].credit)' = Ahead(outbox[i + 1].credit)
    BY <2>2, <2>3, <2>7 DEF Ahead, Minus
  <2>11. Lag <= Ahead(outbox[1].credit)
    <3>1. Ahead(seqMax) \in Nat /\ Ahead(a.credit) \in Nat
      BY <1>1, <1>6, <2>4 DEF D
    <3>2. Lag \in Nat
      BY <1>3 DEF Lag
    <3> QED
      BY <2>2, <2>4, <3>1, <3>2 DEF CreditInv
  <2>12. /\ Ahead(seq)' = Lag' /\ Lag' <= Ahead(seqMax)' /\ Ahead(seqMax)' <= Window
    BY <2>2, <2>4, <2>8, <2>10, <2>11 DEF CreditInv
  <2>13. \A i \in 1 .. Len(outbox') :
            Ahead(seqMax)' <= Ahead(outbox[i].credit)' /\ Ahead(outbox[i].credit)' <= Window
    BY <2>9, <2>10 DEF CreditInv
  <2>14. \A i, j \in 1 .. Len(outbox') :
            i <= j => Ahead(outbox[i].credit)' <= Ahead(outbox[j].credit)'
    BY <2>10 DEF CreditInv
  <2> QED
    BY <2>12, <2>13, <2>14 DEF CreditInv
<1>12. CASE ChipTakes
  <2> DEFINE t == Tail(inbox)
  <2>1. /\ Len(inbox) \in Nat \ {0} /\ Len(t) = Len(inbox) - 1
    BY <1>3, <1>12, Shortened DEF ChipTakes
  <2>2. /\ inbox' = t /\ consumed' = (consumed + 1) % SeqMod
        /\ UNCHANGED <<seq, seqMax, pc>>
    BY <1>12 DEF ChipTakes, seqVars
  <2> HIDE DEF t
  <2>3. Lag >= 1 /\ Lag' = Lag - 1 /\ Lag \in Nat
    BY <2>1, <2>2 DEF Lag
  <2>4. consumed + 1 \in Nat /\ consumed' \in D
    <3>1. consumed + 1 \in Nat
      BY <1>1 DEF D
    <3> QED
      BY <1>4, <2>2, <3>1, ModRange DEF D
  <2>5. \A x : Gap(x, consumed', SeqMod) = (x + SeqMod - consumed') % SeqMod
    BY DEF Gap
  <2>6. \A x \in D : Ahead(x) >= 1 => Gap(x, consumed', SeqMod) = Ahead(x) - 1
    BY <1>1, <1>4, <1>5, <2>2, GapFirst DEF D
  <2>7. Ahead(seq) >= 1 /\ Ahead(seqMax) >= 1
        /\ \A i \in 1 .. Len(outbox) : Ahead(outbox[i].credit) >= 1
    <3>1. Ahead(seq) \in Nat /\ Ahead(seqMax) \in Nat
      BY <1>1, <1>6 DEF D
    <3>2. \A i \in 1 .. Len(outbox) : Ahead(outbox[i].credit) \in Nat
      BY <1>2, <1>6 DEF D
    <3> QED
      BY <2>3, <3>1, <3>2 DEF CreditInv
  <2>8. /\ Ahead(seq)' = Ahead(seq) - 1 /\ Ahead(seqMax)' = Ahead(seqMax) - 1
    BY <1>1, <2>2, <2>5, <2>6, <2>7 DEF Ahead, Minus
  <2>10. Ahead(seq)' = Lag' /\ Lag' <= Ahead(seqMax)' /\ Ahead(seqMax)' <= Window
    <3>1. Ahead(seq) \in Nat /\ Ahead(seqMax) \in Nat
      BY <1>1, <1>6 DEF D
    <3> QED
      BY <1>4, <2>3, <2>8, <3>1 DEF CreditInv
  <2>11. \A i \in 1 .. Len(outbox) : /\ Ahead(outbox[i].credit) \in Nat
                                     /\ Ahead(seqMax) <= Ahead(outbox[i].credit)
                                     /\ Ahead(outbox[i].credit) <= Window
    BY <1>2, <1>6 DEF CreditInv, D
  <2>12. Ahead(seqMax) \in Nat
    BY <1>1, <1>6 DEF D
  <2>13. \A i \in 1 .. Len(outbox) : Minus(outbox[i].credit, consumed') = Ahead(outbox[i].credit) - 1
    BY <1>2, <2>5, <2>6, <2>7 DEF Minus
  <2>14. /\ \A i \in 1 .. Len(outbox) :
               /\ Ahead(seqMax)' <= Minus(outbox[i].credit, consumed')
               /\ Minus(outbox[i].credit, consumed') <= Window
         /\ \A i, j \in 1 .. Len(outbox) : i <= j =>
               Minus(outbox[i].credit, consumed') <= Minus(outbox[j].credit, consumed')
    <3>1. \A i \in 1 .. Len(outbox) :
               /\ Ahead(seqMax)' <= Minus(outbox[i].credit, consumed')
               /\ Minus(outbox[i].credit, consumed') <= Window
      BY <1>4, <2>8, <2>11, <2>12, <2>13
    <3>2. \A i, j \in 1 .. Len(outbox) : i <= j =>
               Minus(outbox[i].credit, consumed') <= Minus(outbox[j].credit, consumed')
      BY <2>11, <2>13 DEF CreditInv
    <3> QED
      BY <3>1, <3>2
  <2>15. CASE UNCHANGED outbox
    BY <2>10, <2>14, <2>15 DEF CreditInv, Ahead
  <2>16. CASE outbox' = Append(outbox, Answer("reply", Head(inbox).id, Head(inbox).live, Granted'))
    <3> DEFINE a == Answer("reply", Head(inbox).id, Head(inbox).live, Granted')
    <3>1. a.credit = Granted' /\ outbox' = Append(outbox, a)
      BY <2>16 DEF Answer
    <3> HIDE DEF a
    <3> QED
      BY <1>3, <2>4, <2>10, <2>14, <3>1, CreditsAppended DEF CreditInv, D
  <2> QED
    BY <1>12, <2>15, <2>16 DEF ChipTakes
<1>13. ASSUME NEW kind \in {"data", "event"}, ChipSends(kind)
       PROVE  CreditInv'
  <2> DEFINE a == Answer(kind, 0, FALSE, Granted)
  <2>1. /\ outbox' = Append(outbox, a)
        /\ UNCHANGED <<inbox, consumed, seq, seqMax, pc>>
    BY <1>13 DEF ChipSends, seqVars
  <2>2. a.credit = Granted' /\ consumed' \in 0 .. SeqMod - 1
    BY <1>1, <2>1 DEF Answer, Granted, D
  <2> HIDE DEF a
  <2>3. /\ Ahead(seq)' = Lag' /\ Lag' <= Ahead(seqMax)' /\ Ahead(seqMax)' <= Window
    BY <2>1 DEF CreditInv, Ahead, Lag, Minus
  <2>4. /\ \A i \in 1 .. Len(outbox) :
               /\ Ahead(seqMax)' <= Minus(outbox[i].credit, consumed')
               /\ Minus(outbox[i].credit, consumed') <= Window
        /\ \A i, j \in 1 .. Len(outbox) : i <= j =>
               Minus(outbox[i].credit, consumed') <= Minus(outbox[j].credit, consumed')
    BY <2>1 DEF CreditInv, Ahead, Minus
  <2> QED
    BY <1>3, <2>1, <2>2, <2>3, <2>4, CreditsAppended DEF CreditInv
<1> QED
  BY <1>7, <1>8, <1>9, <1>10, <1>11, <1>12, <1>13, Kinds

---------------------------------------------------------------------------
(* The ids.                                                                *)

LEMMA FrameTypes ==
  ASSUME TypeOK
  PROVE  /\ inbox \in Seq(Frames) /\ outbox \in Seq(Answers) /\ out \in Frames
         /\ Len(inbox) \in Nat /\ Len(outbox) \in Nat /\ Len(outbox) <= Waiting
         /\ \A i \in 1 .. Len(inbox) : inbox[i].id \in 0 .. IdMod - 1
         /\ \A i \in 1 .. Len(outbox) : outbox[i].id \in 0 .. IdMod - 1
         /\ ioctlId \in 0 .. IdMod - 1
         /\ Writing("ioctl") \in 0 .. 1
<1>1. /\ inbox \in Seq(Frames) /\ outbox \in Seq(Answers) /\ out \in Frames
      /\ Len(outbox) <= Waiting /\ ioctlId \in 0 .. IdMod - 1
  BY DEF TypeOK
<1>2. /\ \A i \in 1 .. Len(inbox) : inbox[i] \in Frames
      /\ \A i \in 1 .. Len(outbox) : outbox[i] \in Answers
      /\ Len(inbox) \in Nat /\ Len(outbox) \in Nat
  BY <1>1, ElementOfSeq, LenProperties
<1>3. /\ \A i \in 1 .. Len(inbox) : inbox[i].id \in 0 .. IdMod - 1
      /\ \A i \in 1 .. Len(outbox) : outbox[i].id \in 0 .. IdMod - 1
  BY <1>2 DEF Frames, Answers
<1>4. Writing("ioctl") \in 0 .. 1
  BY DEF Writing
<1> QED
  BY <1>1, <1>2, <1>3, <1>4

\* How many frames of a kind there are is at most how many frames there are.
LEMMA Counted ==
  ASSUME TypeOK, NEW kind
  PROVE  /\ \A i \in 1 .. Len(inbox) + 1 : /\ Count(inbox, kind, i, Len(inbox)) \in Nat
                                           /\ Count(inbox, kind, i, Len(inbox)) <= Len(inbox) - i + 1
         /\ \A i \in 1 .. Len(inbox) + 1 : Count(inbox, kind, 1, i - 1) \in Nat
<1> DEFINE n == Len(inbox)
<1>1. n \in Nat
  BY FrameTypes
<1> HIDE DEF n
<1>2. ASSUME NEW i \in 1 .. n + 1
      PROVE  /\ Count(inbox, kind, i, n) \in Nat /\ Count(inbox, kind, i, n) <= n - i + 1
             /\ Count(inbox, kind, 1, i - 1) \in Nat
  <2>1. i \in Int /\ n \in Int /\ 1 \in Int /\ i - 1 \in Int
    BY <1>1
  <2>2. Count(inbox, kind, i, n) <= IF i > n THEN 0 ELSE n - i + 1
    BY <2>1, CountBounds
  <2>3. Count(inbox, kind, i, n) \in Nat /\ Count(inbox, kind, 1, i - 1) \in Nat
    BY <2>1, CountBounds
  <2> QED
    BY <1>1, <2>2, <2>3
<1> QED
  BY <1>2 DEF n

LEMMA NewId ==
  ASSUME TypeOK, CreditInv, AgeInv, TakeIoctl
  PROVE  /\ \A i \in 1 .. Len(inbox) : inbox[i].kind = "ioctl" =>
               Age(inbox[i].id)' = Age(inbox[i].id) + 1 /\ inbox[i].id # ioctlId'
         /\ \A i \in 1 .. Len(outbox) : outbox[i].kind = "reply" =>
               Age(outbox[i].id)' = Age(outbox[i].id) + 1 /\ outbox[i].id # ioctlId'
<1> USE FrameTypes
<1>1. /\ Window \in Nat \ {0} /\ Waiting \in Nat \ {0} /\ IdMod \in Nat \ {0}
      /\ Window + Waiting < IdMod
  BY Sizes
<1>2. Writing("ioctl") = 0 /\ Asked = Count(inbox, "ioctl", 1, Len(inbox))
  <2>1. Writing("ioctl") = 0
    BY DEF TakeIoctl, Writing
  <2>2. 1 \in 1 .. Len(inbox) + 1
    OBVIOUS
  <2>3. Count(inbox, "ioctl", 1, Len(inbox)) \in Nat
    BY <2>2, Counted
  <2> QED
    BY <2>1, <2>3 DEF Asked
<1>3. Len(inbox) < Window
  <2>1. seq # seqMax /\ Lag = Len(inbox)
    BY DEF TakeIoctl, HasCredit, Lag
  <2>2. seq \in 0 .. SeqMod - 1 /\ seqMax \in 0 .. SeqMod - 1 /\ consumed \in 0 .. SeqMod - 1
    BY DEF TypeOK
  <2>3. SeqMod \in Nat \ {0}
    BY Sizes
  <2>4. Gap(seq, consumed, SeqMod) = IF consumed <= seq THEN seq - consumed
                                     ELSE seq + SeqMod - consumed
    BY <2>2, <2>3, GapIs
  <2>5. Gap(seqMax, consumed, SeqMod) = IF consumed <= seqMax THEN seqMax - consumed
                                        ELSE seqMax + SeqMod - consumed
    BY <2>2, <2>3, GapIs
  <2>6. Ahead(seq) = Gap(seq, consumed, SeqMod) /\ Ahead(seqMax) = Gap(seqMax, consumed, SeqMod)
    BY DEF Ahead, Minus, Gap
  <2>7. Ahead(seq) # Ahead(seqMax) /\ Ahead(seq) \in Int /\ Ahead(seqMax) \in Int
    BY <2>1, <2>2, <2>3, <2>4, <2>5, <2>6
  <2> QED
    BY <1>1, <2>1, <2>7 DEF CreditInv
<1>4. ASSUME NEW id \in 0 .. IdMod - 1, Age(id) < IdMod - 1
      PROVE  Gap(ioctlId', id, IdMod) = Age(id) + 1 /\ id # ioctlId'
  <2> DEFINE n == ioctlId'
  <2>1. n = (ioctlId + 1) % IdMod
    BY DEF TakeIoctl
  <2>2. Gap(ioctlId, id, IdMod) = Age(id) /\ Age(id) \in 0 .. IdMod - 1
    BY <1>1, GapIs DEF Gap, Age
  <2>3. n \in 0 .. IdMod - 1 /\ Gap(n, id, IdMod) = Age(id) + 1
    <3> HIDE DEF n
    <3> QED
      BY <1>1, <1>4, <2>1, <2>2, GapNext
  <2>4. id # n
    <3>1. Gap(id, id, IdMod) = 0
      BY <1>1, GapIs
    <3> HIDE DEF n
    <3> QED
      BY <2>2, <2>3, <3>1
  <2> QED
    BY <2>3, <2>4
<1>5. ASSUME NEW i \in 1 .. Len(inbox), inbox[i].kind = "ioctl"
      PROVE  Age(inbox[i].id)' = Age(inbox[i].id) + 1 /\ inbox[i].id # ioctlId'
  <2> DEFINE id == inbox[i].id
  <2>1. i + 1 \in 1 .. Len(inbox) + 1 /\ id \in 0 .. IdMod - 1
    OBVIOUS
  <2>2. /\ Count(inbox, "ioctl", i + 1, Len(inbox)) \in Nat
        /\ Count(inbox, "ioctl", i + 1, Len(inbox)) <= Len(inbox) - (i + 1) + 1
    BY <2>1, Counted
  <2>3. Age(id) <= Count(inbox, "ioctl", i + 1, Len(inbox)) /\ Age(id) \in 0 .. IdMod - 1
    <3>1. Age(id) <= Count(inbox, "ioctl", i + 1, Len(inbox)) + 0
      BY <1>2, <1>5 DEF AgeInv
    <3>2. Age(id) \in 0 .. IdMod - 1
      BY <1>1, <2>1, GapIs DEF Gap, Age
    <3> QED
      BY <2>2, <3>1, <3>2
  <2>4. Age(id) < IdMod - 1
    BY <1>1, <1>3, <2>2, <2>3
  <2> HIDE DEF id
  <2>5. Gap(ioctlId', id, IdMod) = Age(id) + 1 /\ id # ioctlId'
    BY <1>4, <2>1, <2>4
  <2>6. inbox' = inbox
    BY DEF TakeIoctl, chipVars
  <2> QED
    BY <2>5, <2>6 DEF id, Age, Gap
<1>6. ASSUME NEW i \in 1 .. Len(outbox), outbox[i].kind = "reply"
      PROVE  Age(outbox[i].id)' = Age(outbox[i].id) + 1 /\ outbox[i].id # ioctlId'
  <2> DEFINE id == outbox[i].id
             c == Count(inbox, "ioctl", 1, Len(inbox))
  <2>1. 1 \in 1 .. Len(inbox) + 1 /\ id \in 0 .. IdMod - 1
    OBVIOUS
  <2>2. c \in Nat /\ c <= Len(inbox)
    <3>1. /\ Count(inbox, "ioctl", 1, Len(inbox)) \in Nat
          /\ Count(inbox, "ioctl", 1, Len(inbox)) <= Len(inbox) - 1 + 1
      BY <2>1, Counted
    <3> QED
      BY <3>1
  <2>3. Age(id) <= Len(outbox) - i + c
    BY <1>2, <1>6 DEF AgeInv
  <2>4. Age(id) \in 0 .. IdMod - 1
    BY <1>1, <2>1, GapIs DEF Gap, Age
  <2>5. Age(id) < IdMod - 1
    <3> HIDE DEF c, id
    <3> QED
      BY <1>1, <1>3, <2>2, <2>3, <2>4
  <2> HIDE DEF id
  <2>6. Gap(ioctlId', id, IdMod) = Age(id) + 1 /\ id # ioctlId'
    BY <1>4, <2>1, <2>5
  <2>7. outbox' = outbox
    BY DEF TakeIoctl, chipVars
  <2> QED
    BY <2>6, <2>7 DEF id, Age, Gap
<1> QED
  BY <1>5, <1>6

LEMMA AgeStep ==
  ASSUME TypeOK, ReadInv, CreditInv, AgeInv, [Next]_vars
  PROVE  AgeInv'
<1> DEFINE n == Len(inbox)
           m == Len(outbox)
           W == Writing("ioctl")
<1>1. /\ n \in Nat /\ m \in Nat /\ W \in 0 .. 1
      /\ inbox \in Seq(Frames) /\ outbox \in Seq(Answers)
  BY FrameTypes
<1>2. /\ \A i \in 1 .. n + 1 : Count(inbox, "ioctl", i, n) \in Nat
      /\ 1 \in 1 .. n + 1
  BY <1>1, Counted
<1>4. CASE Quiet
  BY <1>4 DEF Quiet, AgeInv, Age, Asked, Writing
<1>5. CASE Cancel
  <2>1. /\ UNCHANGED <<pc, ioctlId>>
        /\ Len(inbox') = Len(inbox) /\ Len(outbox') = Len(outbox)
        /\ out'.kind = out.kind /\ out'.id = out.id
        /\ \A i \in 1 .. Len(inbox) : inbox'[i].kind = inbox[i].kind /\ inbox'[i].id = inbox[i].id
        /\ \A i \in 1 .. Len(outbox) :
              outbox'[i].kind = outbox[i].kind /\ outbox'[i].id = outbox[i].id
    BY <1>5, GivenUp DEF Cancel, seqVars
  <2>2. \A i \in 1 .. Len(inbox) + 1, j \in 0 .. Len(inbox) :
           Count(inbox', "ioctl", i, j) = Count(inbox, "ioctl", i, j)
    BY <1>5, GivenUp DEF Cancel
  <2>3. \A i \in 1 .. Len(inbox) + 1 :
           Count(inbox', "ioctl", i, Len(inbox)) = Count(inbox, "ioctl", i, Len(inbox))
    BY <1>1, <2>2
  <2>4. Writing("ioctl")' = Writing("ioctl") /\ Asked' = Asked
    BY <1>2, <2>1, <2>3 DEF Writing, Asked
  <2>5. \A i \in 1 .. Len(inbox) : /\ i + 1 \in 1 .. Len(inbox) + 1
                                   /\ Age(inbox[i].id)' = Age(inbox[i].id)
    BY <1>1, <2>1 DEF Age
  <2>6. \A i \in 1 .. Len(outbox) : Age(outbox[i].id)' = Age(outbox[i].id)
    BY <2>1 DEF Age
  <2> QED
    BY <2>1, <2>3, <2>4, <2>5, <2>6 DEF AgeInv
<1>6. CASE TakeIoctl
  <2>1. /\ UNCHANGED <<inbox, outbox>> /\ pc = "loop" /\ pc' = "write"
        /\ out'.kind = "ioctl" /\ out'.id = ioctlId'
    BY <1>6 DEF TakeIoctl, Send, Frame, chipVars
  <2>2. Writing("ioctl") = 0 /\ Writing("ioctl")' = 1
    BY <2>1 DEF Writing
  <2>3. Asked \in Nat /\ Asked' = Asked + 1
    BY <1>2, <2>1, <2>2 DEF Asked
  <2>4. /\ \A i \in 1 .. Len(inbox) : inbox[i].kind = "ioctl" =>
              Age(inbox[i].id)' = Age(inbox[i].id) + 1
        /\ \A i \in 1 .. Len(outbox) : outbox[i].kind = "reply" =>
              Age(outbox[i].id)' = Age(outbox[i].id) + 1
    BY <1>6, NewId
  <2>5. /\ \A i \in 1 .. Len(inbox) : Age(inbox[i].id) \in Int
        /\ \A i \in 1 .. Len(outbox) : Age(outbox[i].id) \in Int
    BY FrameTypes, Sizes, GapIs, SMTT(30) DEF Age, Gap
  <2>6. ASSUME NEW i \in 1 .. Len(inbox), inbox[i].kind = "ioctl"
        PROVE  Age(inbox[i].id)' <= Count(inbox, "ioctl", i + 1, Len(inbox)) + 1
    <3>1. Age(inbox[i].id) <= Count(inbox, "ioctl", i + 1, Len(inbox)) + 0
      BY <2>2, <2>6 DEF AgeInv
    <3>2. i + 1 \in 1 .. n + 1
      BY <1>1
    <3>3. Count(inbox, "ioctl", i + 1, Len(inbox)) \in Nat
      BY <1>2, <3>2
    <3> QED
      BY <2>4, <2>5, <2>6, <3>1, <3>3
  <2>7. ASSUME NEW i \in 1 .. Len(outbox), outbox[i].kind = "reply"
        PROVE  Age(outbox[i].id)' <= Len(outbox) - i + Asked'
    <3>1. Age(outbox[i].id) <= Len(outbox) - i + Asked
      BY <2>7 DEF AgeInv
    <3> QED
      BY <1>1, <2>3, <2>4, <2>5, <2>7, <3>1
  <2> QED
    BY <2>1, <2>2, <2>6, <2>7 DEF AgeInv
<1>7. CASE TakePacket
  <2>1. /\ UNCHANGED <<inbox, outbox, ioctlId>> /\ pc = "loop" /\ out'.kind # "ioctl"
    BY <1>7 DEF TakePacket, Send, Frame, chipVars
  <2>2. Writing("ioctl") = 0 /\ Writing("ioctl")' = 0
    BY <2>1 DEF Writing
  <2> QED
    BY <2>1, <2>2 DEF AgeInv, Age, Asked
<1>8. CASE Written
  <2>1. UNCHANGED <<outbox, ioctlId>> /\ pc' # "write" /\ Writing("ioctl")' = 0
    BY <1>8, FrameWritten DEF Written, seqVars, Writing
  <2>2. /\ Len(inbox') = n + 1 /\ inbox'[n + 1] = out /\ pc = "write"
        /\ \A i \in 1 .. n : inbox'[i] = inbox[i]
    BY <1>8, FrameWritten
  <2>3. \A i \in 1 .. n + 1 : Count(inbox', "ioctl", i, n + 1) = Count(inbox, "ioctl", i, n) + W
    BY <1>8, FrameWritten
  <2>4. Count(inbox', "ioctl", n + 2, n + 1) = 0
    BY <1>8, FrameWritten
  <2>5. Asked' = Asked
    BY <1>1, <1>2, <2>1, <2>2, <2>3 DEF Asked
  <2>6. ASSUME NEW i \in 1 .. n + 1, inbox'[i].kind = "ioctl"
        PROVE  Age(inbox[i].id)' <= Count(inbox', "ioctl", i + 1, n + 1) + 0
    <3>1. CASE i = n + 1
      <4>1. out.id = ioctlId
        BY <2>2, <2>6, <3>1 DEF AgeInv
      <4>2. Age(out.id) = 0
        BY <4>1, FrameTypes, Sizes, GapIs DEF Age, Gap
      <4>3. i + 1 = n + 2
        BY <1>1, <3>1
      <4> QED
        BY <2>1, <2>2, <2>4, <3>1, <4>2, <4>3 DEF Age
    <3>2. CASE i \in 1 .. n
      <4>1. i + 1 \in 1 .. n + 1
        BY <1>1, <3>2
      <4>2. Count(inbox', "ioctl", i + 1, n + 1) = Count(inbox, "ioctl", i + 1, n) + W
        BY <2>3, <4>1
      <4>3. Age(inbox[i].id) <= Count(inbox, "ioctl", i + 1, n) + W
        BY <2>2, <2>6, <3>2 DEF AgeInv
      <4>4. Age(inbox[i].id)' = Age(inbox[i].id)
        BY <2>1, <2>2, <3>2 DEF Age
      <4>5. Count(inbox, "ioctl", i + 1, n) \in Nat
        BY <1>2, <4>1
      <4> HIDE DEF W, n
      <4> QED
        BY <1>1, <4>2, <4>3, <4>4, <4>5
    <3> QED
      BY <1>1, <3>1, <3>2
  <2>7. \A i \in 1 .. m : Age(outbox[i].id)' = Age(outbox[i].id)
    BY <2>1 DEF Age
  <2> HIDE DEF n
  <2> QED
    BY <2>1, <2>2, <2>5, <2>6, <2>7 DEF AgeInv
<1>9. CASE Read
  <2>1. outbox # <<>>
    BY <1>9 DEF Read, ReadInv
  <2>2. /\ pc = "read" /\ pc' # "write" /\ outbox' = Tail(outbox)
        /\ UNCHANGED <<inbox, ioctlId>>
    BY <1>9 DEF Read, CheckStatus
  <2>3. /\ Len(outbox') = m - 1 /\ \A i \in 1 .. m - 1 : outbox'[i] = outbox[i + 1]
    BY <1>1, <2>1, <2>2, Shortened
  <2>4. Writing("ioctl") = 0 /\ Writing("ioctl")' = 0 /\ Asked \in Nat /\ Asked' = Asked
    BY <1>2, <2>2 DEF Writing, Asked
  <2>5. ASSUME NEW i \in 1 .. m - 1, outbox'[i].kind = "reply"
        PROVE  Age(outbox[i].id)' <= (m - 1) - i + Asked'
    <3>1. i + 1 \in 1 .. m
      BY <1>1
    <3>2. Age(outbox[i + 1].id) <= m - (i + 1) + Asked
      BY <2>3, <2>5, <3>1 DEF AgeInv
    <3>3. Age(outbox[i].id)' = Age(outbox[i + 1].id)
      BY <2>2, <2>3 DEF Age
    <3> QED
      BY <1>1, <2>4, <3>2, <3>3
  <2> HIDE DEF m
  <2> QED
    BY <2>2, <2>3, <2>4, <2>5 DEF AgeInv, Age
<1>10. CASE ChipTakes
  <2>1. /\ n \in Nat \ {0} /\ Len(inbox') = n - 1
        /\ \A i \in 1 .. n - 1 : inbox'[i] = inbox[i + 1]
    BY <1>10, FrameTaken
  <2>2. /\ \A i \in 1 .. n : Count(inbox', "ioctl", i, n - 1) = Count(inbox, "ioctl", i + 1, n)
        /\ \A i \in 1 .. n : Count(inbox, "ioctl", 1, i)
              = Count(inbox', "ioctl", 1, i - 1) + (IF inbox[1].kind = "ioctl" THEN 1 ELSE 0)
    BY <1>10, FrameTaken
  <2>3. UNCHANGED <<ioctlId, pc, out>> /\ Writing("ioctl")' = W
    BY <1>10 DEF ChipTakes, seqVars, Writing
  <2>4. \A i \in 1 .. n - 1 : inbox'[i].kind = "ioctl" =>
            Age(inbox[i].id)' <= Count(inbox', "ioctl", i + 1, n - 1) + Writing("ioctl")'
    <3> SUFFICES ASSUME NEW i \in 1 .. n - 1, inbox'[i].kind = "ioctl"
                 PROVE  Age(inbox[i].id)' <= Count(inbox', "ioctl", i + 1, n - 1) + W
      BY <2>3
    <3>1. i + 1 \in 1 .. n
      BY <2>1
    <3>2. Age(inbox[i + 1].id) <= Count(inbox, "ioctl", (i + 1) + 1, n) + W
      BY <2>1, <3>1 DEF AgeInv
    <3>3. Age(inbox[i].id)' = Age(inbox[i + 1].id)
      BY <2>1, <2>3 DEF Age
    <3> QED
      BY <2>2, <3>1, <3>2, <3>3
  <2>5. /\ Asked' = Count(inbox, "ioctl", 2, n) + W
        /\ Asked = Asked' + (IF inbox[1].kind = "ioctl" THEN 1 ELSE 0)
        /\ Asked \in Nat /\ Asked' \in Nat
    <3>1. 1 \in 1 .. n /\ n \in 1 .. n /\ 1 + 1 = 2
      BY <2>1
    <3>2. Count(inbox', "ioctl", 1, n - 1) = Count(inbox, "ioctl", 2, n)
      BY <2>2, <3>1
    <3>3. Count(inbox, "ioctl", 1, n)
             = Count(inbox', "ioctl", 1, n - 1) + (IF inbox[1].kind = "ioctl" THEN 1 ELSE 0)
      BY <2>2, <3>1
    <3>4. Count(inbox, "ioctl", 2, n) \in Nat
      BY <1>2, <2>1
    <3>5. Asked' = Count(inbox', "ioctl", 1, n - 1) + W
      BY <2>1, <2>3 DEF Asked
    <3>6. Asked = Count(inbox, "ioctl", 1, n) + W
      BY DEF Asked
    <3> HIDE DEF W, n
    <3> QED
      BY <1>1, <3>2, <3>3, <3>4, <3>5, <3>6
  <2>6. pc' = "write" /\ out'.kind = "ioctl" => out'.id = ioctlId'
    BY <2>3 DEF AgeInv
  <2>7. \A i \in 1 .. m : Gap(ioctlId', outbox[i].id, IdMod) = Age(outbox[i].id)
    BY <2>3 DEF Age, Gap
  <2>8. \A i \in 1 .. m : outbox[i].kind = "reply" => Age(outbox[i].id) \in Int
    BY FrameTypes, Sizes, GapIs DEF Age, Gap
  <2>9. CASE UNCHANGED outbox /\ inbox[1].kind # "ioctl"
    <3>1. Asked' = Asked
      BY <2>5, <2>9
    <3>2. \A i \in 1 .. Len(outbox') : outbox'[i].kind = "reply" =>
             Age(outbox[i].id)' <= Len(outbox') - i + Asked'
      BY <2>3, <2>9, <3>1 DEF AgeInv, Age
    <3> HIDE DEF n
    <3> QED
      BY <2>1, <2>4, <2>6, <3>2 DEF AgeInv
  <2>10. CASE /\ inbox[1].kind = "ioctl"
              /\ outbox' = Append(outbox, Answer("reply", inbox[1].id, inbox[1].live, Granted'))
    <3> DEFINE a == Answer("reply", inbox[1].id, inbox[1].live, Granted')
    <3>1. outbox' = Append(outbox, a) /\ a.id = inbox[1].id
      BY <2>10 DEF Answer
    <3> HIDE DEF a
    <3>2. /\ Len(outbox') = m + 1 /\ outbox'[m + 1] = a
          /\ \A i \in 1 .. m : outbox'[i] = outbox[i]
      BY <1>1, <3>1
    <3>3. Age(inbox[1].id) <= Asked'
      <4>1. 1 \in 1 .. n /\ 1 + 1 = 2
        BY <2>1
      <4>2. Age(inbox[1].id) <= Count(inbox, "ioctl", 1 + 1, n) + W
        BY <2>10, <4>1 DEF AgeInv
      <4> QED
        BY <2>5, <4>1, <4>2
    <3>4. ASSUME NEW i \in 1 .. m + 1, outbox'[i].kind = "reply"
          PROVE  Age(outbox[i].id)' <= (m + 1) - i + Asked'
      <4>1. CASE i = m + 1
        <5>1. Age(outbox[i].id)' = Age(inbox[1].id)
          BY <2>3, <3>1, <3>2, <4>1 DEF Age
        <5>2. Age(inbox[1].id) \in Int
          <6>1. 1 \in 1 .. Len(inbox)
            BY <2>1
          <6> QED
            BY <6>1, FrameTypes, Sizes, GapIs DEF Age, Gap
        <5> QED
          BY <1>1, <2>5, <3>3, <4>1, <5>1, <5>2
      <4>2. CASE i \in 1 .. m
        <5>1. Age(outbox[i].id)' = Age(outbox[i].id) /\ outbox[i].kind = "reply"
          BY <2>3, <3>2, <3>4, <4>2 DEF Age
        <5>2. Age(outbox[i].id) <= m - i + Asked /\ Age(outbox[i].id) \in Int
          BY <2>8, <4>2, <5>1 DEF AgeInv
        <5>3. Asked = Asked' + 1
          BY <2>5, <2>10
        <5> HIDE DEF m
        <5> QED
          BY <1>1, <2>5, <5>1, <5>2, <5>3
      <4> QED
        BY <1>1, <4>1, <4>2
    <3> HIDE DEF n, m
    <3> QED
      BY <2>1, <2>4, <2>6, <3>2, <3>4 DEF AgeInv
  <2> QED
    BY <1>10, <2>9, <2>10, FrameTaken DEF ChipTakes
<1>11. ASSUME NEW kind \in {"data", "event"}, ChipSends(kind)
       PROVE  AgeInv'
  <2> DEFINE a == Answer(kind, 0, FALSE, Granted)
  <2>1. /\ outbox' = Append(outbox, a) /\ a.kind # "reply"
        /\ UNCHANGED <<inbox, ioctlId, pc, out>>
    BY <1>11 DEF ChipSends, seqVars, Answer
  <2> HIDE DEF a
  <2>2. /\ Len(outbox') = m + 1 /\ outbox'[m + 1] = a
        /\ \A i \in 1 .. m : outbox'[i] = outbox[i]
    BY <1>1, <2>1
  <2>3. Asked \in Nat /\ Asked' = Asked /\ Writing("ioctl")' = Writing("ioctl")
    BY <1>1, <1>2, <2>1 DEF Asked, Writing
  <2>4. ASSUME NEW i \in 1 .. m + 1, outbox'[i].kind = "reply"
        PROVE  Age(outbox[i].id)' <= (m + 1) - i + Asked'
    <3>1. i \in 1 .. m
      BY <1>1, <2>1, <2>2, <2>4
    <3>2. Age(outbox[i].id)' = Age(outbox[i].id) /\ outbox[i].kind = "reply"
      BY <2>1, <2>2, <2>4, <3>1 DEF Age
    <3>3. Age(outbox[i].id) <= m - i + Asked
      BY <3>1, <3>2 DEF AgeInv
    <3>4. Age(outbox[i].id) \in Int
      BY <3>1, FrameTypes, Sizes, GapIs DEF Age, Gap
    <3> HIDE DEF m
    <3> QED
      BY <1>1, <2>3, <3>2, <3>3, <3>4
  <2> HIDE DEF m
  <2> QED
    BY <2>1, <2>2, <2>3, <2>4 DEF AgeInv, Age
<1> QED
  BY <1>4, <1>5, <1>6, <1>7, <1>8, <1>9, <1>10, <1>11, Kinds

---------------------------------------------------------------------------
(* The calls.                                                              *)

LEMMA Calls ==
  ASSUME [Next]_vars
  PROVE  UNCHANGED <<ioctl, calling>> \/ DoIoctl \/ PollControl \/ Cancel \/ TakeIoctl \/ Read
<1>1. CASE AppSend \/ PollStack \/ StackReceives \/ StackTransmits \/ StackWaits
  BY <1>1 DEF AppSend, PollStack, StackReceives, StackTransmits, StackWaits, ioctlVars
<1>2. CASE TakePacket \/ Await \/ Stall \/ PollRunner \/ PollInVain \/ Written \/ IrqRead
  BY <1>2 DEF TakePacket, Await, Stall, PollRunner, PollInVain, Written, IrqRead, ioctlVars
<1>3. CASE ChipTakes \/ \E kind \in {"data", "event"} : ChipSends(kind)
  BY <1>3 DEF ChipTakes, ChipSends, ioctlVars
<1>4. CASE UNCHANGED vars
  BY <1>4 DEF vars, ioctlVars
<1> QED
  BY <1>1, <1>2, <1>3, <1>4 DEF Next, Control, StackSteps, RunnerSteps, Chip

LEMMA AnswerStep ==
  ASSUME TypeOK, ReadInv, LiveInv, AnswersTheCaller, [Next]_vars
  PROVE  AnswersTheCaller'
<1>1. CASE UNCHANGED <<ioctl, calling>>
  BY <1>1 DEF AnswersTheCaller
<1>2. CASE DoIoctl
  BY <1>2 DEF DoIoctl, AnswersTheCaller
<1>3. CASE PollControl
  BY <1>3 DEF PollControl, AnswersTheCaller, TypeOK
<1>4. CASE Cancel
  BY <1>4 DEF Cancel, AnswersTheCaller
<1>5. CASE TakeIoctl
  <2>1. ioctl'.tag = "Sent" /\ ioctl.tag = "Pending" /\ UNCHANGED calling
    BY <1>5 DEF TakeIoctl, TypeOK
  <2> QED
    BY <2>1 DEF AnswersTheCaller, TypeOK
<1>6. CASE Read
  <2> DEFINE a == Head(outbox)
  <2>1. UNCHANGED calling /\ (IoctlDone(a) \/ UNCHANGED ioctl)
    BY <1>6 DEF Read, RxDone, Dropped
  <2>2. CASE IoctlDone(a)
    <3>1. a = outbox[1] /\ 1 \in 1 .. Len(outbox)
      <4>1. outbox # <<>> /\ outbox \in Seq(Answers)
        BY <1>6 DEF Read, ReadInv, TypeOK
      <4> QED
        BY <4>1, Shortened
    <3> HIDE DEF a
    <3>2. a.kind = "reply" /\ a.id = ioctlId /\ ioctl.tag = "Sent" /\ ioctl'.live = a.live
      BY <2>2 DEF IoctlDone, IsReply
    <3>3. a.live
      BY <3>1, <3>2 DEF LiveInv, Awaited
    <3> QED
      BY <2>1, <3>2, <3>3 DEF AnswersTheCaller, TypeOK
  <2>3. CASE UNCHANGED ioctl
    BY <2>1, <2>3 DEF AnswersTheCaller
  <2> QED
    BY <2>1, <2>2, <2>3
<1> QED
  BY <1>1, <1>2, <1>3, <1>4, <1>5, <1>6, Calls

LEMMA LiveStep ==
  ASSUME TypeOK, ReadInv, CreditInv, AgeInv, LiveInv, [Next]_vars
  PROVE  LiveInv'
<1> SUFFICES ASSUME ioctl'.tag = "Sent"
             PROVE  /\ pc' = "write" /\ out'.kind = "ioctl" => Awaited(out)'
                    /\ \A i \in 1 .. Len(inbox') : inbox'[i].kind = "ioctl" => Awaited(inbox[i])'
                    /\ \A i \in 1 .. Len(outbox') : outbox'[i].kind = "reply" => Awaited(outbox[i])'
  BY DEF LiveInv
<1>1. CASE TakeIoctl
  <2>1. /\ UNCHANGED <<inbox, outbox>> /\ out'.live
    BY <1>1 DEF TakeIoctl, Send, Frame, chipVars
  <2>2. /\ \A i \in 1 .. Len(inbox) : inbox[i].kind = "ioctl" => inbox[i].id # ioctlId'
        /\ \A i \in 1 .. Len(outbox) : outbox[i].kind = "reply" => outbox[i].id # ioctlId'
    BY <1>1, NewId
  <2> QED
    BY <2>1, <2>2 DEF Awaited
<1>2. ASSUME ~TakeIoctl
      PROVE  UNCHANGED ioctl /\ ~Cancel
  <2> DEFINE a == Head(outbox)
  <2>1. ~DoIoctl /\ ~Cancel
    BY DEF DoIoctl, Cancel
  <2>2. Read => IoctlDone(a) \/ UNCHANGED ioctl
    BY DEF Read, RxDone, Dropped
  <2>3. ~IoctlDone(a)
    BY DEF IoctlDone
  <2>4. PollControl => UNCHANGED ioctl
    BY DEF PollControl
  <2> QED
    BY <1>2, <2>1, <2>2, <2>3, <2>4, Calls
<1> SUFFICES ASSUME UNCHANGED ioctl, ~Cancel, ~TakeIoctl
             PROVE  /\ pc' = "write" /\ out'.kind = "ioctl" => Awaited(out)'
                    /\ \A i \in 1 .. Len(inbox') : inbox'[i].kind = "ioctl" => Awaited(inbox[i])'
                    /\ \A i \in 1 .. Len(outbox') : outbox'[i].kind = "reply" => Awaited(outbox[i])'
  BY <1>1, <1>2
<1>3. /\ pc = "write" /\ out.kind = "ioctl" => Awaited(out)
      /\ \A i \in 1 .. Len(inbox) : inbox[i].kind = "ioctl" => Awaited(inbox[i])
      /\ \A i \in 1 .. Len(outbox) : outbox[i].kind = "reply" => Awaited(outbox[i])
  BY DEF LiveInv
<1>4. /\ Len(inbox) \in Nat /\ Len(outbox) \in Nat
      /\ inbox \in Seq(Frames) /\ outbox \in Seq(Answers)
  BY FrameTypes
<1>5. CASE Quiet
  BY <1>3, <1>5 DEF Quiet, Awaited
<1>6. CASE TakePacket
  <2>1. UNCHANGED <<inbox, outbox, ioctlId>> /\ out'.kind = "data"
    BY <1>6 DEF TakePacket, Send, Frame, chipVars
  <2> QED
    BY <1>3, <2>1 DEF Awaited
<1>7. CASE Written
  <2>1. UNCHANGED <<outbox, ioctlId>>
    BY <1>7 DEF Written, seqVars
  <2>2. /\ pc = "write" /\ pc' # "write"
        /\ Len(inbox') = Len(inbox) + 1 /\ inbox'[Len(inbox) + 1] = out
        /\ \A i \in 1 .. Len(inbox) : inbox'[i] = inbox[i]
    BY <1>7, FrameWritten
  <2>3. \A i \in 1 .. Len(inbox') : i \in 1 .. Len(inbox) \/ i = Len(inbox) + 1
    BY <1>4, <2>2
  <2> QED
    BY <1>3, <2>1, <2>2, <2>3 DEF Awaited
<1>8. CASE Read
  <2>1. outbox # <<>>
    BY <1>8 DEF Read, ReadInv
  <2>2. pc' # "write" /\ outbox' = Tail(outbox) /\ UNCHANGED <<inbox, ioctlId>>
    BY <1>8 DEF Read, CheckStatus
  <2>3. Len(outbox') = Len(outbox) - 1 /\ \A i \in 1 .. Len(outbox) - 1 : outbox'[i] = outbox[i + 1]
    BY <1>4, <2>1, <2>2, Shortened
  <2>4. \A i \in 1 .. Len(outbox') : i + 1 \in 1 .. Len(outbox) /\ outbox'[i] = outbox[i + 1]
    BY <1>4, <2>3
  <2> QED
    BY <1>3, <2>2, <2>4 DEF Awaited
<1>9. CASE ChipTakes
  <2>1. UNCHANGED <<pc, out, ioctlId>>
    BY <1>9 DEF ChipTakes, seqVars
  <2>2. /\ Len(inbox) \in Nat \ {0} /\ Len(inbox') = Len(inbox) - 1 /\ Head(inbox) = inbox[1]
        /\ \A i \in 1 .. Len(inbox) - 1 : inbox'[i] = inbox[i + 1]
    BY <1>9, FrameTaken
  <2>3. \A i \in 1 .. Len(inbox') : i + 1 \in 1 .. Len(inbox) /\ inbox'[i] = inbox[i + 1]
    BY <2>2
  <2>4. \A i \in 1 .. Len(outbox') : outbox'[i].kind = "reply" => Awaited(outbox[i])'
    <3>1. CASE UNCHANGED outbox
      BY <1>3, <2>1, <3>1 DEF Awaited
    <3>2. CASE /\ inbox[1].kind = "ioctl"
               /\ outbox' = Append(outbox, Answer("reply", inbox[1].id, inbox[1].live, Granted'))
      <4> DEFINE a == Answer("reply", inbox[1].id, inbox[1].live, Granted')
      <4>1. outbox' = Append(outbox, a) /\ a.id = inbox[1].id /\ a.live = inbox[1].live
        BY <3>2 DEF Answer
      <4> HIDE DEF a
      <4>2. /\ Len(outbox') = Len(outbox) + 1 /\ outbox'[Len(outbox) + 1] = a
            /\ \A i \in 1 .. Len(outbox) : outbox'[i] = outbox[i]
        BY <1>4, <4>1
      <4>3. Awaited(inbox[1])
        <5>1. 1 \in 1 .. Len(inbox)
          BY <2>2
        <5> QED
          BY <1>3, <3>2, <5>1
      <4>4. \A i \in 1 .. Len(outbox') : i \in 1 .. Len(outbox) \/ i = Len(outbox) + 1
        BY <1>4, <4>2
      <4> QED
        BY <1>3, <2>1, <4>1, <4>2, <4>3, <4>4 DEF Awaited
    <3> QED
      BY <1>9, <2>2, <3>1, <3>2 DEF ChipTakes
  <2>5. pc' = "write" /\ out'.kind = "ioctl" => Awaited(out)'
    BY <1>3, <2>1 DEF Awaited
  <2>6. \A i \in 1 .. Len(inbox') : inbox'[i].kind = "ioctl" => Awaited(inbox[i])'
    BY <1>3, <2>1, <2>3 DEF Awaited
  <2> QED
    BY <2>4, <2>5, <2>6
<1>10. ASSUME NEW kind \in {"data", "event"}, ChipSends(kind)
       PROVE  /\ UNCHANGED <<inbox, ioctlId, pc, out>>
              /\ \A i \in 1 .. Len(outbox') : outbox'[i].kind = "reply" => Awaited(outbox[i])'
  <2> DEFINE a == Answer(kind, 0, FALSE, Granted)
  <2>1. outbox' = Append(outbox, a) /\ a.kind # "reply" /\ UNCHANGED <<inbox, ioctlId, pc, out>>
    BY <1>10 DEF ChipSends, seqVars, Answer
  <2> HIDE DEF a
  <2>2. /\ Len(outbox') = Len(outbox) + 1 /\ outbox'[Len(outbox) + 1] = a
        /\ \A i \in 1 .. Len(outbox) : outbox'[i] = outbox[i]
    BY <1>4, <2>1
  <2>3. \A i \in 1 .. Len(outbox') : i \in 1 .. Len(outbox) \/ i = Len(outbox) + 1
    BY <1>4, <2>2
  <2> QED
    BY <1>3, <2>1, <2>2, <2>3 DEF Awaited
<1>11. CASE \E kind \in {"data", "event"} : ChipSends(kind)
  BY <1>3, <1>10, <1>11 DEF Awaited
<1> QED
  BY <1>5, <1>6, <1>7, <1>8, <1>9, <1>11, Kinds

---------------------------------------------------------------------------
(* The packets.                                                            *)

\* Registering a waker moves no packet.
LEMMA SameQueue ==
  ASSUME NEW ch, NEW dh, NEW next,
         dh.front = ch.front, dh.back = ch.back, dh.full = ch.full, dh.element = ch.element
  PROVE  /\ Numbered(ch, next) => Numbered(dh, next)
         /\ FirstNumber(dh, next) = FirstNumber(ch, next)
         /\ First(dh) = First(ch) /\ IsEmpty(dh) = IsEmpty(ch) /\ IsFull(dh) = IsFull(ch)
<1>1. \A i : Occupied(dh, i) = Occupied(ch, i) /\ Following(dh, i, next) = Following(ch, i, next)
  BY DEF Occupied, Following
<1>2. First(dh) = First(ch) /\ IsEmpty(dh) = IsEmpty(ch) /\ IsFull(dh) = IsFull(ch)
  BY DEF First, IsEmpty, IsFull
<1> QED
  BY <1>1, <1>2 DEF Numbered, FirstNumber

LEMMA WaitersMoveNothing ==
  ASSUME NEW S, NEW size, NEW ch \in Channel(S, size)
  PROVE  /\ AwaitRoom(ch).front = ch.front /\ AwaitRoom(ch).back = ch.back
         /\ AwaitRoom(ch).full = ch.full /\ AwaitRoom(ch).element = ch.element
         /\ AwaitElement(ch).front = ch.front /\ AwaitElement(ch).back = ch.back
         /\ AwaitElement(ch).full = ch.full /\ AwaitElement(ch).element = ch.element
BY DEF Channel, AwaitRoom, AwaitElement

Packets == Channel(0 .. Numbers - 1, TxSize)

\* The ring from f to b, of size N: one step of b takes in the place of b.
LEMMA RingGrows ==
  ASSUME NEW N \in Nat \ {0}, NEW f \in 0 .. N - 1, NEW b \in 0 .. N - 1, NEW i \in 0 .. N - 1,
         i # b, NEW c, c = IF b + 1 = N THEN 0 ELSE b + 1,
         \/ c = f
         \/ f <= c /\ f <= i /\ i < c
         \/ c < f /\ (f <= i \/ i < c)
  PROVE  \/ f <= b /\ f <= i /\ i < b
         \/ b < f /\ (f <= i \/ i < b)
<1>1. CASE b + 1 = N
  BY <1>1
<1>2. CASE b + 1 # N
  BY <1>2
<1> QED
  BY <1>1, <1>2

LEMMA RingSteps ==
  ASSUME NEW N \in Nat \ {0}, NEW i \in 0 .. N - 1, NEW j \in 0 .. N - 1, i # j
  PROVE  Increment(i, N) # Increment(j, N)
<1>1. CASE i + 1 = N
  BY <1>1 DEF Increment
<1>2. CASE j + 1 = N
  BY <1>2 DEF Increment
<1>3. CASE i + 1 # N /\ j + 1 # N
  BY <1>3 DEF Increment
<1> QED
  BY <1>1, <1>2, <1>3

LEMMA PushNumbered ==
  ASSUME NEW ch \in Packets, NEW n \in 0 .. Numbers - 1, Numbered(ch, n), ~IsFull(ch)
  PROVE  /\ Numbered(PushDone(ch, n, TxSize), (n + 1) % Numbers)
         /\ FirstNumber(PushDone(ch, n, TxSize), (n + 1) % Numbers) = FirstNumber(ch, n)
         /\ ~IsEmpty(PushDone(ch, n, TxSize))
         /\ ~IsEmpty(ch) => First(PushDone(ch, n, TxSize)) = First(ch)
<1> DEFINE dh == PushDone(ch, n, TxSize)
           b == Increment(ch.back, TxSize)
           m == (n + 1) % Numbers
<1>1. TxSize \in Nat \ {0}
  BY Sizes
<1>2. /\ ch.front \in 0 .. TxSize - 1 /\ ch.back \in 0 .. TxSize - 1 /\ ch.full = FALSE
      /\ ch.element \in [0 .. TxSize - 1 -> 0 .. Numbers - 1]
  BY DEF Packets, Channel, IsFull
<1>3. /\ dh.front = ch.front /\ dh.back = b /\ dh.full = (b = ch.front)
      /\ dh.element = [ch.element EXCEPT ![ch.back] = n]
  BY <1>2 DEF PushDone, Packets, Channel
<1>4. b \in 0 .. TxSize - 1 /\ b = IF ch.back + 1 = TxSize THEN 0 ELSE ch.back + 1
  BY <1>1, <1>2 DEF Increment
<1>5. \A i \in 0 .. TxSize - 1 : Increment(i, TxSize) = IF i + 1 = TxSize THEN 0 ELSE i + 1
  BY DEF Increment
<1> HIDE DEF dh, b, m
<1>6. ~IsEmpty(dh)
  BY <1>3 DEF IsEmpty
<1>7. ch.front = ch.back => dh.element[dh.front] = n
  BY <1>2, <1>3
<1>8. ch.front # ch.back => dh.element[dh.front] = ch.element[ch.front]
  BY <1>2, <1>3
<1>9. /\ FirstNumber(dh, m) = FirstNumber(ch, n)
      /\ ~IsEmpty(ch) => First(dh) = First(ch)
  BY <1>2, <1>6, <1>7, <1>8 DEF FirstNumber, IsEmpty, First
<1>10. ASSUME NEW i \in 0 .. TxSize - 1, Occupied(dh, i)
       PROVE  Following(dh, i, m) = (dh.element[i] + 1) % Numbers
  <2>1. CASE i = ch.back
    <3>1. dh.element[i] = n
      BY <1>2, <1>3, <2>1
    <3>2. Increment(i, TxSize) = dh.back
      BY <1>3, <2>1 DEF b
    <3> QED
      BY <3>1, <3>2 DEF Following, m
  <2>2. CASE i # ch.back
    <3>1. Occupied(ch, i)
      <4>1. \/ b = ch.front
            \/ ch.front <= b /\ ch.front <= i /\ i < b
            \/ b < ch.front /\ (ch.front <= i \/ i < b)
        BY <1>3, <1>10 DEF Occupied
      <4>2. \/ ch.front <= ch.back /\ ch.front <= i /\ i < ch.back
            \/ ch.back < ch.front /\ (ch.front <= i \/ i < ch.back)
        BY <1>1, <1>2, <1>4, <2>2, <4>1, RingGrows, SMTT(30)
      <4> QED
        BY <4>2 DEF Occupied
    <3>2. Following(ch, i, n) = (ch.element[i] + 1) % Numbers
      BY <3>1 DEF Numbered
    <3>3. dh.element[i] = ch.element[i]
      BY <1>2, <1>3, <2>2
    <3>4. Increment(i, TxSize) # dh.back
      BY <1>1, <1>2, <1>3, <2>2, RingSteps DEF b
    <3>5. Increment(i, TxSize) \in 0 .. TxSize - 1
      BY <1>1, <1>5
    <3>6. Following(dh, i, m) = Following(ch, i, n)
      BY <1>2, <1>3, <3>4, <3>5 DEF Following
    <3> QED
      BY <3>2, <3>3, <3>6
  <2> QED
    BY <2>1, <2>2
<1>11. Numbered(dh, m)
  BY <1>3, <1>10 DEF Numbered
<1> QED
  BY <1>6, <1>9, <1>11 DEF dh, m

LEMMA PopNumbered ==
  ASSUME NEW ch \in Packets, NEW n \in 0 .. Numbers - 1, Numbered(ch, n), ~IsEmpty(ch)
  PROVE  /\ Numbered(PopDone(ch, TxSize), n)
         /\ FirstNumber(PopDone(ch, TxSize), n) = (First(ch) + 1) % Numbers
<1> DEFINE dh == PopDone(ch, TxSize)
           f == Increment(ch.front, TxSize)
<1>1. TxSize \in Nat \ {0}
  BY Sizes
<1>2. /\ ch.front \in 0 .. TxSize - 1 /\ ch.back \in 0 .. TxSize - 1 /\ ch.full \in BOOLEAN
      /\ ch.full => ch.front = ch.back
      /\ ch.front = ch.back => ch.full
  BY DEF Packets, Channel, IsEmpty, Numbered
<1>3. /\ dh.front = f /\ dh.back = ch.back /\ dh.full = FALSE /\ dh.element = ch.element
  BY <1>2 DEF PopDone, Packets, Channel
<1>4. f \in 0 .. TxSize - 1 /\ f = IF ch.front + 1 = TxSize THEN 0 ELSE ch.front + 1
  BY <1>1, <1>2 DEF Increment
<1> HIDE DEF dh, f
<1>5. Occupied(ch, ch.front)
  BY <1>1, <1>2 DEF Occupied
<1>6. Following(ch, ch.front, n) = (First(ch) + 1) % Numbers
  BY <1>2, <1>5 DEF Numbered, First
<1>7. FirstNumber(dh, n) = Following(ch, ch.front, n)
  BY <1>3 DEF FirstNumber, Following, IsEmpty, First, f
<1>8. ASSUME NEW i \in 0 .. TxSize - 1, Occupied(dh, i)
      PROVE  Following(dh, i, n) = (dh.element[i] + 1) % Numbers
  <2>1. Occupied(ch, i)
    BY <1>1, <1>2, <1>3, <1>4, <1>8 DEF Occupied
  <2>2. Following(dh, i, n) = Following(ch, i, n)
    BY <1>3 DEF Following
  <2> QED
    BY <1>3, <2>1, <2>2 DEF Numbered
<1> QED
  BY <1>3, <1>6, <1>7, <1>8 DEF Numbered, dh

\* The frames in the chip are numbered up to the first packet in the channel.
LEMMA PacketStep ==
  ASSUME TypeOK, ReadInv, PacketInv, [Next]_vars
  PROVE  PacketInv'
<1> DEFINE n == Len(inbox)
           First1 == FirstNumber(tx, number)
           Chained(q, e, next) ==
              /\ next = (e + Count(q, "data", 1, Len(q))) % Numbers
              /\ \A i \in 1 .. Len(q) : q[i].kind = "data" =>
                    q[i].number = (e + Count(q, "data", 1, i - 1)) % Numbers
           Lent == pc = "write" /\ out.kind = "data" => ~IsEmpty(tx) /\ out.number = First(tx)
<1>1. /\ n \in Nat /\ tx \in Packets /\ number \in 0 .. Numbers - 1
      /\ expected \in 0 .. Numbers - 1 /\ Numbers \in Nat \ {0}
      /\ (number + 1) % Numbers \in 0 .. Numbers - 1
  <2>1. /\ n \in Nat /\ tx \in Packets /\ number \in 0 .. Numbers - 1
        /\ expected \in 0 .. Numbers - 1 /\ Numbers \in Nat \ {0}
    BY FrameTypes, Sizes DEF TypeOK, Packets
  <2>2. number + 1 \in Nat
    BY <2>1
  <2> QED
    BY <2>1, <2>2, ModRange
<1>2. Numbered(tx, number) /\ Lent /\ Chained(inbox, expected, First1)
  BY DEF PacketInv
<1>3. PacketInv' <=> Numbered(tx, number)' /\ Lent' /\ Chained(inbox', expected', First1')
  BY DEF PacketInv
<1>4. /\ \A i \in 1 .. n + 1 : /\ Count(inbox, "data", i, n) \in Nat
                               /\ Count(inbox, "data", 1, i - 1) \in Nat
      /\ 1 \in 1 .. n + 1
  <2>1. \A i \in 1 .. Len(inbox) + 1 : /\ Count(inbox, "data", i, Len(inbox)) \in Nat
                                       /\ Count(inbox, "data", 1, i - 1) \in Nat
    BY Counted
  <2> QED
    BY <1>1, <2>1
<1>5. tx' = AwaitRoom(tx) \/ tx' = AwaitElement(tx) \/ UNCHANGED tx
      => /\ tx'.front = tx.front /\ tx'.back = tx.back
         /\ tx'.full = tx.full /\ tx'.element = tx.element
  BY <1>1, WaitersMoveNothing DEF Packets
<1>6. ASSUME UNCHANGED number, tx' = AwaitRoom(tx) \/ tx' = AwaitElement(tx) \/ UNCHANGED tx
      PROVE  Numbered(tx, number)' /\ First1' = First1 /\ First(tx)' = First(tx)
             /\ IsEmpty(tx)' = IsEmpty(tx)
  <2> DEFINE ch == tx
             dh == tx'
  <2>1. dh.front = ch.front /\ dh.back = ch.back /\ dh.full = ch.full /\ dh.element = ch.element
    BY <1>5, <1>6
  <2>2. /\ Numbered(ch, number) => Numbered(dh, number)
        /\ FirstNumber(dh, number) = FirstNumber(ch, number)
        /\ First(dh) = First(ch) /\ IsEmpty(dh) = IsEmpty(ch)
    BY <2>1, SameQueue
  <2>3. Numbered(tx, number)' = Numbered(dh, number) /\ First1' = FirstNumber(dh, number)
        /\ First(tx)' = First(dh) /\ IsEmpty(tx)' = IsEmpty(dh)
    BY <1>6 DEF Numbered, Occupied, Following, FirstNumber, IsEmpty, First
  <2> QED
    BY <1>2, <2>2, <2>3
<1>7. CASE /\ UNCHANGED <<number, inbox, expected>>
           /\ tx' = AwaitRoom(tx) \/ tx' = AwaitElement(tx) \/ UNCHANGED tx
           /\ UNCHANGED out /\ (pc' = "write" <=> pc = "write")
  BY <1>2, <1>3, <1>6, <1>7
<1>8. CASE Push /\ ~IsFull(tx) /\ UNCHANGED <<inbox, expected, out, pc>>
  <2> DEFINE dh == PushDone(tx, number, TxSize)
             m == (number + 1) % Numbers
  <2>1. tx' = dh /\ number' = m
    BY <1>8 DEF Push
  <2>2. /\ Numbered(dh, m) /\ FirstNumber(dh, m) = FirstNumber(tx, number) /\ ~IsEmpty(dh)
        /\ ~IsEmpty(tx) => First(dh) = First(tx)
    BY <1>1, <1>2, <1>8, PushNumbered
  <2> HIDE DEF dh, m
  <2>3. /\ Numbered(tx, number)' = Numbered(dh, m) /\ First1' = FirstNumber(dh, m)
        /\ First(tx)' = First(dh) /\ IsEmpty(tx)' = IsEmpty(dh)
    BY <2>1 DEF Numbered, Occupied, Following, FirstNumber, IsEmpty, First
  <2> QED
    BY <1>2, <1>3, <1>8, <2>2, <2>3
<1>9. CASE Cancel
  <2>1. UNCHANGED <<tx, number, pc, expected>>
    BY <1>9 DEF Cancel, stackVars
  <2>2. /\ Len(inbox') = n /\ out'.kind = out.kind /\ out'.number = out.number
        /\ \A i \in 1 .. n : inbox'[i].kind = inbox[i].kind /\ inbox'[i].number = inbox[i].number
        /\ \A i \in 1 .. n + 1, j \in 0 .. n :
              Count(inbox', "data", i, j) = Count(inbox, "data", i, j)
    BY <1>9, GivenUp DEF Cancel
  <2>3. /\ Count(inbox', "data", 1, n) = Count(inbox, "data", 1, n)
        /\ \A i \in 1 .. n : Count(inbox', "data", 1, i - 1) = Count(inbox, "data", 1, i - 1)
    <3>1. 1 \in 1 .. n + 1 /\ n \in 0 .. n /\ \A i \in 1 .. n : i - 1 \in 0 .. n
      BY <1>1
    <3> HIDE DEF n
    <3> QED
      BY <2>2, <3>1
  <2>4. First1' = First1 /\ Numbered(tx, number)'
    BY <1>6, <2>1
  <2>5. Lent'
    BY <1>2, <2>1, <2>2
  <2>6. Chained(inbox', expected', First1')
    <3> HIDE DEF First1
    <3>1. \A i \in 1 .. n : inbox[i].kind = "data" =>
              inbox[i].number = (expected + Count(inbox, "data", 1, i - 1)) % Numbers
      BY <1>2
    <3>2. First1 = (expected + Count(inbox, "data", 1, n)) % Numbers
      BY <1>2
    <3> HIDE DEF n
    <3> QED
      BY <2>1, <2>2, <2>3, <2>4, <3>1, <3>2
  <2> QED
    BY <1>3, <2>4, <2>5, <2>6
<1>10. CASE TakeIoctl \/ TakePacket
  <2>1. UNCHANGED <<tx, number, inbox, expected>>
    BY <1>10 DEF TakeIoctl, TakePacket, stackVars, chipVars
  <2>2. out'.kind = "data" => ~IsEmpty(tx) /\ out'.number = First(tx)
    BY <1>10 DEF TakeIoctl, TakePacket, Send, Frame
  <2> QED
    BY <1>2, <1>3, <1>6, <2>1, <2>2
<1>11. CASE Written
  <2> DEFINE C == Count(inbox, "data", 1, n)
             w == Writing("data")
  <2>1. /\ pc = "write" /\ pc' # "write" /\ Len(inbox') = n + 1 /\ inbox'[n + 1] = out
        /\ \A i \in 1 .. n : inbox'[i] = inbox[i]
        /\ \A i \in 1 .. n + 1 : Count(inbox', "data", 1, i - 1) = Count(inbox, "data", 1, i - 1)
        /\ \A i \in 1 .. n + 1 : Count(inbox', "data", i, n + 1) = Count(inbox, "data", i, n) + w
    BY <1>11, FrameWritten
  <2>2. UNCHANGED <<number, expected>> /\ Lent'
    BY <1>11, <2>1 DEF Written, stackVars
  <2>3. C \in Nat /\ First1 = (expected + C) % Numbers /\ Count(inbox', "data", 1, n + 1) = C + w
    BY <1>2, <1>4, <2>1
  <2>4. Numbered(tx, number)' /\ First1' = (expected + (C + w)) % Numbers
    <3>1. CASE out.kind = "data"
      <4> DEFINE dh == PopDone(tx, TxSize)
      <4>1. ~IsEmpty(tx) /\ First1 = First(tx) /\ w = 1
        BY <1>2, <2>1, <3>1 DEF FirstNumber, Writing
      <4>2. tx' = dh
        BY <1>11, <3>1 DEF Written
      <4>3. Numbered(dh, number) /\ FirstNumber(dh, number) = (First(tx) + 1) % Numbers
        BY <1>1, <1>2, <4>1, PopNumbered
      <4> HIDE DEF dh
      <4>4. Numbered(tx, number)' = Numbered(dh, number) /\ First1' = FirstNumber(dh, number)
        BY <2>2, <4>2 DEF Numbered, Occupied, Following, FirstNumber, IsEmpty, First
      <4>5. expected + C \in Nat
        BY <1>1, <2>3
      <4>6. (((expected + C) % Numbers) + 1) % Numbers = ((expected + C) + 1) % Numbers
        BY <1>1, <4>5, ModNext
      <4>7. (expected + C) + 1 = expected + (C + w)
        BY <1>1, <2>3, <4>1
      <4> HIDE DEF C, w, First1
      <4> QED
        BY <2>3, <4>1, <4>3, <4>4, <4>6, <4>7
    <3>2. CASE out.kind # "data"
      <4>1. w = 0 /\ UNCHANGED tx
        BY <1>11, <3>2 DEF Written, Writing
      <4>2. Numbered(tx, number)' /\ First1' = First1
        BY <1>6, <2>2, <4>1
      <4>3. expected + (C + w) = expected + C
        BY <1>1, <2>3, <4>1
      <4> HIDE DEF C, w, First1
      <4> QED
        BY <2>3, <4>2, <4>3
    <3> QED
      BY <3>1, <3>2
  <2>5. ASSUME NEW i \in 1 .. n + 1, inbox'[i].kind = "data"
        PROVE  inbox'[i].number = (expected + Count(inbox', "data", 1, i - 1)) % Numbers
    <3>1. CASE i \in 1 .. n
      BY <1>2, <2>1, <2>5, <3>1
    <3>2. CASE i = n + 1
      <4>1. First1 = First(tx) /\ out.number = First(tx)
        BY <1>2, <2>1, <2>5, <3>2 DEF FirstNumber
      <4>2. i - 1 = n /\ Count(inbox', "data", 1, i - 1) = Count(inbox, "data", 1, i - 1)
        BY <1>1, <2>1, <3>2
      <4> HIDE DEF First1, n
      <4> QED
        BY <2>1, <2>3, <3>2, <4>1, <4>2
    <3> QED
      BY <1>1, <3>1, <3>2
  <2>6. Chained(inbox', expected', First1')
    <3> HIDE DEF n, First1, C, w
    <3> QED
      BY <2>1, <2>2, <2>3, <2>4, <2>5
  <2> QED
    BY <1>3, <2>2, <2>4, <2>6
<1>12. CASE ChipTakes
  <2> DEFINE d == IF inbox[1].kind = "data" THEN 1 ELSE 0
             e == expected'
  <2>1. UNCHANGED <<tx, number, pc, out>>
    BY <1>12 DEF ChipTakes, stackVars
  <2>2. /\ n \in Nat \ {0} /\ Head(inbox) = inbox[1] /\ inbox[1] \in Frames
        /\ Len(inbox') = n - 1
        /\ \A i \in 1 .. n - 1 : inbox'[i] = inbox[i + 1]
        /\ \A i \in 1 .. n : Count(inbox, "data", 1, i) = Count(inbox', "data", 1, i - 1) + d
    BY <1>12, FrameTaken
  <2>3. \A i \in 1 .. n : Count(inbox', "data", 1, i - 1) \in Nat
    <3> TAKE i \in 1 .. n
    <3>1. 1 \in Int /\ i - 1 \in Int
      BY <2>2
    <3> QED
      BY <3>1, CountBounds
  <2>4. e = (expected + d) % Numbers
    <3>1. CASE inbox[1].kind = "data"
      <4>1. 1 \in 1 .. n /\ 1 - 1 = 0
        BY <2>2
      <4>2. Count(inbox, "data", 1, 0) = 0
        <5>1. Count(inbox, "data", 1, 0) \in Nat
              /\ Count(inbox, "data", 1, 0) <= IF 1 > 0 THEN 0 ELSE 0 - 1 + 1
          BY CountBounds
        <5> QED
          BY <5>1
      <4>3. inbox[1].number = (expected + Count(inbox, "data", 1, 1 - 1)) % Numbers
        BY <1>2, <3>1, <4>1
      <4>4. inbox[1].number = expected
        BY <1>1, <4>1, <4>2, <4>3, SmallMod
      <4>5. e = (inbox[1].number + 1) % Numbers
        BY <1>12, <2>2, <3>1 DEF ChipTakes
      <4> QED
        BY <3>1, <4>4, <4>5
    <3>2. CASE inbox[1].kind # "data"
      <4>1. inbox[1].kind = "ioctl"
        BY <2>2, <3>2 DEF Frames
      <4>2. e = expected
        BY <1>12, <2>2, <4>1 DEF ChipTakes
      <4>3. expected + d = expected
        BY <1>1, <3>2
      <4>4. expected % Numbers = expected
        BY <1>1, SmallMod
      <4> HIDE DEF e, d
      <4> QED
        BY <4>2, <4>3, <4>4
    <3> QED
      BY <3>1, <3>2
  <2>5. ASSUME NEW c \in Nat
        PROVE  (e + c) % Numbers = (expected + (c + d)) % Numbers
    <3>1. expected + d \in Nat /\ (expected + d) + c = expected + (c + d)
      BY <1>1
    <3>2. (((expected + d) % Numbers) + c) % Numbers = ((expected + d) + c) % Numbers
      BY <1>1, <3>1, ModAdd
    <3> HIDE DEF e, d
    <3> QED
      BY <2>4, <3>1, <3>2
  <2>6. First1' = First1 /\ Numbered(tx, number)' /\ Lent'
    BY <1>2, <1>6, <2>1
  <2>7. First1' = (e + Count(inbox', "data", 1, n - 1)) % Numbers
    <3> DEFINE c == Count(inbox', "data", 1, n - 1)
    <3>1. c \in Nat /\ Count(inbox, "data", 1, n) = c + d
      BY <2>2, <2>3
    <3>2. First1 = (expected + Count(inbox, "data", 1, n)) % Numbers
      BY <1>2
    <3> HIDE DEF c, d, e, First1
    <3>3. (e + c) % Numbers = (expected + (c + d)) % Numbers
      BY <2>5, <3>1
    <3> QED
      BY <2>6, <3>1, <3>2, <3>3 DEF c
  <2>8. ASSUME NEW i \in 1 .. n - 1, inbox'[i].kind = "data"
        PROVE  inbox'[i].number = (e + Count(inbox', "data", 1, i - 1)) % Numbers
    <3> DEFINE c == Count(inbox', "data", 1, i - 1)
    <3>1. i \in 1 .. n /\ i + 1 \in 1 .. n /\ (i + 1) - 1 = i
      BY <2>2
    <3>2. c \in Nat /\ Count(inbox, "data", 1, i) = c + d
      BY <2>2, <2>3, <3>1
    <3>3. inbox[i + 1].number = (expected + Count(inbox, "data", 1, (i + 1) - 1)) % Numbers
      BY <1>2, <2>2, <2>8, <3>1
    <3> HIDE DEF c, d, e
    <3>4. (e + c) % Numbers = (expected + (c + d)) % Numbers
      BY <2>5, <3>2
    <3> QED
      BY <2>2, <3>1, <3>2, <3>3, <3>4 DEF c
  <2>9. Chained(inbox', expected', First1')
    <3> HIDE DEF n, First1
    <3> QED
      BY <2>2, <2>7, <2>8
  <2> QED
    BY <1>3, <2>6, <2>9
<1>13. CASE DoIoctl \/ PollControl \/ AppSend \/ PollStack \/ StackWaits \/ Await \/ Stall
            \/ PollRunner \/ PollInVain \/ IrqRead \/ Read \/ UNCHANGED vars
            \/ \E kind \in {"data", "event"} : ChipSends(kind)
  BY <1>7, <1>13 DEF DoIoctl, PollControl, AppSend, PollStack, StackWaits, Await, Stall,
     PollRunner, PollInVain, IrqRead, Read, CheckStatus, ChipSends, vars, chipVars, stackVars,
     seqVars
<1>14. CASE StackReceives \/ StackTransmits
  <2>1. CASE Push
    BY <1>8, <1>14, <2>1 DEF StackReceives, StackTransmits, chipVars
  <2>2. CASE UNCHANGED <<tx, number, woken>>
    BY <1>7, <1>14, <2>2 DEF StackReceives, StackTransmits, chipVars
  <2> QED
    BY <1>14, <2>1, <2>2 DEF StackReceives, StackTransmits
<1> QED
  BY <1>9, <1>10, <1>11, <1>12, <1>13, <1>14 DEF Next, Control, StackSteps, RunnerSteps, Chip

---------------------------------------------------------------------------
(* The wakers.                                                             *)

LEMMA ChannelSteps ==
  ASSUME NEW E, NEW size \in Nat \ {0}, NEW ch \in Channel(E, size), NEW e \in E
  PROVE  /\ ~IsEmpty(PushDone(ch, e, size))
         /\ AwaitRoom(ch).receiver = ch.receiver
         /\ ch.sender \/ IsFull(ch) => AwaitRoom(ch).sender
         /\ IsEmpty(AwaitRoom(ch)) <=> IsEmpty(ch)
         /\ IsFull(AwaitRoom(ch)) <=> IsFull(ch)
         /\ AwaitElement(ch).sender = ch.sender
         /\ ch.receiver \/ IsEmpty(ch) => AwaitElement(ch).receiver
         /\ IsEmpty(AwaitElement(ch)) <=> IsEmpty(ch)
         /\ IsFull(AwaitElement(ch)) <=> IsFull(ch)
<1>1. /\ ch.front \in 0 .. size - 1 /\ ch.back \in 0 .. size - 1 /\ ch.full \in BOOLEAN
      /\ ch.sender \in BOOLEAN /\ ch.receiver \in BOOLEAN
  BY DEF Channel
<1>2. ~IsEmpty(PushDone(ch, e, size))
  BY <1>1 DEF Channel, PushDone, IsEmpty
<1>3. /\ AwaitRoom(ch).receiver = ch.receiver
      /\ ch.sender \/ IsFull(ch) => AwaitRoom(ch).sender
      /\ IsEmpty(AwaitRoom(ch)) <=> IsEmpty(ch)
      /\ IsFull(AwaitRoom(ch)) <=> IsFull(ch)
  BY <1>1 DEF Channel, AwaitRoom, IsEmpty, IsFull
<1>4. /\ AwaitElement(ch).sender = ch.sender
      /\ ch.receiver \/ IsEmpty(ch) => AwaitElement(ch).receiver
      /\ IsEmpty(AwaitElement(ch)) <=> IsEmpty(ch)
      /\ IsFull(AwaitElement(ch)) <=> IsFull(ch)
  BY <1>1 DEF Channel, AwaitElement, IsEmpty, IsFull
<1> QED
  BY <1>2, <1>3, <1>4

\* One of the three tasks at a time.
ControlAwake ==
    /\ calling /\ ioctl.tag # "Done" => "control" \in wakers
    /\ "control" \notin woken /\ calling => ioctl.tag # "Done"
RunnerAwake ==
    "runner" \notin woken /\ pc = "select" =>
        "runner" \in wakers /\ tx.receiver /\ ioctl.tag # "Pending" /\ IsEmpty(tx)
StackAwake ==
    "stack" \notin woken /\ ~busy =>
        /\ IsEmpty(rx) => rx.receiver
        /\ backlog \/ ~IsEmpty(rx) => IsFull(tx) /\ tx.sender

LEMMA Awake == WakerInv /\ NoLostWakeup <=> ControlAwake /\ RunnerAwake /\ StackAwake
BY DEF WakerInv, NoLostWakeup, ControlAwake, RunnerAwake, StackAwake

LEMMA ControlStep ==
  ASSUME TypeOK, ControlAwake, [Next]_vars
  PROVE  ControlAwake'
<1>1. CASE DoIoctl \/ PollControl \/ Cancel
  BY <1>1 DEF DoIoctl, PollControl, Cancel, ControlAwake, TypeOK
<1>2. CASE AppSend \/ PollStack \/ StackWaits \/ UNCHANGED vars
           \/ Await \/ Stall \/ PollRunner \/ PollInVain \/ IrqRead
  BY <1>2 DEF AppSend, PollStack, StackWaits, Await, Stall, PollRunner, PollInVain, IrqRead,
              ControlAwake, vars, ioctlVars
<1>3. CASE StackReceives \/ StackTransmits
  BY <1>3 DEF StackReceives, StackTransmits, Push, Woken, ControlAwake, ioctlVars
<1>4. CASE TakeIoctl
  <2>1. ioctl'.tag = "Sent" /\ ioctl.tag = "Pending"
    BY <1>4 DEF TakeIoctl, TypeOK
  <2> QED
    BY <1>4, <2>1 DEF TakeIoctl, ControlAwake
<1>5. CASE TakePacket
  BY <1>5 DEF TakePacket, ControlAwake
<1>6. CASE Written
  BY <1>6 DEF Written, Woken, ControlAwake, ioctlVars
<1>7. CASE Read
  <2> DEFINE a == Head(outbox)
  <2>1. (IoctlDone(a) \/ RxDone(a) \/ Dropped(a)) /\ UNCHANGED calling
    BY <1>7 DEF Read
  <2> HIDE DEF a
  <2> QED
    BY <2>1 DEF IoctlDone, IsReply, RxDone, Dropped, Woken, ControlAwake
<1>8. CASE ChipTakes \/ \E kind \in {"data", "event"} : ChipSends(kind)
  <2>1. UNCHANGED <<ioctl, calling, wakers, woken>>
    BY <1>8 DEF ChipTakes, ChipSends, ioctlVars
  <2> QED
    BY <2>1 DEF ControlAwake
<1> QED
  BY <1>1, <1>2, <1>3, <1>4, <1>5, <1>6, <1>7, <1>8
  DEF Next, Control, StackSteps, RunnerSteps, Chip

LEMMA RunnerStep ==
  ASSUME TypeOK, RunnerAwake, [Next]_vars
  PROVE  RunnerAwake'
<1>1. /\ AwaitRoom(tx).receiver = tx.receiver /\ (IsEmpty(AwaitRoom(tx)) <=> IsEmpty(tx))
      /\ IsEmpty(tx) => AwaitElement(tx).receiver /\ IsEmpty(AwaitElement(tx))
  <2> DEFINE E == 0 .. Numbers - 1
  <2>1. 0 \in E /\ tx \in Channel(E, TxSize) /\ TxSize \in Nat \ {0}
    BY Sizes DEF TypeOK
  <2> HIDE DEF E
  <2> QED
    BY <2>1, ChannelSteps
<1>2. CASE DoIoctl \/ PollControl \/ Cancel
  BY <1>2 DEF DoIoctl, PollControl, Cancel, RunnerAwake, TypeOK, IsEmpty
<1>3. CASE AppSend \/ PollStack \/ UNCHANGED vars
  BY <1>3 DEF AppSend, PollStack, RunnerAwake, vars, ioctlVars, IsEmpty
<1>4. CASE StackReceives \/ StackTransmits
  <2>1. UNCHANGED <<ioctl, wakers, pc>>
    BY <1>4 DEF StackReceives, StackTransmits, ioctlVars
  <2>2. CASE Push
    BY <2>1, <2>2 DEF Push, Woken, RunnerAwake
  <2>3. CASE UNCHANGED <<tx, woken>>
    BY <2>1, <2>3 DEF RunnerAwake, IsEmpty
  <2> QED
    BY <1>4, <2>2, <2>3 DEF StackReceives, StackTransmits
<1>5. CASE StackWaits
  <2>1. UNCHANGED <<ioctl, wakers, pc, woken>> /\ (tx' = AwaitRoom(tx) \/ tx' = tx)
    BY <1>5 DEF StackWaits, ioctlVars
  <2>2. tx'.receiver = tx.receiver /\ (IsEmpty(tx)' <=> IsEmpty(tx))
    <3>1. IsEmpty(tx)' = IsEmpty(tx')
      BY DEF IsEmpty
    <3> QED
      BY <1>1, <2>1, <3>1
  <2> QED
    BY <2>1, <2>2 DEF RunnerAwake
<1>6. CASE TakeIoctl \/ TakePacket \/ Stall \/ PollRunner \/ PollInVain \/ IrqRead
  BY <1>6 DEF TakeIoctl, TakePacket, Stall, PollRunner, PollInVain, IrqRead, CheckStatus, Send,
              RunnerAwake
<1>7. CASE Await
  <2>1. IsEmpty(tx)' = IsEmpty(tx')
    BY DEF IsEmpty
  <2> QED
    BY <1>1, <1>7, <2>1 DEF Await, RunnerAwake
<1>8. CASE Written \/ Read
  BY <1>8 DEF Written, Read, CheckStatus, RunnerAwake
<1>9. CASE ChipTakes \/ \E kind \in {"data", "event"} : ChipSends(kind)
  BY <1>9 DEF ChipTakes, ChipSends, RunnerAwake, ioctlVars, IsEmpty
<1> QED
  BY <1>2, <1>3, <1>4, <1>5, <1>6, <1>7, <1>8, <1>9
  DEF Next, Control, StackSteps, RunnerSteps, Chip

LEMMA StackStep ==
  ASSUME TypeOK, StackAwake, [Next]_vars
  PROVE  StackAwake'
<1>1. /\ IsEmpty(rx)' = IsEmpty(rx') /\ IsFull(tx)' = IsFull(tx')
  BY DEF IsEmpty, IsFull
<1>2. /\ IsFull(tx) => AwaitRoom(tx).sender /\ IsFull(AwaitRoom(tx))
      /\ AwaitElement(tx).sender = tx.sender /\ (IsFull(AwaitElement(tx)) <=> IsFull(tx))
  <2> DEFINE E == 0 .. Numbers - 1
  <2>1. 0 \in E /\ tx \in Channel(E, TxSize) /\ TxSize \in Nat \ {0}
    BY Sizes DEF TypeOK
  <2> HIDE DEF E
  <2> QED
    BY <2>1, ChannelSteps
<1>3. /\ IsEmpty(AwaitElement(rx)) <=> IsEmpty(rx)
      /\ IsEmpty(rx) => AwaitElement(rx).receiver
      /\ ~IsEmpty(PushDone(rx, 0, RxSize))
  <2> DEFINE E == {0}
  <2>1. 0 \in E /\ rx \in Channel(E, RxSize) /\ RxSize \in Nat \ {0}
    BY Sizes DEF TypeOK
  <2> HIDE DEF E
  <2> QED
    BY <2>1, ChannelSteps
<1>4. CASE UNCHANGED <<tx, rx, backlog, busy>> /\ (woken' = woken \/ woken' = woken \ {"runner"}
           \/ woken' = woken \ {"control"} \/ woken' = woken \cup (wakers \cap {"runner"})
           \/ woken' = (woken \ {"runner"}) \cup (wakers \cap {"control"}))
  BY <1>1, <1>4 DEF StackAwake
<1>5. CASE DoIoctl \/ PollControl \/ Cancel
  BY <1>4, <1>5 DEF DoIoctl, PollControl, Cancel, stackVars
<1>6. CASE AppSend \/ PollStack
  BY <1>6 DEF AppSend, PollStack, StackAwake
<1>7. CASE StackReceives \/ StackTransmits
  BY <1>7 DEF StackReceives, StackTransmits, StackAwake
<1>8. CASE StackWaits
  BY <1>1, <1>2, <1>3, <1>8 DEF StackWaits, StackAwake
<1>9. CASE TakeIoctl \/ TakePacket \/ Stall \/ PollRunner \/ PollInVain \/ IrqRead \/ UNCHANGED vars
           \/ ChipTakes \/ \E kind \in {"data", "event"} : ChipSends(kind)
  BY <1>4, <1>9 DEF TakeIoctl, TakePacket, Stall, PollRunner, PollInVain, IrqRead, ChipTakes,
                    ChipSends, vars, stackVars
<1>10. CASE Await
  BY <1>1, <1>2, <1>10 DEF Await, StackAwake, stackVars
<1>11. CASE Written
  <2>1. UNCHANGED <<rx, backlog, busy>>
    BY <1>11 DEF Written, stackVars
  <2>2. CASE out.kind = "data"
    <3>1. woken' = (woken \ {"runner"}) \cup Woken("stack", tx.sender)
      BY <1>11, <2>2 DEF Written
    <3> QED
      BY <1>1, <2>1, <3>1 DEF StackAwake, Woken
  <2>3. CASE out.kind # "data"
    BY <1>4, <1>11, <2>1, <2>3 DEF Written
  <2> QED
    BY <2>2, <2>3
<1>12. CASE Read
  <2> DEFINE a == Head(outbox)
  <2>1. (IoctlDone(a) \/ RxDone(a) \/ Dropped(a)) /\ UNCHANGED <<tx, busy, backlog>>
    BY <1>12 DEF Read, stackVars
  <2> HIDE DEF a
  <2>2. CASE IoctlDone(a) \/ Dropped(a)
    BY <1>4, <2>1, <2>2 DEF IoctlDone, Dropped
  <2>3. CASE RxDone(a)
    <3>1. /\ rx' = PushDone(rx, 0, RxSize)
          /\ woken' = (woken \ {"runner"}) \cup Woken("stack", rx.receiver)
      BY <2>3 DEF RxDone
    <3> QED
      BY <1>1, <1>3, <2>1, <3>1 DEF StackAwake, Woken
  <2> QED
    BY <2>1, <2>2, <2>3
<1> QED
  BY <1>5, <1>6, <1>7, <1>8, <1>9, <1>10, <1>11, <1>12
  DEF Next, Control, StackSteps, RunnerSteps, Chip

---------------------------------------------------------------------------
(* The invariant.                                                          *)

LEMMA InitIInv == Init => IInv
<1> SUFFICES ASSUME Init PROVE IInv
  OBVIOUS
<1> USE Sizes
<1>1. /\ inbox = <<>> /\ outbox = <<>> /\ pc = "loop" /\ ioctl.tag = "Done" /\ calling = FALSE
      /\ seq = 0 /\ seqMax = 1 /\ consumed = 0 /\ number = 0 /\ expected = 0
      /\ woken = {"stack"} /\ Len(inbox) = 0 /\ Len(outbox) = 0
  BY DEF Init
<1>2. TypeOK
  BY InitTypes
<1>3. ReadInv
  BY <1>1 DEF ReadInv
<1>4. CreditInv
  <2>1. 0 \in 0 .. SeqMod - 1 /\ 1 \in 0 .. SeqMod - 1
    OBVIOUS
  <2>2. Gap(0, 0, SeqMod) = 0 /\ Gap(1, 0, SeqMod) = 1
    BY <2>1, GapIs
  <2>3. Ahead(seq) = 0 /\ Ahead(seqMax) = 1 /\ Lag = 0
    BY <1>1, <2>2 DEF Ahead, Minus, Gap, Lag
  <2> QED
    BY <1>1, <2>3 DEF CreditInv
<1>5. AgeInv
  BY <1>1 DEF AgeInv
<1>6. LiveInv
  BY <1>1 DEF LiveInv
<1>7. PacketInv
  <2>1. /\ tx.front = 0 /\ tx.back = 0 /\ tx.full = FALSE
    BY DEF Init, NewChannel
  <2>2. IsEmpty(tx) /\ \A i \in 0 .. TxSize - 1 : ~Occupied(tx, i)
    BY <2>1 DEF IsEmpty, Occupied
  <2>3. Numbered(tx, number) /\ FirstNumber(tx, number) = 0
    BY <1>1, <2>1, <2>2 DEF Numbered, FirstNumber
  <2>4. Count(inbox, "data", 1, 0) = 0
    <3>1. /\ Count(inbox, "data", 1, 0) \in Nat
          /\ Count(inbox, "data", 1, 0) <= IF 1 > 0 THEN 0 ELSE 0 - 1 + 1
      BY CountBounds
    <3> QED
      BY <3>1
  <2>5. 0 % Numbers = 0
    BY SmallMod
  <2> QED
    BY <1>1, <2>3, <2>4, <2>5 DEF PacketInv
<1>8. WakerInv /\ NoLostWakeup /\ AnswersTheCaller
  BY <1>1 DEF WakerInv, NoLostWakeup, AnswersTheCaller
<1> QED
  BY <1>2, <1>3, <1>4, <1>5, <1>6, <1>7, <1>8 DEF IInv

LEMMA Inductive == IInv /\ [Next]_vars => IInv'
<1> SUFFICES ASSUME IInv, [Next]_vars PROVE IInv'
  OBVIOUS
<1>1. /\ TypeOK /\ ReadInv /\ CreditInv /\ AgeInv /\ LiveInv /\ PacketInv /\ WakerInv
      /\ AnswersTheCaller /\ NoLostWakeup
  BY DEF IInv
<1>2. TypeOK' /\ ReadInv'
  BY <1>1, TypeStep, ReadStep
<1>3. CreditInv' /\ AgeInv' /\ PacketInv'
  BY <1>1, CreditStep, AgeStep, PacketStep
<1>4. LiveInv' /\ AnswersTheCaller'
  BY <1>1, LiveStep, AnswerStep
<1>5. WakerInv' /\ NoLostWakeup'
  <2>1. ControlAwake /\ RunnerAwake /\ StackAwake
    BY <1>1, Awake
  <2>2. ControlAwake' /\ RunnerAwake' /\ StackAwake'
    BY <1>1, <2>1, ControlStep, RunnerStep, StackStep
  <2> QED
    BY <2>2 DEF WakerInv, NoLostWakeup, ControlAwake, RunnerAwake, StackAwake
<1> QED
  BY <1>2, <1>3, <1>4, <1>5 DEF IInv

LEMMA Invariance == Spec => []IInv
<1>1. Safety => []IInv
  BY InitIInv, Inductive, PTL DEF Safety
<1> QED
  BY <1>1 DEF Spec

\* Every variable keeps its type, the queues between the driver and the chip
\* included: the chip never holds more for the driver than it has room for.
THEOREM TypeCorrect == Spec => []TypeOK
<1>1. IInv => TypeOK
  BY DEF IInv
<1> QED
  BY <1>1, Invariance, PTL

\* A call that ends has its own answer, whatever late answers to calls that
\* were dropped came in between: no id is used again while an answer with it
\* may still come (ioctl.rs:109, runner.rs:442).
THEOREM AnswersTheCallerAlways == Spec => []AnswersTheCaller
<1>1. IInv => AnswersTheCaller
  BY DEF IInv
<1> QED
  BY <1>1, Invariance, PTL

\* The driver never sends a frame for which the chip has no room, for all
\* moduli of the counters (update_credit and has_credit, runner.rs).
THEOREM CreditKeptAlways == Spec => []CreditKept
<1>1. IInv => CreditKept
  <2> SUFFICES ASSUME IInv PROVE CreditKept
    OBVIOUS
  <2>1. TypeOK /\ CreditInv
    BY DEF IInv
  <2>2. Len(inbox) \in Nat /\ Window \in Nat /\ SeqMod \in Nat \ {0}
    BY <2>1, FrameTypes, Sizes
  <2>3. Lag <= Window
    <3>1. seqMax \in 0 .. SeqMod - 1 /\ consumed \in 0 .. SeqMod - 1
      BY <2>1 DEF TypeOK
    <3>2. Gap(seqMax, consumed, SeqMod) \in 0 .. SeqMod - 1
      BY <2>2, <3>1, GapIs
    <3>3. Ahead(seqMax) \in Nat /\ Lag \in Nat
      BY <2>2, <3>2 DEF Ahead, Minus, Gap, Lag
    <3> QED
      BY <2>1, <2>2, <3>3 DEF CreditInv
  <2> QED
    BY <2>2, <2>3 DEF CreditKept, Lag
<1> QED
  BY <1>1, Invariance, PTL

\* The chip takes the packets of the stack in their order, none left out and
\* none twice, for every size of the channel (tx_done, runner.rs).
THEOREM InOrderAlways == Spec => []InOrder
<1>1. IInv => InOrder
  <2> SUFFICES ASSUME IInv, inbox # <<>>, Head(inbox).kind = "data"
               PROVE  Head(inbox).number = expected
    BY DEF InOrder
  <2>1. TypeOK /\ PacketInv
    BY DEF IInv
  <2>2. inbox \in Seq(Frames) /\ expected \in 0 .. Numbers - 1 /\ Numbers \in Nat \ {0}
    BY <2>1, Sizes DEF TypeOK
  <2>3. Head(inbox) = inbox[1] /\ 1 \in 1 .. Len(inbox) /\ 1 - 1 = 0
    BY <2>2, Shortened
  <2>4. Count(inbox, "data", 1, 0) = 0
    <3>1. /\ Count(inbox, "data", 1, 0) \in Nat
          /\ Count(inbox, "data", 1, 0) <= IF 1 > 0 THEN 0 ELSE 0 - 1 + 1
      BY CountBounds
    <3> QED
      BY <3>1
  <2>5. inbox[1].number = (expected + Count(inbox, "data", 1, 1 - 1)) % Numbers
    BY <2>1, <2>3 DEF PacketInv
  <2>6. expected % Numbers = expected
    BY <2>2, SmallMod
  <2> QED
    BY <2>2, <2>3, <2>4, <2>5, <2>6
<1> QED
  BY <1>1, Invariance, PTL

\* Nobody sleeps with something to do (AtomicWaker and WakerRegistration in
\* IoctlState and in the two zero-copy channels).
THEOREM NoLostWakeupAlways == Spec => []NoLostWakeup
<1>1. IInv => NoLostWakeup
  BY DEF IInv
<1> QED
  BY <1>1, Invariance, PTL
=============================================================================
