------------------------ MODULE FirmwareUpdateProofs ------------------------
(***************************************************************************)
(* Proofs about the two ways of a new image into a device.                 *)
(*                                                                         *)
(* Boot: for every number of pages and every state partition that holds    *)
(* the progress words of a swap and of a revert, whatever the power does,  *)
(* Boot starts whole images only, and those that TrialUpdate says.         *)
(*                                                                         *)
(* UsbDfu: for every size of blocks, sectors and partition, and whatever   *)
(* the host sends, its offsets stay within the partition; what it marks to *)
(* be swapped in is the data of one download, if none starts in the sector *)
(* that was erased last.                                                   *)
(***************************************************************************)
EXTENDS Boot, UsbDfu, Integers, SequenceTheorems, TLAPS

\* More than the bootloader's own assertion asks for: with fewer words the
\* properties do not hold (README, section 8).
EnoughSlots == 4 * P + 3 <= Slots

---------------------------------------------------------------------------
(* The invariant.                                                          *)

\* What the pages hold when the n first copies are made.  The copy to dfu[j] is
\* number 2 * (P - j) in a swap and 2 * P + 2 * j in a revert, that to active[i]
\* is number 2 * (P - i) - 1 and 2 * P + 2 * i + 1; the target of copy number n
\* may hold anything.
ActiveLayout(n) ==
    \A i \in Pages :
        /\ n < 2 * (P - i) - 1 \/ n > 2 * P + 2 * i + 1 => active[i] = <<old, i>>
        /\ n > 2 * (P - i) - 1 /\ n < 2 * P + 2 * i + 1 => active[i] = <<new, i>>
DfuLayout(n) ==
    \A j \in 0 .. P :
        /\ n < 2 * (P - j) \/ n > 2 * P + 2 * j => dfu[j] = <<new, j>>
        /\ n > 2 * (P - j) /\ n < 2 * P + 2 * j => dfu[j] = <<old, j - 1>>
Layout(n) == ActiveLayout(n) /\ DfuLayout(n)

\* How far the update is, n copies made, in each place of the two programs.
Place(n) ==
    /\ n < 2 * P => ~tried
    /\ pc \in {"reset", "copy", "write", "mark", "handover", "app", "invalidate"}
    /\ pc = "copy" => index <= n /\ n <= until
    /\ pc \in {"write", "mark"} => index = n /\ n < until
    /\ pc = "mark" => Layout(n + 1)
    /\ pc \in {"copy", "write", "mark"} /\ until = 2 * P => ~tried
    /\ pc = "handover" => n = 2 * P /\ ~tried
    /\ program = "app" => n = 0 \/ (n = 2 * P /\ tried)
    /\ program = "bootloader" /\ pc = "invalidate" => n = 4 * P

TrialInv ==
    Trial =>
        /\ old \in Versions /\ new \in Versions
        /\ \E n \in 0 .. 4 * P : done = 0 .. n - 1 /\ Layout(n) /\ Place(n)

WholeInv == ~Trial => \E v \in Versions : active = Image(v)

ProgramInv ==
    /\ pc \in {"reset", "copy", "write", "mark", "handover"} =>
           program = "bootloader"
    /\ pc \in {"app", "write_dfu", "erase_dfu"} => program = "app"
    /\ pc \in {"copy", "write", "mark"} => magic = "Swap" /\ until \in {2 * P, 4 * P}
    /\ pc = "copy" => index <= until /\ (~valid => until = 4 * P)
    /\ pc \in {"write", "mark"} => Trial
    /\ pc = "handover" /\ magic = "Swap" => valid
    /\ pc \in {"write_dfu", "erase_dfu"} => magic # "Swap" /\ index \in 0 .. P
    /\ pc = "write_dfu" => index \in Pages
    /\ pc # "failed"

ReplaceInv ==
    /\ pc \in {"invalidate", "erase", "erase_tail", "set_magic"} =>
           /\ wanted \in States
           /\ wanted = "Swap" =>
                 magic # "Swap" /\ \E v \in Versions : DfuImage = Image(v)
           /\ program = "bootloader" => wanted = "Revert"
    /\ program = "bootloader" /\ pc = "invalidate" => magic = "Swap"
    /\ pc = "erase" => ~valid
    /\ pc \in {"erase_tail", "set_magic"} => magic = "Erased"
    /\ pc = "set_magic" => done = {}

IInv == TypeOK /\ TrialInv /\ WholeInv /\ ProgramInv /\ ReplaceInv
---------------------------------------------------------------------------
(* Lemmas about the operators.                                             *)

LEMMA ParityPages ==
  ASSUME NEW k \in 0 .. 2 * P - 1
  PROVE  /\ ToDfu(2 * k) /\ ~ToDfu(2 * k + 1)
         /\ Page(2 * k) = IF k < P THEN P - 1 - k ELSE k - P
         /\ Page(2 * k + 1) = IF k < P THEN P - 1 - k ELSE k - P
<1>1. P \in Nat /\ k \in Nat
  BY PagesAssumption
<1>2. (2 * k) % 2 = 0 /\ (2 * k + 1) % 2 = 1
  BY <1>1
<1>3. (2 * k) \div 2 = k /\ (2 * k + 1) \div 2 = k
  BY <1>1
<1>4. /\ (2 * k - 2 * P) \div 2 = k - P
      /\ (2 * k + 1 - 2 * P) \div 2 = k - P
  BY <1>1
<1> QED
  BY <1>1, <1>2, <1>3, <1>4 DEF ToDfu, Page

LEMMA Halves ==
  ASSUME NEW n \in 0 .. 4 * P - 1
  PROVE  \E k \in 0 .. 2 * P - 1 : n = 2 * k \/ n = 2 * k + 1
<1>1. P \in Nat /\ n \in Nat
  BY PagesAssumption
<1>2. n \div 2 \in 0 .. 2 * P - 1 /\ (n = 2 * (n \div 2) \/ n = 2 * (n \div 2) + 1)
  BY <1>1
<1> QED
  BY <1>2

\* With the words before the n-th written and no other, the progress is n.
LEMMA FirstUnwrittenIs ==
  ASSUME EnoughSlots, NEW n \in 0 .. 4 * P
  PROVE  FirstUnwritten(0 .. n - 1) = n
<1> DEFINE max == Slots - 3
           First(i) == (i = max \/ i \notin 0 .. n - 1)
                       /\ \A k \in 0 .. i - 1 : k \in 0 .. n - 1
<1>1. P \in Nat /\ Slots \in Nat /\ max \in Nat /\ n \in 0 .. max
  BY PagesAssumption, SlotsAssumption DEF EnoughSlots
<1>2. First(n)
  BY <1>1
<1>3. ASSUME NEW i \in 0 .. max, First(i) PROVE i = n
  <2>1. CASE i < n
    BY <1>1, <1>3, <2>1
  <2>2. CASE i > n
    <3>1. n \in 0 .. i - 1 /\ n \notin 0 .. n - 1
      BY <1>1, <2>2
    <3> QED
      BY <1>3, <3>1
  <2> QED
    BY <1>1, <2>1, <2>2
<1> HIDE DEF First
<1>4. (CHOOSE i \in 0 .. max : First(i)) = n
  BY <1>1, <1>2, <1>3
<1> QED
  BY <1>4 DEF FirstUnwritten, First

---------------------------------------------------------------------------
(* The copies.                                                             *)

\* Copy number n leaves every page in its place but its target.
LEMMA CopyKeepsLayout ==
  ASSUME TypeOK, NEW n \in 0 .. 4 * P - 1, Layout(n), NEW content,
         PutTarget(n, content), UNCHANGED <<old, new>>
  PROVE  Layout(n)'
<1>1. P \in Nat /\ P >= 1
  BY PagesAssumption
<1>2. PICK k \in 0 .. 2 * P - 1 : n = 2 * k \/ n = 2 * k + 1
  BY Halves
<1>3. k \in Nat
  BY <1>1, <1>2
<1>4. CASE n = 2 * k
  <2>1. /\ active' = active
        /\ dfu' = [dfu EXCEPT ![IF k < P THEN P - k ELSE k - P] = content]
    BY <1>1, <1>3, <1>4, ParityPages DEF PutTarget
  <2>2. ActiveLayout(n)'
    BY <2>1 DEF Layout, ActiveLayout
  <2>3. \A j \in 0 .. P : (IF k < P THEN P - k ELSE k - P) # j => dfu'[j] = dfu[j]
    BY <2>1 DEF TypeOK
  <2>4. DfuLayout(n)'
    <3> SUFFICES ASSUME NEW j \in 0 .. P
                 PROVE /\ n < 2 * (P - j) \/ n > 2 * P + 2 * j => dfu'[j] = <<new, j>>
                       /\ n > 2 * (P - j) /\ n < 2 * P + 2 * j
                          => dfu'[j] = <<old, j - 1>>
      BY DEF DfuLayout
    <3>1. CASE j = IF k < P THEN P - k ELSE k - P
      BY <1>1, <1>3, <1>4, <3>1
    <3>2. CASE j # IF k < P THEN P - k ELSE k - P
      BY <2>3, <3>2 DEF Layout, DfuLayout
    <3> QED
      BY <3>1, <3>2
  <2> QED
    BY <2>2, <2>4 DEF Layout
<1>5. CASE n = 2 * k + 1
  <2>1. /\ dfu' = dfu
        /\ active' = [active EXCEPT ![IF k < P THEN P - 1 - k ELSE k - P] = content]
    BY <1>1, <1>3, <1>5, ParityPages DEF PutTarget
  <2>2. DfuLayout(n)'
    BY <2>1 DEF Layout, DfuLayout
  <2>3. \A i \in Pages : (IF k < P THEN P - 1 - k ELSE k - P) # i
          => active'[i] = active[i]
    BY <2>1 DEF TypeOK
  <2>4. ActiveLayout(n)'
    <3> SUFFICES ASSUME NEW i \in Pages
                 PROVE /\ n < 2 * (P - i) - 1 \/ n > 2 * P + 2 * i + 1
                          => active'[i] = <<old, i>>
                       /\ n > 2 * (P - i) - 1 /\ n < 2 * P + 2 * i + 1
                          => active'[i] = <<new, i>>
      BY DEF ActiveLayout
    <3>1. CASE i = IF k < P THEN P - 1 - k ELSE k - P
      BY <1>1, <1>3, <1>5, <3>1 DEF Pages
    <3>2. CASE i # IF k < P THEN P - 1 - k ELSE k - P
      BY <2>3, <3>2 DEF Layout, ActiveLayout
    <3> QED
      BY <3>1, <3>2
  <2> QED
    BY <2>2, <2>4 DEF Layout
<1> QED
  BY <1>2, <1>4, <1>5

\* Its source is still there, so that it can be made again and again.
LEMMA CopyMakesLayout ==
  ASSUME TypeOK, NEW n \in 0 .. 4 * P - 1, Layout(n),
         PutTarget(n, SourcePage(n)), UNCHANGED <<old, new>>
  PROVE  Layout(n + 1)'
<1>1. P \in Nat /\ P >= 1
  BY PagesAssumption
<1>2. PICK k \in 0 .. 2 * P - 1 : n = 2 * k \/ n = 2 * k + 1
  BY Halves
<1>3. k \in Nat
  BY <1>1, <1>2
<1>4. CASE n = 2 * k
  <2> DEFINE i == IF k < P THEN P - 1 - k ELSE k - P
             j == IF k < P THEN P - k ELSE k - P
  <2>1. active' = active /\ dfu' = [dfu EXCEPT ![j] = active[i]]
    BY <1>1, <1>3, <1>4, ParityPages DEF PutTarget, SourcePage
  <2>2. i \in Pages /\ j \in 0 .. P
    BY <1>1, <1>2, <1>3 DEF Pages
  <2>3. active[i] = IF k < P THEN <<old, i>> ELSE <<new, i>>
    <3>1. k < P => n < 2 * (P - i) - 1
      BY <1>1, <1>3, <1>4
    <3>2. k >= P => n > 2 * (P - i) - 1 /\ n < 2 * P + 2 * i + 1
      BY <1>1, <1>2, <1>3, <1>4
    <3> HIDE DEF i
    <3> QED
      BY <1>1, <1>3, <2>2, <3>1, <3>2 DEF Layout, ActiveLayout
  <2>4. ActiveLayout(n + 1)'
    <3> SUFFICES ASSUME NEW m \in Pages
                 PROVE /\ n + 1 < 2 * (P - m) - 1 \/ n + 1 > 2 * P + 2 * m + 1
                          => active'[m] = <<old, m>>
                       /\ n + 1 > 2 * (P - m) - 1 /\ n + 1 < 2 * P + 2 * m + 1
                          => active'[m] = <<new, m>>
      BY DEF ActiveLayout
    <3>1. /\ n + 1 < 2 * (P - m) - 1 \/ n + 1 > 2 * P + 2 * m + 1
             => n < 2 * (P - m) - 1 \/ n > 2 * P + 2 * m + 1
          /\ n + 1 > 2 * (P - m) - 1 /\ n + 1 < 2 * P + 2 * m + 1
             => n > 2 * (P - m) - 1 /\ n < 2 * P + 2 * m + 1
      BY <1>1, <1>3, <1>4 DEF Pages
    <3> QED
      BY <2>1, <3>1 DEF Layout, ActiveLayout
  <2>5. DfuLayout(n + 1)'
    <3> SUFFICES ASSUME NEW m \in 0 .. P
                 PROVE /\ n + 1 < 2 * (P - m) \/ n + 1 > 2 * P + 2 * m
                          => dfu'[m] = <<new, m>>
                       /\ n + 1 > 2 * (P - m) /\ n + 1 < 2 * P + 2 * m
                          => dfu'[m] = <<old, m - 1>>
      BY DEF DfuLayout
    <3>1. CASE m = j
      <4>1. dfu'[m] = IF k < P THEN <<old, m - 1>> ELSE <<new, m>>
        <5>1. i = IF k < P THEN m - 1 ELSE m
          BY <1>1, <1>3, <3>1
        <5>2. dfu'[m] = active[i]
          BY <2>1, <2>2, <3>1 DEF TypeOK
        <5> HIDE DEF i, j
        <5> QED
          BY <2>3, <5>1, <5>2
      <4>2. k < P => ~(n + 1 < 2 * (P - m)) /\ ~(n + 1 > 2 * P + 2 * m)
        BY <1>1, <1>2, <1>3, <1>4, <3>1
      <4>3. k >= P => ~(n + 1 > 2 * (P - m) /\ n + 1 < 2 * P + 2 * m)
        BY <1>1, <1>2, <1>3, <1>4, <3>1
      <4> HIDE DEF i, j
      <4> QED
        BY <1>1, <1>3, <4>1, <4>2, <4>3
    <3>2. CASE m # j
      <4>1. dfu'[m] = dfu[m]
        BY <2>1, <2>2, <3>2 DEF TypeOK
      <4>2. /\ n + 1 < 2 * (P - m) \/ n + 1 > 2 * P + 2 * m
               => n < 2 * (P - m) \/ n > 2 * P + 2 * m
            /\ n + 1 > 2 * (P - m) /\ n + 1 < 2 * P + 2 * m
               => n > 2 * (P - m) /\ n < 2 * P + 2 * m
        BY <1>1, <1>2, <1>3, <1>4, <3>2
      <4> QED
        BY <4>1, <4>2 DEF Layout, DfuLayout
    <3> QED
      BY <3>1, <3>2
  <2> QED
    BY <2>4, <2>5 DEF Layout
<1>5. CASE n = 2 * k + 1
  <2> DEFINE i == IF k < P THEN P - 1 - k ELSE k - P
             j == IF k < P THEN i ELSE i + 1
  <2>1. dfu' = dfu /\ active' = [active EXCEPT ![i] = dfu[j]]
    BY <1>1, <1>3, <1>5, ParityPages DEF PutTarget, SourcePage
  <2>2. i \in Pages /\ j \in 0 .. P
    BY <1>1, <1>2, <1>3 DEF Pages
  <2>3. dfu[j] = IF k < P THEN <<new, i>> ELSE <<old, i>>
    <3>1. k < P => j = i /\ n < 2 * (P - j)
      BY <1>1, <1>3, <1>5
    <3>2. k >= P => j - 1 = i /\ n > 2 * (P - j) /\ n < 2 * P + 2 * j
      BY <1>1, <1>2, <1>3, <1>5
    <3> HIDE DEF i, j
    <3>3. CASE k < P
      BY <2>2, <3>1, <3>3 DEF Layout, DfuLayout
    <3>4. CASE ~(k < P)
      <4>1. dfu[j] = <<old, j - 1>>
        BY <1>1, <1>3, <2>2, <3>2, <3>4 DEF Layout, DfuLayout
      <4> QED
        BY <1>1, <1>3, <3>2, <3>4, <4>1
    <3> QED
      BY <3>3, <3>4
  <2>4. DfuLayout(n + 1)'
    <3> SUFFICES ASSUME NEW m \in 0 .. P
                 PROVE /\ n + 1 < 2 * (P - m) \/ n + 1 > 2 * P + 2 * m
                          => dfu'[m] = <<new, m>>
                       /\ n + 1 > 2 * (P - m) /\ n + 1 < 2 * P + 2 * m
                          => dfu'[m] = <<old, m - 1>>
      BY DEF DfuLayout
    <3>1. /\ n + 1 < 2 * (P - m) \/ n + 1 > 2 * P + 2 * m
             => n < 2 * (P - m) \/ n > 2 * P + 2 * m
          /\ n + 1 > 2 * (P - m) /\ n + 1 < 2 * P + 2 * m
             => n > 2 * (P - m) /\ n < 2 * P + 2 * m
      BY <1>1, <1>3, <1>5
    <3> QED
      BY <2>1, <3>1 DEF Layout, DfuLayout
  <2>5. ActiveLayout(n + 1)'
    <3> SUFFICES ASSUME NEW m \in Pages
                 PROVE /\ n + 1 < 2 * (P - m) - 1 \/ n + 1 > 2 * P + 2 * m + 1
                          => active'[m] = <<old, m>>
                       /\ n + 1 > 2 * (P - m) - 1 /\ n + 1 < 2 * P + 2 * m + 1
                          => active'[m] = <<new, m>>
      BY DEF ActiveLayout
    <3>1. CASE m = i
      <4>1. active'[m] = IF k < P THEN <<new, m>> ELSE <<old, m>>
        BY <2>1, <2>2, <2>3, <3>1 DEF TypeOK
      <4>2. k < P => ~(n + 1 < 2 * (P - m) - 1) /\ ~(n + 1 > 2 * P + 2 * m + 1)
        BY <1>1, <1>2, <1>3, <1>5, <3>1
      <4>3. k >= P => ~(n + 1 > 2 * (P - m) - 1 /\ n + 1 < 2 * P + 2 * m + 1)
        BY <1>1, <1>2, <1>3, <1>5, <3>1
      <4> HIDE DEF i, j
      <4> QED
        BY <1>1, <1>3, <4>1, <4>2, <4>3
    <3>2. CASE m # i
      <4>1. active'[m] = active[m]
        BY <2>1, <2>2, <3>2 DEF TypeOK
      <4>2. /\ n + 1 < 2 * (P - m) - 1 \/ n + 1 > 2 * P + 2 * m + 1
               => n < 2 * (P - m) - 1 \/ n > 2 * P + 2 * m + 1
            /\ n + 1 > 2 * (P - m) - 1 /\ n + 1 < 2 * P + 2 * m + 1
               => n > 2 * (P - m) - 1 /\ n < 2 * P + 2 * m + 1
        BY <1>1, <1>2, <1>3, <1>5, <3>2 DEF Pages
      <4> QED
        BY <4>1, <4>2 DEF Layout, ActiveLayout
    <3> QED
      BY <3>1, <3>2
  <2> QED
    BY <2>4, <2>5 DEF Layout
<1> QED
  BY <1>2, <1>4, <1>5

---------------------------------------------------------------------------
(* Layouts and images.                                                     *)

LEMMA LayoutStays ==
  ASSUME NEW n, UNCHANGED <<active, dfu, old, new>>
  PROVE  Layout(n)' <=> Layout(n)
  BY DEF Layout, ActiveLayout, DfuLayout

LEMMA LayoutEnds ==
  ASSUME TypeOK
  PROVE  /\ Layout(0) => active = Image(old) /\ DfuImage = Image(new)
         /\ Layout(2 * P) => active = Image(new)
         /\ Layout(4 * P) => active = Image(old) /\ DfuImage = Image(new)
<1>1. P \in Nat /\ P >= 1
  BY PagesAssumption
<1>2. ASSUME Layout(0) PROVE active = Image(old) /\ DfuImage = Image(new)
  <2>1. \A i \in Pages : active[i] = <<old, i>>
    BY <1>1, <1>2 DEF Layout, ActiveLayout, Pages
  <2>2. \A j \in Pages : dfu[j] = <<new, j>>
    BY <1>1, <1>2 DEF Layout, DfuLayout, Pages
  <2> QED
    BY <2>1, <2>2 DEF TypeOK, Image, DfuImage
<1>3. ASSUME Layout(2 * P) PROVE active = Image(new)
  <2>1. \A i \in Pages : active[i] = <<new, i>>
    BY <1>1, <1>3 DEF Layout, ActiveLayout, Pages
  <2> QED
    BY <2>1 DEF TypeOK, Image
<1>4. ASSUME Layout(4 * P) PROVE active = Image(old) /\ DfuImage = Image(new)
  <2>1. \A i \in Pages : active[i] = <<old, i>>
    BY <1>1, <1>4 DEF Layout, ActiveLayout, Pages
  <2>2. \A j \in Pages : dfu[j] = <<new, j>>
    BY <1>1, <1>4 DEF Layout, DfuLayout, Pages
  <2> QED
    BY <2>1, <2>2 DEF TypeOK, Image, DfuImage
<1> QED
  BY <1>2, <1>3, <1>4

\* The images of an update that is marked are those that the partitions hold.
LEMMA LayoutStarts ==
  ASSUME NEW v \in Versions, NEW w \in Versions,
         active = Image(v), DfuImage = Image(w),
         UNCHANGED <<active, dfu>>, old' = v, new' = w
  PROVE  Layout(0)'
<1>1. P \in Nat /\ P >= 1
  BY PagesAssumption
<1>2. \A i \in Pages : active'[i] = <<old', i>>
  BY DEF Image
<1>3. \A j \in Pages : dfu'[j] = <<new', j>>
  <2>1. \A j \in Pages : DfuImage[j] = dfu[j]
    BY DEF DfuImage
  <2> QED
    BY <2>1 DEF Image
<1>4. ActiveLayout(0)'
  BY <1>1, <1>2 DEF ActiveLayout, Pages
<1>5. DfuLayout(0)'
  BY <1>1, <1>3 DEF DfuLayout, Pages
<1> QED
  BY <1>4, <1>5 DEF Layout

LEMMA ImageIsWhole ==
  ASSUME NEW v \in Versions
  PROVE  /\ Image(v) \in [Pages -> Contents]
         /\ 0 \in Pages
         /\ Image(v)[0] = <<v, 0>>
<1>1. 0 \in Pages
  BY PagesAssumption DEF Pages
<1> QED
  BY <1>1 DEF Image, Contents

LEMMA ProgressIs ==
  ASSUME EnoughSlots, valid, NEW n \in 0 .. 4 * P, done = 0 .. n - 1
  PROVE  CurrentProgress = n
  BY FirstUnwrittenIs DEF CurrentProgress

LEMMA NoProgress ==
  ASSUME EnoughSlots, ~valid
  PROVE  CurrentProgress >= 4 * P /\ CurrentProgress \in Nat
  BY PagesAssumption, SlotsAssumption DEF CurrentProgress, EnoughSlots

---------------------------------------------------------------------------
(* The steps of the bootloader.                                            *)

LEMMA InitEstablishes == Init => IInv
<1> SUFFICES ASSUME Init PROVE IInv
  OBVIOUS
<1>1. P \in Nat /\ P >= 1
  BY PagesAssumption
<1>2. PICK v \in Versions : active = Image(v)
  BY DEF Init
<1>3. TypeOK
  <2>1. active \in [Pages -> Contents]
    BY <1>2, ImageIsWhole
  <2>2. dfu \in [0 .. P -> Contents]
    BY DEF Init, Contents
  <2>3. done \in SUBSET (0 .. Slots - 3)
    BY DEF Init
  <2>4. index \in 0 .. 4 * P /\ until \in {0, 2 * P, 4 * P}
    BY <1>1 DEF Init
  <2>5. valid \in BOOLEAN /\ tried \in BOOLEAN
    BY DEF Init
  <2> QED
    BY <2>1, <2>2, <2>3, <2>4, <2>5 DEF Init, TypeOK
<1>4. ~Trial
  BY DEF Init, Trial
<1> QED
  BY <1>2, <1>3, <1>4 DEF Init, IInv, TrialInv, WholeInv, ProgramInv, ReplaceInv

\* Where a boot begins.
LEMMA PrepareBootPreserves ==
  ASSUME EnoughSlots, IInv, PrepareBoot
  PROVE  IInv'
<1>1. P \in Nat /\ P >= 1
  BY PagesAssumption
<1> TypeOK /\ TrialInv /\ WholeInv /\ ProgramInv /\ ReplaceInv
  BY DEF IInv
<1>2. UNCHANGED <<magic, valid, done, active, dfu, program, wanted, lastErased,
                 old, new, tried>>
  BY DEF PrepareBoot, flashVars, historyVars
<1>3. magic \in States \cup {"Erased"} /\ ReadState \in States
  BY DEF TypeOK, ReadState, States
<1>4. \/ /\ ReadState = "Swap" /\ pc' = "copy"
         /\ index' = IF IsSwapped THEN 2 * P ELSE 0
         /\ until' = IF IsSwapped THEN 4 * P ELSE 2 * P
      \/ ReadState # "Swap" /\ pc' = "handover" /\ UNCHANGED <<index, until>>
  BY DEF PrepareBoot, Goto
<1>5. TypeOK'
  <2>1. result' \in States
    BY <1>3 DEF PrepareBoot
  <2>2. index' \in 0 .. 4 * P /\ until' \in {0, 2 * P, 4 * P}
    BY <1>1, <1>4 DEF TypeOK
  <2>3. pc' \in {"copy", "handover"}
    BY <1>4
  <2> QED
    BY <1>2, <2>1, <2>2, <2>3 DEF TypeOK
<1>6. TrialInv'
  <2> SUFFICES ASSUME Trial' PROVE TrialInv'
    BY DEF TrialInv
  <2>1. Trial /\ pc' = "copy"
    BY <1>2, <1>4 DEF Trial, ReadState
  <2>2. PICK n \in 0 .. 4 * P : done = 0 .. n - 1 /\ Layout(n) /\ Place(n)
    BY <2>1 DEF TrialInv
  <2>3. CurrentProgress = n
    BY <2>1, <2>2, ProgressIs DEF Trial
  <2>4. index' <= n /\ n <= until' /\ (until' = 2 * P => ~tried)
    BY <1>1, <1>4, <2>1, <2>2, <2>3 DEF IsSwapped, Place
  <2>5. program = "bootloader"
    BY DEF PrepareBoot
  <2>6. Place(n)'
    BY <1>2, <2>1, <2>2, <2>4, <2>5 DEF Place
  <2>7. Layout(n)'
    BY <1>2, <2>2, LayoutStays
  <2> QED
    BY <1>2, <2>1, <2>2, <2>6, <2>7 DEF TrialInv
<1>7. WholeInv'
  BY <1>2 DEF WholeInv, Trial
<1>8. ProgramInv'
  <2>1. ~valid => IsSwapped
    BY <1>1, NoProgress DEF IsSwapped
  <2> QED
    BY <1>1, <1>2, <1>4, <2>1 DEF ProgramInv, PrepareBoot, ReadState
<1>9. ReplaceInv'
  BY <1>2, <1>4 DEF ReplaceInv, PrepareBoot
<1> QED
  BY <1>5, <1>6, <1>7, <1>8, <1>9 DEF IInv

LEMMA CopySkipPreserves ==
  ASSUME EnoughSlots, IInv, CopySkip
  PROVE  IInv'
<1>1. P \in Nat /\ P >= 1
  BY PagesAssumption
<1> TypeOK /\ TrialInv /\ WholeInv /\ ProgramInv /\ ReplaceInv
  BY DEF IInv
<1>2. /\ UNCHANGED <<magic, valid, done, active, dfu, program, pc, until, wanted,
                    result, lastErased, old, new, tried>>
      /\ pc = "copy" /\ index < until /\ CurrentProgress > index
      /\ index' = index + 1
  BY DEF CopySkip, flashVars, historyVars
<1>3. index \in Nat /\ until \in {2 * P, 4 * P}
  BY <1>2 DEF TypeOK, ProgramInv
<1>4. TypeOK'
  BY <1>1, <1>2, <1>3 DEF TypeOK
<1>5. TrialInv'
  <2> SUFFICES ASSUME Trial' PROVE TrialInv'
    BY DEF TrialInv
  <2>1. Trial
    BY <1>2 DEF Trial
  <2>2. PICK n \in 0 .. 4 * P : done = 0 .. n - 1 /\ Layout(n) /\ Place(n)
    BY <2>1 DEF TrialInv
  <2>3. CurrentProgress = n
    BY <2>1, <2>2, ProgressIs DEF Trial
  <2>4. Place(n)'
    BY <1>1, <1>2, <1>3, <2>2, <2>3 DEF Place
  <2>5. Layout(n)'
    BY <1>2, <2>2, LayoutStays
  <2> QED
    BY <1>2, <2>1, <2>2, <2>4, <2>5 DEF TrialInv
<1>6. WholeInv'
  BY <1>2 DEF WholeInv, Trial
<1>7. ProgramInv'
  BY <1>1, <1>2, <1>3 DEF ProgramInv, Trial
<1>8. ReplaceInv'
  BY <1>2 DEF ReplaceInv
<1> QED
  BY <1>4, <1>5, <1>6, <1>7, <1>8 DEF IInv

\* Only an update whose progress is valid has copies to make.
LEMMA CopyIsTrial ==
  ASSUME EnoughSlots, IInv,
         CopyErase \/ CopyWrite \/ CopyMark
  PROVE  /\ Trial /\ program = "bootloader"
         /\ index \in 0 .. 4 * P - 1 /\ index < until /\ until \in {2 * P, 4 * P}
         /\ old \in Versions /\ new \in Versions
         /\ done = 0 .. index - 1 /\ Layout(index) /\ Place(index)
<1>1. P \in Nat /\ P >= 1
  BY PagesAssumption
<1> TypeOK /\ TrialInv /\ ProgramInv
  BY DEF IInv
<1>2. /\ pc \in {"copy", "write", "mark"}
      /\ pc = "copy" => CurrentProgress <= index /\ index < until
  BY DEF CopyErase, CopyWrite, CopyMark
<1>3. program = "bootloader" /\ magic = "Swap" /\ until \in {2 * P, 4 * P}
  BY <1>2 DEF ProgramInv
<1>4. index \in Nat
  BY DEF TypeOK
<1>5. Trial
  <2>1. CASE pc = "copy"
    <3>1. valid
      BY <1>1, <1>2, <1>3, <1>4, <2>1, NoProgress
    <3> QED
      BY <1>3, <3>1 DEF Trial
  <2>2. CASE pc # "copy"
    BY <1>2, <2>2 DEF ProgramInv
  <2> QED
    BY <2>1, <2>2
<1>6. PICK n \in 0 .. 4 * P : done = 0 .. n - 1 /\ Layout(n) /\ Place(n)
  BY <1>5 DEF TrialInv
<1>7. CurrentProgress = n
  BY <1>5, <1>6, ProgressIs DEF Trial
<1>8. index = n /\ index < until
  BY <1>2, <1>4, <1>6, <1>7 DEF Place
<1> QED
  BY <1>1, <1>3, <1>4, <1>5, <1>6, <1>8 DEF TrialInv

\* Both writes of a copy: the target changes, what happens to it apart.
LEMMA TargetTypes ==
  ASSUME TypeOK, NEW n \in 0 .. 4 * P - 1, NEW content \in Contents,
         PutTarget(n, content)
  PROVE  active' \in [Pages -> Contents] /\ dfu' \in [0 .. P -> Contents]
  BY DEF TypeOK, PutTarget

LEMMA SourceTypes ==
  ASSUME TypeOK, NEW n \in 0 .. 4 * P - 1
  PROVE  SourcePage(n) \in Contents
<1>1. P \in Nat /\ P >= 1
  BY PagesAssumption
<1>2. PICK k \in 0 .. 2 * P - 1 : n = 2 * k \/ n = 2 * k + 1
  BY Halves
<1>3. k \in Nat
  BY <1>1, <1>2
<1>4. CASE n = 2 * k
  <2>1. (IF k < P THEN P - 1 - k ELSE k - P) \in Pages
    BY <1>1, <1>2, <1>3 DEF Pages
  <2>2. SourcePage(n) = active[IF k < P THEN P - 1 - k ELSE k - P]
    BY <1>4, ParityPages DEF SourcePage
  <2> QED
    BY <2>1, <2>2 DEF TypeOK
<1>5. CASE n = 2 * k + 1
  <2>1. (IF k < P THEN P - 1 - k ELSE k - P + 1) \in 0 .. P
    BY <1>1, <1>2, <1>3
  <2>2. SourcePage(n) = dfu[IF k < P THEN P - 1 - k ELSE k - P + 1]
    BY <1>1, <1>3, <1>5, ParityPages DEF SourcePage
  <2> QED
    BY <2>1, <2>2 DEF TypeOK
<1> QED
  BY <1>2, <1>4, <1>5

LEMMA CopyErasePreserves ==
  ASSUME EnoughSlots, IInv, CopyErase
  PROVE  IInv'
<1>1. P \in Nat /\ P >= 1
  BY PagesAssumption
<1> TypeOK /\ TrialInv /\ WholeInv /\ ProgramInv /\ ReplaceInv
  BY DEF IInv
<1>2. /\ UNCHANGED <<magic, valid, done, program, index, until, wanted, result,
                    lastErased, old, new, tried>>
      /\ pc = "copy" /\ pc' = "write" /\ PutTarget(index, Erased)
  BY DEF CopyErase, localVars, historyVars, Goto
<1>3. /\ Trial /\ program = "bootloader"
      /\ index \in 0 .. 4 * P - 1 /\ index < until /\ until \in {2 * P, 4 * P}
      /\ old \in Versions /\ new \in Versions
      /\ done = 0 .. index - 1 /\ Layout(index) /\ Place(index)
  BY CopyIsTrial
<1>4. TypeOK'
  BY <1>2, <1>3, TargetTypes DEF TypeOK, Contents
<1>5. PICK n \in 0 .. 4 * P - 1 : n = index
  BY <1>3
<1>6. Layout(n)'
  BY <1>2, <1>3, <1>5, CopyKeepsLayout
<1>7. Trial'
  BY <1>2, <1>3 DEF Trial
<1>8. Place(n)'
  BY <1>1, <1>2, <1>3, <1>5 DEF Place
<1>9. TrialInv'
  BY <1>1, <1>2, <1>3, <1>5, <1>6, <1>8 DEF TrialInv
<1>10. WholeInv'
  BY <1>7 DEF WholeInv
<1>11. ProgramInv'
  BY <1>2, <1>3, <1>7 DEF ProgramInv
<1>12. ReplaceInv'
  BY <1>2 DEF ReplaceInv
<1> QED
  BY <1>4, <1>9, <1>10, <1>11, <1>12 DEF IInv

LEMMA CopyWritePreserves ==
  ASSUME EnoughSlots, IInv, CopyWrite
  PROVE  IInv'
<1>1. P \in Nat /\ P >= 1
  BY PagesAssumption
<1> TypeOK /\ TrialInv /\ WholeInv /\ ProgramInv /\ ReplaceInv
  BY DEF IInv
<1>2. /\ UNCHANGED <<magic, valid, done, program, index, until, wanted, result,
                    lastErased, old, new, tried>>
      /\ pc = "write" /\ pc' = "mark" /\ PutTarget(index, SourcePage(index))
  BY DEF CopyWrite, localVars, historyVars, Goto
<1>3. /\ Trial /\ program = "bootloader"
      /\ index \in 0 .. 4 * P - 1 /\ index < until /\ until \in {2 * P, 4 * P}
      /\ old \in Versions /\ new \in Versions
      /\ done = 0 .. index - 1 /\ Layout(index) /\ Place(index)
  BY CopyIsTrial
<1>4. TypeOK'
  BY <1>2, <1>3, TargetTypes, SourceTypes DEF TypeOK
<1>5. PICK n \in 0 .. 4 * P - 1 : n = index
  BY <1>3
<1>6. Layout(n)' /\ Layout(n + 1)'
  BY <1>2, <1>3, <1>5, CopyKeepsLayout, CopyMakesLayout
<1>7. Trial'
  BY <1>2, <1>3 DEF Trial
<1>8. Place(n)'
  BY <1>1, <1>2, <1>3, <1>5, <1>6 DEF Place
<1>9. TrialInv'
  BY <1>1, <1>2, <1>3, <1>5, <1>6, <1>8 DEF TrialInv
<1>10. WholeInv'
  BY <1>7 DEF WholeInv
<1>11. ProgramInv'
  BY <1>2, <1>3, <1>7 DEF ProgramInv
<1>12. ReplaceInv'
  BY <1>2 DEF ReplaceInv
<1> QED
  BY <1>4, <1>9, <1>10, <1>11, <1>12 DEF IInv

LEMMA CopyMarkPreserves ==
  ASSUME EnoughSlots, IInv, CopyMark
  PROVE  IInv'
<1>1. P \in Nat /\ P >= 1 /\ Slots \in Nat
  BY PagesAssumption, SlotsAssumption
<1> TypeOK /\ TrialInv /\ WholeInv /\ ProgramInv /\ ReplaceInv
  BY DEF IInv
<1>2. /\ Trial /\ program = "bootloader"
      /\ index \in 0 .. 4 * P - 1 /\ index < until /\ until \in {2 * P, 4 * P}
      /\ old \in Versions /\ new \in Versions
      /\ done = 0 .. index - 1 /\ Layout(index) /\ Place(index)
  BY CopyIsTrial
<1>3. 2 + index < Slots
  BY <1>1, <1>2 DEF EnoughSlots
<1>4. /\ UNCHANGED <<magic, valid, active, dfu, program, until, wanted, result,
                    lastErased, old, new, tried>>
      /\ pc = "mark" /\ pc' = "copy" /\ index' = index + 1
      /\ done' = done \cup {index}
  BY <1>3 DEF CopyMark, historyVars, Goto
<1>5. PICK n \in 0 .. 4 * P - 1 : n = index
  BY <1>2
<1>6. done' = 0 .. n
  BY <1>2, <1>4, <1>5
<1>7. TypeOK'
  <2>1. done' \in SUBSET (0 .. Slots - 3)
    BY <1>1, <1>5, <1>6 DEF EnoughSlots
  <2>2. index' \in 0 .. 4 * P
    BY <1>1, <1>2, <1>4
  <2> QED
    BY <1>4, <2>1, <2>2 DEF TypeOK
<1>8. Layout(n + 1)'
  BY <1>2, <1>4, <1>5, LayoutStays DEF Place
<1>9. Trial'
  BY <1>2, <1>4 DEF Trial
<1>10. Place(n + 1)'
  BY <1>1, <1>2, <1>4, <1>5 DEF Place
<1>11. TrialInv'
  <2>1. n + 1 \in 0 .. 4 * P /\ done' = 0 .. (n + 1) - 1
    BY <1>1, <1>5, <1>6
  <2> QED
    BY <1>2, <1>4, <1>8, <1>10, <2>1 DEF TrialInv
<1>12. WholeInv'
  BY <1>9 DEF WholeInv
<1>13. ProgramInv'
  BY <1>1, <1>2, <1>4, <1>9 DEF ProgramInv, Trial
<1>14. ReplaceInv'
  BY <1>4 DEF ReplaceInv
<1> QED
  BY <1>7, <1>11, <1>12, <1>13, <1>14 DEF IInv

\* The loop over the copies ends: handover after a swap, else a new magic.
LEMMA CopyDonePreserves ==
  ASSUME EnoughSlots, IInv, CopyDone
  PROVE  IInv'
<1>1. P \in Nat /\ P >= 1
  BY PagesAssumption
<1> TypeOK /\ TrialInv /\ WholeInv /\ ProgramInv /\ ReplaceInv
  BY DEF IInv
<1>2. /\ UNCHANGED <<magic, valid, done, active, dfu, program, index, until,
                    result, lastErased, old, new, tried>>
      /\ pc = "copy" /\ index = until
      /\ \/ until = 2 * P /\ pc' = "handover" /\ UNCHANGED wanted
         \/ until # 2 * P /\ pc' = "invalidate" /\ wanted' = "Revert"
  BY DEF CopyDone, flashVars, historyVars, Goto
<1>3. /\ program = "bootloader" /\ magic = "Swap" /\ until \in {2 * P, 4 * P}
      /\ ~valid => until = 4 * P
  BY <1>2 DEF ProgramInv
<1>4. TypeOK'
  BY <1>2 DEF TypeOK, States
<1>5. TrialInv'
  <2> SUFFICES ASSUME Trial' PROVE TrialInv'
    BY DEF TrialInv
  <2>1. Trial
    BY <1>2 DEF Trial
  <2>2. PICK n \in 0 .. 4 * P : done = 0 .. n - 1 /\ Layout(n) /\ Place(n)
    BY <2>1 DEF TrialInv
  <2>3. n = until
    BY <1>1, <1>2, <1>3, <2>2 DEF Place
  <2>4. Place(n)'
    BY <1>1, <1>2, <1>3, <2>2, <2>3 DEF Place
  <2>5. Layout(n)'
    BY <1>2, <2>2, LayoutStays
  <2> QED
    BY <1>2, <2>1, <2>2, <2>4, <2>5 DEF TrialInv
<1>6. WholeInv'
  BY <1>2 DEF WholeInv, Trial
<1>7. ProgramInv'
  BY <1>1, <1>2, <1>3 DEF ProgramInv
<1>8. ReplaceInv'
  BY <1>2, <1>3 DEF ReplaceInv, States
<1> QED
  BY <1>4, <1>5, <1>6, <1>7, <1>8 DEF IInv

LEMMA LoadPreserves ==
  ASSUME EnoughSlots, IInv, Load
  PROVE  IInv'
<1>1. P \in Nat /\ P >= 1
  BY PagesAssumption
<1> TypeOK /\ TrialInv /\ WholeInv /\ ProgramInv /\ ReplaceInv
  BY DEF IInv
<1>2. /\ UNCHANGED <<magic, valid, done, active, dfu, index, until, wanted,
                    result, lastErased, old, new>>
      /\ pc = "handover" /\ pc' = "app" /\ program' = "app"
      /\ tried' = (tried \/ magic = "Swap")
  BY DEF Load, flashVars, localVars, Goto
<1>3. TypeOK'
  <2>1. tried' \in BOOLEAN
    BY <1>2
  <2> QED
    BY <1>2, <2>1 DEF TypeOK
<1>4. TrialInv'
  <2> SUFFICES ASSUME Trial' PROVE TrialInv'
    BY DEF TrialInv
  <2>1. Trial /\ tried'
    BY <1>2 DEF Trial
  <2>2. PICK n \in 0 .. 4 * P : done = 0 .. n - 1 /\ Layout(n) /\ Place(n)
    BY <2>1 DEF TrialInv
  <2>3. n = 2 * P
    BY <1>2, <2>2 DEF Place
  <2>4. Place(n)'
    BY <1>1, <1>2, <2>1, <2>3 DEF Place
  <2>5. Layout(n)'
    BY <1>2, <2>2, LayoutStays
  <2> QED
    BY <1>2, <2>1, <2>2, <2>4, <2>5 DEF TrialInv
<1>5. WholeInv'
  BY <1>2 DEF WholeInv, Trial
<1>6. ProgramInv'
  BY <1>2 DEF ProgramInv
<1>7. ReplaceInv'
  BY <1>2 DEF ReplaceInv
<1> QED
  BY <1>3, <1>4, <1>5, <1>6, <1>7 DEF IInv

---------------------------------------------------------------------------
(* A new magic.                                                            *)

\* The one write that ends a trial leaves a whole image in the active partition.
LEMMA InvalidatePreserves ==
  ASSUME EnoughSlots, IInv, Invalidate
  PROVE  IInv'
<1>1. P \in Nat /\ P >= 1
  BY PagesAssumption
<1> TypeOK /\ TrialInv /\ WholeInv /\ ProgramInv /\ ReplaceInv
  BY DEF IInv
<1>2. /\ UNCHANGED <<magic, done, active, dfu, program, index, until, wanted,
                    result, lastErased, old, new, tried>>
      /\ pc = "invalidate" /\ pc' = "erase" /\ valid' = FALSE
  BY DEF Invalidate, localVars, historyVars, Goto
<1>3. TypeOK'
  BY <1>2 DEF TypeOK
<1>4. ~Trial'
  BY <1>2 DEF Trial
<1>5. \E v \in Versions : active = Image(v)
  <2>1. CASE Trial
    <3>1. PICK n \in 0 .. 4 * P : Layout(n) /\ Place(n)
      BY <2>1 DEF TrialInv
    <3>2. n \in {0, 2 * P, 4 * P}
      BY <1>2, <3>1 DEF Place, TypeOK
    <3> QED
      BY <2>1, <3>1, <3>2, LayoutEnds DEF TrialInv
  <2>2. CASE ~Trial
    BY <2>2 DEF WholeInv
  <2> QED
    BY <2>1, <2>2
<1>6. WholeInv'
  BY <1>2, <1>5 DEF WholeInv, Image
<1>7. TrialInv'
  BY <1>4 DEF TrialInv
<1>8. ProgramInv'
  BY <1>2 DEF ProgramInv
<1>9. ReplaceInv'
  BY <1>2 DEF ReplaceInv, DfuImage
<1> QED
  BY <1>3, <1>6, <1>7, <1>8, <1>9 DEF IInv

\* The erasure goes on between two states without a valid magic.
LEMMA ErasePreserves ==
  ASSUME IInv, (\E i \in done : EraseProgress(i)) \/ EraseHead \/ EraseTail
  PROVE  IInv'
<1> TypeOK /\ TrialInv /\ WholeInv /\ ProgramInv /\ ReplaceInv
  BY DEF IInv
<1> DEFINE
      Same == UNCHANGED <<active, dfu, program, index, until, wanted, result,
                           lastErased, old, new, tried>>
      Erasing ==
        /\ pc \in {"erase", "erase_tail"}
        /\ pc' \in {"erase", "erase_tail", "set_magic"}
        /\ done' \in SUBSET done
        /\ pc' = "erase" => ~valid' /\ magic' = magic
        /\ pc' # "erase" => magic' = "Erased"
        /\ magic' \in {magic, "Erased"} /\ valid' \in BOOLEAN
        /\ pc' = "set_magic" => done' = {}
<1>1. Same /\ Erasing
  <2>1. Same
    BY DEF EraseProgress, EraseHead, EraseTail, localVars, historyVars
  <2>2. ASSUME NEW i \in done, EraseProgress(i) PROVE Erasing
    BY <2>2 DEF EraseProgress, ReplaceInv, TypeOK
  <2>3. CASE EraseHead
    <3>1. pc = "erase" /\ pc' = "erase_tail" /\ magic' = "Erased" /\ valid' = TRUE
      BY <2>3 DEF EraseHead, Goto
    <3>2. done' \in SUBSET done
      BY <2>3 DEF EraseHead
    <3> QED
      BY <2>1, <3>1, <3>2
  <2>4. CASE EraseTail
    <3>1. /\ pc = "erase_tail" /\ pc' = "set_magic" /\ magic' = magic
          /\ valid' = valid /\ done' = {}
      BY <2>4 DEF EraseTail, Goto
    <3>2. magic = "Erased" /\ valid \in BOOLEAN
      BY <3>1 DEF ReplaceInv, TypeOK
    <3> QED
      BY <2>1, <3>1, <3>2
  <2> QED
    BY <2>1, <2>2, <2>3, <2>4
<1>2. ~Trial /\ ~Trial'
  BY <1>1 DEF Trial, ReplaceInv
<1>3. TypeOK'
  BY <1>1 DEF TypeOK
<1>4. WholeInv'
  BY <1>1, <1>2 DEF WholeInv, Image
<1>5. TrialInv'
  BY <1>2 DEF TrialInv
<1>6. ProgramInv'
  BY <1>1 DEF ProgramInv
<1>7. ReplaceInv'
  BY <1>1 DEF ReplaceInv, DfuImage
<1> QED
  BY <1>3, <1>4, <1>5, <1>6, <1>7 DEF IInv

\* With the magic Swap an update begins.
LEMMA WriteMagicPreserves ==
  ASSUME EnoughSlots, IInv, WriteMagic
  PROVE  IInv'
<1>1. P \in Nat /\ P >= 1
  BY PagesAssumption
<1> TypeOK /\ TrialInv /\ WholeInv /\ ProgramInv /\ ReplaceInv
  BY DEF IInv
<1>2. /\ UNCHANGED <<valid, done, active, dfu, program, index, until, result,
                    lastErased>>
      /\ pc = "set_magic" /\ magic' = wanted /\ wanted' = None
      /\ pc' = IF program = "app" THEN "app" ELSE "handover"
      /\ wanted = "Swap" =>
            old' = active[0][1] /\ new' = dfu[0][1] /\ tried' = FALSE
      /\ wanted # "Swap" => UNCHANGED <<old, new, tried>>
  BY DEF WriteMagic, historyVars, Goto
<1>3. /\ ~Trial /\ done = {} /\ wanted \in States
      /\ wanted = "Swap" => \E v \in Versions : DfuImage = Image(v)
      /\ program = "bootloader" => wanted = "Revert"
  BY <1>2 DEF ReplaceInv, Trial
<1>4. PICK v \in Versions : active = Image(v)
  BY <1>3 DEF WholeInv
<1>5. CASE wanted = "Swap"
  <2>1. PICK w \in Versions : DfuImage = Image(w)
    BY <1>3, <1>5
  <2>2. dfu[0] = DfuImage[0]
    BY ImageIsWhole DEF DfuImage
  <2>3. old' = v /\ new' = w /\ tried' = FALSE
    BY <1>2, <1>4, <1>5, <2>1, <2>2, ImageIsWhole
  <2>4. Layout(0)'
    BY <1>2, <1>4, <2>1, <2>3, LayoutStarts
  <2>5. program = "app"
    BY <1>3, <1>5 DEF TypeOK
  <2>6. TypeOK'
    BY <1>2, <1>3, <2>3 DEF TypeOK
  <2>7. Place(0)'
    BY <1>1, <1>2, <2>3, <2>5 DEF Place
  <2>8. TrialInv'
    <3>1. 0 \in 0 .. 4 * P /\ done' = 0 .. 0 - 1
      BY <1>1, <1>2, <1>3
    <3> QED
      BY <2>3, <2>4, <2>7, <3>1 DEF TrialInv
  <2>9. WholeInv'
    BY <1>2, <1>4 DEF WholeInv, Image
  <2>10. ProgramInv'
    BY <1>2, <2>5 DEF ProgramInv
  <2>11. ReplaceInv'
    BY <1>2, <2>5 DEF ReplaceInv
  <2> QED
    BY <2>6, <2>8, <2>9, <2>10, <2>11 DEF IInv
<1>6. CASE wanted # "Swap"
  <2>1. ~Trial'
    BY <1>2, <1>6 DEF Trial
  <2>2. TypeOK'
    BY <1>2, <1>3, <1>6 DEF TypeOK
  <2>3. TrialInv'
    BY <2>1 DEF TrialInv
  <2>4. WholeInv'
    BY <1>2, <1>4 DEF WholeInv, Image
  <2>5. ProgramInv'
    BY <1>2, <1>6 DEF ProgramInv, TypeOK
  <2>6. ReplaceInv'
    BY <1>2 DEF ReplaceInv
  <2> QED
    BY <2>2, <2>3, <2>4, <2>5, <2>6 DEF IInv
<1> QED
  BY <1>5, <1>6

---------------------------------------------------------------------------
(* The application, and the power.                                         *)

LEMMA SetMagicPreserves ==
  ASSUME EnoughSlots, IInv, MarkUpdated \/ MarkBooted \/ MarkDfu
  PROVE  IInv'
<1>1. P \in Nat /\ P >= 1
  BY PagesAssumption
<1> TypeOK /\ TrialInv /\ WholeInv /\ ProgramInv /\ ReplaceInv
  BY DEF IInv
<1>2. /\ UNCHANGED <<magic, valid, done, active, dfu, program, index, until, result,
                    lastErased, old, new, tried>>
      /\ pc = "app" /\ pc' = "invalidate" /\ wanted' \in States
      /\ wanted' = "Swap" =>
            magic # "Swap" /\ \E v \in Versions : DfuImage = Image(v)
  BY DEF MarkUpdated, MarkBooted, MarkDfu, SetMagic, flashVars, historyVars, Goto,
         States
<1>3. program = "app"
  BY <1>2 DEF ProgramInv
<1>4. TypeOK'
  BY <1>2 DEF TypeOK
<1>5. TrialInv'
  <2> SUFFICES ASSUME Trial' PROVE TrialInv'
    BY DEF TrialInv
  <2>1. Trial
    BY <1>2 DEF Trial
  <2>2. PICK n \in 0 .. 4 * P : done = 0 .. n - 1 /\ Layout(n) /\ Place(n)
    BY <2>1 DEF TrialInv
  <2>3. Place(n)'
    BY <1>2, <1>3, <2>2 DEF Place
  <2>4. Layout(n)'
    BY <1>2, <2>2, LayoutStays
  <2> QED
    BY <1>2, <2>1, <2>2, <2>3, <2>4 DEF TrialInv
<1>6. WholeInv'
  BY <1>2 DEF WholeInv, Trial
<1>7. ProgramInv'
  BY <1>2, <1>3 DEF ProgramInv
<1>8. ReplaceInv'
  BY <1>2, <1>3 DEF ReplaceInv, DfuImage
<1> QED
  BY <1>4, <1>5, <1>6, <1>7, <1>8 DEF IInv

\* verify_booted keeps the writes to the DFU partition out of a trial.
LEMMA DownloadPreserves ==
  ASSUME IInv,
         \/ \E j \in Pages : WriteFirmware(j)
         \/ \E v \in Versions : WriteFirmwareDone(v)
         \/ PrepareUpdate \/ EraseDfu
  PROVE  IInv'
<1>1. P \in Nat /\ P >= 1
  BY PagesAssumption
<1> TypeOK /\ TrialInv /\ WholeInv /\ ProgramInv /\ ReplaceInv
  BY DEF IInv
<1>2. /\ UNCHANGED <<magic, valid, done, active, program, until, wanted, result,
                    old, new, tried>>
      /\ pc \in {"app", "write_dfu", "erase_dfu"}
      /\ pc' \in {"app", "write_dfu", "erase_dfu"}
  BY DEF WriteFirmware, WriteFirmwareDone, PrepareUpdate, EraseDfu, flashVars,
         historyVars, Goto
<1>3. program = "app"
  BY <1>2 DEF ProgramInv
<1>4. magic # "Swap"
  BY <1>2 DEF WriteFirmware, WriteFirmwareDone, PrepareUpdate, EraseDfu,
         VerifyBooted, ReadState, ProgramInv
<1>5. /\ index' \in 0 .. P /\ (pc' = "write_dfu" => index' \in Pages)
      /\ lastErased' \in Pages \cup {None}
  <2>1. CASE \E j \in Pages : WriteFirmware(j)
    BY <1>1, <2>1 DEF WriteFirmware, Pages
  <2>2. CASE \E v \in Versions : WriteFirmwareDone(v)
    BY <1>1, <2>2 DEF WriteFirmwareDone, Goto, TypeOK
  <2>3. CASE PrepareUpdate
    BY <1>1, <2>3 DEF PrepareUpdate, Goto, TypeOK
  <2>4. CASE EraseDfu
    BY <1>1, <2>4 DEF EraseDfu, Goto, TypeOK, ProgramInv
  <2> QED
    BY <2>1, <2>2, <2>3, <2>4
<1>6. dfu' \in [0 .. P -> Contents]
  <2>1. Erased \in Contents /\ Mixed \in Contents
    BY DEF Contents
  <2>2. CASE \E j \in Pages : WriteFirmware(j)
    BY <2>1, <2>2 DEF WriteFirmware, TypeOK
  <2>3. CASE \E v \in Versions : WriteFirmwareDone(v)
    <3>1. PICK v \in Versions : WriteFirmwareDone(v)
      BY <2>3
    <3>2. <<v, index>> \in Contents
      BY <3>1 DEF WriteFirmwareDone, ProgramInv, Contents
    <3> QED
      BY <2>1, <3>1, <3>2 DEF WriteFirmwareDone, TypeOK
  <2>4. CASE PrepareUpdate
    BY <2>4 DEF PrepareUpdate, flashVars, TypeOK
  <2>5. CASE EraseDfu
    BY <2>1, <2>5 DEF EraseDfu, TypeOK
  <2> QED
    BY <2>2, <2>3, <2>4, <2>5
<1>7. TypeOK'
  <2>1. index' \in 0 .. 4 * P
    BY <1>1, <1>5
  <2> QED
    BY <1>2, <1>5, <1>6, <2>1 DEF TypeOK
<1>8. ~Trial /\ ~Trial'
  BY <1>2, <1>4 DEF Trial
<1>9. TrialInv'
  BY <1>8 DEF TrialInv
<1>10. WholeInv'
  BY <1>2, <1>8 DEF WholeInv, Image
<1>11. ProgramInv'
  BY <1>2, <1>3, <1>4, <1>5 DEF ProgramInv
<1>12. ReplaceInv'
  BY <1>2 DEF ReplaceInv
<1> QED
  BY <1>7, <1>9, <1>10, <1>11, <1>12 DEF IInv

\* Wherever power fails, the flash holds what the next boot needs.
LEMMA PowerLossPreserves ==
  ASSUME IInv, PowerLoss
  PROVE  IInv'
<1>1. P \in Nat /\ P >= 1
  BY PagesAssumption
<1> TypeOK /\ TrialInv /\ WholeInv /\ ProgramInv /\ ReplaceInv
  BY DEF IInv
<1>2. /\ UNCHANGED <<magic, valid, done, active, dfu, old, new, tried>>
      /\ program' = "bootloader" /\ pc' = "reset" /\ index' = 0 /\ until' = 0
      /\ wanted' = None /\ result' = None /\ lastErased' = None
  BY DEF PowerLoss, flashVars, historyVars, Goto
<1>3. TypeOK'
  BY <1>1, <1>2 DEF TypeOK
<1>4. TrialInv'
  <2> SUFFICES ASSUME Trial' PROVE TrialInv'
    BY DEF TrialInv
  <2>1. Trial
    BY <1>2 DEF Trial
  <2>2. PICK n \in 0 .. 4 * P : done = 0 .. n - 1 /\ Layout(n) /\ Place(n)
    BY <2>1 DEF TrialInv
  <2>3. Place(n)'
    BY <1>2, <2>2 DEF Place
  <2>4. Layout(n)'
    BY <1>2, <2>2, LayoutStays
  <2> QED
    BY <1>2, <2>1, <2>2, <2>3, <2>4 DEF TrialInv
<1>5. WholeInv'
  BY <1>2 DEF WholeInv, Trial
<1>6. ProgramInv'
  BY <1>2 DEF ProgramInv
<1>7. ReplaceInv'
  BY <1>2 DEF ReplaceInv
<1> QED
  BY <1>3, <1>4, <1>5, <1>6, <1>7 DEF IInv

LEMMA StutterPreserves ==
  ASSUME IInv, UNCHANGED vars
  PROVE  IInv'
<1>1. TypeOK'
  BY DEF IInv, TypeOK, vars, flashVars, localVars, historyVars
<1>2. TrialInv'
  <2> SUFFICES ASSUME Trial' PROVE TrialInv'
    BY DEF TrialInv
  <2>1. Trial /\ UNCHANGED <<active, dfu, old, new>>
    BY DEF Trial, vars, flashVars, historyVars
  <2>2. PICK n \in 0 .. 4 * P : done = 0 .. n - 1 /\ Layout(n) /\ Place(n)
    BY <2>1 DEF IInv, TrialInv
  <2>3. Layout(n)' /\ (Layout(n + 1)' <=> Layout(n + 1))
    BY <2>1, <2>2, LayoutStays
  <2>4. Place(n)'
    BY <2>2, <2>3 DEF Place, vars, localVars, historyVars
  <2> QED
    BY <2>1, <2>2, <2>3, <2>4 DEF IInv, TrialInv, vars, flashVars, historyVars
<1>3. WholeInv'
  BY DEF IInv, WholeInv, Trial, Image, vars, flashVars
<1>4. ProgramInv'
  BY DEF IInv, ProgramInv, Trial, vars, flashVars, localVars
<1>5. ReplaceInv'
  BY DEF IInv, ReplaceInv, DfuImage, vars, flashVars, localVars
<1> QED
  BY <1>1, <1>2, <1>3, <1>4, <1>5 DEF IInv

LEMMA NextPreserves ==
  ASSUME EnoughSlots, IInv, [Next]_vars
  PROVE  IInv'
<1>1. ASSUME Copy PROVE IInv'
  BY <1>1, CopySkipPreserves, CopyErasePreserves, CopyWritePreserves,
     CopyMarkPreserves, CopyDonePreserves DEF Copy
<1>2. ASSUME Replace PROVE IInv'
  BY <1>2, InvalidatePreserves, ErasePreserves, WriteMagicPreserves DEF Replace
<1>3. ASSUME App PROVE IInv'
  BY <1>3, SetMagicPreserves, DownloadPreserves DEF App
<1> QED
  BY <1>1, <1>2, <1>3, PrepareBootPreserves, LoadPreserves, PowerLossPreserves,
     StutterPreserves DEF Next

---------------------------------------------------------------------------
(* Theorems.                                                               *)

\* The invariant, for any number of pages, images and power failures.
THEOREM Inductive == EnoughSlots => (Safety => []IInv)
<1> SUFFICES ASSUME EnoughSlots PROVE Safety => []IInv
  OBVIOUS
<1>1. Init => IInv
  BY InitEstablishes
<1>2. IInv /\ [Next]_vars => IInv'
  BY NextPreserves
<1> QED
  BY <1>1, <1>2, PTL DEF Safety

\* Every variable keeps its type.
THEOREM TypeCorrect == EnoughSlots => (Safety => []TypeOK)
<1>1. IInv => TypeOK
  BY DEF IInv
<1> QED
  BY <1>1, Inductive, PTL

LEMMA RunsWhole ==
  ASSUME IInv, program = "app"
  PROVE  \E v \in Versions : active = Image(v)
<1>1. CASE Trial
  <2>1. PICK n \in 0 .. 4 * P : Layout(n) /\ Place(n)
    BY <1>1 DEF IInv, TrialInv
  <2>2. n \in {0, 2 * P}
    BY <2>1 DEF Place
  <2> QED
    BY <1>1, <2>1, <2>2, LayoutEnds DEF IInv, TrialInv
<1>2. CASE ~Trial
  BY <1>2 DEF IInv, WholeInv
<1> QED
  BY <1>1, <1>2

\* Wherever the power failed in a swap, a revert or a change of magic, the
\* program that is started is one whole image ("power-fail-safe", README.md:5).
THEOREM BootsWholeImageAlways == EnoughSlots => (Safety => []BootsWholeImage)
<1>1. IInv => BootsWholeImage
  BY RunsWhole DEF BootsWholeImage
<1> QED
  BY <1>1, Inductive, PTL

\* Before a revert is made final both images are back where they were when the
\* application marked the update (lib.rs:174, :187).
THEOREM RevertKeepsBothImagesAlways ==
  EnoughSlots => (Safety => []RevertKeepsBothImages)
<1>1. ASSUME IInv PROVE RevertKeepsBothImages
  <2> SUFFICES ASSUME program = "bootloader", pc = "invalidate", valid
               PROVE  active = Image(old) /\ DfuImage = Image(new)
    BY DEF RevertKeepsBothImages
  <2>1. Trial
    BY <1>1 DEF IInv, ReplaceInv, Trial
  <2>2. PICK n \in 0 .. 4 * P : Layout(n) /\ Place(n)
    BY <1>1, <2>1 DEF IInv, TrialInv
  <2>3. n = 4 * P
    BY <2>2 DEF Place
  <2> QED
    BY <1>1, <2>2, <2>3, LayoutEnds DEF IInv
<1> QED
  BY <1>1, Inductive, PTL

\* With 4 * P + 3 state words every copy of a swap and of a revert has a word for
\* its progress; the assertion of boot_loader.rs:432 asks for fewer, and with
\* those it has not (MCBoot_state.cfg).
THEOREM NoOverrunAlways == EnoughSlots => (Safety => []NoOverrun)
<1>1. IInv => NoOverrun
  BY DEF IInv, ProgramInv, NoOverrun
<1> QED
  BY <1>1, Inductive, PTL

---------------------------------------------------------------------------
(* The refinement.                                                         *)

LEMMA ImagesDiffer ==
  ASSUME NEW v \in Versions, NEW w \in Versions, Image(v) = Image(w)
  PROVE  v = w
  BY ImageIsWhole

LEMMA InstalledIs ==
  ASSUME NEW v \in Versions
  PROVE  /\ active = Image(v) => Installed = v
         /\ active' = Image(v) => Installed' = v
<1>1. ASSUME active = Image(v) PROVE Installed = v
  BY <1>1, ImagesDiffer DEF Installed
<1>2. ASSUME active' = Image(v) PROVE Installed' = v
  BY <1>2, ImagesDiffer DEF Installed
<1> QED
  BY <1>1, <1>2

\* What the update is, with n copies made.
LEMMA UpdateIs ==
  ASSUME EnoughSlots, NEW n \in 0 .. 4 * P
  PROVE  /\ Trial /\ done = 0 .. n - 1 =>
               /\ Phase = IF n < 2 * P THEN "staged"
                          ELSE IF tried THEN "tried" ELSE "swapped"
               /\ Kept = old /\ Candidate = new
         /\ Trial' /\ done' = 0 .. n - 1 =>
               /\ Phase' = IF n < 2 * P THEN "staged"
                           ELSE IF tried' THEN "tried" ELSE "swapped"
               /\ Kept' = old' /\ Candidate' = new'
<1>1. FirstUnwritten(0 .. n - 1) = n
  BY FirstUnwrittenIs
<1>2. Trial /\ done = 0 .. n - 1 => CurrentProgress = n
  BY <1>1 DEF CurrentProgress, Trial
<1>3. Trial' /\ done' = 0 .. n - 1 => CurrentProgress' = n
  BY <1>1 DEF CurrentProgress, Trial
<1> QED
  BY <1>2, <1>3 DEF Phase, Kept, Candidate

LEMMA NoUpdateIs ==
  /\ ~Trial => Phase = "stable" /\ Kept = Installed /\ Candidate = None
  /\ ~Trial' => Phase' = "stable" /\ Kept' = Installed' /\ Candidate' = None
  BY DEF Phase, Kept, Candidate

\* Most steps do not show: those that leave the state partition alone, and what
\* runs, and those between two states without an update.
LEMMA Stutters ==
  ASSUME \/ UNCHANGED <<magic, valid, done, old, new, tried>>
         \/ ~Trial /\ ~Trial',
         UNCHANGED program,
         active' = active \/ (Trial /\ program = "bootloader")
  PROVE  UNCHANGED Update!updateVars
<1>1. active' = active => Installed' = Installed
  BY DEF Installed, Image
<1>2. Running' = Running
  BY <1>1 DEF Running
<1>3. CASE UNCHANGED <<magic, valid, done, old, new, tried>>
  <2>1. (Trial' <=> Trial) /\ CurrentProgress' = CurrentProgress
    BY <1>3 DEF Trial, CurrentProgress
  <2> QED
    BY <1>1, <1>2, <1>3, <2>1 DEF Update!updateVars, Phase, Kept, Candidate
<1>4. CASE ~Trial /\ ~Trial'
  BY <1>1, <1>2, <1>4, NoUpdateIs DEF Update!updateVars
<1> QED
  BY <1>3, <1>4

LEMMA CopiesImplement ==
  ASSUME EnoughSlots, IInv, Copy
  PROVE  [Update!UpdateNext]_Update!updateVars
<1>1. P \in Nat /\ P >= 1
  BY PagesAssumption
<1>2. CASE CopySkip \/ CopyDone
  BY <1>2, Stutters DEF CopySkip, CopyDone, flashVars, historyVars
<1>3. CASE CopyErase \/ CopyWrite
  BY <1>3, CopyIsTrial, Stutters DEF CopyErase, CopyWrite, historyVars
<1>4. CASE CopyMark
  <2>1. /\ Trial /\ program = "bootloader"
        /\ index \in 0 .. 4 * P - 1 /\ until \in {2 * P, 4 * P} /\ index < until
        /\ done = 0 .. index - 1 /\ Place(index)
    BY <1>4, CopyIsTrial
  <2>2. PICK n \in 0 .. 4 * P - 1 : n = index
    BY <2>1
  <2>3. 2 + index < Slots
    BY <2>1, <1>1, SlotsAssumption DEF EnoughSlots
  <2>4. /\ UNCHANGED <<magic, valid, program, old, new, tried>>
        /\ pc = "mark" /\ done' = done \cup {index}
    BY <1>4, <2>3 DEF CopyMark, historyVars
  <2>5. n \in 0 .. 4 * P /\ n + 1 \in 0 .. 4 * P /\ done' = 0 .. (n + 1) - 1
    BY <1>1, <2>1, <2>2, <2>4
  <2>6. /\ Phase = IF n < 2 * P THEN "staged"
                   ELSE IF tried THEN "tried" ELSE "swapped"
        /\ Phase' = IF n + 1 < 2 * P THEN "staged"
                    ELSE IF tried THEN "tried" ELSE "swapped"
        /\ UNCHANGED <<Kept, Candidate>>
    <3>1. Trial'
      BY <2>1, <2>4 DEF Trial
    <3> QED
      BY <2>1, <2>2, <2>4, <2>5, <3>1, UpdateIs
  <2>7. Running = None /\ Running' = None
    BY <2>1, <2>4 DEF Running
  <2>8. n < 2 * P => ~tried
    BY <2>1, <2>2 DEF Place
  <2>9. CASE n + 1 = 2 * P
    BY <1>1, <2>6, <2>7, <2>8, <2>9 DEF Update!UpdateNext, Update!SwapIn
  <2>10. CASE n + 1 # 2 * P
    BY <1>1, <2>2, <2>6, <2>7, <2>10 DEF Update!updateVars
  <2> QED
    BY <2>9, <2>10
<1> QED
  BY <1>2, <1>3, <1>4 DEF Copy

LEMMA LoadImplements ==
  ASSUME EnoughSlots, IInv, Load
  PROVE  [Update!UpdateNext]_Update!updateVars
<1>1. P \in Nat /\ P >= 1
  BY PagesAssumption
<1>2. /\ UNCHANGED <<magic, valid, done, active, old, new>>
      /\ pc = "handover" /\ program = "bootloader" /\ program' = "app"
      /\ tried' = (tried \/ magic = "Swap")
  BY DEF Load, flashVars, IInv, ProgramInv
<1>3. Running = None /\ Running' = Installed'
  BY <1>2 DEF Running
<1>4. CASE Trial
  <2>1. PICK n \in 0 .. 4 * P : done = 0 .. n - 1 /\ Layout(n) /\ Place(n)
    BY <1>4 DEF IInv, TrialInv
  <2>2. n = 2 * P /\ ~tried /\ tried' /\ Trial'
    BY <1>2, <1>4, <2>1 DEF Place, Trial
  <2>3. new \in Versions /\ active' = Image(new)
    BY <1>2, <1>4, <2>1, <2>2, LayoutEnds DEF IInv, TrialInv
  <2>4. PICK v \in Versions : v = new
    BY <2>3
  <2>5. Installed' = new
    BY <2>3, <2>4, InstalledIs
  <2>6. /\ Phase = "swapped" /\ Phase' = "tried"
        /\ Kept = old /\ Kept' = old /\ Candidate = new /\ Candidate' = new
    BY <1>1, <1>2, <1>4, <2>1, <2>2, UpdateIs
  <2> QED
    BY <1>3, <2>5, <2>6 DEF Update!UpdateNext, Update!Start
<1>5. CASE ~Trial
  <2>1. ~Trial'
    BY <1>2, <1>5 DEF Trial
  <2>2. Installed' = Installed
    BY <1>2 DEF Installed, Image
  <2> QED
    BY <1>3, <1>5, <2>1, <2>2, NoUpdateIs DEF Update!UpdateNext, Update!Start
<1> QED
  BY <1>4, <1>5

\* The write that withdraws, confirms or rolls back an update.
LEMMA InvalidateImplements ==
  ASSUME EnoughSlots, IInv, Invalidate
  PROVE  [Update!UpdateNext]_Update!updateVars
<1>1. P \in Nat /\ P >= 1
  BY PagesAssumption
<1>2. /\ UNCHANGED <<magic, done, active, program, old, new, tried>>
      /\ pc = "invalidate" /\ valid' = FALSE /\ program \in {"bootloader", "app"}
  BY DEF Invalidate, historyVars, IInv, TypeOK
<1>3. ~Trial'
  BY <1>2 DEF Trial
<1>4. Installed' = Installed
  BY <1>2 DEF Installed, Image
<1>5. Running' = Running
  BY <1>2, <1>4 DEF Running
<1>6. CASE ~Trial
  BY <1>2, <1>3, <1>6, Stutters
<1>7. CASE Trial
  <2>1. /\ old \in Versions /\ new \in Versions
        /\ \E n \in 0 .. 4 * P : done = 0 .. n - 1 /\ Layout(n) /\ Place(n)
    BY <1>7 DEF IInv, TrialInv
  <2>2. PICK n \in 0 .. 4 * P : done = 0 .. n - 1 /\ Layout(n) /\ Place(n)
    BY <2>1
  <2>3. PICK o \in Versions, w \in Versions : o = old /\ w = new
    BY <2>1
  <2>4. /\ Phase' = "stable" /\ Kept' = Installed /\ Candidate' = None
    BY <1>3, <1>4, NoUpdateIs
  <2>5. /\ Phase = IF n < 2 * P THEN "staged"
                   ELSE IF tried THEN "tried" ELSE "swapped"
        /\ Kept = old /\ Candidate = new
    BY <1>7, <2>2, UpdateIs
  <2>6. CASE program = "bootloader"
    <3>1. n = 4 * P
      BY <1>2, <2>2, <2>6 DEF Place
    <3>2. Installed = old
      BY <2>2, <2>3, <3>1, LayoutEnds, InstalledIs DEF IInv
    <3>3. Running = None
      BY <2>6 DEF Running
    <3>4. Phase \in {"swapped", "tried"}
      BY <1>1, <2>5, <3>1
    <3> QED
      BY <1>5, <2>4, <2>5, <3>2, <3>3, <3>4 DEF Update!UpdateNext, Update!RollBack
  <2>7. CASE program = "app" /\ n = 0
    <3>1. Installed = old
      BY <2>2, <2>3, <2>7, LayoutEnds, InstalledIs DEF IInv
    <3>2. Running # None
      BY <2>1, <2>7, <3>1, NoneAssumption DEF Running
    <3>3. Phase = "staged"
      BY <1>1, <2>5, <2>7
    <3> QED
      BY <1>5, <2>4, <2>5, <3>1, <3>2, <3>3 DEF Update!UpdateNext, Update!Withdraw
  <2>8. CASE program = "app" /\ n = 2 * P /\ tried
    <3>1. Installed = new
      BY <2>2, <2>3, <2>8, LayoutEnds, InstalledIs DEF IInv
    <3>2. Running # None
      BY <2>1, <2>8, <3>1, NoneAssumption DEF Running
    <3>3. Phase = "tried"
      BY <1>1, <2>5, <2>8
    <3> QED
      BY <1>5, <2>4, <2>5, <3>1, <3>2, <3>3 DEF Update!UpdateNext, Update!Confirm
  <2> QED
    BY <1>2, <2>2, <2>6, <2>7, <2>8 DEF Place
<1> QED
  BY <1>6, <1>7

\* The magic Swap stages the image that the DFU partition holds.
LEMMA WriteMagicImplements ==
  ASSUME EnoughSlots, IInv, WriteMagic
  PROVE  [Update!UpdateNext]_Update!updateVars
<1>1. P \in Nat /\ P >= 1
  BY PagesAssumption
<1>2. /\ UNCHANGED <<valid, done, active, dfu, program>>
      /\ pc = "set_magic" /\ magic' = wanted
      /\ wanted = "Swap" => old' = active[0][1] /\ new' = dfu[0][1]
  BY DEF WriteMagic
<1>3. /\ ~Trial /\ done = {}
      /\ wanted = "Swap" => \E v \in Versions : DfuImage = Image(v)
      /\ program = "bootloader" => wanted = "Revert"
      /\ program \in {"bootloader", "app"}
  BY <1>2 DEF IInv, ReplaceInv, Trial, TypeOK
<1>4. PICK v \in Versions : active = Image(v)
  BY <1>3 DEF IInv, WholeInv
<1>5. CASE ~Trial'
  BY <1>2, <1>3, <1>5, Stutters
<1>6. CASE Trial'
  <2>1. wanted = "Swap" /\ program = "app"
    BY <1>2, <1>3, <1>6 DEF Trial
  <2>2. PICK w \in Versions : DfuImage = Image(w)
    BY <1>3, <2>1
  <2>3. dfu[0] = DfuImage[0]
    BY ImageIsWhole DEF DfuImage
  <2>4. old' = v /\ new' = w
    BY <1>2, <1>4, <2>1, <2>2, <2>3, ImageIsWhole
  <2>5. Installed = v /\ Installed' = v
    BY <1>2, <1>4, InstalledIs
  <2>6. Phase = "stable" /\ Kept = v /\ Candidate = None
    BY <1>3, <2>5, NoUpdateIs
  <2>7. Phase' = "staged" /\ Kept' = v /\ Candidate' = w
    <3>1. 0 \in 0 .. 4 * P /\ done' = 0 .. 0 - 1 /\ 0 < 2 * P
      BY <1>1, <1>2, <1>3
    <3> QED
      BY <1>6, <2>4, <3>1, UpdateIs
  <2>8. Running = v /\ Running' = v /\ v # None
    BY <1>2, <2>1, <2>5, NoneAssumption DEF Running
  <2> QED
    BY <2>6, <2>7, <2>8 DEF Update!UpdateNext, Update!Stage
<1> QED
  BY <1>5, <1>6

LEMMA PowerLossImplements ==
  ASSUME EnoughSlots, IInv, PowerLoss
  PROVE  [Update!UpdateNext]_Update!updateVars
<1>1. /\ UNCHANGED <<magic, valid, done, active, old, new, tried>>
      /\ program' = "bootloader" /\ program \in {"bootloader", "app"}
  BY DEF PowerLoss, flashVars, historyVars, IInv, TypeOK
<1>2. CASE program = "bootloader"
  BY <1>1, <1>2, Stutters
<1>3. CASE program = "app"
  <2>1. PICK v \in Versions : active = Image(v)
    BY <1>3, RunsWhole
  <2>2. Running # None /\ Running' = None
    BY <1>1, <1>3, <2>1, InstalledIs, NoneAssumption DEF Running
  <2>3. UNCHANGED <<Phase, Kept, Candidate>>
    <3>1. /\ Installed' = Installed /\ (Trial' <=> Trial)
          /\ CurrentProgress' = CurrentProgress
      BY <1>1 DEF Installed, Image, Trial, CurrentProgress
    <3> QED
      BY <1>1, <3>1 DEF Phase, Kept, Candidate
  <2> QED
    BY <2>2, <2>3 DEF Update!UpdateNext, Update!PowerOff
<1> QED
  BY <1>1, <1>2, <1>3

LEMMA QuietImplement ==
  ASSUME IInv,
         \/ PrepareBoot \/ App
         \/ (\E i \in done : EraseProgress(i)) \/ EraseHead \/ EraseTail
  PROVE  UNCHANGED Update!updateVars
<1>1. CASE PrepareBoot
  BY <1>1, Stutters DEF PrepareBoot, flashVars, historyVars
<1>2. CASE App
  <2>1. UNCHANGED <<magic, valid, done, active, program, old, new, tried>>
    BY <1>2 DEF App, MarkUpdated, MarkBooted, MarkDfu, SetMagic, WriteFirmware,
       WriteFirmwareDone, PrepareUpdate, EraseDfu, flashVars, historyVars
  <2> QED
    BY <2>1, Stutters
<1>3. CASE (\E i \in done : EraseProgress(i)) \/ EraseHead \/ EraseTail
  <2>1. UNCHANGED <<active, program>> /\ ~Trial
    BY <1>3 DEF EraseProgress, EraseHead, EraseTail, IInv, ReplaceInv, Trial
  <2>2. ~Trial'
    <3>1. CASE \E i \in done : EraseProgress(i)
      BY <2>1, <3>1 DEF EraseProgress, Trial
    <3>2. CASE EraseHead
      BY <3>2 DEF EraseHead, Trial
    <3>3. CASE EraseTail
      BY <2>1, <3>3 DEF EraseTail, Trial
    <3> QED
      BY <1>3, <3>1, <3>2, <3>3
  <2> QED
    BY <2>1, <2>2, Stutters
<1> QED
  BY <1>1, <1>2, <1>3

\* Boot implements TrialUpdate: a device that loses power at any moments, any
\* number of times, runs what it ought to, an unconfirmed image once.
THEOREM RefinesTrialUpdate == EnoughSlots => (Safety => UpdatesAsPromised)
<1> SUFFICES ASSUME EnoughSlots PROVE Safety => UpdatesAsPromised
  OBVIOUS
<1>1. Init => Update!UpdateInit
  <2> SUFFICES ASSUME Init PROVE Update!UpdateInit
    OBVIOUS
  <2>1. PICK v \in Versions : active = Image(v)
    BY DEF Init
  <2>2. ~Trial /\ Running = None
    BY DEF Init, Trial, Running
  <2> QED
    BY <2>1, <2>2, InstalledIs, NoUpdateIs DEF Update!UpdateInit
<1>2. IInv /\ [Next]_vars => [Update!UpdateNext]_Update!updateVars
  <2> SUFFICES ASSUME IInv, [Next]_vars
               PROVE  [Update!UpdateNext]_Update!updateVars
    OBVIOUS
  <2>1. CASE UNCHANGED vars
    BY <2>1, Stutters DEF vars, flashVars, historyVars
  <2>2. CASE Replace
    BY <2>2, InvalidateImplements, WriteMagicImplements, QuietImplement DEF Replace
  <2> QED
    BY <2>1, <2>2, CopiesImplement, LoadImplements, PowerLossImplements,
       QuietImplement DEF Next
<1> QED
  BY <1>1, <1>2, Inductive, PTL DEF Safety, UpdatesAsPromised, Update!UpdateSpec

---------------------------------------------------------------------------
(* UsbDfu: the inductive invariant.                                         *)

\* Where the handler and the updater are, whoever starts what again where.
Offsets ==
    /\ step = "ready" /\ state \in {"Download", "DlSync"} => offset = sent
    /\ step \in {"erase", "write"} =>
        /\ mode = "dfu" /\ offset = sent
        /\ offset <= at /\ at < offset + Block
        /\ len \in 1 .. Block
        /\ step = "write" => lastErased = SectorOf(at)

DfuTypeInv == DfuTypeOK /\ Offsets

\* The data of the download that is under way, up to n.
Landed(n) == \A u \in 0 .. n - 1 : flash[u] = <<image, u>>

\* Data can be written from x on: the rest of its sector is erased, or the
\* sector begins at x and will be erased.
Writable(x) ==
    IF lastErased = SectorOf(x)
    THEN \A u \in DOMAIN flash : x <= u /\ u < SectorEnd(x) => flash[u] = Erased
    ELSE x = SectorOf(x) * Sector

\* Between two requests of a download.
BetweenBlocks ==
    step = "ready" /\ state \in {"Download", "DlSync"} =>
        /\ Landed(sent)
        /\ sent % Block = 0 => Writable(sent)

\* In the loop of write_firmware.
InBlock ==
    step \in {"erase", "write"} =>
        /\ magic # "Swap"
        /\ offset % Block = 0
        /\ \A i \in 0 .. len - 1 : buf[i] = <<image, offset + i>>
        /\ \A u \in 0 .. at - 1 : u < offset + len => flash[u] = <<image, u>>
        /\ Writable(at)

\* What is about to be marked, and that there is nothing else under way.
Marking ==
    /\ mode = "dfu" /\ step \in {"erase_state", "write_magic"} => Landed(sent)
    /\ mode # "dfu" => state = "DfuIdle"
    /\ mode = "swap" => step = "ready"

\* The data, which a download that starts again in the sector that was erased
\* last may spoil.
DfuDataInv == BetweenBlocks /\ InBlock /\ Marking /\ MarkedAsSent

DfuInv == DfuTypeInv /\ DfuDataInv

---------------------------------------------------------------------------
(* Arithmetic.                                                             *)

LEMMA Times ==
  ASSUME NEW a \in Nat, NEW b \in Nat, NEW d \in Nat
  PROVE  a * d \in Nat /\ (a <= b => a * d <= b * d) /\ (a + 1) * d = a * d + d
  OBVIOUS

LEMMA DivMod ==
  ASSUME NEW u \in Nat, NEW d \in Nat \ {0}
  PROVE  /\ u \div d \in Nat /\ u % d \in 0 .. d - 1
         /\ u = (u \div d) * d + (u % d)
  OBVIOUS

\* The quotient is the only one that leaves a remainder below d.
LEMMA DivIs ==
  ASSUME NEW u \in Nat, NEW d \in Nat \ {0}, NEW k \in Nat, k * d <= u, u < k * d + d
  PROVE  u \div d = k
<1> DEFINE q == u \div d
<1>1. q \in Nat /\ q * d <= u /\ u < q * d + d
  BY DivMod
<1> HIDE DEF q
<1>2. ~(q < k)
  <2> SUFFICES ASSUME q < k PROVE FALSE
    OBVIOUS
  <2>1. q + 1 \in Nat /\ q + 1 <= k
    BY <1>1
  <2>2. (q + 1) * d <= k * d /\ (q + 1) * d = q * d + d
    BY <1>1, <2>1, Times
  <2>3. q * d \in Nat /\ k * d \in Nat
    BY <1>1, Times
  <2> QED
    BY <1>1, <2>2, <2>3
<1>3. ~(k < q)
  <2> SUFFICES ASSUME k < q PROVE FALSE
    OBVIOUS
  <2>1. k + 1 \in Nat /\ k + 1 <= q
    BY <1>1
  <2>2. (k + 1) * d <= q * d /\ (k + 1) * d = k * d + d
    BY <1>1, <2>1, Times
  <2>3. q * d \in Nat /\ k * d \in Nat
    BY <1>1, Times
  <2> QED
    BY <1>1, <2>2, <2>3
<1>4. q = k
  BY <1>1, <1>2, <1>3
<1> QED
  BY <1>4 DEF q

\* What of a multiple of d is left over when another is taken away.
LEMMA SumMod ==
  ASSUME NEW d \in Nat \ {0}, NEW x \in Nat, x % d = 0, NEW y \in 0 .. d - 1
  PROVE  (x + y) % d = y
<1>1. x \div d \in Nat /\ x = (x \div d) * d
  BY DivMod
<1>2. x + y \in Nat /\ (x + y) \div d = x \div d
  BY <1>1, DivIs
<1>3. x + y = ((x + y) \div d) * d + ((x + y) % d) /\ (x + y) % d \in 0 .. d - 1
  BY <1>2, DivMod
<1> QED
  BY <1>1, <1>2, <1>3

LEMMA Sizes ==
  /\ Block \in Nat \ {0} /\ Sector \in Nat \ {0}
  /\ Capacity \in Nat /\ BlockNumbers \in Nat /\ Timeout \in Nat
  /\ Capacity % Sector = 0 /\ Capacity + Block <= BlockNumbers * Block
  BY SizeAssumption

LEMMA SectorFacts ==
  ASSUME NEW u \in Nat
  PROVE  /\ SectorOf(u) \in Nat /\ SectorOf(u) * Sector \in Nat
         /\ SectorEnd(u) = SectorOf(u) * Sector + Sector /\ SectorEnd(u) \in Nat
         /\ SectorOf(u) * Sector <= u /\ u < SectorEnd(u)
<1> DEFINE s == SectorOf(u)
<1>1. s \in Nat /\ u = s * Sector + (u % Sector) /\ u % Sector \in 0 .. Sector - 1
  BY Sizes, DivMod DEF SectorOf
<1>2. SectorEnd(u) = (s + 1) * Sector
  BY DEF SectorEnd
<1> HIDE DEF s
<1>3. s * Sector \in Nat /\ (s + 1) * Sector = s * Sector + Sector
  BY <1>1, Sizes, Times
<1>4. s * Sector <= u /\ u < s * Sector + Sector /\ s * Sector + Sector \in Nat
  BY <1>1, <1>3, Sizes
<1>5. SectorEnd(u) = s * Sector + Sector
  BY <1>2, <1>3
<1> QED
  BY <1>1, <1>3, <1>4, <1>5 DEF s

LEMMA SameSector ==
  ASSUME NEW u \in Nat, NEW v \in Nat, SectorOf(u) * Sector <= v, v < SectorEnd(u)
  PROVE  SectorOf(v) = SectorOf(u)
<1>1. SectorOf(u) \in Nat /\ v < SectorOf(u) * Sector + Sector
  BY SectorFacts
<1>2. v \div Sector = SectorOf(u)
  BY <1>1, Sizes, DivIs
<1> QED
  BY <1>2 DEF SectorOf

LEMMA NextSector ==
  ASSUME NEW u \in Nat
  PROVE  /\ SectorOf(SectorEnd(u)) = SectorOf(u) + 1
         /\ SectorEnd(u) = SectorOf(SectorEnd(u)) * Sector
<1> DEFINE s == SectorOf(u) + 1
<1>1. SectorOf(u) \in Nat /\ s \in Nat
  BY SectorFacts
<1>2. SectorEnd(u) = s * Sector
  BY DEF SectorEnd
<1> HIDE DEF s
<1>3. s * Sector \in Nat
  BY <1>1, Sizes, Times
<1>4. (s * Sector) \div Sector = s
  BY <1>1, <1>3, Sizes, DivIs
<1>5. SectorOf(SectorEnd(u)) = s
  BY <1>2, <1>4 DEF SectorOf
<1> QED
  BY <1>2, <1>5 DEF s

\* A sector is one of the partition's exactly if it ends within it.
LEMMA WithinPartition ==
  ASSUME NEW u \in Nat
  PROVE  SectorOf(u) \in 0 .. Capacity \div Sector - 1 <=> SectorEnd(u) <= Capacity
<1> DEFINE s == SectorOf(u)
           k == Capacity \div Sector
<1>1. k \in Nat /\ Capacity = k * Sector
  BY Sizes, DivMod
<1>2. s \in Nat /\ s * Sector \in Nat /\ SectorEnd(u) = s * Sector + Sector
  BY SectorFacts
<1>3. s \in 0 .. Capacity \div Sector - 1 <=> s <= k - 1
  BY <1>1, <1>2
<1> HIDE DEF s, k
<1>4. ASSUME s <= k - 1 PROVE SectorEnd(u) <= Capacity
  <2>1. s + 1 \in Nat /\ s + 1 <= k
    BY <1>1, <1>2, <1>4
  <2>2. (s + 1) * Sector <= k * Sector /\ (s + 1) * Sector = s * Sector + Sector
    BY <1>1, <1>2, <2>1, Sizes, Times
  <2> QED
    BY <1>1, <1>2, <2>2
<1>5. ASSUME ~(s <= k - 1) PROVE ~(SectorEnd(u) <= Capacity)
  <2>1. k <= s
    BY <1>1, <1>2, <1>5
  <2>2. k * Sector <= s * Sector
    BY <1>1, <1>2, <2>1, Sizes, Times
  <2> QED
    BY <1>1, <1>2, <2>2, Sizes
<1>6. s <= k - 1 <=> SectorEnd(u) <= Capacity
  BY <1>4, <1>5
<1> QED
  BY <1>3, <1>6 DEF s

\* The host's block numbers do not come back to 0 within the partition.
LEMMA NumberIsNot0 ==
  ASSUME sent \in 1 .. Capacity
  PROVE  Number \in Nat \ {0}
<1> DEFINE b == sent + Block - 1
           n == b \div Block
<1>1. b \in Nat /\ Block <= b /\ b < Capacity + Block
  BY Sizes
<1> HIDE DEF b
<1>2. n \in Nat /\ b = n * Block + (b % Block) /\ b % Block \in 0 .. Block - 1
  BY <1>1, Sizes, DivMod
<1> HIDE DEF n
<1>3. n * Block \in Nat /\ BlockNumbers * Block \in Nat
  BY <1>2, Sizes, Times
<1>4. n # 0
  <2> SUFFICES ASSUME n = 0 PROVE FALSE
    OBVIOUS
  <2>1. n * Block = 0
    BY Sizes
  <2> QED
    BY <1>1, <1>2, <2>1, Sizes
<1>5. n < BlockNumbers
  <2> SUFFICES ASSUME BlockNumbers <= n PROVE FALSE
    BY <1>2, Sizes
  <2>1. BlockNumbers * Block <= n * Block
    BY <1>2, Sizes, Times
  <2> QED
    BY <1>1, <1>2, <1>3, <2>1, Sizes
<1>6. n % BlockNumbers = n
  BY <1>2, <1>5, Sizes
<1> QED
  BY <1>2, <1>4, <1>6 DEF Number, Blocks, n, b

\* What the host sends of an image.
LEMMA DataIs ==
  ASSUME NEW v \in Images, NEW from \in Nat, NEW n \in Nat
  PROVE  /\ Data(v, from, n) \in Seq(Pieces) /\ Len(Data(v, from, n)) = n
         /\ \A i \in 1 .. n : Data(v, from, n)[i] = <<v, from + i - 1>>
         /\ Data(v, from, n) = <<>> <=> n = 0
<1> DEFINE d == [i \in 1 .. n |-> <<v, from + i - 1>>]
<1>1. \A i \in 1 .. n : <<v, from + i - 1>> \in Pieces
  BY DEF Pieces
<1>2. d \in Seq(Pieces) /\ Len(d) = n
  BY <1>1, IsASeq
<1>3. d = <<>> <=> n = 0
  BY <1>2, EmptySeq
<1> QED
  BY <1>2, <1>3 DEF Data

---------------------------------------------------------------------------
(* The types, for every host: the steps keep DfuTypeInv.                   *)

LEMMA DfuInitTypes == DfuInit => DfuTypeInv
  BY Sizes DEF DfuInit, DfuTypeInv, DfuTypeOK, Offsets, ControlStates

\* After a reset nothing is under way.
LEMMA RestartTypes ==
  ASSUME DfuTypeInv, Restart, magic' \in {magic, "DfuDetach"}, UNCHANGED <<flash,
           marked>>
  PROVE  DfuTypeInv'
<1>1. mode' \in {"app", "dfu", "swap"}
  BY DEF Restart
<1>2. DfuTypeOK'
  BY <1>1, Sizes, SMTT(30) DEF Restart, DfuTypeInv, DfuTypeOK, ControlStates
<1>3. Offsets'
  BY DEF Restart, Offsets
<1> QED
  BY <1>2, <1>3 DEF DfuTypeInv

LEMMA PowerFailsTypes ==
  ASSUME DfuTypeInv, PowerFails
  PROVE  DfuTypeInv'
  BY RestartTypes DEF PowerFails

LEMMA SwapTypes ==
  ASSUME DfuTypeInv, Swap
  PROVE  DfuTypeInv'
<1>1. DfuTypeOK'
  BY DEF Swap, controlVars, updaterVars, hostVars, DfuTypeInv, DfuTypeOK
<1>2. mode = "swap" /\ UNCHANGED <<step, state, offset, sent>>
  BY DEF Swap, controlVars, updaterVars, hostVars
<1>3. Offsets'
  BY <1>2 DEF DfuTypeInv, Offsets
<1> QED
  BY <1>1, <1>3 DEF DfuTypeInv

LEMMA ApplicationDoes ==
  ASSUME DfuTypeInv, Application
  PROVE  /\ mode = "app" /\ mode' = "app" /\ step = "ready"
         /\ step' \in {"ready", "erase_state"}
         /\ window' \in 0 .. Timeout
         /\ UNCHANGED <<magic, flash, controlVars, lastErased, at, len, hostVars,
              marked>>
  BY Sizes DEF Application, Detach, UsbReset, Tick, MarkDetached, updaterVars,
     DfuTypeInv, DfuTypeOK

LEMMA ApplicationTypes ==
  ASSUME DfuTypeInv, Application
  PROVE  DfuTypeInv'
<1>1. DfuTypeOK'
  BY ApplicationDoes DEF controlVars, hostVars, DfuTypeInv, DfuTypeOK
<1>2. Offsets'
  BY ApplicationDoes DEF controlVars, hostVars, DfuTypeInv, Offsets
<1> QED
  BY <1>1, <1>2 DEF DfuTypeInv

LEMMA EraseStateTypes ==
  ASSUME DfuTypeInv, EraseState
  PROVE  DfuTypeInv'
<1>1. DfuTypeOK'
  BY DEF EraseState, controlVars, hostVars, DfuTypeInv, DfuTypeOK
<1>2. Offsets'
  BY DEF EraseState, Offsets
<1> QED
  BY <1>1, <1>2 DEF DfuTypeInv

LEMMA WriteDfuMagicTypes ==
  ASSUME DfuTypeInv, WriteDfuMagic
  PROVE  DfuTypeInv'
<1>1. CASE mode = "app"
  BY <1>1, RestartTypes DEF WriteDfuMagic
<1>2. CASE mode # "app"
  <2>1. DfuTypeOK'
    BY <1>2 DEF WriteDfuMagic, hostVars, DfuTypeInv, DfuTypeOK, ControlStates
  <2>2. Offsets'
    BY <1>2 DEF WriteDfuMagic, Offsets
  <2> QED
    BY <2>1, <2>2 DEF DfuTypeInv
<1> QED
  BY <1>1, <1>2

LEMMA ResetStateTypes ==
  ASSUME DfuTypeInv, ResetState
  PROVE  DfuTypeInv'
<1>1. DfuTypeOK'
  BY Sizes DEF ResetState, UnchangedByRequest, hostVars, DfuTypeInv, DfuTypeOK,
     ControlStates
<1>2. Offsets'
  BY DEF ResetState, Dfu, Offsets
<1> QED
  BY <1>1, <1>2 DEF DfuTypeInv

LEMMA GetStatusTypes ==
  ASSUME DfuTypeInv, GetStatus
  PROVE  DfuTypeInv'
<1>1. CASE state = "ManifestSync" /\ PowerFails
  BY <1>1, PowerFailsTypes
<1>2. CASE /\ state = "DlSync" /\ state' = "Download"
           /\ UNCHANGED <<status, offset, buf, step, at, len, hostVars>>
           /\ UnchangedByRequest
  <2>1. DfuTypeOK'
    BY <1>2 DEF UnchangedByRequest, hostVars, DfuTypeInv, DfuTypeOK, ControlStates
  <2>2. Offsets'
    BY <1>2 DEF GetStatus, Dfu, hostVars, DfuTypeInv, Offsets
  <2> QED
    BY <2>1, <2>2 DEF DfuTypeInv
<1> QED
  BY <1>1, <1>2 DEF GetStatus

\* The four ends of a DFU_DNLOAD.
DnloadFits(value, data) == Takes(value) /\ Len(data) <= Block
Refused == state' = "Error" /\ status' = "ErrUnknown" /\ UNCHANGED <<step, at, len>>
AlreadyMarked ==
    /\ magic = "Swap" /\ state' = "ManifestSync" /\ status' = "Ok"
    /\ UNCHANGED <<step, at, len>>
ToBeMarked ==
    state' = "Download" /\ step' = "erase_state" /\ UNCHANGED <<status, at, len>>
ToBeWritten(from, n) ==
    /\ magic # "Swap"
    /\ state' = "Download" /\ step' = "erase" /\ at' = from /\ len' = n
    /\ UNCHANGED status

LEMMA DnloadEnds ==
  ASSUME NEW value, NEW data, Dnload(value, data)
  PROVE  /\ Dfu /\ UnchangedByRequest
         /\ offset' = IF value = 0 THEN 0 ELSE offset
         /\ \/ Refused
            \/ DnloadFits(value, data) /\ data = <<>> /\ (AlreadyMarked \/ ToBeMarked)
            \/ /\ DnloadFits(value, data) /\ data # <<>>
               /\ ToBeWritten(IF value = 0 THEN 0 ELSE offset, Len(data))
<1>1. DnloadFits(value, data) \/ ~DnloadFits(value, data)
  OBVIOUS
<1> QED
  BY <1>1 DEF Dnload, DnloadFits, Refused, AlreadyMarked, ToBeMarked, ToBeWritten,
     Fail, StateVerified

\* The buffer takes the data, and keeps what lies behind it.
LEMMA BufferTakes ==
  ASSUME DfuTypeInv, NEW value, NEW data \in Seq(Pieces), Dnload(value, data)
  PROVE  /\ DOMAIN buf' = 0 .. Block - 1
         /\ \A i \in 0 .. Block - 1 : buf'[i] \in Pieces \cup {Zero}
         /\ DnloadFits(value, data)
              => \A i \in 0 .. Len(data) - 1 : buf'[i] = data[i + 1]
<1>1. DOMAIN buf = 0 .. Block - 1
      /\ \A i \in 0 .. Block - 1 : buf[i] \in Pieces \cup {Zero}
  BY DEF DfuTypeInv, DfuTypeOK
<1>2. Len(data) \in Nat /\ Block \in Nat
  BY Sizes, LenProperties
<1>3. CASE ~DnloadFits(value, data)
  BY <1>1, <1>3 DEF Dnload, DnloadFits
<1>4. CASE DnloadFits(value, data)
  <2>1. buf' = [i \in 0 .. Block - 1 |->
               IF i < Len(data) THEN data[i + 1] ELSE buf[i]]
    BY <1>4 DEF Dnload, DnloadFits
  <2>2. Len(data) <= Block
    BY <1>4 DEF DnloadFits
  <2>3. \A i \in 0 .. Len(data) - 1 : i + 1 \in 1 .. Len(data)
        /\ data[i + 1] \in Pieces
    BY <1>2, ElementOfSeq
  <2> QED
    BY <1>1, <1>2, <2>1, <2>2, <2>3
<1> QED
  BY <1>3, <1>4

LEMMA DnloadTypes ==
  ASSUME DfuTypeInv, NEW value, NEW data \in Seq(Pieces), Dnload(value, data),
         image' \in Images, length' \in Lengths, sent' \in 0 .. Capacity
  PROVE  DfuTypeOK'
<1>1. /\ Dfu /\ UnchangedByRequest
      /\ offset' = IF value = 0 THEN 0 ELSE offset
      /\ \/ Refused
         \/ DnloadFits(value, data) /\ data = <<>> /\ (AlreadyMarked \/ ToBeMarked)
         \/ /\ DnloadFits(value, data) /\ data # <<>>
            /\ ToBeWritten(IF value = 0 THEN 0 ELSE offset, Len(data))
  BY DnloadEnds
<1>2. offset \in 0 .. Capacity /\ offset' \in 0 .. Capacity /\ Capacity \in Nat
      /\ Block \in Nat
  BY <1>1, Sizes DEF DfuTypeInv, DfuTypeOK
<1>3. /\ state' \in ControlStates /\ status' \in {"Ok", "ErrUnknown", "ErrAddress"}
      /\ step' \in {"ready", "erase", "write", "erase_state", "write_magic"}
  BY <1>1 DEF Refused, AlreadyMarked, ToBeMarked, ToBeWritten, DfuTypeInv, DfuTypeOK,
     ControlStates
<1>4. at' \in 0 .. Capacity + Block /\ len' \in 0 .. Block
  <2>1. CASE UNCHANGED <<at, len>>
    BY <2>1 DEF DfuTypeInv, DfuTypeOK
  <2>2. CASE DnloadFits(value, data) /\ at' \in {0, offset} /\ len' = Len(data)
    <3>1. Len(data) \in Nat /\ Len(data) <= Block
      BY <2>2, LenProperties DEF DnloadFits
    <3> QED
      BY <1>2, <2>2, <3>1
  <2> QED
    BY <1>1, <2>1, <2>2 DEF Refused, AlreadyMarked, ToBeMarked, ToBeWritten
<1>5. DOMAIN buf' = 0 .. Block - 1
      /\ \A i \in DOMAIN buf' : buf'[i] \in Pieces \cup {Zero}
  BY BufferTakes
<1> QED
  BY <1>1, <1>2, <1>3, <1>4, <1>5 DEF UnchangedByRequest, DfuTypeInv, DfuTypeOK

\* The updater begins where the handler is.
LEMMA BlockBegins ==
  ASSUME DfuTypeOK', Dfu, UnchangedByRequest, NEW from, NEW n \in 1 .. Block,
         ToBeWritten(from, n), offset' = from, sent' = from
  PROVE  Offsets'
<1>1. /\ mode' = "dfu" /\ step' = "erase" /\ at' = from /\ len' \in 1 .. Block
  BY DEF Dfu, UnchangedByRequest, ToBeWritten
<1>2. from \in Nat /\ Block \in Nat \ {0}
  BY Sizes DEF DfuTypeOK
<1>3. from <= from /\ from < from + Block
  BY <1>2
<1> QED
  BY <1>1, <1>3 DEF Offsets

\* A request that is refused, or that only has to be marked, leaves no offset.
LEMMA NoBlock ==
  ASSUME Dfu, Refused \/ AlreadyMarked \/ ToBeMarked
  PROVE  Offsets'
  BY DEF Dfu, Refused, AlreadyMarked, ToBeMarked, Offsets

\* What the first block of a download holds.
LEMMA FirstBlock ==
  ASSUME NEW v \in Images, NEW n \in Lengths, DnloadFirst(v, n)
  PROVE  \E m \in 1 .. Block, data \in Seq(Pieces) :
           /\ Dnload(0, data) /\ (RestartsAnywhere \/ lastErased # 0)
           /\ image' = v /\ length' = n /\ sent' = 0
           /\ Len(data) = m /\ data # <<>>
              /\ \A i \in 1 .. m : data[i] = <<v, 0 + i - 1>>
<1> DEFINE m == Smaller(n, Block)
           data == Data(v, 0, m)
<1>1. /\ Dnload(0, data) /\ (RestartsAnywhere \/ lastErased # 0)
      /\ image' = v /\ length' = n /\ sent' = 0
  BY DEF DnloadFirst
<1>2. m \in 1 .. Block
  BY Sizes, LengthAssumption DEF Smaller
<1> HIDE DEF m
<1>3. /\ data \in Seq(Pieces) /\ Len(data) = m /\ data # <<>>
      /\ \A i \in 1 .. m : data[i] = <<v, 0 + i - 1>>
  <2>1. 0 \in Nat /\ m \in Nat /\ m # 0
    BY <1>2, Sizes
  <2> QED
    BY <2>1, DataIs
<1> HIDE DEF data
<1> QED
  BY <1>1, <1>2, <1>3

LEMMA DnloadFirstTypes ==
  ASSUME DfuTypeInv, NEW v \in Images, NEW n \in Lengths, DnloadFirst(v, n)
  PROVE  DfuTypeInv'
<1>1. PICK m \in 1 .. Block, data \in Seq(Pieces) :
         /\ Dnload(0, data) /\ image' = v /\ length' = n /\ sent' = 0
         /\ Len(data) = m /\ data # <<>>
  BY FirstBlock
<1>2. DfuTypeOK'
  BY <1>1, Sizes, DnloadTypes
<1>3. Dfu /\ UnchangedByRequest /\ offset' = 0 /\ (Refused \/ ToBeWritten(0, m))
  BY <1>1, DnloadEnds
<1>4. Offsets'
  BY <1>1, <1>2, <1>3, BlockBegins, NoBlock
<1> QED
  BY <1>2, <1>4 DEF DfuTypeInv

\* What a later block of a download holds.
LEMMA LaterBlock ==
  ASSUME DfuTypeInv, DnloadNext
  PROVE  \E m \in 1 .. Block, data \in Seq(Pieces) :
           /\ Dnload(Number, data) /\ Number # 0
           /\ sent \in 1 .. Capacity /\ sent % Block = 0
           /\ image' = image /\ length' = length /\ sent' = sent
           /\ Len(data) = m /\ data # <<>>
              /\ \A i \in 1 .. m : data[i] = <<image, sent + i - 1>>
<1> DEFINE m == Smaller(length - sent, Block)
           data == Data(image, sent, m)
<1>1. Dnload(Number, data) /\ sent \in 1 .. length - 1 /\ sent % Block = 0
      /\ UNCHANGED hostVars
  BY DEF DnloadNext
<1>2. /\ image \in Images /\ length \in Nat /\ sent \in 1 .. Capacity
      /\ image' = image /\ length' = length /\ sent' = sent
  BY <1>1, LengthAssumption, Sizes DEF DfuTypeInv, DfuTypeOK, hostVars
<1>3. m \in 1 .. Block
  BY <1>1, <1>2, Sizes DEF Smaller
<1>4. Number # 0
  BY <1>2, NumberIsNot0
<1> HIDE DEF m
<1>5. /\ data \in Seq(Pieces) /\ Len(data) = m /\ data # <<>>
      /\ \A i \in 1 .. m : data[i] = <<image, sent + i - 1>>
  <2>1. sent \in Nat /\ m \in Nat /\ m # 0
    BY <1>2, <1>3, Sizes
  <2> QED
    BY <1>2, <2>1, DataIs
<1> HIDE DEF data
<1> QED
  BY <1>1, <1>2, <1>3, <1>4, <1>5

LEMMA DnloadNextTypes ==
  ASSUME DfuTypeInv, DnloadNext
  PROVE  DfuTypeInv'
<1>1. PICK m \in 1 .. Block, data \in Seq(Pieces) :
         /\ Dnload(Number, data) /\ Number # 0
         /\ image' = image /\ length' = length /\ sent' = sent
         /\ Len(data) = m /\ data # <<>>
  BY LaterBlock
<1>2. image' \in Images /\ length' \in Lengths /\ sent' \in 0 .. Capacity
  BY <1>1 DEF DfuTypeInv, DfuTypeOK
<1>3. DfuTypeOK'
  BY <1>1, <1>2, DnloadTypes
<1>4. /\ Dfu /\ UnchangedByRequest /\ offset' = offset
      /\ Refused \/ (DnloadFits(Number, data) /\ ToBeWritten(offset, m))
  BY <1>1, DnloadEnds
<1>5. CASE Refused
  BY <1>3, <1>4, <1>5, NoBlock DEF DfuTypeInv
<1>6. CASE DnloadFits(Number, data) /\ ToBeWritten(offset, m)
  <2>1. offset = sent
    BY <1>1, <1>4, <1>6 DEF DnloadFits, Takes, Dfu, DfuTypeInv, Offsets
  <2>2. Offsets'
    BY <1>1, <1>3, <1>4, <1>6, <2>1, BlockBegins
  <2> QED
    BY <1>3, <2>2 DEF DfuTypeInv
<1> QED
  BY <1>4, <1>5, <1>6

\* More than a block is refused.
LEMMA TooLong ==
  ASSUME DfuTypeInv, DnloadTooLong
  PROVE  /\ \E data \in Seq(Pieces) : Dnload(Number, data)
         /\ Dfu /\ UnchangedByRequest /\ Refused /\ UNCHANGED hostVars
<1> DEFINE data == Data(image, sent, Block + 1)
<1>1. Dnload(Number, data) /\ UNCHANGED hostVars
  BY DEF DnloadTooLong
<1>2. data \in Seq(Pieces) /\ Len(data) = Block + 1
  <2>1. image \in Images /\ sent \in Nat /\ Block + 1 \in Nat
    BY Sizes DEF DfuTypeInv, DfuTypeOK
  <2> QED
    BY <2>1, DataIs
<1> HIDE DEF data
<1>3. ~DnloadFits(Number, data)
  BY <1>2, Sizes DEF DnloadFits
<1> QED
  BY <1>1, <1>2, <1>3, DnloadEnds

LEMMA DnloadTooLongTypes ==
  ASSUME DfuTypeInv, DnloadTooLong
  PROVE  DfuTypeInv'
<1>1. image' \in Images /\ length' \in Lengths /\ sent' \in 0 .. Capacity
  BY TooLong DEF DfuTypeInv, DfuTypeOK, hostVars
<1>2. DfuTypeOK'
  BY <1>1, TooLong, DnloadTypes
<1> QED
  BY <1>2, TooLong, NoBlock DEF DfuTypeInv

LEMMA DnloadFinalTypes ==
  ASSUME DfuTypeInv, DnloadFinal
  PROVE  DfuTypeInv'
<1>1. Dnload(Number, <<>>) /\ UNCHANGED hostVars
  BY DEF DnloadFinal
<1>2. <<>> \in Seq(Pieces)
  BY EmptySeq
<1>3. image' \in Images /\ length' \in Lengths /\ sent' \in 0 .. Capacity
  BY <1>1 DEF DfuTypeInv, DfuTypeOK, hostVars
<1>4. DfuTypeOK'
  BY <1>1, <1>2, <1>3, DnloadTypes
<1>5. Dfu /\ (Refused \/ AlreadyMarked \/ ToBeMarked)
  BY <1>1, DnloadEnds
<1> QED
  BY <1>4, <1>5, NoBlock DEF DfuTypeInv

LEMMA EraseSectorTypes ==
  ASSUME DfuTypeInv, EraseSector
  PROVE  DfuTypeInv'
<1>1. /\ step = "erase"
      /\ UNCHANGED <<mode, magic, window, offset, buf, at, len, image, length, sent,
           marked>>
  BY DEF EraseSector, hostVars
<1>2. /\ at \in Nat /\ DOMAIN flash = 0 .. Capacity - 1
      /\ \A u \in DOMAIN flash : flash[u] \in Pieces \cup {Zero, Erased, Mixed}
  BY Sizes DEF DfuTypeInv, DfuTypeOK
<1>3. CASE ~NeedErase
  <2>1. step' = "write" /\ UNCHANGED <<flash, lastErased, state, status>>
    BY <1>3 DEF EraseSector
  <2>2. DfuTypeOK'
    BY <1>1, <2>1 DEF DfuTypeInv, DfuTypeOK
  <2>3. lastErased' = SectorOf(at)
    BY <1>3, <2>1 DEF NeedErase
  <2> QED
    BY <1>1, <2>1, <2>2, <2>3 DEF DfuTypeInv, Offsets, SectorOf
<1>4. CASE NeedErase /\ OutOfBounds
  <2>1. step' = "ready" /\ state' = "Error" /\ status' = "ErrAddress"
        /\ UNCHANGED <<flash, lastErased>>
    BY <1>4 DEF EraseSector, WriteFails, Fail
  <2>2. DfuTypeOK'
    BY <1>1, <2>1 DEF DfuTypeInv, DfuTypeOK, ControlStates
  <2> QED
    BY <2>1, <2>2 DEF DfuTypeInv, Offsets
<1>5. CASE NeedErase /\ ~OutOfBounds
  <2>1. /\ step' = "write" /\ lastErased' = SectorOf(at)
           /\ UNCHANGED <<state, status>>
        /\ flash' = [u \in DOMAIN flash |->
                        IF SectorOf(u) = SectorOf(at) THEN Erased ELSE flash[u]]
    BY <1>5 DEF EraseSector
  <2>2. SectorEnd(at) <= Capacity
    <3>1. SectorEnd(at) \in Nat /\ Capacity \in Nat
      BY <1>2, SectorFacts, Sizes
    <3> QED
      BY <1>5, <3>1 DEF OutOfBounds
  <2>3. lastErased' \in 0 .. Capacity \div Sector - 1
    BY <1>2, <2>1, <2>2, WithinPartition
  <2>4. /\ DOMAIN flash' = 0 .. Capacity - 1
        /\ \A u \in DOMAIN flash' : flash'[u] \in Pieces \cup {Zero, Erased, Mixed}
    BY <1>2, <2>1
  <2>5. DfuTypeOK'
    BY <1>1, <2>1, <2>3, <2>4 DEF DfuTypeInv, DfuTypeOK
  <2> QED
    BY <1>1, <2>1, <2>5 DEF DfuTypeInv, Offsets, SectorOf
<1> QED
  BY <1>3, <1>4, <1>5

\* A chunk ends with the block or with the sector, and the sector is one of the
\* partition's.
LEMMA ChunkFacts ==
  ASSUME DfuTypeInv, step = "write"
  PROVE  /\ SectorEnd(at) \in Nat /\ at < SectorEnd(at) /\ SectorEnd(at) <= Capacity
         /\ ChunkEnd \in Nat /\ at < ChunkEnd /\ ChunkEnd <= offset + Block
         /\ ChunkEnd <= SectorEnd(at) /\ ChunkEnd \in {offset + Block, SectorEnd(at)}
<1>1. at \in Nat /\ at < offset + Block /\ offset \in Nat /\ Block \in Nat
      /\ lastErased = SectorOf(at)
  BY Sizes DEF DfuTypeInv, DfuTypeOK, Offsets
<1>2. SectorOf(at) # None
  BY <1>1, SectorFacts, NoSectorAssumption
<1>3. SectorOf(at) \in 0 .. Capacity \div Sector - 1
  BY <1>1, <1>2 DEF DfuTypeInv, DfuTypeOK
<1>4. SectorEnd(at) \in Nat /\ at < SectorEnd(at) /\ SectorEnd(at) <= Capacity
  BY <1>1, <1>3, SectorFacts, WithinPartition, Sizes
<1> QED
  BY <1>1, <1>4 DEF ChunkEnd

LEMMA WriteChunkTypes ==
  ASSUME DfuTypeInv, WriteChunk
  PROVE  DfuTypeInv'
<1>1. /\ step = "write" /\ at' = ChunkEnd
      /\ flash' = [u \in DOMAIN flash |->
                      IF u \notin at .. ChunkEnd - 1 THEN flash[u]
                      ELSE IF flash[u] = Erased THEN buf[u - offset] ELSE Mixed]
      /\ UNCHANGED <<mode, magic, window, buf, lastErased, len, image, length,
           marked>>
  BY DEF WriteChunk
<1>2. /\ mode = "dfu" /\ offset = sent /\ offset <= at /\ len \in 1 .. Block
  BY <1>1 DEF DfuTypeInv, Offsets
<1>3. /\ at \in Nat /\ offset \in 0 .. Capacity /\ DOMAIN flash = 0 .. Capacity - 1
      /\ \A u \in DOMAIN flash : flash[u] \in Pieces \cup {Zero, Erased, Mixed}
      /\ DOMAIN buf = 0 .. Block - 1
         /\ \A i \in DOMAIN buf : buf[i] \in Pieces \cup {Zero}
      /\ Capacity \in Nat /\ Block \in Nat \ {0}
  BY Sizes DEF DfuTypeInv, DfuTypeOK
<1>4. /\ DOMAIN flash' = 0 .. Capacity - 1
      /\ \A u \in DOMAIN flash' : flash'[u] \in Pieces \cup {Zero, Erased, Mixed}
  <2>1. DOMAIN flash' = DOMAIN flash
    BY <1>1
  <2>2. ASSUME NEW u \in DOMAIN flash PROVE flash'[u] \in Pieces \cup {Zero, Erased,
                 Mixed}
    <3>1. CASE u \in at .. ChunkEnd - 1
      <4>1. u - offset \in 0 .. Block - 1
        BY <1>1, <1>2, <1>3, <3>1, ChunkFacts
      <4> QED
        BY <1>1, <1>3, <4>1
    <3>2. CASE u \notin at .. ChunkEnd - 1
      BY <1>1, <1>3, <3>2
    <3> QED
      BY <3>1, <3>2
  <2> QED
    BY <1>3, <2>1, <2>2
<1>5. at' \in 0 .. Capacity + Block
  BY <1>1, <1>3, ChunkFacts
<1>6. CASE ChunkEnd = offset + Block
  <2>1. /\ step' = "ready" /\ state' = "DlSync" /\ status' = "Ok"
        /\ offset' = offset + len /\ sent' = sent + len
    BY <1>1, <1>6 DEF WriteChunk, BlockWritten
  <2>2. offset + len \in 0 .. Capacity
    BY <1>1, <1>2, <1>3, <1>6, ChunkFacts
  <2>3. DfuTypeOK'
    BY <1>1, <1>2, <1>4, <1>5, <2>1, <2>2 DEF DfuTypeInv, DfuTypeOK, ControlStates
  <2> QED
    BY <1>2, <2>1, <2>3 DEF DfuTypeInv, Offsets
<1>7. CASE ChunkEnd # offset + Block
  <2>1. step' = "erase" /\ UNCHANGED <<state, status, offset, sent>>
    BY <1>7 DEF WriteChunk
  <2>2. DfuTypeOK'
    BY <1>1, <1>4, <1>5, <2>1 DEF DfuTypeInv, DfuTypeOK
  <2>3. offset <= ChunkEnd /\ ChunkEnd < offset + Block
    BY <1>1, <1>2, <1>3, <1>7, ChunkFacts
  <2> QED
    BY <1>1, <1>2, <2>1, <2>2, <2>3 DEF DfuTypeInv, Offsets
<1> QED
  BY <1>6, <1>7

LEMMA DfuTypesInductive == DfuTypeInv /\ [DfuNext]_dfuVars => DfuTypeInv'
<1> SUFFICES ASSUME DfuTypeInv, [DfuNext]_dfuVars PROVE DfuTypeInv'
  OBVIOUS
<1>1. CASE Device
  BY <1>1, EraseStateTypes, WriteDfuMagicTypes, EraseSectorTypes, WriteChunkTypes,
     SwapTypes
  DEF Device
<1>2. CASE Confused
  BY <1>2, ResetStateTypes, GetStatusTypes, DnloadFirstTypes, DnloadNextTypes,
     DnloadTooLongTypes, DnloadFinalTypes DEF Confused
<1>3. CASE Application \/ PowerFails
  BY <1>3, ApplicationTypes, PowerFailsTypes
<1>4. CASE UNCHANGED dfuVars
  BY <1>4
     DEF dfuVars, controlVars, updaterVars, hostVars, DfuTypeInv, DfuTypeOK, Offsets,
     SectorOf
<1> QED
  BY <1>1, <1>2, <1>3, <1>4 DEF DfuNext

\* Whatever the host sends and in whatever order, from whatever block it starts
\* again, and wherever power fails, the handler's offsets and the updater's
\* sectors stay within the partition (dfu.rs, write_firmware).
THEOREM DfuTypeCorrect == DfuSpec => []DfuTypeOK
<1>1. DfuTypeInv => DfuTypeOK
  BY DEF DfuTypeInv
<1> QED
  BY <1>1, DfuInitTypes, DfuTypesInductive, PTL DEF DfuSpec, DfuSafety

---------------------------------------------------------------------------
(* The data, for hosts that do not start again in the sector that was      *)
(* erased last.                                                            *)

LEMMA DfuInitInv == DfuInit => DfuInv
  BY DfuInitTypes
     DEF DfuInit, DfuInv, DfuDataInv, BetweenBlocks, InBlock, Marking, MarkedAsSent

\* After a reset nothing is under way, and what is marked is in the flash.
LEMMA RestartStep ==
  ASSUME DfuInv, Restart, magic' \in {magic, "DfuDetach"}, UNCHANGED <<flash, marked>>
  PROVE  DfuDataInv'
<1>1. BetweenBlocks' /\ InBlock' /\ Marking'
  BY DEF Restart, BetweenBlocks, InBlock, Marking
<1>2. MarkedAsSent'
  BY DEF DfuInv, DfuDataInv, MarkedAsSent
<1> QED
  BY <1>1, <1>2 DEF DfuDataInv

LEMMA PowerFailsStep ==
  ASSUME DfuInv, PowerFails
  PROVE  DfuDataInv'
  BY RestartStep DEF PowerFails

LEMMA SwapStep ==
  ASSUME DfuInv, Swap
  PROVE  DfuDataInv'
<1>1. mode' = "app" /\ step' = "ready" /\ state' = "DfuIdle" /\ magic' = "Boot"
  BY DEF Swap, controlVars, updaterVars, DfuInv, DfuDataInv, Marking
<1> QED
  BY <1>1 DEF DfuDataInv, BetweenBlocks, InBlock, Marking, MarkedAsSent

\* What the application does leaves the partition alone.
LEMMA ApplicationStep ==
  ASSUME DfuInv, Application
  PROVE  DfuDataInv'
<1>1. /\ mode = "app" /\ mode' = "app" /\ step' \in {"ready", "erase_state"}
      /\ UNCHANGED <<magic, flash, state, marked>>
  BY ApplicationDoes DEF DfuInv, controlVars
<1>2. state' = "DfuIdle"
  BY <1>1 DEF DfuInv, DfuDataInv, Marking
<1>3. MarkedAsSent'
  BY <1>1 DEF DfuInv, DfuDataInv, MarkedAsSent
<1> QED
  BY <1>1, <1>2, <1>3 DEF DfuDataInv, BetweenBlocks, InBlock, Marking

LEMMA EraseStateStep ==
  ASSUME DfuInv, EraseState
  PROVE  DfuDataInv'
<1>1. step = "erase_state" /\ step' = "write_magic" /\ magic' = "Erased"
      /\ UNCHANGED <<mode, flash, state, image, sent>>
  BY DEF EraseState, controlVars, hostVars
<1>2. Marking'
  BY <1>1 DEF DfuInv, DfuDataInv, Marking, Landed
<1> QED
  BY <1>1, <1>2 DEF DfuDataInv, BetweenBlocks, InBlock, MarkedAsSent

\* The device marks what it has taken.
LEMMA WriteDfuMagicStep ==
  ASSUME DfuInv, WriteDfuMagic
  PROVE  DfuDataInv'
<1>1. CASE mode = "app"
  BY <1>1, RestartStep DEF WriteDfuMagic
<1>2. CASE mode # "app"
  <2>1. /\ step = "write_magic" /\ step' = "ready" /\ state' = "ManifestSync"
           /\ magic' = "Swap"
        /\ marked' = <<image, sent>>
        /\ UNCHANGED <<mode, flash, image, sent>>
    BY <1>2 DEF WriteDfuMagic, hostVars
  <2>2. mode = "dfu"
    BY <1>2, <2>1 DEF DfuInv, DfuTypeInv, DfuTypeOK, DfuDataInv, Marking
  <2>3. Landed(sent)
    BY <2>1, <2>2 DEF DfuInv, DfuDataInv, Marking
  <2>4. MarkedAsSent'
    BY <2>1, <2>3 DEF MarkedAsSent, Landed
  <2> QED
    BY <2>1, <2>2, <2>4 DEF DfuDataInv, BetweenBlocks, InBlock, Marking
<1> QED
  BY <1>1, <1>2

LEMMA ResetStateStep ==
  ASSUME DfuInv, ResetState
  PROVE  DfuDataInv'
<1>1. /\ mode = "dfu" /\ step = "ready" /\ step' = "ready" /\ state' = "DfuIdle"
      /\ UNCHANGED <<mode, magic, flash, marked>>
  BY DEF ResetState, Dfu, UnchangedByRequest
<1>2. MarkedAsSent'
  BY <1>1 DEF DfuInv, DfuDataInv, MarkedAsSent
<1> QED
  BY <1>1, <1>2 DEF DfuDataInv, BetweenBlocks, InBlock, Marking

LEMMA GetStatusStep ==
  ASSUME DfuInv, GetStatus
  PROVE  DfuDataInv'
<1>1. CASE state = "ManifestSync" /\ PowerFails
  BY <1>1, PowerFailsStep
<1>2. CASE /\ state = "DlSync" /\ state' = "Download"
           /\ UNCHANGED <<status, offset, buf, step, at, len, hostVars>>
           /\ UnchangedByRequest
  <2>1. /\ mode = "dfu" /\ step = "ready"
        /\ UNCHANGED <<mode, magic, flash, lastErased, marked, step, image, sent>>
    BY <1>2 DEF GetStatus, Dfu, UnchangedByRequest, hostVars
  <2>2. BetweenBlocks'
    BY <1>2, <2>1 DEF DfuInv, DfuDataInv, BetweenBlocks, Landed, Writable
  <2>3. MarkedAsSent'
    BY <2>1 DEF DfuInv, DfuDataInv, MarkedAsSent
  <2> QED
    BY <2>1, <2>2, <2>3 DEF DfuDataInv, InBlock, Marking
<1> QED
  BY <1>1, <1>2 DEF GetStatus

\* A request that is refused, or that asks for what is done, changes nothing
\* that the invariant speaks of.
LEMMA RefusedStep ==
  ASSUME DfuInv, Dfu, UnchangedByRequest, Refused \/ AlreadyMarked
  PROVE  DfuDataInv'
<1>1. /\ mode = "dfu" /\ mode' = "dfu" /\ step = "ready" /\ step' = "ready"
      /\ state' \in {"Error", "ManifestSync"} /\ UNCHANGED <<magic, flash, marked>>
  BY DEF Dfu, UnchangedByRequest, Refused, AlreadyMarked
<1>2. MarkedAsSent'
  BY <1>1 DEF DfuInv, DfuDataInv, MarkedAsSent
<1> QED
  BY <1>1, <1>2 DEF DfuDataInv, BetweenBlocks, InBlock, Marking

LEMMA DnloadFirstStep ==
  ASSUME DfuInv, ~RestartsAnywhere, NEW v \in Images, NEW n \in Lengths,
           DnloadFirst(v, n)
  PROVE  DfuDataInv'
<1>1. PICK m \in 1 .. Block, data \in Seq(Pieces) :
         /\ Dnload(0, data) /\ lastErased # 0
         /\ image' = v /\ length' = n /\ sent' = 0
         /\ Len(data) = m /\ data # <<>>
            /\ \A i \in 1 .. m : data[i] = <<v, 0 + i - 1>>
  BY FirstBlock
<1>2. Dfu /\ UnchangedByRequest /\ offset' = 0 /\ (Refused \/ ToBeWritten(0, m))
  BY <1>1, DnloadEnds
<1>3. CASE Refused
  BY <1>2, <1>3, RefusedStep
<1>4. CASE ToBeWritten(0, m)
  <2>1. /\ mode = "dfu" /\ mode' = "dfu" /\ magic' = magic /\ magic # "Swap"
        /\ step' = "erase" /\ at' = 0 /\ len' = m /\ lastErased' = lastErased
    BY <1>2, <1>4 DEF Dfu, UnchangedByRequest, ToBeWritten
  <2>2. DnloadFits(0, data)
    BY <1>1, Sizes DEF DnloadFits, Takes
  <2>3. \A i \in 0 .. m - 1 : buf'[i] = <<v, 0 + i>>
    <3>1. \A i \in 0 .. m - 1 : buf'[i] = data[i + 1]
      BY <1>1, <2>2, BufferTakes DEF DfuInv
    <3>2. \A i \in 0 .. m - 1 : i + 1 \in 1 .. m /\ 0 + (i + 1) - 1 = 0 + i
      BY Sizes
    <3> QED
      BY <1>1, <3>1, <3>2
  <2>4. 0 \div Sector = 0 /\ 0 % Block = 0
    BY Sizes, DivIs
  <2>5. SectorOf(0) = 0
    BY <2>4 DEF SectorOf
  <2>6. Writable(0)'
    BY <1>1, <2>1, <2>5, Sizes DEF Writable
  <2>7. InBlock'
    BY <1>1, <1>2, <2>1, <2>3, <2>4, <2>6, Sizes DEF InBlock
  <2> QED
    BY <2>1, <2>7 DEF DfuDataInv, BetweenBlocks, Marking, MarkedAsSent
<1> QED
  BY <1>2, <1>3, <1>4

\* A block comes where the one before it ended, or is refused.
LEMMA DnloadNextStep ==
  ASSUME DfuInv, DnloadNext
  PROVE  DfuDataInv'
<1>1. PICK m \in 1 .. Block, data \in Seq(Pieces) :
         /\ Dnload(Number, data) /\ Number # 0
         /\ sent \in 1 .. Capacity /\ sent % Block = 0
         /\ image' = image /\ length' = length /\ sent' = sent
         /\ Len(data) = m /\ data # <<>>
            /\ \A i \in 1 .. m : data[i] = <<image, sent + i - 1>>
  BY LaterBlock DEF DfuInv
<1>2. /\ Dfu /\ UnchangedByRequest /\ offset' = offset
      /\ Refused \/ (DnloadFits(Number, data) /\ ToBeWritten(offset, m))
  BY <1>1, DnloadEnds
<1>3. CASE Refused
  BY <1>2, <1>3, RefusedStep
<1>4. CASE DnloadFits(Number, data) /\ ToBeWritten(offset, m)
  <2>1. /\ mode = "dfu" /\ mode' = "dfu" /\ magic' = magic /\ magic # "Swap"
        /\ step = "ready" /\ step' = "erase" /\ at' = offset /\ len' = m
        /\ lastErased' = lastErased /\ flash' = flash
    BY <1>2, <1>4 DEF Dfu, UnchangedByRequest, ToBeWritten
  <2>2. state = "Download"
    BY <1>1, <1>4 DEF DnloadFits, Takes
  <2>3. offset = sent /\ Landed(sent) /\ Writable(sent)
    BY <1>1, <2>1, <2>2 DEF DfuInv, DfuTypeInv, Offsets, DfuDataInv, BetweenBlocks
  <2>4. \A i \in 0 .. m - 1 : buf'[i] = <<image, sent + i>>
    <3>1. \A i \in 0 .. m - 1 : buf'[i] = data[i + 1]
      BY <1>1, <1>4, BufferTakes DEF DfuInv
    <3>2. \A i \in 0 .. m - 1 : i + 1 \in 1 .. m /\ sent + (i + 1) - 1 = sent + i
      BY <1>1, Sizes
    <3> QED
      BY <1>1, <3>1, <3>2
  <2>5. \A u \in 0 .. sent - 1 : flash'[u] = <<image, u>>
    BY <2>1, <2>3 DEF Landed
  <2>6. Writable(at)'
    BY <2>1, <2>3 DEF Writable, SectorOf, SectorEnd
  <2>7. InBlock'
    BY <1>1, <1>2, <2>1, <2>3, <2>4, <2>5, <2>6 DEF InBlock
  <2> QED
    BY <2>1, <2>7 DEF DfuDataInv, BetweenBlocks, Marking, MarkedAsSent
<1> QED
  BY <1>2, <1>3, <1>4

\* The end of a download: what has landed is what will be marked.
LEMMA DnloadFinalStep ==
  ASSUME DfuInv, DnloadFinal
  PROVE  DfuDataInv'
<1>1. Dnload(Number, <<>>) /\ UNCHANGED hostVars
  BY DEF DnloadFinal
<1>2. /\ Dfu /\ UnchangedByRequest
      /\ Refused \/ AlreadyMarked \/ (DnloadFits(Number, <<>>) /\ ToBeMarked)
  BY <1>1, DnloadEnds
<1>3. CASE Refused \/ AlreadyMarked
  BY <1>2, <1>3, RefusedStep
<1>4. CASE DnloadFits(Number, <<>>) /\ ToBeMarked
  <2>1. /\ mode = "dfu" /\ mode' = "dfu" /\ step = "ready" /\ step' = "erase_state"
        /\ UNCHANGED <<magic, flash, marked, image, sent>>
    BY <1>1, <1>2, <1>4 DEF Dfu, UnchangedByRequest, ToBeMarked, hostVars
  <2>2. Landed(sent)
    <3>1. sent \in 0 .. Capacity /\ Capacity \in Nat
      BY Sizes DEF DfuInv, DfuTypeInv, DfuTypeOK
    <3>2. CASE sent = 0
      BY <3>2 DEF Landed
    <3>3. CASE sent # 0
      <4>1. sent \in 1 .. Capacity
        BY <3>1, <3>3
      <4>2. state = "Download"
        BY <1>4, <4>1, NumberIsNot0 DEF DnloadFits, Takes
      <4> QED
        BY <2>1, <4>2 DEF DfuInv, DfuDataInv, BetweenBlocks
    <3> QED
      BY <3>2, <3>3
  <2>3. Marking'
    BY <2>1, <2>2 DEF Marking, Landed
  <2>4. MarkedAsSent'
    BY <2>1 DEF DfuInv, DfuDataInv, MarkedAsSent
  <2> QED
    BY <2>1, <2>3, <2>4 DEF DfuDataInv, BetweenBlocks, InBlock
<1> QED
  BY <1>2, <1>3, <1>4

LEMMA EraseSectorStep ==
  ASSUME DfuInv, EraseSector
  PROVE  DfuDataInv'
<1>1. /\ step = "erase"
      /\ UNCHANGED <<mode, magic, window, offset, buf, at, len, image, length, sent,
           marked>>
  BY DEF EraseSector, hostVars
<1>2. /\ mode = "dfu" /\ magic # "Swap" /\ offset % Block = 0
      /\ \A i \in 0 .. len - 1 : buf[i] = <<image, offset + i>>
      /\ \A u \in 0 .. at - 1 : u < offset + len => flash[u] = <<image, u>>
      /\ Writable(at)
  BY <1>1 DEF DfuInv, DfuTypeInv, Offsets, DfuDataInv, InBlock
<1>3. at \in Nat /\ DOMAIN flash = 0 .. Capacity - 1 /\ Capacity \in Nat
  BY Sizes DEF DfuInv, DfuTypeInv, DfuTypeOK
<1>4. CASE ~NeedErase
  <2>1. step' = "write" /\ UNCHANGED <<flash, lastErased, state, status>>
    BY <1>4 DEF EraseSector
  <2>2. Writable(at)'
    BY <1>1, <1>2, <2>1 DEF Writable, SectorOf, SectorEnd
  <2>3. InBlock'
    BY <1>1, <1>2, <2>1, <2>2 DEF InBlock
  <2> QED
    BY <1>1, <1>2, <2>1, <2>3 DEF DfuDataInv, BetweenBlocks, Marking, MarkedAsSent
<1>5. CASE NeedErase /\ OutOfBounds
  <2>1. step' = "ready" /\ state' = "Error"
    BY <1>5 DEF EraseSector, WriteFails, Fail
  <2> QED
    BY <1>1, <1>2, <2>1 DEF DfuDataInv, BetweenBlocks, InBlock, Marking, MarkedAsSent
<1>6. CASE NeedErase /\ ~OutOfBounds
  <2>1. /\ step' = "write" /\ lastErased' = SectorOf(at)
        /\ flash' = [u \in DOMAIN flash |->
                        IF SectorOf(u) = SectorOf(at) THEN Erased ELSE flash[u]]
    BY <1>6 DEF EraseSector
  <2>2. SectorEnd(at) \in Nat /\ at < SectorEnd(at) /\ SectorEnd(at) <= Capacity
    <3>1. SectorEnd(at) \in Nat /\ at < SectorEnd(at)
      BY <1>3, SectorFacts
    <3> QED
      BY <1>3, <1>6, <3>1 DEF OutOfBounds
  <2>3. at = SectorOf(at) * Sector
    BY <1>2, <1>6 DEF Writable, NeedErase
  <2>4. \A u \in DOMAIN flash : at <= u /\ u < SectorEnd(at) => flash'[u] = Erased
    <3> SUFFICES ASSUME NEW u \in DOMAIN flash, at <= u, u < SectorEnd(at)
                 PROVE  flash'[u] = Erased
      OBVIOUS
    <3>1. u \in Nat
      BY <1>3
    <3>2. SectorOf(u) = SectorOf(at)
      BY <1>3, <2>3, <3>1, SameSector
    <3> QED
      BY <2>1, <3>2
  <2>5. Writable(at)'
    BY <1>1, <2>1, <2>4 DEF Writable, SectorOf, SectorEnd
  <2>6. ASSUME NEW u \in 0 .. at - 1, u < offset + len
        PROVE  flash'[u] = <<image, u>>
    <3>1. u \in Nat /\ u < at
      BY <1>3
    <3>2. SectorOf(u) # SectorOf(at)
      BY <2>3, <3>1, <1>3, SectorFacts
    <3>3. u \in DOMAIN flash
      BY <1>3, <2>2, <3>1
    <3> QED
      BY <1>2, <2>1, <2>6, <3>2, <3>3
  <2>7. InBlock'
    BY <1>1, <1>2, <2>1, <2>5, <2>6 DEF InBlock
  <2> QED
    BY <1>1, <1>2, <2>1, <2>7 DEF DfuDataInv, BetweenBlocks, Marking, MarkedAsSent
<1> QED
  BY <1>4, <1>5, <1>6

\* What the write leaves: the block's data where it belongs, and beyond it the
\* rest of the sector as it was.
LEMMA WriteChunkStep ==
  ASSUME DfuInv, WriteChunk
  PROVE  DfuDataInv'
<1>1. /\ step = "write" /\ at' = ChunkEnd
      /\ flash' = [u \in DOMAIN flash |->
                      IF u \notin at .. ChunkEnd - 1 THEN flash[u]
                      ELSE IF flash[u] = Erased THEN buf[u - offset] ELSE Mixed]
      /\ UNCHANGED <<mode, magic, window, buf, lastErased, len, image, length,
           marked>>
  BY DEF WriteChunk
<1>2. /\ mode = "dfu" /\ magic # "Swap" /\ offset = sent /\ offset % Block = 0
      /\ offset <= at /\ len \in 1 .. Block
      /\ \A i \in 0 .. len - 1 : buf[i] = <<image, offset + i>>
      /\ \A u \in 0 .. at - 1 : u < offset + len => flash[u] = <<image, u>>
      /\ Writable(at) /\ lastErased = SectorOf(at)
  BY <1>1 DEF DfuInv, DfuTypeInv, Offsets, DfuDataInv, InBlock
<1>3. /\ at \in Nat /\ offset \in 0 .. Capacity /\ DOMAIN flash = 0 .. Capacity - 1
      /\ Capacity \in Nat /\ Block \in Nat \ {0} /\ len \in 1 .. Block
  BY <1>2, Sizes DEF DfuInv, DfuTypeInv, DfuTypeOK
<1>4. /\ SectorEnd(at) \in Nat /\ SectorEnd(at) <= Capacity
      /\ ChunkEnd \in Nat /\ at < ChunkEnd /\ ChunkEnd <= offset + Block
      /\ ChunkEnd <= SectorEnd(at) /\ ChunkEnd \in {offset + Block, SectorEnd(at)}
  BY <1>1, ChunkFacts DEF DfuInv
<1>5. \A u \in at .. ChunkEnd - 1 : u \in DOMAIN flash /\ flash'[u] = buf[u - offset]
  <2> SUFFICES ASSUME NEW u \in at .. ChunkEnd - 1
               PROVE  u \in DOMAIN flash /\ flash'[u] = buf[u - offset]
    OBVIOUS
  <2>1. u \in DOMAIN flash /\ at <= u /\ u < SectorEnd(at)
    BY <1>3, <1>4
  <2>2. flash[u] = Erased
    BY <1>2, <2>1 DEF Writable
  <2> QED
    BY <1>1, <2>1, <2>2
<1>6. \A u \in 0 .. ChunkEnd - 1 : u < offset + len => flash'[u] = <<image, u>>
  <2> SUFFICES ASSUME NEW u \in 0 .. ChunkEnd - 1, u < offset + len
               PROVE  flash'[u] = <<image, u>>
    OBVIOUS
  <2>1. u \in DOMAIN flash
    BY <1>3, <1>4
  <2>2. CASE u < at
    BY <1>1, <1>2, <1>3, <1>4, <2>1, <2>2
  <2>3. CASE at <= u
    <3>1. offset \in Nat /\ u \in Nat /\ len \in Nat /\ offset <= u
      BY <1>2, <1>3, <1>4, <2>3
    <3>2. u - offset \in 0 .. len - 1 /\ offset + (u - offset) = u
      BY <3>1
    <3>3. u \in at .. ChunkEnd - 1
      BY <1>3, <1>4, <2>3
    <3> QED
      BY <1>2, <1>5, <3>2, <3>3
  <2> QED
    BY <1>3, <1>4, <2>2, <2>3
<1>7. IF lastErased' = SectorOf(ChunkEnd)
      THEN \A u \in DOMAIN flash' : ChunkEnd <= u
      /\ u < SectorEnd(ChunkEnd) => flash'[u] = Erased
      ELSE ChunkEnd = SectorOf(ChunkEnd) * Sector
  <2>1. CASE ChunkEnd = SectorEnd(at)
    <3>1. SectorOf(ChunkEnd) = SectorOf(at) + 1
          /\ ChunkEnd = SectorOf(ChunkEnd) * Sector
      BY <1>3, <2>1, NextSector
    <3>2. SectorOf(at) \in Nat
      BY <1>3, SectorFacts
    <3>3. lastErased' # SectorOf(ChunkEnd)
      BY <1>1, <1>2, <3>1, <3>2
    <3> QED
      BY <1>1, <3>1, <3>3
  <2>2. CASE ChunkEnd < SectorEnd(at)
    <3>1. SectorOf(at) * Sector \in Nat /\ SectorOf(at) * Sector <= at
      BY <1>3, SectorFacts
    <3>2. SectorOf(ChunkEnd) = SectorOf(at)
      BY <1>3, <1>4, <2>2, <3>1, SameSector
    <3>3. SectorEnd(ChunkEnd) = SectorEnd(at)
      BY <3>2 DEF SectorEnd
    <3>4. ASSUME NEW u \in DOMAIN flash, ChunkEnd <= u, u < SectorEnd(at)
          PROVE  flash'[u] = Erased
      <4>1. u \in Nat /\ at <= u /\ u \notin at .. ChunkEnd - 1
        BY <1>3, <1>4, <3>4
      <4>2. flash[u] = Erased
        BY <1>2, <3>4, <4>1 DEF Writable
      <4> QED
        BY <1>1, <4>1, <4>2
    <3>5. DOMAIN flash' = DOMAIN flash
      BY <1>1
    <3> QED
      BY <1>1, <1>2, <3>2, <3>3, <3>4, <3>5
  <2> QED
    BY <1>4, <2>1, <2>2
<1>8. CASE ChunkEnd = offset + Block
  <2>1. step' = "ready" /\ sent' = sent + len
    BY <1>1, <1>8 DEF WriteChunk, BlockWritten
  <2>2. Landed(sent)'
    <3>1. ASSUME NEW u \in 0 .. sent' - 1 PROVE flash'[u] = <<image, u>>
      <4>1. u \in 0 .. ChunkEnd - 1 /\ u < offset + len
        BY <1>2, <1>3, <1>8, <2>1
      <4> QED
        BY <1>6, <4>1
    <3> QED
      BY <1>1, <3>1 DEF Landed
  <2>3. sent' % Block = 0 => Writable(sent)'
    <3> SUFFICES ASSUME sent' % Block = 0 PROVE Writable(sent)'
      OBVIOUS
    <3>1. len = Block
      <4> SUFFICES ASSUME len # Block PROVE FALSE
        OBVIOUS
      <4>1. len \in 0 .. Block - 1 /\ len # 0
        BY <1>3
      <4>2. offset \in Nat /\ Block \in Nat \ {0}
        BY <1>3
      <4>3. (offset + len) % Block = len
        BY <1>2, <4>1, <4>2, SumMod
      <4> QED
        BY <1>2, <2>1, <4>1, <4>3
    <3>2. sent' = ChunkEnd
      BY <1>2, <1>8, <2>1, <3>1
    <3> QED
      BY <1>7, <3>2 DEF Writable, SectorOf, SectorEnd
  <2>4. BetweenBlocks'
    BY <2>2, <2>3 DEF BetweenBlocks
  <2> QED
    BY <1>1, <1>2, <2>1, <2>4 DEF DfuDataInv, InBlock, Marking, MarkedAsSent
<1>9. CASE ChunkEnd # offset + Block
  <2>1. step' = "erase" /\ UNCHANGED offset
    BY <1>9 DEF WriteChunk
  <2>2. Writable(at)'
    BY <1>1, <1>7 DEF Writable, SectorOf, SectorEnd
  <2>3. InBlock'
    BY <1>1, <1>2, <1>6, <2>1, <2>2 DEF InBlock
  <2> QED
    BY <1>1, <1>2, <2>1, <2>3 DEF DfuDataInv, BetweenBlocks, Marking, MarkedAsSent
<1> QED
  BY <1>8, <1>9

LEMMA DfuInductive == ~RestartsAnywhere /\ DfuInv /\ [DfuNext]_dfuVars => DfuInv'
<1> SUFFICES ASSUME ~RestartsAnywhere, DfuInv, [DfuNext]_dfuVars PROVE DfuDataInv'
  BY DfuTypesInductive DEF DfuInv
<1>1. CASE Device
  BY <1>1, EraseStateStep, WriteDfuMagicStep, EraseSectorStep, WriteChunkStep,
     SwapStep DEF Device
<1>2. CASE DnloadTooLong
  BY <1>2, TooLong, RefusedStep DEF DfuInv
<1>3. CASE Confused
  BY <1>2, <1>3, ResetStateStep, GetStatusStep, DnloadFirstStep, DnloadNextStep,
     DnloadFinalStep DEF Confused
<1>4. CASE Application \/ PowerFails
  BY <1>4, ApplicationStep, PowerFailsStep
<1>5. CASE UNCHANGED dfuVars
  BY <1>5 DEF dfuVars, controlVars, updaterVars, hostVars, DfuInv, DfuDataInv,
     BetweenBlocks,
     InBlock, Marking, MarkedAsSent, Landed, Writable, SectorOf, SectorEnd
<1> QED
  BY <1>1, <1>3, <1>4, <1>5 DEF DfuNext

\* What is marked to be swapped in is the data of one download, unit by unit,
\* also if blocks and sectors do not divide each other (write_firmware), for
\* all hosts that do not start again in the sector that was erased last.
THEOREM MarkedAsSentAlways == ~RestartsAnywhere => (DfuSpec => []MarkedAsSent)
<1> SUFFICES ASSUME ~RestartsAnywhere PROVE DfuSpec => []MarkedAsSent
  OBVIOUS
<1>1. DfuInv /\ [DfuNext]_dfuVars => DfuInv'
  BY DfuInductive
<1>2. DfuInv => MarkedAsSent
  BY DEF DfuInv, DfuDataInv
<1> QED
  BY <1>1, <1>2, DfuInitInv, PTL DEF DfuSpec, DfuSafety
=============================================================================
