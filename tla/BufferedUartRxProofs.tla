------------------------ MODULE BufferedUartRxProofs ------------------------
(***************************************************************************)
(* For a ring buffer, a FIFO and reads of any length: the slices of writer *)
(* and reader stay apart and within the buffer, the reader is woken, the   *)
(* interrupt is masked only for what there is to read, and every step of   *)
(* the receiver is a step of the stream of ByteStream.                     *)
(***************************************************************************)
EXTENDS BufferedUartRx, SequenceTheorems, TLAPS

\* The cell of the k-th character after the one at s.
Place(s, k) == Cell(Wrap(s + k))

\* The handler's slice lies behind what is stored, and does not wrap.
WriterSlice ==
    /\ Used(start, end) + room <= Size
    /\ Cell(end) + room <= Size
    /\ irq # "drain" => room = 0

\* The reader's slice is part of what is stored, and does not wrap.
ReaderSlice ==
    /\ pc \in {"copy", "borrowed", "pop_done"} =>
          slice <= Used(start, end) /\ Cell(start) + slice <= Size
    /\ pc = "pop_done" => Len(copied) <= slice /\ copied = Stored(Len(copied))

\* Bad characters do not get into the buffer.
GoodOnly == \A k \in 0 .. Buffered - 1 : ring[Place(start, k)] # Bad

\* From the look at the buffer on, whatever the handler adds it announces.
Announced ==
    /\ pc = "asleep" /\ ~late => waker = reader
    /\ \/ pc = "asleep" /\ ~late
       \/ pc \in {"rx_error", "register"} /\ waker = reader
       => \/ reader \in woken
          \/ start = end /\ (pc # "rx_error" => ~rxError)
          \/ irq = "drain" /\ error
          \/ irq = "wake"

IInv ==
    /\ TypeOK /\ WriterSlice /\ ReaderSlice
    /\ GoodOnly /\ Announced

-----------------------------------------------------------------------------
(* The indices.                                                            *)

LEMMA WrapType ==
  ASSUME NEW s \in Indices, NEW n \in 0 .. Size
  PROVE  Wrap(s + n) \in Indices
  BY SizeAssumption DEF Indices, Wrap

LEMMA UsedType ==
  ASSUME NEW s \in Indices, NEW e \in Indices
  PROVE  Used(s, e) \in Nat /\ Cell(s) \in Cells
  BY SizeAssumption DEF Indices, Used, Cell, Cells

\* What push_buf hands out is free and lies in one piece.
LEMMA FreeSliceFree ==
  ASSUME NEW s \in Indices, NEW e \in Indices, Used(s, e) <= Size
  PROVE  /\ FreeSlice(s, e) \in 0 .. Size
         /\ Used(s, e) + FreeSlice(s, e) <= Size
         /\ Cell(e) + FreeSlice(s, e) <= Size
  BY SizeAssumption DEF Indices, Used, Cell, FreeSlice

\* What pop_buf hands out is filled and lies in one piece.
LEMMA FilledSliceFilled ==
  ASSUME NEW s \in Indices, NEW e \in Indices, Used(s, e) <= Size
  PROVE  /\ FilledSlice(s, e) \in 0 .. Size
         /\ FilledSlice(s, e) <= Used(s, e)
         /\ Cell(s) + FilledSlice(s, e) <= Size
         /\ FilledSlice(s, e) = 0 => s = e
  BY SizeAssumption DEF Indices, Used, Cell, FilledSlice

LEMMA UsedAfterPush ==
  ASSUME NEW s \in Indices, NEW e \in Indices, NEW n \in Nat, Used(s, e) + n <= Size
  PROVE  Used(s, Wrap(e + n)) = Used(s, e) + n
  BY SizeAssumption DEF Indices, Used, Wrap

LEMMA UsedZero ==
  ASSUME NEW s \in Indices, NEW e \in Indices
  PROVE  Used(s, e) \in Nat /\ (Used(s, e) = 0 <=> s = e)
  BY SizeAssumption DEF Indices, Used

LEMMA UsedAfterPop ==
  ASSUME NEW s \in Indices, NEW e \in Indices, NEW n \in Nat,
         n <= Used(s, e), Used(s, e) <= Size
  PROVE  Used(Wrap(s + n), e) = Used(s, e) - n
  BY SizeAssumption DEF Indices, Used, Wrap

LEMMA PlaceType ==
  ASSUME NEW s \in Indices, NEW k \in 0 .. Size - 1
  PROVE  Place(s, k) \in Cells
  BY SizeAssumption DEF Indices, Cells, Place, Cell, Wrap

LEMMA PlaceAfterPop ==
  ASSUME NEW s \in Indices, NEW n \in Nat, NEW k \in Nat, n + k < Size
  PROVE  Place(Wrap(s + n), k) = Place(s, n + k)
  BY SizeAssumption DEF Indices, Place, Cell, Wrap

LEMMA PlaceInSlice ==
  ASSUME NEW s \in Indices, NEW k \in Nat, Cell(s) + k < Size
  PROVE  Place(s, k) = Cell(s) + k
  BY SizeAssumption DEF Indices, Place, Cell, Wrap

LEMMA PlaceBehind ==
  ASSUME NEW s \in Indices, NEW e \in Indices, NEW k \in Nat,
         Used(s, e) + k < Size, Cell(e) + k < Size
  PROVE  Place(s, Used(s, e) + k) = Cell(e) + k
  BY SizeAssumption DEF Indices, Used, Place, Cell, Wrap

LEMMA PlacesDiffer ==
  ASSUME NEW s \in Indices, NEW i \in 0 .. Size - 1, NEW k \in 0 .. Size - 1, i # k
  PROVE  Place(s, i) # Place(s, k)
  BY SizeAssumption DEF Indices, Place, Cell, Wrap

-----------------------------------------------------------------------------
(* The invariant.                                                          *)

LEMMA StoredSeq ==
  ASSUME TypeOK, NEW n \in Nat, Cell(start) + n <= Size
  PROVE  /\ Stored(n) \in Seq(Chars) /\ Len(Stored(n)) = n
         /\ \A i \in 1 .. n : Stored(n)[i] = ring[Cell(start) + i - 1]
<1>1. Cell(start) \in Cells /\ ring \in [Cells -> Chars]
  BY UsedType DEF TypeOK
<1>2. \A i \in 1 .. n : ring[Cell(start) + i - 1] \in Chars
  BY <1>1, SizeAssumption DEF Cells
<1> QED
  BY <1>2 DEF Stored

LEMMA OneAndNone ==
  /\ <<>> \in Seq(Chars) /\ Len(<<>>) <= Size /\ Len(<<>>) <= FifoSize
  /\ <<Bad>> \in Seq(Chars)
  /\ 0 \in 0 .. Size
  BY SizeAssumption, ReceiverAssumption DEF Chars

LEMMA InitEstablishes == Init => IInv
<1> SUFFICES ASSUME Init PROVE IInv
  OBVIOUS
<1>1. TypeOK
  <2>1. 0 \in Indices /\ Bad \in Chars
    BY SizeAssumption DEF Indices, Chars
  <2>2. ring \in [Cells -> Chars]
    BY <2>1 DEF Init
  <2>3. nRead \in 0 .. room
    BY DEF Init
  <2> QED
    BY <2>1, <2>2, <2>3, OneAndNone DEF Init, TypeOK, Calls
<1>2. Used(start, end) = 0 /\ Cell(end) = 0
  BY SizeAssumption DEF Init, Used, Cell
<1>3. WriterSlice
  BY <1>2, SizeAssumption DEF Init, WriterSlice
<1>4. ReaderSlice /\ Announced
  BY DEF Init, ReaderSlice, Announced
<1>5. GoodOnly
  BY <1>2 DEF Init, GoodOnly, Buffered
<1> QED
  BY <1>1, <1>3, <1>4, <1>5 DEF IInv

\* The steps of the handler that leave the buffer alone.
LEMMA QuietHandler ==
  ASSUME IInv, RxInterrupt \/ TxInterrupt \/ WakeReader \/ CheckFull \/ Mask
  PROVE  IInv'
<1>0. TypeOK /\ WriterSlice /\ ReaderSlice /\ GoodOnly /\ Announced
  BY DEF IInv
<1>1. CASE RxInterrupt
  <2>1. TypeOK'
    BY <1>0, <1>1 DEF TypeOK, RxInterrupt, ringVars, irqVars, callVars, readVars, historyVars
  <2>2. WriterSlice'
    BY <1>0, <1>1 DEF WriterSlice, RxInterrupt, ringVars, irqVars
  <2>3. ReaderSlice'
    BY <1>0, <1>1 DEF ReaderSlice, RxInterrupt, ringVars, readVars, Stored
  <2>4. GoodOnly'
    BY <1>0, <1>1 DEF GoodOnly, RxInterrupt, ringVars, irqVars, Buffered
  <2>5. Announced'
    BY <1>0, <1>1 DEF Announced, RxInterrupt, ringVars, irqVars, callVars, readVars, historyVars
  <2> QED
    BY <2>1, <2>2, <2>3, <2>4, <2>5 DEF IInv
<1>2. CASE TxInterrupt
  <2>1. TypeOK'
    BY <1>0, <1>2 DEF TypeOK, TxInterrupt, ringVars, irqVars, callVars, readVars, historyVars
  <2>2. WriterSlice'
    BY <1>0, <1>2 DEF WriterSlice, TxInterrupt, ringVars, irqVars
  <2>3. ReaderSlice'
    BY <1>0, <1>2 DEF ReaderSlice, TxInterrupt, ringVars, readVars, Stored
  <2>4. GoodOnly'
    BY <1>0, <1>2 DEF GoodOnly, TxInterrupt, ringVars, irqVars, Buffered
  <2>5. Announced'
    BY <1>0, <1>2 DEF Announced, TxInterrupt, ringVars, irqVars, callVars, readVars, historyVars
  <2> QED
    BY <2>1, <2>2, <2>3, <2>4, <2>5 DEF IInv
<1>3. CASE WakeReader
  <2>1. TypeOK'
    BY <1>0, <1>3 DEF TypeOK, WakeReader, ringVars, irqVars, callVars, readVars, historyVars
  <2>2. WriterSlice'
    BY <1>0, <1>3 DEF WriterSlice, WakeReader, ringVars, irqVars
  <2>3. ReaderSlice'
    BY <1>0, <1>3 DEF ReaderSlice, WakeReader, ringVars, readVars, Stored
  <2>4. GoodOnly'
    BY <1>0, <1>3 DEF GoodOnly, WakeReader, ringVars, irqVars, Buffered
  <2>5. Announced'
    <3>1. /\ woken' = woken \cup ({waker} \ {None})
          /\ UNCHANGED <<pc, late, waker, reader, start, end, rxError>>
      BY <1>3 DEF WakeReader, ringVars, callVars, readVars, historyVars
    <3>2. pc # "idle" => reader # None
      BY <1>0 DEF TypeOK
    <3>3. pc # "idle" /\ waker = reader => reader' \in woken'
      BY <3>1, <3>2
    <3> QED
      BY <1>0, <3>1, <3>3 DEF Announced
  <2> QED
    BY <2>1, <2>2, <2>3, <2>4, <2>5 DEF IInv
<1>4. CASE CheckFull
  <2>1. TypeOK'
    <3>1. irq' \in {"idle", "mask"} /\ error' = FALSE
      BY <1>4 DEF CheckFull
    <3>2. UNCHANGED <<sameCore, fifo, unmasked, ring, start, end, rxError, waker, room,
                      nRead, pc, reader, call, slice, copied, woken, got, late, deaf>>
      BY <1>4 DEF CheckFull, ringVars, callVars, readVars, historyVars
    <3> QED
      BY <1>0, <3>1, <3>2, ZenonT(30) DEF TypeOK
  <2>2. WriterSlice'
    BY <1>0, <1>4 DEF WriterSlice, CheckFull, ringVars, irqVars
  <2>3. ReaderSlice'
    BY <1>0, <1>4 DEF ReaderSlice, CheckFull, ringVars, readVars, Stored
  <2>4. GoodOnly'
    BY <1>0, <1>4 DEF GoodOnly, CheckFull, ringVars, irqVars, Buffered
  <2>5. Announced'
    BY <1>0, <1>4 DEF Announced, CheckFull, ringVars, irqVars, callVars, readVars, historyVars
  <2> QED
    BY <2>1, <2>2, <2>3, <2>4, <2>5 DEF IInv
<1>5. CASE Mask
  <2>1. TypeOK'
    BY <1>0, <1>5, ZenonT(30) DEF TypeOK, Mask, ringVars, irqVars, callVars, readVars, historyVars
  <2>2. WriterSlice'
    BY <1>0, <1>5 DEF WriterSlice, Mask, ringVars, irqVars
  <2>3. ReaderSlice'
    BY <1>0, <1>5 DEF ReaderSlice, Mask, ringVars, readVars, Stored
  <2>4. GoodOnly'
    BY <1>0, <1>5 DEF GoodOnly, Mask, ringVars, irqVars, Buffered
  <2>5. Announced'
    BY <1>0, <1>5 DEF Announced, Mask, ringVars, irqVars, callVars, readVars, historyVars
  <2> QED
    BY <2>1, <2>2, <2>3, <2>4, <2>5 DEF IInv
<1> QED
  BY <1>1, <1>2, <1>3, <1>4, <1>5

\* The steps of the reader that leave the buffer alone.
LEMMA QuietReader ==
  ASSUME IInv, \/ NothingThere \/ Register \/ Poll \/ LetGo
         \/ WokenByOther \/ DropFuture \/ Unmask \/ TakeError
  PROVE  IInv'
<1>0. TypeOK /\ WriterSlice /\ ReaderSlice /\ GoodOnly /\ Announced
  BY DEF IInv
<1>1. CASE NothingThere
  <2>1. TypeOK'
    BY <1>0, <1>1 DEF TypeOK, NothingThere, ringVars, irqVars, callVars, readVars, historyVars
  <2>2. WriterSlice'
    BY <1>0, <1>1 DEF WriterSlice, NothingThere, ringVars, irqVars
  <2>3. ReaderSlice'
    BY <1>0, <1>1 DEF ReaderSlice, NothingThere, ringVars, readVars, Stored
  <2>4. GoodOnly'
    BY <1>0, <1>1 DEF GoodOnly, NothingThere, ringVars, irqVars, Buffered
  <2>5. Announced'
    BY <1>0, <1>1 DEF Announced, NothingThere, ringVars, irqVars, callVars, readVars, historyVars
  <2> QED
    BY <2>1, <2>2, <2>3, <2>4, <2>5 DEF IInv
<1>2. CASE Register
  <2>1. TypeOK'
    BY <1>0, <1>2 DEF TypeOK, Register, ringVars, irqVars, callVars, readVars, historyVars
  <2>2. WriterSlice'
    BY <1>0, <1>2 DEF WriterSlice, Register, ringVars, irqVars
  <2>3. ReaderSlice'
    BY <1>0, <1>2 DEF ReaderSlice, Register, ringVars, readVars, Stored
  <2>4. GoodOnly'
    BY <1>0, <1>2 DEF GoodOnly, Register, ringVars, irqVars, Buffered
  <2>5. Announced'
    BY <1>0, <1>2 DEF Announced, Register, ringVars, irqVars, callVars, readVars, historyVars
  <2> QED
    BY <2>1, <2>2, <2>3, <2>4, <2>5 DEF IInv
<1>3. CASE Poll
  <2>1. TypeOK'
    BY <1>0, <1>3 DEF TypeOK, Poll, ringVars, irqVars, callVars, readVars, historyVars
  <2>2. WriterSlice'
    BY <1>0, <1>3 DEF WriterSlice, Poll, ringVars, irqVars
  <2>3. ReaderSlice'
    BY <1>0, <1>3 DEF ReaderSlice, Poll, ringVars, readVars, Stored
  <2>4. GoodOnly'
    BY <1>0, <1>3 DEF GoodOnly, Poll, ringVars, irqVars, Buffered
  <2>5. Announced'
    BY <1>0, <1>3 DEF Announced, Poll, ringVars, irqVars, callVars, readVars, historyVars
  <2> QED
    BY <2>1, <2>2, <2>3, <2>4, <2>5 DEF IInv
<1>4. CASE LetGo
  <2>1. TypeOK'
    BY <1>0, <1>4, OneAndNone DEF TypeOK, LetGo, Return, ringVars, irqVars, callVars, readVars, historyVars, Calls
  <2>2. WriterSlice'
    BY <1>0, <1>4 DEF WriterSlice, LetGo, Return, ringVars, irqVars
  <2>3. ReaderSlice'
    BY <1>0, <1>4 DEF ReaderSlice, LetGo, Return, ringVars, readVars, Stored
  <2>4. GoodOnly'
    BY <1>0, <1>4 DEF GoodOnly, LetGo, Return, ringVars, irqVars, Buffered
  <2>5. Announced'
    BY <1>0, <1>4 DEF Announced, LetGo, Return, ringVars, irqVars, callVars, readVars, historyVars
  <2> QED
    BY <2>1, <2>2, <2>3, <2>4, <2>5 DEF IInv
<1>5. CASE WokenByOther
  <2>1. TypeOK'
    BY <1>0, <1>5 DEF TypeOK, WokenByOther, ringVars, irqVars, callVars, readVars, historyVars
  <2>2. WriterSlice'
    BY <1>0, <1>5 DEF WriterSlice, WokenByOther, ringVars, irqVars
  <2>3. ReaderSlice'
    BY <1>0, <1>5 DEF ReaderSlice, WokenByOther, ringVars, readVars, Stored
  <2>4. GoodOnly'
    BY <1>0, <1>5 DEF GoodOnly, WokenByOther, ringVars, irqVars, Buffered
  <2>5. Announced'
    BY <1>0, <1>5 DEF Announced, WokenByOther, ringVars, irqVars, callVars, readVars, historyVars
  <2> QED
    BY <2>1, <2>2, <2>3, <2>4, <2>5 DEF IInv
<1>6. CASE DropFuture
  <2>1. TypeOK'
    BY <1>0, <1>6, OneAndNone DEF TypeOK, DropFuture, Return, ringVars, irqVars, callVars, readVars, historyVars, Calls
  <2>2. WriterSlice'
    BY <1>0, <1>6 DEF WriterSlice, DropFuture, Return, ringVars, irqVars
  <2>3. ReaderSlice'
    BY <1>0, <1>6 DEF ReaderSlice, DropFuture, Return, ringVars, readVars, Stored
  <2>4. GoodOnly'
    BY <1>0, <1>6 DEF GoodOnly, DropFuture, Return, ringVars, irqVars, Buffered
  <2>5. Announced'
    BY <1>0, <1>6 DEF Announced, DropFuture, Return, ringVars, irqVars, callVars, readVars, historyVars
  <2> QED
    BY <2>1, <2>2, <2>3, <2>4, <2>5 DEF IInv
<1>7. CASE Unmask
  <2>1. TypeOK'
    BY <1>0, <1>7, OneAndNone DEF TypeOK, MaskComes, Unmask, Return, ringVars, irqVars, callVars, readVars, historyVars, Calls
  <2>2. WriterSlice'
    BY <1>0, <1>7 DEF WriterSlice, Unmask, Return, ringVars, irqVars
  <2>3. ReaderSlice'
    BY <1>0, <1>7 DEF ReaderSlice, Unmask, Return, ringVars, readVars, Stored
  <2>4. GoodOnly'
    BY <1>0, <1>7 DEF GoodOnly, Unmask, Return, ringVars, irqVars, Buffered
  <2>5. Announced'
    BY <1>0, <1>7 DEF Announced, Unmask, Return, ringVars, irqVars, callVars, readVars, historyVars
  <2> QED
    BY <2>1, <2>2, <2>3, <2>4, <2>5 DEF IInv
<1>8. CASE TakeError
  <2>1. TypeOK'
    BY <1>0, <1>8, OneAndNone, ZenonT(30) DEF TypeOK, MaskComes, TakeError, Return, ringVars, irqVars, callVars, readVars, historyVars, Calls
  <2>2. WriterSlice'
    BY <1>0, <1>8 DEF WriterSlice, TakeError, Return, ringVars, irqVars
  <2>3. ReaderSlice'
    BY <1>0, <1>8 DEF ReaderSlice, TakeError, Return, ringVars, readVars, Stored
  <2>4. GoodOnly'
    BY <1>0, <1>8 DEF GoodOnly, TakeError, Return, ringVars, irqVars, Buffered
  <2>5. Announced'
    BY <1>0, <1>8 DEF Announced, TakeError, Return, ringVars, irqVars, callVars, readVars, historyVars
  <2> QED
    BY <2>1, <2>2, <2>3, <2>4, <2>5 DEF IInv
<1> QED
  BY <1>1, <1>2, <1>3, <1>4, <1>5, <1>6, <1>7, <1>8

\* What the parts of the invariant say of the lengths.
LEMMA Lengths ==
  ASSUME IInv
  PROVE  /\ start \in Indices /\ end \in Indices
         /\ Used(start, end) \in Nat /\ Used(start, end) <= Size
         /\ room \in 0 .. Size /\ nRead \in 0 .. room
         /\ Cell(start) \in Nat /\ Cell(end) \in Nat
<1>1. TypeOK /\ Used(start, end) + room <= Size
  BY DEF IInv, WriterSlice
<1>2. /\ start \in Indices /\ end \in Indices
      /\ room \in 0 .. Size /\ nRead \in 0 .. room
  BY <1>1 DEF TypeOK
<1>3. Used(start, end) \in Nat /\ Cell(start) \in Nat /\ Cell(end) \in Nat
  BY <1>2, UsedType DEF Cells
<1> QED
  BY <1>1, <1>2, <1>3, SizeAssumption

LEMMA PushSlicePreserves ==
  ASSUME IInv, PushSlice
  PROVE  IInv'
<1>0. TypeOK /\ WriterSlice /\ ReaderSlice /\ GoodOnly /\ Announced
  BY DEF IInv
<1>1. /\ irq = "push_slice" /\ irq' = "drain" /\ room' = FreeSlice(start, end)
      /\ UNCHANGED <<sameCore, fifo, unmasked, ring, start, end, rxError, waker,
                     nRead, error, pc, reader, call, slice, copied, woken, got,
                     late, deaf>>
  BY DEF PushSlice, ringVars, callVars, readVars, historyVars
<1>2. room = 0
  BY <1>0, <1>1 DEF WriterSlice
<1>3. nRead = 0
  BY <1>2, Lengths
<1>4. /\ room' \in 0 .. Size
      /\ Used(start, end) + room' <= Size /\ Cell(end) + room' <= Size
  BY <1>1, Lengths, FreeSliceFree
<1>5. TypeOK'
  <2>1. nRead' \in 0 .. room'
    BY <1>1, <1>3, <1>4, SizeAssumption
  <2> QED
    BY <1>0, <1>1, <1>4, <2>1 DEF TypeOK
<1>6. WriterSlice' /\ GoodOnly'
  BY <1>0, <1>1, <1>4 DEF WriterSlice, GoodOnly, Buffered
<1>7. ReaderSlice' /\ Announced'
  <2>1. Stored(Len(copied))' = Stored(Len(copied))
    BY <1>1 DEF Stored
  <2>2. irq # "drain" /\ irq # "wake"
    BY <1>1
  <2> QED
    BY <1>0, <1>1, <2>1, <2>2 DEF ReaderSlice, Announced
<1> QED
  BY <1>5, <1>6, <1>7 DEF IInv

\* The FIFO takes a character or, with a bad one, gives one up.
LEMMA FifoPreserves ==
  ASSUME IInv, (\E c \in Chars : Receive(c)) \/ DropBad
  PROVE  IInv'
<1>0. TypeOK /\ WriterSlice /\ ReaderSlice /\ GoodOnly /\ Announced
  BY DEF IInv
<1>1. UNCHANGED <<sameCore, unmasked, ring, start, end, waker, irq, room, nRead, pc,
                  reader, call, slice, copied, woken, got, late, deaf>>
  BY DEF Receive, DropBad, ringVars, irqVars, callVars, readVars, historyVars
<1>2. fifo' \in Seq(Chars) /\ Len(fifo') <= FifoSize
  <2>1. fifo \in Seq(Chars) /\ Len(fifo) <= FifoSize /\ FifoSize \in Nat
    BY <1>0, ReceiverAssumption DEF TypeOK
  <2>2. CASE \E c \in Chars : Receive(c)
    <3> PICK c \in Chars : Receive(c)
      BY <2>2
    <3>1. Len(fifo) < FifoSize /\ fifo' = Append(fifo, c)
      BY DEF Receive
    <3> QED
      BY <2>1, <3>1, AppendProperties
  <2>3. CASE DropBad
    <3>1. fifo # <<>> /\ fifo' = Tail(fifo)
      BY <2>3 DEF DropBad
    <3> QED
      BY <2>1, <3>1, HeadTailProperties
  <2> QED
    BY <2>2, <2>3
<1>3. \/ rxError' = rxError /\ error' = error
      \/ irq = "drain" /\ rxError' = TRUE /\ error' = TRUE
  BY DEF Receive, DropBad, irqVars
<1>4. TypeOK'
  <2>1. rxError' \in BOOLEAN /\ error' \in BOOLEAN
    BY <1>0, <1>3, Zenon DEF TypeOK
  <2> QED
    BY <1>0, <1>1, <1>2, <2>1 DEF TypeOK
<1>5. WriterSlice' /\ GoodOnly'
  BY <1>0, <1>1 DEF WriterSlice, GoodOnly, Buffered
<1>6. ReaderSlice'
  <2>1. Stored(Len(copied))' = Stored(Len(copied))
    BY <1>1 DEF Stored
  <2> QED
    BY <1>0, <1>1, <2>1 DEF ReaderSlice
<1>7. Announced'
  BY <1>0, <1>1, <1>3 DEF Announced
<1> QED
  BY <1>4, <1>5, <1>6, <1>7 DEF IInv

\* A character is stored behind the others, where the reader does not look.
LEMMA StoreFacts ==
  ASSUME IInv, Store
  PROVE  /\ Cell(end) + nRead = Place(start, Buffered)
         /\ Cell(end) + nRead \in Cells
         /\ Buffered \in 0 .. Size - 1
         /\ Head(fifo) \in Chars \ {Bad}
         /\ Tail(fifo) \in Seq(Chars) /\ Len(fifo) \in Nat /\ Len(Tail(fifo)) = Len(fifo) - 1
         /\ ring' = [ring EXCEPT ![Cell(end) + nRead] = Head(fifo)]
         /\ UNCHANGED <<sameCore, unmasked, start, end, rxError, waker, irq, room, error,
                        pc, reader, call, slice, copied, woken, got, late, deaf>>
         /\ irq = "drain" /\ nRead < room /\ nRead' = nRead + 1
         /\ fifo # <<>> /\ fifo' = Tail(fifo)
<1>1. /\ ring' = [ring EXCEPT ![Cell(end) + nRead] = Head(fifo)]
      /\ UNCHANGED <<sameCore, unmasked, start, end, rxError, waker, irq, room, error,
                     pc, reader, call, slice, copied, woken, got, late, deaf>>
      /\ irq = "drain" /\ nRead < room /\ nRead' = nRead + 1
      /\ fifo # <<>> /\ Head(fifo) # Bad /\ fifo' = Tail(fifo)
  BY DEF Store, callVars, readVars, historyVars
<1>2. Used(start, end) + room <= Size /\ Cell(end) + room <= Size
  BY DEF IInv, WriterSlice
<1>3. /\ Cell(end) + nRead < Size /\ Used(start, end) + nRead < Size
      /\ nRead \in Nat /\ Used(start, end) \in Nat /\ Cell(end) \in Nat
  BY <1>1, <1>2, Lengths, SizeAssumption
<1>4. /\ Cell(end) + nRead = Place(start, Buffered)
      /\ Cell(end) + nRead \in Cells /\ Buffered \in 0 .. Size - 1
  BY <1>3, PlaceBehind, Lengths, SizeAssumption DEF Buffered, Cells
<1>5. fifo \in Seq(Chars)
  BY DEF IInv, TypeOK
<1>6. Head(fifo) \in Chars /\ Tail(fifo) \in Seq(Chars)
      /\ Len(fifo) \in Nat /\ Len(Tail(fifo)) = Len(fifo) - 1
  BY <1>1, <1>5, HeadTailProperties
<1> QED
  BY <1>1, <1>4, <1>6

\* What was buffered before stays where it is.
LEMMA StoreKeeps ==
  ASSUME IInv, Store, NEW k \in 0 .. Buffered - 1
  PROVE  ring'[Place(start, k)] = ring[Place(start, k)]
<1>1. Buffered \in 0 .. Size - 1 /\ Cell(end) + nRead = Place(start, Buffered)
  BY StoreFacts
<1>2. k \in 0 .. Size - 1 /\ k # Buffered
  BY <1>1, SizeAssumption
<1>3. Place(start, k) # Cell(end) + nRead /\ Place(start, k) \in Cells
  BY <1>1, <1>2, PlacesDiffer, PlaceType, Lengths
<1>4. ring \in [Cells -> Chars]
  BY DEF IInv, TypeOK
<1> QED
  BY <1>3, <1>4, StoreFacts

LEMMA StorePreserves ==
  ASSUME IInv, Store
  PROVE  IInv'
<1>0. TypeOK /\ WriterSlice /\ ReaderSlice /\ GoodOnly /\ Announced
  BY DEF IInv
<1>1. /\ UNCHANGED <<sameCore, unmasked, start, end, rxError, waker, irq, room, error,
                     pc, reader, call, slice, copied, woken, got, late, deaf>>
      /\ nRead < room /\ nRead' = nRead + 1
  BY StoreFacts
<1>2. ring' \in [Cells -> Chars]
  BY <1>0, StoreFacts DEF TypeOK
<1>3. TypeOK'
  <2>1. fifo' \in Seq(Chars) /\ Len(fifo') <= FifoSize
    <3>1. FifoSize \in Nat /\ Len(fifo) <= FifoSize
      BY <1>0, ReceiverAssumption DEF TypeOK
    <3> QED
      BY <3>1, StoreFacts
  <2>2. nRead' \in 0 .. room
    BY <1>1, Lengths
  <2> QED
    BY <1>0, <1>1, <1>2, <2>1, <2>2 DEF TypeOK
<1>4. WriterSlice'
  BY <1>0, <1>1 DEF WriterSlice
<1>5. ReaderSlice'
  <2> SUFFICES ASSUME pc = "pop_done"
               PROVE  Stored(Len(copied))' = Stored(Len(copied))
    BY <1>0, <1>1 DEF ReaderSlice
  <2>1. /\ Len(copied) <= slice /\ slice <= Used(start, end)
        /\ Cell(start) + slice <= Size
    BY <1>0 DEF ReaderSlice
  <2>2. copied \in Seq(Chars) /\ Len(copied) \in Nat /\ slice \in Nat
    BY <1>0 DEF TypeOK
  <2>3. ASSUME NEW i \in 1 .. Len(copied)
        PROVE  ring'[Cell(start) + i - 1] = ring[Cell(start) + i - 1]
    <3>1. /\ i - 1 \in Nat /\ Cell(start) + (i - 1) < Size
          /\ i - 1 \in 0 .. Buffered - 1
      BY <2>1, <2>2, Lengths, SizeAssumption DEF Buffered
    <3>2. Place(start, i - 1) = Cell(start) + (i - 1)
      BY <3>1, PlaceInSlice, Lengths
    <3>3. Cell(start) + (i - 1) = Cell(start) + i - 1
      BY Lengths
    <3> QED
      BY <3>1, <3>2, <3>3, StoreKeeps
  <2> QED
    BY <1>1, <2>3 DEF Stored
<1>6. GoodOnly'
  <2>1. Buffered' = Buffered + 1
    BY <1>1, Lengths DEF Buffered
  <2>2. ASSUME NEW k \in 0 .. Buffered
        PROVE  ring'[Place(start, k)] # Bad
    <3>1. CASE k = Buffered
      BY <1>0, <3>1, StoreFacts DEF TypeOK
    <3>2. CASE k # Buffered
      <4>1. k \in 0 .. Buffered - 1
        BY <3>2, StoreFacts
      <4> QED
        BY <1>0, <4>1, StoreKeeps DEF GoodOnly
    <3> QED
      BY <3>1, <3>2
  <2>3. Buffered' - 1 = Buffered
    BY <2>1, StoreFacts
  <2>4. \A k \in 0 .. Buffered : ring'[Place(start', k)] # Bad
    BY <1>1, <2>2
  <2> QED
    BY <2>3, <2>4 DEF GoodOnly, Place
<1>7. Announced'
  BY <1>0, <1>1 DEF Announced
<1> QED
  BY <1>3, <1>4, <1>5, <1>6, <1>7 DEF IInv

LEMMA PushDoneFacts ==
  ASSUME IInv, PushDone
  PROVE  /\ UNCHANGED <<sameCore, fifo, unmasked, ring, start, rxError, waker, error, pc,
                        reader, call, slice, copied, woken, got, late, deaf>>
         /\ irq = "drain" /\ room' = 0 /\ nRead' = 0 /\ end' = Wrap(end + nRead)
         /\ irq' = IF nRead > 0 \/ error THEN "wake" ELSE "is_full"
         /\ end' \in Indices /\ Used(start, end') = Used(start, end) + nRead
         /\ Used(start, end') <= Size
<1>1. /\ UNCHANGED <<sameCore, fifo, unmasked, ring, start, rxError, waker, error, pc,
                     reader, call, slice, copied, woken, got, late, deaf>>
      /\ irq = "drain" /\ room' = 0 /\ nRead' = 0 /\ end' = Wrap(end + nRead)
      /\ irq' = IF nRead > 0 \/ error THEN "wake" ELSE "is_full"
  BY DEF PushDone, callVars, readVars, historyVars
<1>2. Used(start, end) + nRead <= Size /\ nRead \in 0 .. Size /\ nRead \in Nat
  BY Lengths, SizeAssumption DEF IInv, WriterSlice
<1> QED
  BY <1>1, <1>2, WrapType, UsedAfterPush, Lengths

LEMMA PushDonePreserves ==
  ASSUME IInv, PushDone
  PROVE  IInv'
<1>0. TypeOK /\ WriterSlice /\ ReaderSlice /\ GoodOnly /\ Announced
  BY DEF IInv
<1>1. UNCHANGED <<sameCore, fifo, unmasked, ring, start, rxError, waker, error, pc,
                  reader, call, slice, copied, woken, got, late, deaf>>
  BY PushDoneFacts
<1>2. Used(start, end') = Used(start, end) + nRead /\ end' \in Indices
  BY PushDoneFacts
<1>3. TypeOK'
  <2>1. irq' \in {"wake", "is_full"}
    BY PushDoneFacts
  <2>2. room' \in 0 .. Size /\ nRead' \in 0 .. room'
    BY PushDoneFacts, SizeAssumption
  <2> QED
    BY <1>0, <1>1, <1>2, <2>1, <2>2 DEF TypeOK
<1>4. WriterSlice'
  <2>1. Cell(end') \in Nat /\ Cell(end') <= Size
    BY <1>2, UsedType, SizeAssumption DEF Cells
  <2>2. Used(start, end') \in Nat /\ Used(start, end') <= Size /\ start' = start /\ room' = 0
    BY PushDoneFacts, Lengths, <1>2
  <2> QED
    BY <2>1, <2>2 DEF WriterSlice
<1>5. ReaderSlice'
  <2>1. Stored(Len(copied))' = Stored(Len(copied))
    BY <1>1 DEF Stored
  <2>2. slice \in Nat /\ nRead \in Nat
    BY <1>0, Lengths DEF TypeOK
  <2>3. slice <= Used(start, end) => slice <= Used(start', end')
    BY <1>1, <1>2, <2>2, Lengths
  <2> QED
    BY <1>0, <1>1, <2>1, <2>3 DEF ReaderSlice
<1>6. GoodOnly'
  <2>1. Buffered' = Buffered
    BY <1>1, <1>2, PushDoneFacts, Lengths DEF Buffered
  <2> QED
    BY <1>0, <1>1, <2>1 DEF GoodOnly, Place
<1>7. Announced'
  <2>1. CASE irq' = "wake"
    BY <1>0, <1>1, <2>1 DEF Announced
  <2>2. CASE irq' # "wake"
    <3>1. nRead = 0 /\ ~error
      BY <2>2, PushDoneFacts, Lengths
    <3>2. end' = end
      BY <3>1, PushDoneFacts, Lengths, SizeAssumption DEF Indices, Wrap
    <3>3. irq # "wake"
      BY PushDoneFacts
    <3> QED
      BY <1>0, <1>1, <3>1, <3>2, <3>3 DEF Announced
  <2> QED
    BY <2>1, <2>2
<1> QED
  BY <1>3, <1>4, <1>5, <1>6, <1>7 DEF IInv

\* A call begins, or looks at the buffer.
LEMMA LookPreserves ==
  ASSUME IInv, (\E r \in Readers, c \in Calls : Call(r, c)) \/ PopBuf
  PROVE  IInv'
<1>0. TypeOK /\ WriterSlice /\ ReaderSlice /\ GoodOnly /\ Announced
  BY DEF IInv
<1>1. UNCHANGED <<sameCore, fifo, unmasked, ring, start, end, rxError, waker, irq, room,
                  nRead, error, copied, woken, late, deaf>>
  BY DEF Call, PopBuf, ringVars, irqVars, historyVars
<1>2. WriterSlice' /\ GoodOnly'
  BY <1>0, <1>1 DEF WriterSlice, GoodOnly, Buffered
<1>3. CASE \E r \in Readers, c \in Calls : Call(r, c)
  <2> PICK r \in Readers, c \in Calls : Call(r, c)
    BY <1>3
  <2>1. reader' = r /\ call' = c /\ pc' = "pop_buf" /\ got' = <<>> /\ slice' = slice
    BY DEF Call
  <2>2. TypeOK'
    BY <1>0, <1>1, <2>1, OneAndNone, ReceiverAssumption DEF TypeOK
  <2>3. ReaderSlice' /\ Announced'
    BY <2>1 DEF ReaderSlice, Announced
  <2> QED
    BY <1>2, <2>2, <2>3 DEF IInv
<1>4. CASE PopBuf
  <2>1. /\ slice' = FilledSlice(start, end)
        /\ pc' \in {"rx_error", "borrowed", "copy"}
        /\ pc' = "rx_error" => slice' = 0
        /\ call' \in {call, "read"}
        /\ reader' = reader /\ got' = got /\ pc = "pop_buf"
    BY <1>4 DEF PopBuf
  <2>2. /\ slice' \in 0 .. Size /\ slice' <= Used(start, end)
        /\ Cell(start) + slice' <= Size
        /\ slice' = 0 => start = end
    BY <2>1, Lengths, FilledSliceFilled
  <2>3. TypeOK'
    <3>1. call' \in Calls
      BY <1>0, <2>1 DEF TypeOK, Calls
    <3> QED
      BY <1>0, <1>1, <2>1, <2>2, <3>1 DEF TypeOK
  <2>4. ReaderSlice'
    BY <1>1, <2>1, <2>2 DEF ReaderSlice
  <2>5. Announced'
    BY <1>1, <2>1, <2>2 DEF Announced
  <2> QED
    BY <1>2, <2>3, <2>4, <2>5 DEF IInv
<1> QED
  BY <1>3, <1>4

LEMMA CopyPreserves ==
  ASSUME IInv, NEW k \in 1 .. MaxRead, Copy(k)
  PROVE  IInv'
<1>0. TypeOK /\ WriterSlice /\ ReaderSlice /\ GoodOnly /\ Announced
  BY DEF IInv
<1> DEFINE n == IF slice < k THEN slice ELSE k
<1>1. /\ UNCHANGED <<sameCore, fifo, unmasked, ring, start, end, rxError, waker, irq, room,
                     nRead, error, reader, call, slice, woken, got, late, deaf>>
      /\ pc = "copy" /\ pc' = "pop_done" /\ copied' = Stored(n)
  BY DEF Copy, ringVars, irqVars, callVars, historyVars
<1>2. slice <= Used(start, end) /\ Cell(start) + slice <= Size /\ slice \in 0 .. Size
  BY <1>0, <1>1 DEF ReaderSlice, TypeOK
<1>3. n \in Nat /\ n <= slice /\ k \in Nat
  BY <1>2, ReceiverAssumption
<1> HIDE DEF n
<1>4. Cell(start) + n <= Size /\ n <= Size
  BY <1>2, <1>3, Lengths, SizeAssumption
<1>5. copied' \in Seq(Chars) /\ Len(copied') = n
  BY <1>0, <1>1, <1>3, <1>4, StoredSeq
<1>6. TypeOK'
  BY <1>0, <1>1, <1>4, <1>5 DEF TypeOK
<1>7. WriterSlice' /\ GoodOnly' /\ Announced'
  BY <1>0, <1>1 DEF WriterSlice, GoodOnly, Buffered, Announced
<1>8. ReaderSlice'
  <2>1. copied' = Stored(Len(copied'))
    BY <1>1, <1>5
  <2>2. Stored(Len(copied')) = [i \in 1 .. Len(copied') |-> ring'[Cell(start') + i - 1]]
    BY <1>1 DEF Stored
  <2>3. copied' = Stored(Len(copied))'
    BY <2>1, <2>2 DEF Stored
  <2> QED
    BY <1>1, <1>2, <1>3, <1>5, <2>3 DEF ReaderSlice
<1> QED
  BY <1>6, <1>7, <1>8 DEF IInv

\* Both ways to give characters back.
LEMMA GiveBack ==
  ASSUME IInv, PopDone \/ (\E m \in 0 .. Size : Consume(m))
  PROVE  \E n \in 0 .. slice :
           /\ slice <= Used(start, end) /\ Cell(start) + slice <= Size
           /\ start' = Wrap(start + n) /\ got' = Stored(n)
           /\ copied' \in {<<>>, copied} /\ slice' = 0
           /\ pc \in {"pop_done", "borrowed"} /\ pc' = "unmask"
           /\ UNCHANGED <<sameCore, fifo, unmasked, ring, end, rxError, waker, irq, room,
                          nRead, error, reader, call, woken, late, deaf>>
<1>1. TypeOK /\ ReaderSlice /\ slice \in Nat
  BY DEF IInv, TypeOK
<1>2. CASE PopDone
  <2>1. /\ slice <= Used(start, end) /\ Cell(start) + slice <= Size
        /\ Len(copied) <= slice /\ copied = Stored(Len(copied))
    BY <1>1, <1>2 DEF PopDone, ReaderSlice
  <2>2. Len(copied) \in 0 .. slice
    BY <1>1, <2>1 DEF TypeOK
  <2> QED
    BY <1>2, <2>1, <2>2 DEF PopDone, irqVars, callVars, historyVars
<1>3. CASE \E m \in 0 .. Size : Consume(m)
  <2> PICK m \in 0 .. Size : Consume(m)
    BY <1>3
  <2>1. slice <= Used(start, end) /\ Cell(start) + slice <= Size
    BY <1>1 DEF Consume, ReaderSlice
  <2>2. m \in 0 .. slice
    BY <1>1 DEF Consume
  <2> QED
    BY <2>1, <2>2 DEF Consume, irqVars, callVars, historyVars
<1> QED
  BY <1>2, <1>3

LEMMA GiveBackPreserves ==
  ASSUME IInv, PopDone \/ (\E m \in 0 .. Size : Consume(m))
  PROVE  IInv'
<1>0. TypeOK /\ WriterSlice /\ ReaderSlice /\ GoodOnly /\ Announced
  BY DEF IInv
<1> PICK n \in 0 .. slice :
      /\ slice <= Used(start, end) /\ Cell(start) + slice <= Size
      /\ start' = Wrap(start + n) /\ got' = Stored(n)
      /\ copied' \in {<<>>, copied} /\ slice' = 0
      /\ pc \in {"pop_done", "borrowed"} /\ pc' = "unmask"
      /\ UNCHANGED <<sameCore, fifo, unmasked, ring, end, rxError, waker, irq, room,
                     nRead, error, reader, call, woken, late, deaf>>
  BY GiveBack
<1>1. /\ n \in Nat /\ n \in 0 .. Size /\ n <= Used(start, end)
      /\ Cell(start) + n <= Size
  BY <1>0, Lengths, SizeAssumption DEF TypeOK
<1>2. start' \in Indices /\ Used(start', end) = Used(start, end) - n
  BY <1>1, WrapType, UsedAfterPop, Lengths
<1>3. TypeOK'
  <2>1. got' \in Seq(Chars)
    BY <1>0, <1>1, StoredSeq
  <2>2. copied' \in Seq(Chars) /\ Len(copied') <= Size /\ slice' \in 0 .. Size
    BY <1>0, OneAndNone DEF TypeOK
  <2> QED
    BY <1>0, <1>2, <2>1, <2>2 DEF TypeOK
<1>4. WriterSlice'
  <2>1. Used(start', end) + room <= Size
    BY <1>0, <1>1, <1>2, Lengths, SizeAssumption DEF WriterSlice
  <2> QED
    BY <1>0, <2>1 DEF WriterSlice
<1>5. ReaderSlice' /\ Announced'
  BY DEF ReaderSlice, Announced
<1>6. GoodOnly'
  <2>1. Buffered' = Buffered - n
    BY <1>1, <1>2, Lengths DEF Buffered
  <2>2. Buffered \in Nat /\ Buffered <= Size
    BY Lengths, SizeAssumption DEF Buffered, IInv, WriterSlice
  <2>3. ASSUME NEW k \in 0 .. Buffered - n - 1
        PROVE  ring[Place(Wrap(start + n), k)] # Bad
    <3>1. k \in Nat /\ n + k < Size /\ n + k \in 0 .. Buffered - 1
      BY <1>1, <2>2, SizeAssumption
    <3>2. Place(Wrap(start + n), k) = Place(start, n + k)
      BY <1>1, <3>1, PlaceAfterPop, Lengths
    <3> QED
      BY <1>0, <3>1, <3>2 DEF GoodOnly
  <2> QED
    BY <2>1, <2>3 DEF GoodOnly, Place
<1> QED
  BY <1>3, <1>4, <1>5, <1>6 DEF IInv

LEMMA NextPreserves == IInv /\ [Next]_vars => IInv'
<1> SUFFICES ASSUME IInv, [Next]_vars PROVE IInv'
  OBVIOUS
<1>1. CASE (\E c \in Chars : Receive(c)) \/ DropBad
  BY <1>1, FifoPreserves
<1>2. CASE RxInterrupt \/ TxInterrupt \/ WakeReader \/ CheckFull \/ Mask
  BY <1>2, QuietHandler
<1>3. CASE PushSlice
  BY <1>3, PushSlicePreserves
<1>4. CASE Store
  BY <1>4, StorePreserves
<1>5. CASE PushDone
  BY <1>5, PushDonePreserves
<1>6. CASE \/ NothingThere \/ Register \/ Poll \/ LetGo
           \/ WokenByOther \/ DropFuture \/ Unmask \/ TakeError
  BY <1>6, QuietReader
<1>7. CASE (\E r \in Readers, c \in Calls : Call(r, c)) \/ PopBuf
  BY <1>7, LookPreserves
<1>8. CASE \E k \in 1 .. MaxRead : Copy(k)
  BY <1>8, CopyPreserves
<1>9. CASE PopDone \/ (\E m \in 0 .. Size : Consume(m))
  BY <1>9, GiveBackPreserves
<1>10. CASE UNCHANGED vars
  <2>1. UNCHANGED <<sameCore, fifo, unmasked, ring, start, end, rxError, waker, irq, room,
                    nRead, error, pc, reader, call, slice, copied, woken, got, late, deaf>>
    BY <1>10 DEF vars, ringVars, irqVars, callVars, readVars, historyVars
  <2>2. TypeOK'
    BY <2>1 DEF IInv, TypeOK
  <2>3. WriterSlice' /\ GoodOnly' /\ Announced'
    BY <2>1 DEF IInv, WriterSlice, GoodOnly, Buffered, Announced
  <2>4. ReaderSlice'
    BY <2>1 DEF IInv, ReaderSlice, Stored
  <2> QED
    BY <2>2, <2>3, <2>4 DEF IInv
<1> QED
  BY <1>1, <1>2, <1>3, <1>4, <1>5, <1>6, <1>7, <1>8, <1>9, <1>10
     DEF Next, Handler, Reading, User

\* Writer and reader never get into each other's slice, whatever the length of
\* the buffer and of the reads.
THEOREM Inductive == Spec => []IInv
  BY InitEstablishes, NextPreserves, PTL DEF Spec, Safety

\* The indices stay within twice the length, the slices within the buffer.
THEOREM TypeCorrect == Spec => []TypeOK
<1>1. IInv => TypeOK
  BY DEF IInv
<1> QED
  BY <1>1, Inductive, PTL

\* Whoever sleeps beside characters or an error is about to be woken, except
\* in the first wait of a task, which on_interrupt may overtake.
THEOREM NoLostWakeupAlways == Spec => []NoLostWakeup
<1>1. IInv => NoLostWakeup
  BY DEF IInv, Announced, NoLostWakeup
<1> QED
  BY <1>1, Inductive, PTL

-----------------------------------------------------------------------------
(* The mask.                                                               *)

\* A mask that is set, or that the handler is bound to set, has its reason.
MaskInv == ~unmasked \/ MaskComes =>
    start # end \/ rxError \/ pc = "unmask" \/ deaf

LEMMA MaskInit == Init => MaskInv
  BY DEF Init, MaskInv, MaskComes

LEMMA MaskStep == IInv /\ MaskInv /\ [Next]_vars => MaskInv'
<1> SUFFICES ASSUME IInv, MaskInv, [Next]_vars PROVE MaskInv'
  OBVIOUS
<1> USE DEF MaskInv, MaskComes, ringVars, irqVars, callVars, readVars, historyVars
<1>0. TypeOK
  BY DEF IInv
<1>1. CASE (\E c \in Chars : Receive(c)) \/ RxInterrupt \/ TxInterrupt \/ WakeReader
  BY <1>1 DEF Receive, RxInterrupt, TxInterrupt, WakeReader
<1>2. CASE PushSlice \/ Store \/ DropBad
  BY <1>2 DEF PushSlice, Store, DropBad
<1>3. CASE PushDone
  <2>1. start # end => start # end'
    <3>1. /\ Used(start, end') = Used(start, end) + nRead /\ end' \in Indices
          /\ start \in Indices /\ end \in Indices /\ nRead \in Nat
      BY <1>0, <1>3, PushDoneFacts, Lengths DEF TypeOK
    <3> QED
      BY <3>1, UsedZero
  <2>2. /\ UNCHANGED <<unmasked, start, rxError, pc, deaf, error>>
        /\ irq # "mask" /\ irq' # "mask"
    BY <1>3, PushDoneFacts
  <2> QED
    BY <2>1, <2>2
<1>4. CASE CheckFull
  <2>1. IsFull(start, end) => start # end
    BY <1>0, SizeAssumption DEF TypeOK, IsFull, Wrap, Indices
  <2> QED
    BY <1>4, <2>1 DEF CheckFull
<1>5. CASE Mask
  BY <1>5 DEF Mask
<1>6. CASE (\E r \in Readers, c \in Calls : Call(r, c)) \/ PopBuf
           \/ (\E k \in 1 .. MaxRead : Copy(k))
  BY <1>6 DEF Call, PopBuf, Copy
<1>7. CASE PopDone \/ (\E m \in 0 .. Size : Consume(m))
  BY <1>7 DEF PopDone, Consume
<1>8. CASE Unmask
  BY <1>8 DEF Unmask, Return
<1>9. CASE TakeError
  <2>1. CASE call = "fill_buf"
    BY <1>0, <1>9, <2>1 DEF TakeError, Return, TypeOK
  <2>2. CASE call # "fill_buf"
    BY <1>9, <2>2 DEF TakeError
  <2> QED
    BY <2>1, <2>2
<1>10. CASE NothingThere \/ Register \/ Poll
  BY <1>10 DEF NothingThere, Register, Poll
<1>11. CASE LetGo \/ WokenByOther \/ DropFuture
  BY <1>11 DEF LetGo, WokenByOther, DropFuture, Return
<1>12. CASE UNCHANGED vars
  BY <1>12 DEF vars
<1> QED
  BY <1>1, <1>2, <1>3, <1>4, <1>5, <1>6, <1>7, <1>8, <1>9, <1>10, <1>11, <1>12
     DEF Next, Handler, Reading, User

\* The interrupt is masked only for what there is to read or has just been read,
\* wherever the reader runs; an error returned by fill_buf, and a reader that was
\* done before the handler's mask, are the exceptions that deaf remembers.
THEOREM MaskedForAReasonAlways == Spec => []MaskedForAReason
<1>1. IInv /\ IInv' /\ MaskInv /\ [Next]_vars => MaskInv'
  BY MaskStep
<1>2. MaskInv => MaskedForAReason
  BY DEF MaskInv, MaskedForAReason
<1> QED
  BY <1>1, <1>2, MaskInit, Inductive, PTL DEF Spec, Safety

-----------------------------------------------------------------------------
(* The refinement.                                                         *)

\* The pipeline for memory r, the reader's index s, b characters in the buffer
\* and the FIFO f.
Pipe(r, s, b, f) ==
    [i \in 1 .. b + Len(f) |->
        IF i <= b THEN r[Cell(Wrap(s + i - 1))] ELSE f[i - b]]

LEMMA PipeSeq ==
  ASSUME NEW r \in [Cells -> Chars], NEW s \in Indices, NEW b \in 0 .. Size,
         NEW f \in Seq(Chars)
  PROVE  /\ Pipe(r, s, b, f) \in Seq(Chars)
         /\ Len(Pipe(r, s, b, f)) = b + Len(f)
         /\ \A i \in 1 .. b + Len(f) :
               Pipe(r, s, b, f)[i] = IF i <= b THEN r[Place(s, i - 1)] ELSE f[i - b]
<1>1. b \in Nat /\ Len(f) \in Nat /\ b + Len(f) \in Nat /\ s \in Nat
  BY SizeAssumption, LenProperties DEF Indices
<1>2. ASSUME NEW i \in 1 .. b + Len(f)
      PROVE  /\ s + i - 1 = s + (i - 1)
             /\ (IF i <= b THEN r[Place(s, i - 1)] ELSE f[i - b]) \in Chars
  <2>1. s + i - 1 = s + (i - 1)
    BY <1>1
  <2>2. CASE i <= b
    <3>1. i - 1 \in 0 .. Size - 1
      BY <1>1, <2>2, SizeAssumption
    <3> QED
      BY <2>1, <2>2, <3>1, PlaceType
  <2>3. CASE ~(i <= b)
    <3>1. i - b \in 1 .. Len(f)
      BY <1>1, <2>3
    <3>2. f[i - b] \in Chars
      BY <3>1, LenProperties
    <3> QED
      BY <2>1, <2>3, <3>2
  <2> QED
    BY <2>2, <2>3
<1> DEFINE p == Pipe(r, s, b, f)
           n == b + Len(f)
<1>3. /\ p = [i \in 1 .. n |-> p[i]]
      /\ \A i \in 1 .. n : p[i] = IF i <= b THEN r[Place(s, i - 1)] ELSE f[i - b]
  BY <1>2 DEF Pipe, Place
<1>4. n \in Nat /\ \A i \in 1 .. n : p[i] \in Chars
  BY <1>1, <1>2, <1>3
<1> HIDE DEF p, n
<1>5. p \in Seq(Chars) /\ Len(p) = n
  BY <1>3, <1>4
<1> QED
  BY <1>3, <1>5 DEF p, n

\* What arrives joins the end.
LEMMA PipeAppend ==
  ASSUME NEW r \in [Cells -> Chars], NEW s \in Indices, NEW b \in 0 .. Size,
         NEW f \in Seq(Chars), NEW c \in Chars
  PROVE  Pipe(r, s, b, Append(f, c)) = Append(Pipe(r, s, b, f), c)
<1> DEFINE g == Append(f, c)
           p == Pipe(r, s, b, f)
           q == Pipe(r, s, b, g)
           t == Append(p, c)
<1>1. /\ g \in Seq(Chars) /\ Len(g) = Len(f) + 1
      /\ \A i \in 1 .. Len(f) : g[i] = f[i]
      /\ g[Len(f) + 1] = c
  BY AppendProperties
<1> HIDE DEF g
<1>2. b \in Nat /\ Len(f) \in Nat
  BY SizeAssumption, LenProperties
<1>3. /\ p \in Seq(Chars) /\ Len(p) = b + Len(f)
      /\ \A i \in 1 .. b + Len(f) : p[i] = IF i <= b THEN r[Place(s, i - 1)] ELSE f[i - b]
  BY PipeSeq
<1>4. /\ q \in Seq(Chars) /\ Len(q) = b + Len(g)
      /\ \A i \in 1 .. b + Len(g) : q[i] = IF i <= b THEN r[Place(s, i - 1)] ELSE g[i - b]
  BY <1>1, PipeSeq
<1> HIDE DEF p, q
<1>5. p \in Seq(Chars)
  BY <1>3
<1>6. /\ t \in Seq(Chars) /\ Len(t) = Len(p) + 1
      /\ \A i \in 1 .. Len(p) : t[i] = p[i]
      /\ t[Len(p) + 1] = c
  BY <1>5, AppendProperties
<1> HIDE DEF t
<1>7. Len(p) = b + Len(f) /\ Len(q) = b + Len(f) + 1 /\ b + Len(g) = b + Len(f) + 1
  BY <1>1, <1>2, <1>3, <1>4
<1>8. ASSUME NEW i \in 1 .. Len(q) PROVE q[i] = t[i]
  <2>0. i \in 1 .. b + Len(f) + 1 /\ i \in 1 .. b + Len(g)
    BY <1>7
  <2>1. CASE i <= b
    <3>1. i \in 1 .. b + Len(f)
      BY <1>2, <2>0, <2>1
    <3> QED
      BY <1>3, <1>4, <1>6, <1>7, <2>0, <2>1, <3>1
  <2>2. CASE b < i /\ i <= b + Len(f)
    <3>1. i - b \in 1 .. Len(f) /\ i \in 1 .. b + Len(f) /\ ~(i <= b)
      BY <1>2, <2>0, <2>2
    <3>2. t[i] = f[i - b]
      BY <1>3, <1>6, <1>7, <3>1
    <3>3. q[i] = g[i - b]
      BY <1>4, <2>0, <3>1
    <3> QED
      BY <1>1, <3>1, <3>2, <3>3
  <2>3. CASE i = b + Len(f) + 1
    <3>1. i - b = Len(f) + 1 /\ ~(i <= b)
      BY <1>2, <2>3
    <3>2. q[i] = g[Len(f) + 1]
      BY <1>4, <2>0, <3>1
    <3> QED
      BY <1>1, <1>6, <1>7, <2>3, <3>2
  <2>4. i <= b \/ (b < i /\ i <= b + Len(f)) \/ i = b + Len(f) + 1
    BY <1>2, <2>0
  <2> QED
    BY <2>1, <2>2, <2>3, <2>4
<1>9. Len(q) = Len(t)
  BY <1>6, <1>7
<1>10. q = t
  BY <1>4, <1>6, <1>8, <1>9, SeqEqual
<1> QED
  BY <1>10 DEF p, q, t, g

\* The first of the FIFO moves into the buffer.
LEMMA PipeStore ==
  ASSUME NEW r \in [Cells -> Chars], NEW s \in Indices, NEW b \in 0 .. Size - 1,
         NEW f \in Seq(Chars), f # <<>>
  PROVE  Pipe([r EXCEPT ![Place(s, b)] = Head(f)], s, b + 1, Tail(f)) = Pipe(r, s, b, f)
<1> DEFINE w == [r EXCEPT ![Place(s, b)] = Head(f)]
           d == b + 1
           g == Tail(f)
           p == Pipe(r, s, b, f)
           q == Pipe(w, s, d, g)
<1>1. /\ Head(f) \in Chars /\ Tail(f) \in Seq(Chars) /\ Len(Tail(f)) = Len(f) - 1
      /\ \A i \in 1 .. Len(Tail(f)) : Tail(f)[i] = f[i + 1]
      /\ Head(f) = f[1]
  BY HeadTailProperties
<1>2. b \in Nat /\ b \in 0 .. Size /\ b + 1 \in 0 .. Size /\ Len(f) \in Nat /\ Len(f) >= 1
  BY SizeAssumption, LenProperties, EmptySeq
<1>3. w \in [Cells -> Chars] /\ Place(s, b) \in Cells
  BY <1>1, PlaceType
<1>4. /\ p \in Seq(Chars) /\ Len(p) = b + Len(f)
      /\ \A i \in 1 .. b + Len(f) : p[i] = IF i <= b THEN r[Place(s, i - 1)] ELSE f[i - b]
  BY <1>2, PipeSeq
<1> HIDE DEF w, d, g
<1>11. w \in [Cells -> Chars] /\ d \in 0 .. Size /\ g \in Seq(Chars)
  BY <1>1, <1>2, <1>3 DEF w, d, g
<1>12. /\ q \in Seq(Chars) /\ Len(q) = d + Len(g)
       /\ \A i \in 1 .. d + Len(g) :
             q[i] = IF i <= d THEN w[Place(s, i - 1)] ELSE g[i - d]
  BY <1>11, PipeSeq
<1> HIDE DEF q
<1>5. /\ q \in Seq(Chars) /\ Len(q) = b + 1 + Len(Tail(f))
      /\ \A i \in 1 .. b + 1 + Len(Tail(f)) :
            q[i] = IF i <= b + 1 THEN w[Place(s, i - 1)] ELSE Tail(f)[i - (b + 1)]
  BY <1>12 DEF d, g
<1> USE DEF w
<1>6. Len(q) = Len(p)
  BY <1>1, <1>2, <1>4, <1>5
<1>7. w[Place(s, b)] = Head(f)
  BY <1>3
<1>8. ASSUME NEW k \in 0 .. b - 1 PROVE w[Place(s, k)] = r[Place(s, k)]
  <2>1. k \in 0 .. Size - 1 /\ k # b
    BY <1>2, SizeAssumption
  <2> QED
    BY <1>3, <2>1, PlacesDiffer, PlaceType
<1> HIDE DEF w, p, q
<1>9. ASSUME NEW i \in 1 .. Len(p) PROVE q[i] = p[i]
  <2>1. CASE i <= b
    <3>1. i - 1 \in 0 .. b - 1 /\ i <= b + 1
      BY <1>2, <2>1
    <3> QED
      BY <1>4, <1>5, <1>6, <1>8, <2>1, <3>1
  <2>2. CASE i = b + 1
    <3>1. i - 1 = b /\ i - b = 1 /\ ~(i <= b) /\ i <= b + 1
      BY <1>2, <2>2
    <3>2. p[i] = f[1]
      BY <1>4, <3>1
    <3>3. q[i] = w[Place(s, b)]
      BY <1>4, <1>5, <1>6, <3>1
    <3> QED
      BY <1>1, <1>7, <3>2, <3>3
  <2>3. CASE i > b + 1
    <3>1. /\ i - (b + 1) \in 1 .. Len(Tail(f)) /\ ~(i <= b) /\ ~(i <= b + 1)
          /\ (i - (b + 1)) + 1 = i - b
      BY <1>1, <1>2, <1>4, <2>3
    <3>2. q[i] = Tail(f)[i - (b + 1)]
      BY <1>4, <1>5, <1>6, <3>1
    <3>3. Tail(f)[i - (b + 1)] = f[i - b]
      BY <1>1, <3>1
    <3> QED
      BY <1>4, <3>1, <3>2, <3>3
  <2> QED
    BY <1>2, <1>4, <2>1, <2>2, <2>3
<1>10. q = p
  BY <1>4, <1>5, <1>6, <1>9, SeqEqual
<1> QED
  BY <1>10 DEF p, q, w, d, g

\* The first of the FIFO is dropped.
LEMMA PipeDrop ==
  ASSUME NEW r \in [Cells -> Chars], NEW s \in Indices, NEW b \in 0 .. Size,
         NEW f \in Seq(Chars), f # <<>>
  PROVE  LET p == Pipe(r, s, b, f)
         IN  /\ b + 1 \in 1 .. Len(p) /\ p[b + 1] = Head(f)
             /\ Pipe(r, s, b, Tail(f)) =
                   SubSeq(p, 1, (b + 1) - 1) \o SubSeq(p, (b + 1) + 1, Len(p))
<1> DEFINE p == Pipe(r, s, b, f)
           g == Tail(f)
           q == Pipe(r, s, b, g)
           u == SubSeq(p, 1, (b + 1) - 1)
           v == SubSeq(p, (b + 1) + 1, Len(p))
<1>1. /\ Tail(f) \in Seq(Chars) /\ Len(Tail(f)) = Len(f) - 1
      /\ \A i \in 1 .. Len(Tail(f)) : Tail(f)[i] = f[i + 1]
      /\ Head(f) = f[1]
  BY HeadTailProperties
<1>2. b \in Nat /\ Len(f) \in Nat /\ Len(f) >= 1
  BY SizeAssumption, LenProperties, EmptySeq
<1>3. /\ p \in Seq(Chars) /\ Len(p) = b + Len(f)
      /\ \A i \in 1 .. b + Len(f) : p[i] = IF i <= b THEN r[Place(s, i - 1)] ELSE f[i - b]
  BY PipeSeq
<1>0. g \in Seq(Chars)
  BY <1>1
<1> HIDE DEF g, p
<1>13. /\ q \in Seq(Chars) /\ Len(q) = b + Len(g)
       /\ \A i \in 1 .. b + Len(g) : q[i] = IF i <= b THEN r[Place(s, i - 1)] ELSE g[i - b]
  BY <1>0, PipeSeq
<1> HIDE DEF q
<1>14. g = Tail(f) /\ Len(g) = Len(f) - 1
  BY <1>1 DEF g
<1>4. /\ q \in Seq(Chars) /\ Len(q) = b + (Len(f) - 1)
      /\ \A i \in 1 .. b + (Len(f) - 1) :
            q[i] = IF i <= b THEN r[Place(s, i - 1)] ELSE Tail(f)[i - b]
  BY <1>13, <1>14
<1>5. b + 1 \in 1 .. Len(p) /\ p[b + 1] = Head(f)
  <2>1. b + 1 \in 1 .. b + Len(f) /\ ~(b + 1 <= b) /\ (b + 1) - b = 1
    BY <1>2
  <2> QED
    BY <1>1, <1>3, <2>1
<1>6. \A i \in 1 .. Len(p) : p[i] \in Chars
  BY <1>3, LenProperties
<1>7. /\ u \in Seq(Chars) /\ Len(u) = b
      /\ \A i \in 1 .. b : u[i] = p[i]
  <2>1. (b + 1) - 1 = b /\ \A i \in 1 .. b : p[i] \in Chars /\ 1 + i - 1 = i
    BY <1>2, <1>3, <1>6
  <2>2. /\ SubSeq(p, 1, b) \in Seq(Chars)
        /\ Len(SubSeq(p, 1, b)) = IF 1 <= b THEN b - 1 + 1 ELSE 0
        /\ \A i \in 1 .. b - 1 + 1 : SubSeq(p, 1, b)[i] = p[1 + i - 1]
    BY <1>2, <2>1, SubSeqProperties
  <2>3. b - 1 + 1 = b /\ (~(1 <= b) => b = 0)
    BY <1>2
  <2> QED
    BY <2>1, <2>2, <2>3
<1>8. /\ v \in Seq(Chars) /\ Len(v) = Len(f) - 1
      /\ \A i \in 1 .. Len(f) - 1 : v[i] = p[b + 1 + i]
  <2>1. (b + 1) + 1 \in Int /\ Len(p) \in Int
    BY <1>2, <1>3
  <2>2. \A i \in (b + 1) + 1 .. Len(p) : p[i] \in Chars
    BY <1>2, <1>6
  <2>3. /\ v \in Seq(Chars)
        /\ Len(v) = IF (b + 1) + 1 <= Len(p) THEN Len(p) - ((b + 1) + 1) + 1 ELSE 0
        /\ \A i \in 1 .. Len(p) - ((b + 1) + 1) + 1 : v[i] = p[(b + 1) + 1 + i - 1]
    BY <2>1, <2>2, SubSeqProperties
  <2>7. Len(p) = b + Len(f)
    BY <1>3
  <2>4. Len(p) - ((b + 1) + 1) + 1 = Len(f) - 1
    BY <1>2, <2>7
  <2>8. \A n \in Nat : n >= 1 => n - 1 = 0 \/ (b + 1) + 1 <= b + n
    BY <1>2
  <2>5. ~((b + 1) + 1 <= Len(p)) => Len(f) - 1 = 0
    BY <1>2, <2>7, <2>8
  <2>6. \A i \in 1 .. Len(f) - 1 : (b + 1) + 1 + i - 1 = b + 1 + i
    BY <1>2
  <2> HIDE DEF v
  <2> QED
    BY <2>3, <2>4, <2>5, <2>6
<1> HIDE DEF u, v
<1>9. /\ u \o v \in Seq(Chars) /\ Len(u \o v) = Len(u) + Len(v)
      /\ \A i \in 1 .. Len(u) + Len(v) : (u \o v)[i] = IF i <= Len(u) THEN u[i] ELSE v[i - Len(u)]
  BY <1>7, <1>8, ConcatProperties
<1>10. ASSUME NEW i \in 1 .. Len(q) PROVE q[i] = (u \o v)[i]
  <2>1. i \in 1 .. Len(u) + Len(v) /\ i \in 1 .. b + (Len(f) - 1)
    BY <1>2, <1>4, <1>7, <1>8
  <2>2. CASE i <= b
    <3>1. i \in 1 .. b /\ i \in 1 .. b + Len(f)
      BY <1>2, <2>1, <2>2
    <3>2. (u \o v)[i] = p[i]
      BY <1>7, <1>9, <2>1, <2>2, <3>1
    <3> QED
      BY <1>3, <1>4, <2>1, <2>2, <3>1, <3>2
  <2>3. CASE ~(i <= b)
    <3>1. /\ i - b \in 1 .. Len(f) - 1 /\ b + 1 + (i - b) = i + 1
          /\ i + 1 \in 1 .. b + Len(f) /\ ~(i + 1 <= b) /\ (i + 1) - b = (i - b) + 1
      BY <1>2, <2>1, <2>3
    <3>2. (u \o v)[i] = p[i + 1]
      BY <1>7, <1>8, <1>9, <2>1, <2>3, <3>1
    <3>3. p[i + 1] = f[(i - b) + 1]
      BY <1>3, <3>1
    <3>4. q[i] = Tail(f)[i - b]
      BY <1>4, <2>1, <2>3
    <3> QED
      BY <1>1, <3>1, <3>2, <3>3, <3>4
  <2> QED
    BY <2>2, <2>3
<1>11. Len(q) = Len(u \o v)
  BY <1>2, <1>4, <1>7, <1>8, <1>9
<1>12. q = u \o v
  BY <1>4, <1>9, <1>10, <1>11, SeqEqual
<1> QED
  BY <1>5, <1>12 DEF p, q, u, v, g

\* The first n characters of the buffer are given back.
LEMMA PipePop ==
  ASSUME NEW r \in [Cells -> Chars], NEW s \in Indices, NEW b \in 0 .. Size,
         NEW f \in Seq(Chars), NEW n \in 0 .. b
  PROVE  LET p == Pipe(r, s, b, f)
         IN  /\ n \in 0 .. Len(p)
             /\ \A i \in 1 .. n : p[i] = r[Place(s, i - 1)]
             /\ SubSeq(p, 1, n) \in Seq(Chars) /\ Len(SubSeq(p, 1, n)) = n
             /\ \A i \in 1 .. n : SubSeq(p, 1, n)[i] = r[Place(s, i - 1)]
             /\ Pipe(r, Wrap(s + n), b - n, f) = SubSeq(p, n + 1, Len(p))
<1> DEFINE p == Pipe(r, s, b, f)
           q == Pipe(r, Wrap(s + n), b - n, f)
           u == SubSeq(p, 1, n)
           v == SubSeq(p, n + 1, Len(p))
<1>1. b \in Nat /\ n \in Nat /\ n <= b /\ b <= Size /\ Len(f) \in Nat /\ n \in 0 .. Size
      /\ b - n \in 0 .. Size
  BY SizeAssumption, LenProperties
<1>2. Wrap(s + n) \in Indices
  BY <1>1, WrapType
<1>3. /\ p \in Seq(Chars) /\ Len(p) = b + Len(f)
      /\ \A i \in 1 .. b + Len(f) : p[i] = IF i <= b THEN r[Place(s, i - 1)] ELSE f[i - b]
  BY PipeSeq
<1>4. /\ q \in Seq(Chars) /\ Len(q) = (b - n) + Len(f)
      /\ \A i \in 1 .. (b - n) + Len(f) :
            q[i] = IF i <= b - n THEN r[Place(Wrap(s + n), i - 1)] ELSE f[i - (b - n)]
  BY <1>1, <1>2, PipeSeq
<1> HIDE DEF p, q
<1>5. \A i \in 1 .. n : p[i] = r[Place(s, i - 1)] /\ p[i] \in Chars
  <2> TAKE i \in 1 .. n
  <2>1. i \in 1 .. b + Len(f) /\ i <= b
    BY <1>1
  <2> QED
    BY <1>3, <2>1, LenProperties
<1>6. \A i \in 1 .. Len(p) : p[i] \in Chars
  BY <1>3, LenProperties
<1>7. u \in Seq(Chars) /\ Len(u) = n /\ \A i \in 1 .. n : u[i] = r[Place(s, i - 1)]
  <2>1. /\ u \in Seq(Chars)
        /\ Len(u) = IF 1 <= n THEN n - 1 + 1 ELSE 0
        /\ \A i \in 1 .. n - 1 + 1 : u[i] = p[1 + i - 1]
    BY <1>1, <1>5, SubSeqProperties
  <2>2. n - 1 + 1 = n /\ (~(1 <= n) => n = 0) /\ \A i \in 1 .. n : 1 + i - 1 = i
    BY <1>1
  <2> HIDE DEF u
  <2> QED
    BY <1>5, <2>1, <2>2
<1>8. /\ v \in Seq(Chars) /\ Len(v) = Len(p) - n
      /\ \A i \in 1 .. Len(p) - n : v[i] = p[n + i]
  <2>1. n + 1 \in Int /\ Len(p) \in Int /\ Len(p) >= n
    BY <1>1, <1>3
  <2>2. \A i \in n + 1 .. Len(p) : p[i] \in Chars
    BY <1>1, <1>6
  <2>3. /\ v \in Seq(Chars)
        /\ Len(v) = IF n + 1 <= Len(p) THEN Len(p) - (n + 1) + 1 ELSE 0
        /\ \A i \in 1 .. Len(p) - (n + 1) + 1 : v[i] = p[n + 1 + i - 1]
    BY <2>1, <2>2, SubSeqProperties
  <2>4. Len(p) - (n + 1) + 1 = Len(p) - n /\ (~(n + 1 <= Len(p)) => Len(p) - n = 0)
    BY <1>1, <2>1
  <2>5. \A i \in 1 .. Len(p) - n : n + 1 + i - 1 = n + i
    BY <1>1
  <2> HIDE DEF v
  <2> QED
    BY <2>3, <2>4, <2>5
<1> HIDE DEF v
<1>9. ASSUME NEW i \in 1 .. Len(q) PROVE q[i] = v[i]
  <2>1. i \in 1 .. (b - n) + Len(f) /\ i \in 1 .. Len(p) - n /\ n + i \in 1 .. b + Len(f)
    BY <1>1, <1>3, <1>4
  <2>2. v[i] = p[n + i]
    BY <1>8, <2>1
  <2>3. CASE i <= b - n
    <3>1. /\ n + i <= b /\ i - 1 \in Nat /\ n + (i - 1) < Size
          /\ n + (i - 1) = (n + i) - 1
      BY <1>1, <2>1, <2>3, SizeAssumption
    <3>2. Place(Wrap(s + n), i - 1) = Place(s, n + (i - 1))
      BY <1>1, <3>1, PlaceAfterPop
    <3>3. q[i] = r[Place(s, (n + i) - 1)]
      BY <1>4, <2>1, <2>3, <3>1, <3>2
    <3> QED
      BY <1>3, <2>1, <2>2, <3>1, <3>3
  <2>4. CASE ~(i <= b - n)
    <3>1. ~(n + i <= b) /\ i - (b - n) = (n + i) - b
      BY <1>1, <2>1, <2>4
    <3> QED
      BY <1>3, <1>4, <2>1, <2>2, <2>4, <3>1
  <2> QED
    BY <2>3, <2>4
<1>10. Len(q) = Len(v)
  BY <1>1, <1>3, <1>4, <1>8
<1>11. q = v
  BY <1>4, <1>8, <1>9, <1>10, SeqEqual
<1>12. n \in 0 .. Len(p)
  BY <1>1, <1>3
<1> QED
  BY <1>5, <1>7, <1>11, <1>12 DEF p, q, u, v

LEMMA PipelineIs ==
  ASSUME IInv
  PROVE  /\ Pipeline = Pipe(ring, start, Buffered, fifo)
         /\ ring \in [Cells -> Chars] /\ start \in Indices /\ fifo \in Seq(Chars)
         /\ Buffered \in 0 .. Size
<1>1. Buffered \in 0 .. Size
  BY Lengths, SizeAssumption DEF IInv, WriterSlice, Buffered
<1> QED
  BY <1>1 DEF IInv, TypeOK, Pipeline, Pipe

\* The steps that change the pipeline.
LEMMA ReceiveArrives ==
  ASSUME IInv, NEW c \in Chars, Receive(c)
  PROVE  Stream!StreamNext
<1>1. /\ fifo' = Append(fifo, c)
      /\ UNCHANGED <<ring, start, end, nRead, rxError, got>>
  BY DEF Receive, ringVars, irqVars
<1>2. Pipeline' = Pipe(ring, start, Buffered, Append(fifo, c))
  BY <1>1 DEF Pipeline, Pipe, Buffered
<1>3. Pipeline' = Append(Pipeline, c)
  BY <1>2, PipelineIs, PipeAppend
<1>4. Stream!Arrive(c)
  BY <1>1, <1>3 DEF Stream!Arrive
<1> QED
  BY <1>4 DEF Stream!StreamNext, Chars

LEMMA StoreStutters ==
  ASSUME IInv, Store
  PROVE  UNCHANGED <<Pipeline, rxError, got>>
<1>1. /\ ring' = [ring EXCEPT ![Place(start, Buffered)] = Head(fifo)]
      /\ fifo # <<>> /\ fifo' = Tail(fifo) /\ nRead' = nRead + 1
      /\ UNCHANGED <<start, end, rxError, got>>
      /\ Buffered \in 0 .. Size - 1
  BY StoreFacts
<1>2. Buffered' = Buffered + 1
  BY <1>1, Lengths DEF Buffered
<1>3. Pipeline' = Pipe(ring', start, Buffered + 1, Tail(fifo))
  BY <1>1, <1>2 DEF Pipeline, Pipe
<1>4. Pipe(ring', start, Buffered + 1, Tail(fifo)) = Pipe(ring, start, Buffered, fifo)
  BY <1>1, PipelineIs, PipeStore
<1> QED
  BY <1>1, <1>3, <1>4, PipelineIs

LEMMA DropBadMarks ==
  ASSUME IInv, DropBad
  PROVE  Stream!StreamNext
<1> DEFINE b == Buffered
           p == Pipe(ring, start, b, fifo)
<1>1. /\ fifo # <<>> /\ Head(fifo) = Bad /\ fifo' = Tail(fifo) /\ rxError' = TRUE
      /\ UNCHANGED <<ring, start, end, nRead, got>>
  BY DEF DropBad, ringVars
<1>2. Pipeline = p /\ Pipeline' = Pipe(ring, start, b, Tail(fifo))
  BY <1>1, PipelineIs DEF Pipeline, Pipe, Buffered
<1>0. /\ p = Pipe(ring, start, b, fifo)
      /\ ring \in [Cells -> Chars] /\ start \in Indices /\ fifo \in Seq(Chars)
      /\ b \in 0 .. Size /\ b = Buffered
  BY PipelineIs
<1> HIDE DEF b, p
<1>3. /\ b + 1 \in 1 .. Len(p) /\ p[b + 1] = Head(fifo)
      /\ Pipe(ring, start, b, Tail(fifo)) =
            SubSeq(p, 1, (b + 1) - 1) \o SubSeq(p, (b + 1) + 1, Len(p))
  BY <1>0, <1>1, PipeDrop
<1>4. \A j \in 1 .. (b + 1) - 1 : p[j] # Bad
  <2> TAKE j \in 1 .. (b + 1) - 1
  <2>1. b \in 0 .. Size /\ b \in Nat
    BY <1>0, SizeAssumption
  <2>2. j - 1 \in 0 .. b - 1 /\ j <= b /\ j \in 1 .. b
    BY <2>1
  <2>3. b \in 0 .. b
    BY <2>1
  <2>4. p[j] = ring[Place(start, j - 1)]
    BY <1>0, <2>1, <2>2, <2>3, PipePop
  <2> QED
    BY <1>0, <2>2, <2>4 DEF IInv, GoodOnly
<1>5. Stream!Mark(b + 1)
  BY <1>1, <1>2, <1>3, <1>4 DEF Stream!Mark
<1>6. b + 1 \in 1 .. Len(Pipeline)
  BY <1>2, <1>3
<1> QED
  BY <1>5, <1>6 DEF Stream!StreamNext

LEMMA PushDoneStutters ==
  ASSUME IInv, PushDone
  PROVE  UNCHANGED <<Pipeline, rxError, got>>
<1>1. /\ UNCHANGED <<ring, start, fifo, rxError, got>>
      /\ Used(start, end') = Used(start, end) + nRead /\ nRead' = 0
  BY PushDoneFacts
<1>2. Buffered' = Buffered
  BY <1>1, Lengths DEF Buffered
<1> QED
  BY <1>1, <1>2 DEF Pipeline

LEMMA GiveBackDelivers ==
  ASSUME IInv, PopDone \/ (\E m \in 0 .. Size : Consume(m))
  PROVE  Stream!StreamNext
<1> PICK n \in 0 .. slice :
      /\ slice <= Used(start, end) /\ Cell(start) + slice <= Size
      /\ start' = Wrap(start + n) /\ got' = Stored(n)
      /\ UNCHANGED <<fifo, ring, end, rxError, nRead>>
  BY GiveBack
<1> DEFINE b == Buffered
           p == Pipe(ring, start, b, fifo)
<1>1. b \in 0 .. Size /\ Used(start, end) <= b /\ Used(start, end) \in Nat /\ b \in Nat
  BY PipelineIs, Lengths, SizeAssumption DEF Buffered
<1>2. slice \in 0 .. Size
  BY DEF IInv, TypeOK
<1>3. n \in Nat /\ n \in 0 .. b /\ n <= Used(start, end) /\ Cell(start) + n <= Size
  BY <1>1, <1>2, Lengths, SizeAssumption
<1>4. Buffered' = b - n
  BY <1>3, UsedAfterPop, Lengths DEF Buffered
<1>5. Pipeline = p /\ Pipeline' = Pipe(ring, Wrap(start + n), b - n, fifo)
  BY <1>4, PipelineIs DEF Pipeline, Pipe
<1>0. /\ p = Pipe(ring, start, b, fifo)
      /\ ring \in [Cells -> Chars] /\ start \in Indices /\ fifo \in Seq(Chars)
      /\ b \in 0 .. Size /\ b = Buffered
  BY PipelineIs
<1> HIDE DEF b, p
<1>6. /\ n \in 0 .. Len(p)
      /\ \A i \in 1 .. n : p[i] = ring[Place(start, i - 1)]
      /\ SubSeq(p, 1, n) \in Seq(Chars) /\ Len(SubSeq(p, 1, n)) = n
      /\ \A i \in 1 .. n : SubSeq(p, 1, n)[i] = ring[Place(start, i - 1)]
      /\ Pipe(ring, Wrap(start + n), b - n, fifo) = SubSeq(p, n + 1, Len(p))
  <2>1. LET o == Pipe(ring, start, b, fifo)
        IN  /\ n \in 0 .. Len(o)
            /\ \A i \in 1 .. n : o[i] = ring[Place(start, i - 1)]
            /\ SubSeq(o, 1, n) \in Seq(Chars) /\ Len(SubSeq(o, 1, n)) = n
            /\ \A i \in 1 .. n : SubSeq(o, 1, n)[i] = ring[Place(start, i - 1)]
            /\ Pipe(ring, Wrap(start + n), b - n, fifo) = SubSeq(o, n + 1, Len(o))
    BY <1>0, <1>3, PipePop
  <2> QED
    BY <1>0, <2>1
<1>7. Stored(n) = SubSeq(p, 1, n)
  <2>1. /\ Stored(n) \in Seq(Chars) /\ Len(Stored(n)) = n
        /\ \A i \in 1 .. n : Stored(n)[i] = ring[Cell(start) + i - 1]
    BY <1>3, StoredSeq DEF IInv
  <2>2. ASSUME NEW i \in 1 .. n
        PROVE  Stored(n)[i] = SubSeq(p, 1, n)[i]
    <3>1. /\ i - 1 \in Nat /\ Cell(start) + (i - 1) < Size
          /\ Cell(start) + (i - 1) = Cell(start) + i - 1
      BY <1>3, Lengths, SizeAssumption
    <3>2. Place(start, i - 1) = Cell(start) + i - 1
      BY <3>1, PlaceInSlice, Lengths
    <3> QED
      BY <1>6, <2>1, <3>2
  <2> QED
    BY <1>6, <2>1, <2>2, SeqEqual
<1>8. \A j \in 1 .. n : p[j] # Bad
  <2> TAKE j \in 1 .. n
  <2>1. j - 1 \in 0 .. Buffered - 1
    BY <1>0, <1>1, <1>3
  <2> QED
    BY <1>6, <2>1 DEF IInv, GoodOnly
<1>9. CASE n > 0
  <2>1. Stream!Deliver(n)
    BY <1>5, <1>6, <1>7, <1>8 DEF Stream!Deliver
  <2>2. n \in 1 .. Len(Pipeline)
    BY <1>3, <1>5, <1>6, <1>9
  <2> QED
    BY <2>1, <2>2 DEF Stream!StreamNext
<1>10. CASE n = 0
  <2>1. start' = start
    BY <1>10, Lengths, SizeAssumption DEF Indices, Wrap
  <2>2. Pipeline' = Pipeline
    BY <2>1 DEF Pipeline, Buffered
  <2>3. got' = <<>>
    BY <1>10 DEF Stored
  <2>4. Stream!Done
    BY <2>2, <2>3 DEF Stream!Done
  <2> QED
    BY <2>4 DEF Stream!StreamNext
<1> QED
  BY <1>3, <1>9, <1>10

\* The steps that leave it alone.
LEMMA PipelineRests ==
  ASSUME UNCHANGED <<ring, start, end, nRead, fifo>>
  PROVE  Pipeline' = Pipeline
  BY DEF Pipeline, Buffered

LEMMA ReturnIsDone ==
  ASSUME (\E r \in Readers, c \in Calls : Call(r, c)) \/ LetGo \/ Unmask
  PROVE  Stream!StreamNext
<1>1. UNCHANGED <<ring, start, end, nRead, fifo, rxError>> /\ got' = <<>>
  BY DEF Call, LetGo, Unmask, ringVars, irqVars
<1>2. Stream!Done
  BY <1>1, PipelineRests DEF Stream!Done
<1> QED
  BY <1>2 DEF Stream!StreamNext

LEMMA TakeErrorReports == TakeError => Stream!StreamNext
<1> SUFFICES ASSUME TakeError PROVE Stream!StreamNext
  OBVIOUS
<1>1. /\ UNCHANGED <<ring, start, end, nRead, fifo>>
      /\ rxError /\ rxError' = FALSE /\ got' = <<Bad>>
  BY DEF TakeError, ringVars, irqVars
<1>2. Stream!Report
  BY <1>1, PipelineRests DEF Stream!Report
<1> QED
  BY <1>2 DEF Stream!StreamNext

LEMMA OthersStutter ==
  ASSUME \/ RxInterrupt \/ TxInterrupt \/ PushSlice \/ WakeReader \/ CheckFull \/ Mask
         \/ PopBuf \/ (\E k \in 1 .. MaxRead : Copy(k)) \/ NothingThere \/ Register
         \/ Poll \/ WokenByOther \/ DropFuture \/ UNCHANGED vars
  PROVE  UNCHANGED <<Pipeline, rxError, got>>
<1>1. UNCHANGED <<ring, start, end, nRead, fifo, rxError, got>>
  BY DEF RxInterrupt, TxInterrupt, PushSlice, WakeReader, CheckFull, Mask, PopBuf, Copy,
         NothingThere, Register, Poll, WokenByOther, DropFuture, vars, ringVars, irqVars
<1> QED
  BY <1>1, PipelineRests

LEMMA StepRefines ==
  ASSUME IInv, [Next]_vars
  PROVE  [Stream!StreamNext]_Stream!streamVars
<1>1. CASE (\E c \in Chars : Receive(c)) \/ DropBad
  BY <1>1, ReceiveArrives, DropBadMarks
<1>2. CASE Store \/ PushDone
  BY <1>2, StoreStutters, PushDoneStutters DEF Stream!streamVars
<1>3. CASE PopDone \/ (\E m \in 0 .. Size : Consume(m))
  BY <1>3, GiveBackDelivers
<1>4. CASE (\E r \in Readers, c \in Calls : Call(r, c)) \/ LetGo \/ Unmask
  BY <1>4, ReturnIsDone
<1>5. CASE TakeError
  BY <1>5, TakeErrorReports
<1>6. CASE \/ RxInterrupt \/ TxInterrupt \/ PushSlice \/ WakeReader \/ CheckFull \/ Mask
           \/ PopBuf \/ (\E k \in 1 .. MaxRead : Copy(k)) \/ NothingThere \/ Register
           \/ Poll \/ WokenByOther \/ DropFuture \/ UNCHANGED vars
  BY <1>6, OthersStutter DEF Stream!streamVars
<1> QED
  BY <1>1, <1>2, <1>3, <1>4, <1>5, <1>6 DEF Next, Handler, Reading, User

LEMMA InitRefines ==
  ASSUME Init
  PROVE  Stream!StreamInit
<1>1. /\ start = 0 /\ end = 0 /\ nRead = 0 /\ fifo = <<>> /\ rxError = FALSE /\ got = <<>>
  BY DEF Init
<1>2. Buffered = 0 /\ Len(fifo) = 0
  BY <1>1 DEF Buffered, Used
<1>3. Pipeline = <<>>
  BY <1>2 DEF Pipeline
<1> QED
  BY <1>1, <1>3 DEF Stream!StreamInit

\* With slices of which each side keeps its own while the other goes on, and
\* indices that wrap, every character is handed over once and in order, on any
\* number of cores and for any length of the buffer, the FIFO and the reads.
THEOREM RefinesStream == Spec => ImplementsStream
<1>1. Init => Stream!StreamInit
  BY InitRefines
<1>2. IInv /\ [Next]_vars => [Stream!StreamNext]_Stream!streamVars
  BY StepRefines
<1> QED
  BY <1>1, <1>2, Inductive, PTL DEF Spec, Safety, ImplementsStream, Stream!StreamSpec
=============================================================================
