-------------------------- MODULE AtomicRingBuffer --------------------------
(***************************************************************************)
(* The index arithmetic of embassy-hal-internal's atomic ring buffer       *)
(* (atomic_ring_buffer.rs).  `start` and `end` run over twice the length   *)
(* of the buffer, so that equal indices mean empty and indices a length    *)
(* apart mean full.  Writer and reader each get one contiguous slice at a  *)
(* time, which ends where the buffer wraps.                                *)
(***************************************************************************)
EXTENDS Naturals

CONSTANT Size   \* RingBuffer.len

ASSUME SizeAssumption == Size \in Nat \ {0}

Cells == 0 .. Size - 1
Indices == 0 .. 2 * Size - 1

Wrap(n) == IF n >= 2 * Size THEN n - 2 * Size ELSE n
Cell(i) == IF i >= Size THEN i - Size ELSE i

IsFull(s, e) == Wrap(s + Size) = e

\* How many characters are stored between the indices s and e.
Used(s, e) == IF s <= e THEN e - s ELSE e + 2 * Size - s

\* Mutant: takes a full buffer for an empty one.
FreeSliceFull(s, e) ==
    IF Cell(s) > Cell(e) THEN Cell(s) - Cell(e) ELSE Size - Cell(e)

\* push_buf: the free cells from the one at e on.
FreeSlice(s, e) ==
    IF Cell(s) = Cell(e) /\ s # e THEN 0
    ELSE IF Cell(s) > Cell(e) THEN Cell(s) - Cell(e) ELSE Size - Cell(e)

\* pop_buf: the filled cells from the one at s on.
FilledSlice(s, e) ==
    IF s = e THEN 0
    ELSE IF Cell(e) > Cell(s) THEN Cell(e) - Cell(s) ELSE Size - Cell(s)
=============================================================================
