--------------------------- MODULE BufferedUartRx ---------------------------
(***************************************************************************)
(* The receiving half of the RP2040's buffered UART (embassy-rp/src/uart/  *)
(* buffered.rs) on the atomic ring buffer: the interrupt handler moves     *)
(* characters from the hardware's FIFO into the buffer and wakes the       *)
(* reader, which reads, borrows or polls the buffer without a lock.  One   *)
(* action per access to what both share.                                   *)
(*                                                                         *)
(* The handler preempts the reader when both run on one core (sameCore)    *)
(* and interleaves with it freely when the reader runs on the other one.   *)
(* It also runs for the transmitter, which shares the interrupt.           *)
(***************************************************************************)
EXTENDS AtomicRingBuffer, Sequences

CONSTANTS
    Readers,    \* tasks that take turns with the receiver
    FifoSize,   \* characters that the hardware keeps
    MaxRead,    \* the length of the buffer passed to read, at most
    Good,       \* characters received well
    Bad,        \* one with an error
    None

ASSUME ReceiverAssumption ==
    /\ {FifoSize, MaxRead} \subseteq Nat \ {0}
    /\ None \notin Readers
    /\ Bad \notin Good

Chars == Good \cup {Bad}

VARIABLES
    sameCore,   \* the reader runs on the core that handles the interrupt
    fifo,       \* the receive FIFO
    unmasked,   \* rxim and rtim of UARTIMSC
    ring,       \* State.rx_buf: its memory,
    start,      \* ... the reader's index
    end,        \* ... and the writer's index
    rxError,    \* State.rx_error is not zero
    waker,      \* State.rx_waker
    irq,        \* where the interrupt handler is
    room,       \* the length of its slice of the buffer
    nRead,      \* the characters it has put there
    error,      \* it met a bad one
    pc,         \* where the reader is
    reader,     \* the task that reads
    call,       \* what it called
    slice,      \* the length of its slice of the ring buffer
    copied,     \* what it has read from there
    woken,      \* tasks that were woken and not yet polled
    got,        \* what the call that is about to return returns
    late,       \* history: the waker was not there when the reader looked
    deaf        \* history: a read is over and left the interrupt masked

ringVars == <<ring, start, end>>
irqVars == <<irq, room, nRead, error>>
callVars == <<reader, call>>
historyVars == <<late, deaf>>
readVars == <<pc, callVars, slice, copied>>
vars == <<sameCore, fifo, unmasked, ringVars, rxError, waker, irqVars,
          readVars, woken, got, historyVars>>

Calls == {"read", "blocking_read", "fill_buf"}

TypeOK ==
    /\ sameCore \in BOOLEAN
    /\ fifo \in Seq(Chars) /\ Len(fifo) <= FifoSize
    /\ unmasked \in BOOLEAN
    /\ ring \in [Cells -> Chars]
    /\ start \in Indices
    /\ end \in Indices
    /\ rxError \in BOOLEAN
    /\ waker \in Readers \cup {None}
    /\ irq \in {"idle", "push_slice", "drain", "wake", "is_full",
                "mask"}
    /\ room \in 0 .. Size
    /\ nRead \in 0 .. room
    /\ error \in BOOLEAN
    /\ pc \in {"idle", "pop_buf", "copy", "pop_done", "rx_error", "register",
               "asleep", "borrowed", "unmask"}
    /\ reader \in Readers \cup {None}
    /\ pc # "idle" => reader # None
    /\ call \in Calls
    /\ slice \in 0 .. Size
    /\ copied \in Seq(Chars) /\ Len(copied) <= Size
    /\ woken \in SUBSET Readers
    /\ got \in Seq(Chars)
    /\ late \in BOOLEAN
    /\ deaf \in BOOLEAN

\* init_buffers: the interrupts are enabled.
Init ==
    /\ sameCore \in BOOLEAN
    /\ fifo = <<>>
    /\ unmasked = TRUE
    /\ ring = [c \in Cells |-> Bad]
    /\ start = 0
    /\ end = 0
    /\ rxError = FALSE
    /\ waker = None
    /\ irq = "idle"
    /\ room = 0
    /\ nRead = 0
    /\ error = FALSE
    /\ pc = "idle"
    /\ reader = None
    /\ call = "read"
    /\ slice = 0
    /\ copied = <<>>
    /\ woken = {}
    /\ got = <<>>
    /\ late = FALSE
    /\ deaf = FALSE

---------------------------------------------------------------------------
(* The hardware.                                                           *)

\* A character arrives, well or with a framing, parity or break error.  If the
\* FIFO is full it is lost, and one after it carries the overrun error.
Receive(c) ==
    /\ Len(fifo) < FifoSize
    /\ fifo' = Append(fifo, c)
    /\ UNCHANGED <<sameCore, unmasked, ringVars, rxError, waker, irqVars,
                   readVars, woken, got, historyVars>>

\* The interrupt line is high as long as the FIFO holds something, at the
\* latest after the receive timeout, ...
RxInterrupt ==
    /\ irq = "idle"
    /\ unmasked /\ fifo # <<>>
    /\ irq' = "push_slice"
    /\ UNCHANGED <<sameCore, fifo, unmasked, ringVars, rxError, waker,
                   room, nRead, error, readVars, woken, got, historyVars>>

\* ... and whenever the transmitter wants it.
TxInterrupt ==
    /\ irq = "idle"
    /\ irq' = "push_slice"
    /\ UNCHANGED <<sameCore, fifo, unmasked, ringVars, rxError, waker,
                   room, nRead, error, readVars, woken, got, historyVars>>

---------------------------------------------------------------------------
(* BufferedInterruptHandler::on_interrupt.                                 *)

PushSlice ==
    /\ irq = "push_slice"
    /\ room' = FreeSlice(start, end)
    /\ irq' = "drain"
    /\ UNCHANGED <<sameCore, fifo, unmasked, ringVars, rxError, waker,
                   nRead, error, readVars, woken, got, historyVars>>

\* One round of the loop over the slice: a good character is stored, ...
Store ==
    /\ irq = "drain" /\ nRead < room /\ ~error
    /\ fifo # <<>> /\ Head(fifo) # Bad
    /\ fifo' = Tail(fifo)
    /\ ring' = [ring EXCEPT ![Cell(end) + nRead] = Head(fifo)]
    /\ nRead' = nRead + 1
    /\ UNCHANGED <<sameCore, unmasked, start, end, rxError,
                   waker, irq, room, error, readVars, woken, got, historyVars>>

\* ... a bad one is dropped and ends the loop, ...
DropBad ==
    /\ irq = "drain" /\ nRead < room /\ ~error
    /\ fifo # <<>> /\ Head(fifo) = Bad
    /\ fifo' = Tail(fifo)
    /\ rxError' = TRUE
    /\ error' = TRUE
    /\ UNCHANGED <<sameCore, unmasked, ringVars, waker, irq, room,
                   nRead, readVars, woken, got, historyVars>>

\* ... and so does the end of the slice or of the FIFO.  What was stored is
\* published by the store to `end`.
PushDone ==
    /\ irq = "drain"
    /\ error \/ nRead = room \/ fifo = <<>>
    /\ end' = Wrap(end + nRead)
    /\ irq' = IF nRead > 0 \/ error THEN "wake" ELSE "is_full"
    /\ room' = 0
    /\ nRead' = 0
    /\ UNCHANGED <<sameCore, fifo, unmasked, ring, start, rxError, waker,
                   error, readVars, woken, got, historyVars>>

\* Mutant: the waker is used up without waking anybody.
WakeForgets ==
    /\ irq = "wake"
    /\ waker' = None
    /\ irq' = "is_full"
    /\ UNCHANGED <<sameCore, fifo, unmasked, ringVars, rxError, room,
                   nRead, error, readVars, woken, got, historyVars>>

\* AtomicWaker::wake keeps the waker.
WakeReader ==
    /\ irq = "wake"
    /\ woken' = woken \cup ({waker} \ {None})
    /\ irq' = "is_full"
    /\ UNCHANGED <<sameCore, fifo, unmasked, ringVars, rxError, waker,
                   room, nRead, error, readVars, got, historyVars>>

CheckFull ==
    /\ irq = "is_full"
    /\ irq' = IF IsFull(start, end) \/ error THEN "mask" ELSE "idle"
    /\ error' = FALSE
    /\ UNCHANGED <<sameCore, fifo, unmasked, ringVars, rxError, waker,
                   room, nRead, readVars, woken, got, historyVars>>

Mask ==
    /\ irq = "mask"
    /\ unmasked' = FALSE
    /\ irq' = "idle"
    /\ UNCHANGED <<sameCore, fifo, ringVars, rxError, waker, room, nRead,
                   error, readVars, woken, got, historyVars>>

---------------------------------------------------------------------------
(* The reader: read, blocking_read, fill_buf and consume.                  *)

MayRun == sameCore => irq = "idle"

\* The handler is past its look at the buffer, or past an error, and will mask
\* the interrupt.
MaskComes == irq = "mask" \/ error

Call(r, c) ==
    /\ pc = "idle"
    /\ reader' = r
    /\ call' = c
    /\ pc' = "pop_buf"
    /\ got' = <<>>
    /\ UNCHANGED <<sameCore, fifo, unmasked, ringVars, rxError, waker,
                   irqVars, slice, copied, woken, historyVars>>

\* The call returns; its locals go out of scope.
Return ==
    /\ pc' = "idle"
    /\ reader' = None
    /\ call' = "read"
    /\ slice' = 0
    /\ copied' = <<>>
    /\ late' = FALSE

\* Reader::pop_buf reads `end`; pop_done(0) of an empty slice changes nothing.
\* A call that finds something is known by where it goes on.
PopBuf ==
    /\ pc = "pop_buf"
    /\ slice' = FilledSlice(start, end)
    /\ pc' = IF slice' = 0 THEN "rx_error"
             ELSE IF call = "fill_buf" THEN "borrowed" ELSE "copy"
    /\ call' = IF slice' = 0 THEN call ELSE "read"
    /\ UNCHANGED <<sameCore, fifo, unmasked, ringVars, rxError, waker,
                   irqVars, reader, copied, woken, got, historyVars>>

\* The first n characters of the slice.
Stored(n) == [i \in 1 .. n |-> ring[Cell(start) + i - 1]]

\* try_read's closure copies what fits into its caller's buffer of length k.
Copy(k) ==
    /\ pc = "copy"
    /\ copied' = Stored(IF slice < k THEN slice ELSE k)
    /\ pc' = "pop_done"
    /\ UNCHANGED <<sameCore, fifo, unmasked, ringVars, rxError, waker,
                   irqVars, callVars, slice, woken, got, historyVars>>

PopDone ==
    /\ pc = "pop_done"
    /\ start' = Wrap(start + Len(copied))
    /\ got' = copied
    /\ slice' = 0
    /\ copied' = <<>>
    /\ pc' = "unmask"
    /\ UNCHANGED <<sameCore, fifo, unmasked, ring, end, rxError, waker,
                   irqVars, callVars, woken, historyVars>>

\* fill_buf returns the slice; its user reads it in place, up to the moment in
\* which it consumes some of it, or lets go of it.
Consume(n) ==
    /\ pc = "borrowed" /\ n <= slice
    /\ start' = Wrap(start + n)
    /\ got' = Stored(n)
    /\ slice' = 0
    /\ pc' = "unmask"
    /\ UNCHANGED <<sameCore, fifo, unmasked, ring, end, rxError, waker,
                   irqVars, callVars, copied, woken, historyVars>>

LetGo ==
    /\ pc = "borrowed"
    /\ Return
    /\ got' = <<>>
    /\ UNCHANGED <<sameCore, fifo, unmasked, ringVars, rxError, waker,
                   irqVars, woken, deaf>>

\* Mutant: a read leaves the interrupt masked.
UnmaskNot ==
    /\ pc = "unmask"
    /\ Return
    /\ got' = <<>>
    /\ UNCHANGED <<sameCore, fifo, unmasked, ringVars, rxError, waker,
                   irqVars, woken, deaf>>

\* On the other core this may come between the handler's decision and its mask.
Unmask ==
    /\ pc = "unmask"
    /\ unmasked' = TRUE
    /\ deaf' = MaskComes
    /\ Return
    /\ got' = <<>>
    /\ UNCHANGED <<sameCore, fifo, ringVars, rxError, waker, irqVars,
                   woken>>

\* Mutant: an error is returned at once, without unmasking the interrupt.
TakeErrorEarly ==
    /\ pc = "rx_error" /\ rxError
    /\ rxError' = FALSE
    /\ got' = <<Bad>>
    /\ Return
    /\ UNCHANGED <<sameCore, fifo, unmasked, ringVars, waker, irqVars,
                   woken, deaf>>

\* get_rx_error swaps the error bits out.  fill_buf then returns at once, and
\* leaves it to a later consume or read to unmask the interrupt.
TakeError ==
    /\ pc = "rx_error" /\ rxError
    /\ rxError' = FALSE
    /\ got' = <<Bad>>
    /\ IF call = "fill_buf"
       THEN Return /\ deaf' = (~unmasked \/ MaskComes)
       ELSE /\ pc' = "unmask"
            /\ call' = "read"
            /\ UNCHANGED <<reader, slice, copied, historyVars>>
    /\ UNCHANGED <<sameCore, fifo, unmasked, ringVars, waker, irqVars,
                   woken>>

NothingThere ==
    /\ pc = "rx_error" /\ ~rxError
    /\ pc' = IF call = "blocking_read" THEN "pop_buf" ELSE "register"
    /\ UNCHANGED <<sameCore, fifo, unmasked, ringVars, rxError, waker,
                   irqVars, callVars, slice, copied, woken, got, historyVars>>

\* The waker is registered after the look at the buffer.
Register ==
    /\ pc = "register"
    /\ waker' = reader
    /\ late' = (waker # reader)
    /\ pc' = "asleep"
    /\ UNCHANGED <<sameCore, fifo, unmasked, ringVars, rxError, irqVars,
                   callVars, slice, copied, woken, got, deaf>>

\* The executor polls a task that was woken.
Poll ==
    /\ pc = "asleep" /\ reader \in woken
    /\ woken' = woken \ {reader}
    /\ pc' = "pop_buf"
    /\ late' = FALSE
    /\ UNCHANGED <<sameCore, fifo, unmasked, ringVars, rxError, waker,
                   irqVars, callVars, slice, copied, got, deaf>>

WokenByOther ==
    /\ pc = "asleep" /\ reader \notin woken
    /\ woken' = woken \cup {reader}
    /\ UNCHANGED <<sameCore, fifo, unmasked, ringVars, rxError, waker,
                   irqVars, readVars, got, historyVars>>

DropFuture ==
    /\ pc = "asleep"
    /\ Return
    /\ UNCHANGED <<sameCore, fifo, unmasked, ringVars, rxError, waker,
                   irqVars, woken, got, deaf>>

---------------------------------------------------------------------------
Handler ==
    \/ PushSlice \/ Store \/ DropBad \/ PushDone
    \/ WakeReader \/ CheckFull \/ Mask

Reading ==
    MayRun /\ (\/ PopBuf \/ (\E k \in 1 .. MaxRead : Copy(k)) \/ PopDone
               \/ Unmask \/ TakeError \/ NothingThere \/ Register \/ Poll)

User ==
    MayRun /\ (\/ \E r \in Readers, c \in Calls : Call(r, c)
               \/ \E n \in 0 .. Size : Consume(n)
               \/ LetGo \/ WokenByOther \/ DropFuture)

Next ==
    \/ \E c \in Chars : Receive(c)
    \/ RxInterrupt \/ TxInterrupt \/ Handler
    \/ Reading \/ User

\* The handler is called when its line is high, and runs to its end; and the
\* interrupts leave the processor some time for the task that reads.
Fairness ==
    /\ WF_vars(RxInterrupt) /\ WF_vars(Handler)
    /\ SF_vars(Reading)

Safety == Init /\ [][Next]_vars
Spec == Safety /\ Fairness
---------------------------------------------------------------------------
(* Properties.                                                             *)

\* The characters between the line and the reader: in the ring buffer, in the
\* handler's slice behind them, and in the FIFO.
Buffered == Used(start, end) + nRead
Pipeline ==
    [i \in 1 .. Buffered + Len(fifo) |->
        IF i <= Buffered THEN ring[Cell(Wrap(start + i - 1))]
        ELSE fifo[i - Buffered]]

\* Lock-free, with indices that wrap and slices of which each side keeps its
\* own while the other goes on, the driver hands over every character that
\* the FIFO took, once and in order ("One concurrent writer and one concurrent
\* reader are supported, even at different execution priorities").
Stream == INSTANCE ByteStream WITH stream <- Pipeline, marked <- rxError

ImplementsStream == Stream!StreamSpec

\* A reader sleeps beside characters or an error only until the handler, which
\* has not finished yet, wakes it; except in the first wait of its task, for
\* which the waker comes too late.
NoLostWakeup ==
    pc = "asleep" /\ reader \notin woken /\ ~late =>
        \/ start = end /\ ~rxError
        \/ irq \in {"drain", "wake"}

\* The handler masks the interrupt when the buffer is full or an error came,
\* and a reader that finds what it left there unmasks it: the interrupt is
\* masked only as long as there is something to read, or has just been read.
\* There are two exceptions (deaf): fill_buf returns an error and unmasks nothing,
\* and on the other core a reader may be done before the handler masks.
MaskedForAReason == ~unmasked =>
    start # end \/ rxError \/ pc = "unmask" \/ deaf

\* "(Re-)Enable the interrupt to receive more data in case it was disabled because
\* the buffer was full or errors were detected" (try_read, consume).
MaskEndsWithReading == ~unmasked => start # end \/ rxError \/ pc = "unmask"

\* What arrives while a task waits ends the wait, on either core: the handler
\* moves it, or the read finds what the interrupt was masked for.  Not so behind a
\* mask that the read before has left (deaf), as long as there is nothing else to
\* find, nor in the wait whose waker came too late.
Busy == pc \notin {"idle", "borrowed"}
Heard ==
    /\ fifo # <<>>
    /\ deaf => start # end \/ rxError
    /\ call = "blocking_read" \/ (waker = reader /\ ~late)

ReadEnds == Busy /\ Heard ~> ~Busy
=============================================================================
