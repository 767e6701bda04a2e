--------------------------- MODULE ZeroCopyChannel ---------------------------
(***************************************************************************)
(* State of embassy_sync::zerocopy_channel as a record: the indices into a *)
(* buffer of recyclable elements, the elements, and whether the waker of   *)
(* either side is registered.  An element is lent out by its index and     *)
(* stays in the channel until its borrower is done with it.                *)
(***************************************************************************)
EXTENDS Naturals

Channel(Elements, capacity) ==
    [front : 0 .. capacity - 1, back : 0 .. capacity - 1, full : BOOLEAN,
     element : [0 .. capacity - 1 -> Elements],
     sender : BOOLEAN, receiver : BOOLEAN]

NewChannel(element, capacity) ==
    [front |-> 0, back |-> 0, full |-> FALSE,
     element |-> [i \in 0 .. capacity - 1 |-> element],
     sender |-> FALSE, receiver |-> FALSE]

Increment(i, capacity) == IF i + 1 = capacity THEN 0 ELSE i + 1

IsFull(ch) == ch.full
IsEmpty(ch) == ch.front = ch.back /\ ~ch.full

\* The element that is lent to the receiver.
First(ch) == ch.element[ch.front]

\* Mutant: the last free element is not counted as taken.
PushDoneNeverFull(ch, e, capacity) ==
    [ch EXCEPT !.element[ch.back] = e,
               !.back = Increment(ch.back, capacity),
               !.receiver = FALSE]

\* try_send, writing e, and send_done, which wakes the receiver.
PushDone(ch, e, capacity) ==
    [ch EXCEPT !.element[ch.back] = e,
               !.back = Increment(ch.back, capacity),
               !.full = Increment(ch.back, capacity) = ch.front,
               !.receiver = FALSE]

\* receive_done, which wakes the sender.
PopDone(ch, capacity) ==
    [ch EXCEPT !.front = Increment(ch.front, capacity),
               !.full = FALSE,
               !.sender = FALSE]

\* poll_send and poll_receive register the waker of who has to wait.
AwaitRoom(ch) == [ch EXCEPT !.sender = @ \/ IsFull(ch)]
AwaitElement(ch) == [ch EXCEPT !.receiver = @ \/ IsEmpty(ch)]
=============================================================================
