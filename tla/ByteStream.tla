----------------------------- MODULE ByteStream -----------------------------
(***************************************************************************)
(* What a buffered receiver promises: every character that arrives is      *)
(* handed to the reader once and in order.  A character that was received  *)
(* badly is not handed out; it leaves a mark, and any number of marks are  *)
(* reported as one error, at a point of the stream that is left open.      *)
(***************************************************************************)
EXTENDS Naturals, Sequences

CONSTANTS Good, Bad   \* well received characters; a badly received one

VARIABLES
    stream,   \* characters that arrived and have not been read
    marked,   \* an error is yet to be reported
    got       \* what the reader is given

streamVars == <<stream, marked, got>>

StreamInit ==
    /\ stream = <<>>
    /\ marked = FALSE
    /\ got = <<>>

Done ==
    /\ got' = <<>>
    /\ UNCHANGED <<stream, marked>>

Arrive(c) ==
    /\ UNCHANGED <<marked, got>>
    /\ stream' = Append(stream, c)

\* The bad character with nothing but good ones in front of it is dropped.
Mark(i) ==
    /\ marked' = TRUE
    /\ UNCHANGED got
    /\ stream[i] = Bad
    /\ \A j \in 1 .. i - 1 : stream[j] # Bad
    /\ stream' = SubSeq(stream, 1, i - 1) \o SubSeq(stream, i + 1, Len(stream))

Deliver(n) ==
    /\ UNCHANGED marked
    /\ got' = SubSeq(stream, 1, n)
    /\ \A j \in 1 .. n : stream[j] # Bad
    /\ stream' = SubSeq(stream, n + 1, Len(stream))

Report ==
    /\ marked
    /\ marked' = FALSE
    /\ got' = <<Bad>>
    /\ UNCHANGED stream

StreamNext ==
    \/ Done
    \/ \E c \in Good \cup {Bad} : Arrive(c)
    \/ \E i \in 1 .. Len(stream) : Mark(i)
    \/ \E n \in 1 .. Len(stream) : Deliver(n)
    \/ Report

StreamSpec == StreamInit /\ [][StreamNext]_streamVars
=============================================================================
