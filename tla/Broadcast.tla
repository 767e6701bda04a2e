----------------------------- MODULE Broadcast -----------------------------
(***************************************************************************)
(* What a publish-subscribe channel promises: every subscriber has an      *)
(* inbox of its own, of CAP messages, that it reads in order; a message    *)
(* that does not fit makes it lose its oldest one and be told how many it  *)
(* lost.  There are no shared counters, wakers or polls here.              *)
(***************************************************************************)
EXTENDS Naturals, Sequences, FiniteSets

CONSTANTS
    Subs, Pubs,   \* the tasks that subscribe and those that publish
    CAP,          \* messages the channel keeps
    SUBS, PUBS,   \* subscribers and publishers that may exist at a time
    MaxId,        \* bound on the messages that are published
    Nil

VARIABLES
    subscribers, publishers,  \* the handles that exist
    inbox,                    \* what a subscriber has still to read
    lag,                      \* how many it lost and was not told of
    delivered,                \* the message it read last
    next_message_id,          \* the next message; the sequence number is its content
    waiting,                  \* the tasks with a pending next_message or publish
    lagging_drop              \* a subscriber was dropped before it was told of a loss

channel == <<inbox, lag, next_message_id>>
handles == <<subscribers, publishers>>
avars == <<channel, handles, delivered, waiting, lagging_drop>>

Init ==
    /\ subscribers = {} /\ publishers = {} /\ waiting = {}
    /\ inbox = [s \in Subs |-> <<>>]
    /\ lag = [s \in Subs |-> 0]
    /\ delivered = [s \in Subs |-> Nil]
    /\ next_message_id = 0
    /\ lagging_drop = FALSE

Room == \A s \in subscribers : Len(inbox[s]) < CAP

Subscribe(s) ==
    /\ s \notin subscribers /\ Cardinality(subscribers) < SUBS
    /\ subscribers' = subscribers \cup {s}
    /\ UNCHANGED <<channel, publishers, delivered, waiting, lagging_drop>>

Unsubscribe(s) ==
    /\ s \in subscribers \ waiting
    /\ subscribers' = subscribers \ {s}
    /\ inbox' = [inbox EXCEPT ![s] = <<>>]
    /\ lag' = [lag EXCEPT ![s] = 0]
    /\ delivered' = [delivered EXCEPT ![s] = Nil]
    /\ lagging_drop' = (lagging_drop \/ lag[s] > 0)
    /\ UNCHANGED <<publishers, next_message_id, waiting>>

CreatePublisher(p) ==
    /\ p \notin publishers /\ Cardinality(publishers) < PUBS
    /\ publishers' = publishers \cup {p}
    /\ UNCHANGED <<channel, subscribers, delivered, waiting, lagging_drop>>

DropPublisher(p) ==
    /\ p \in publishers \ waiting
    /\ publishers' = publishers \ {p}
    /\ UNCHANGED <<channel, subscribers, delivered, waiting, lagging_drop>>

\* A call is made, or its future is dropped.
Ask(t) ==
    /\ t \in (subscribers \cup publishers) \ waiting
    /\ waiting' = waiting \cup {t}
    /\ UNCHANGED <<channel, handles, delivered, lagging_drop>>

Leave(t) ==
    /\ t \in waiting
    /\ waiting' = waiting \ {t}
    /\ UNCHANGED <<channel, handles, delivered, lagging_drop>>

Deliver(s) ==
    /\ lag[s] = 0 /\ inbox[s] # <<>>
    /\ delivered' = [delivered EXCEPT ![s] = Head(inbox[s])]
    /\ inbox' = [inbox EXCEPT ![s] = Tail(@)]
    /\ UNCHANGED lag

TellLag(s) ==
    /\ lag[s] > 0
    /\ lag' = [lag EXCEPT ![s] = 0]
    /\ UNCHANGED <<delivered, inbox>>

\* A waiting subscriber is answered; a stream does not return what it lost.
Answer(s) ==
    /\ s \in waiting
    /\ \/ Deliver(s) /\ waiting' = waiting \ {s}
       \/ TellLag(s) /\ waiting' \in {waiting, waiting \ {s}}
    /\ UNCHANGED <<handles, next_message_id, lagging_drop>>

ReadNow(s) ==
    /\ s \in subscribers \ waiting
    /\ Deliver(s) \/ TellLag(s)
    /\ UNCHANGED <<handles, next_message_id, waiting, lagging_drop>>

\* Every subscriber gets the message, in the place of its oldest if need be.
Accept ==
    LET lost == {s \in subscribers : Len(inbox[s]) = CAP}
    IN  IF subscribers = {} THEN UNCHANGED channel
        ELSE /\ next_message_id < MaxId
             /\ next_message_id' = next_message_id + 1
             /\ inbox' = [s \in Subs |->
                   CASE s \notin subscribers -> <<>>
                     [] s \in lost -> Append(Tail(inbox[s]), next_message_id)
                     [] OTHER -> Append(inbox[s], next_message_id)]
             /\ lag' = [s \in Subs |-> IF s \in lost THEN lag[s] + 1 ELSE lag[s]]

Published(p) ==
    /\ p \in waiting
    /\ Room /\ Accept
    /\ waiting' = waiting \ {p}
    /\ UNCHANGED <<handles, delivered, lagging_drop>>

PublishNow == Accept /\ UNCHANGED <<handles, delivered, waiting, lagging_drop>>

Clear ==
    /\ lag' = [s \in Subs |-> lag[s] + Len(inbox[s])]
    /\ inbox' = [s \in Subs |-> <<>>]
    /\ UNCHANGED <<next_message_id, handles, delivered, waiting, lagging_drop>>

Next ==
    \/ \E s \in Subs : Subscribe(s) \/ Unsubscribe(s) \/ Answer(s) \/ ReadNow(s)
    \/ \E p \in Pubs : CreatePublisher(p) \/ DropPublisher(p) \/ Published(p)
    \/ \E t \in Subs \cup Pubs : Ask(t) \/ Leave(t)
    \/ PublishNow
    \/ Clear

BroadcastSafety == Init /\ [][Next]_avars

\* A subscriber that waits is answered.  A publisher that waits while every
\* inbox has room gets through; after a subscriber was dropped while it
\* lagged nothing is promised to publishers.
BroadcastSpec ==
    /\ BroadcastSafety
    /\ \A s \in Subs : WF_avars(Answer(s))
    /\ \A p \in Pubs : WF_avars(Published(p) /\ ~lagging_drop)
=============================================================================
