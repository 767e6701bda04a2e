------------------------------- MODULE PubSub -------------------------------
(***************************************************************************)
(* embassy_sync::pubsub::PubSubChannel: one queue for all subscribers,     *)
(* whose messages count down how many subscribers are yet to read them.    *)
(* Every method runs under the channel's blocking mutex and is one action. *)
(* A message is its sequence number, put in by the publisher, so that the  *)
(* arithmetic that finds it by its position is checked and not assumed.    *)
(***************************************************************************)
EXTENDS Naturals, Sequences, FiniteSets

CONSTANTS
    Subs, Pubs,   \* the tasks that subscribe and those that publish
    CAP,          \* length of the Deque
    SUBS, PUBS,   \* slots for subscribers and publishers, and their wakers
    MaxId,        \* bound on next_message_id
    Nil

ASSUME SizesAssumption == {CAP, SUBS, PUBS} \subseteq Nat \ {0} /\ MaxId \in Nat
ASSUME TasksAssumption ==
    IsFiniteSet(Subs) /\ IsFiniteSet(Pubs) /\ Subs \cap Pubs = {} /\ Nil \notin Nat

VARIABLES
    queue,                    \* of [message, count]
    next_message_id,
    subscribers, publishers,  \* the handles that exist: subscriber_count, publisher_count
    position,                 \* each subscriber's own next_message_id
    delivered,                \* the message it read last
    subscriber_wakers, publisher_wakers,  \* MultiWakerRegistrations
    waiting,                  \* tasks with a pending next_message or publish
    asleep,                   \* those of them that are not polled until they are woken
    lagging_drop              \* history: a subscriber was dropped while it lagged

vars == <<queue, next_message_id, subscribers, publishers, position, delivered,
          subscriber_wakers, publisher_wakers, waiting, asleep, lagging_drop>>
wakers == <<subscriber_wakers, publisher_wakers>>
handles == <<subscribers, publishers, lagging_drop>>

Init ==
    /\ queue = <<>> /\ next_message_id = 0
    /\ subscribers = {} /\ publishers = {}
    /\ position = [s \in Subs |-> 0]
    /\ delivered = [s \in Subs |-> Nil]
    /\ subscriber_wakers = {} /\ publisher_wakers = {}
    /\ waiting = {} /\ asleep = {}
    /\ lagging_drop = FALSE

Full == Len(queue) = CAP
Start == next_message_id - Len(queue)
Lagging(s) == position[s] < Start
Index(s) == position[s] - Start + 1
HasMessage(s) == ~Lagging(s) /\ Index(s) <= Len(queue)

Wake(tasks) == asleep' = asleep \ tasks

-----------------------------------------------------------------------------
\* MultiWakerRegistration::register: a full one wakes all it holds.
Fits(w, t, n) == t \in w \/ Cardinality(w) < n
Registered(w, t, n) == IF Fits(w, t, n) THEN w \cup {t} ELSE {t}

\* Mutant: a full list is emptied without waking whom it held.
EvictedQuietly(w, t, n) == {}

Evicted(w, t, n) == IF Fits(w, t, n) THEN {} ELSE w \ {t}

\* The poll ends Pending: t sleeps from now on.
Sleep(t, evicted) == asleep' = (asleep \ evicted) \cup {t}

-----------------------------------------------------------------------------
\* Handles.
Subscribe(s) ==
    /\ s \notin subscribers /\ Cardinality(subscribers) < SUBS
    /\ subscribers' = subscribers \cup {s}
    /\ position' = [position EXCEPT ![s] = next_message_id]
    /\ UNCHANGED <<queue, next_message_id, publishers, delivered, wakers,
                   waiting, asleep, lagging_drop>>

\* Mutant: the subscriber's next message is left out.
CountedDownAfter(q, from) ==
    [i \in DOMAIN q |-> IF i > from THEN [q[i] EXCEPT !.count = @ - 1] ELSE q[i]]

CountedDown(q, from) ==
    [i \in DOMAIN q |-> IF i >= from THEN [q[i] EXCEPT !.count = @ - 1] ELSE q[i]]

\* Mutant: at most one message that everybody has read is taken out.
TrimmedOnce(q, rest) == rest = IF q # <<>> /\ q[1].count = 0 THEN Tail(q) ELSE q

\* The messages from the first one that somebody has yet to read.
Trimmed(q, rest) ==
    \E k \in 0 .. Len(q) :
        /\ \A i \in 1 .. k : q[i].count = 0
        /\ k < Len(q) => q[k + 1].count # 0
        /\ rest = SubSeq(q, k + 1, Len(q))

\* unregister_subscriber: the unread messages are counted down, unless it lags.
Unsubscribe(s) ==
    /\ s \in subscribers \ waiting
    /\ subscribers' = subscribers \ {s}
    /\ IF Lagging(s)
       THEN UNCHANGED <<queue, publisher_wakers, asleep>>
       ELSE /\ Trimmed(CountedDown(queue, Index(s)), queue')
            /\ IF queue' = CountedDown(queue, Index(s))
               THEN UNCHANGED <<publisher_wakers, asleep>>
               ELSE Wake(publisher_wakers) /\ publisher_wakers' = {}
    /\ lagging_drop' = (lagging_drop \/ Lagging(s))
    /\ position' = [position EXCEPT ![s] = 0]
    /\ delivered' = [delivered EXCEPT ![s] = Nil]
    /\ UNCHANGED <<next_message_id, publishers, subscriber_wakers, waiting>>

CreatePublisher(p) ==
    /\ p \notin publishers /\ Cardinality(publishers) < PUBS
    /\ publishers' = publishers \cup {p}
    /\ UNCHANGED <<queue, next_message_id, subscribers, position, delivered,
                   wakers, waiting, asleep, lagging_drop>>

DropPublisher(p) ==
    /\ p \in publishers \ waiting
    /\ publishers' = publishers \ {p}
    /\ UNCHANGED <<queue, next_message_id, subscribers, position, delivered,
                   wakers, waiting, asleep, lagging_drop>>

\* next_message or publish is called: the future is polled soon.
Ask(t) ==
    /\ t \in (subscribers \cup publishers) \ waiting
    /\ waiting' = waiting \cup {t}
    /\ UNCHANGED <<queue, next_message_id, handles, position, delivered, wakers, asleep>>

\* The future is dropped; its waker stays registered.
Cancel(t) ==
    /\ t \in waiting
    /\ waiting' = waiting \ {t}
    /\ Wake({t})
    /\ UNCHANGED <<queue, next_message_id, handles, position, delivered, wakers>>

\* Another future of the same task wakes it.
WokenByOther(t) ==
    /\ t \in asleep
    /\ Wake({t})
    /\ UNCHANGED <<queue, next_message_id, handles, position, delivered, wakers, waiting>>

-----------------------------------------------------------------------------
\* get_message: a message is read, and leaves if it is first and read by all.
Read(s) ==
    LET q == [queue EXCEPT ![Index(s)].count = @ - 1]
    IN  /\ HasMessage(s)
        /\ position' = [position EXCEPT ![s] = @ + 1]
        /\ delivered' = [delivered EXCEPT ![s] = queue[Index(s)].message]
        /\ IF Index(s) = 1 /\ q[1].count = 0
           THEN queue' = Tail(q) /\ Wake(publisher_wakers) /\ publisher_wakers' = {}
           ELSE queue' = q /\ UNCHANGED <<publisher_wakers, asleep>>

\* get_message: Lagged(start_id - message_id).
SkipLost(s) ==
    /\ Lagging(s)
    /\ position' = [position EXCEPT ![s] = @ + (Start - @)]
    /\ UNCHANGED <<queue, delivered, publisher_wakers, asleep>>

PollSubscriber(s) ==
    /\ s \in (waiting \cap Subs) \ asleep
    /\ \/ /\ Read(s)
          /\ waiting' = waiting \ {s}
          /\ UNCHANGED subscriber_wakers
       \/ /\ SkipLost(s)
          /\ waiting' \in {waiting, waiting \ {s}}  \* poll_next wakes itself
          /\ UNCHANGED subscriber_wakers
       \/ /\ ~HasMessage(s) /\ ~Lagging(s)
          /\ subscriber_wakers' = Registered(subscriber_wakers, s, SUBS)
          /\ Sleep(s, Evicted(subscriber_wakers, s, SUBS))
          /\ UNCHANGED <<queue, position, delivered, publisher_wakers, waiting>>
    /\ UNCHANGED <<next_message_id, handles>>

TryNextMessage(s) ==
    /\ s \in subscribers \ waiting
    /\ Read(s) \/ SkipLost(s)
    /\ UNCHANGED <<next_message_id, handles, subscriber_wakers, waiting>>

\* try_publish on queue q: nobody to receive it, or one more for everybody.
Push(q) ==
    IF subscribers = {}
    THEN queue' = q /\ UNCHANGED <<next_message_id, subscriber_wakers, asleep>>
    ELSE /\ Len(q) < CAP /\ next_message_id < MaxId
         /\ queue' = Append(q, [message |-> next_message_id, count |-> Cardinality(subscribers)])
         /\ next_message_id' = next_message_id + 1
         /\ Wake(subscriber_wakers) /\ subscriber_wakers' = {}

PollPublisher(p) ==
    /\ p \in (waiting \cap Pubs) \ asleep
    /\ \/ /\ Push(queue)
          /\ waiting' = waiting \ {p}
          /\ UNCHANGED publisher_wakers
       \/ /\ subscribers # {} /\ Full
          /\ publisher_wakers' = Registered(publisher_wakers, p, PUBS)
          /\ Sleep(p, Evicted(publisher_wakers, p, PUBS))
          /\ UNCHANGED <<queue, next_message_id, subscriber_wakers, waiting>>
    /\ UNCHANGED <<handles, position, delivered>>

Poll(t) == PollSubscriber(t) \/ PollPublisher(t)

\* try_publish, by a publisher or by anybody through an ImmediatePublisher.
TryPublish ==
    /\ Push(queue)
    /\ UNCHANGED <<handles, position, delivered, publisher_wakers, waiting>>

\* publish_immediate: the oldest message makes room, read or not.
PublishImmediate ==
    /\ Push(IF Full THEN Tail(queue) ELSE queue)
    /\ UNCHANGED <<handles, position, delivered, publisher_wakers, waiting>>

Clear ==
    /\ queue' = <<>>
    /\ IF Full
       THEN Wake(publisher_wakers) /\ publisher_wakers' = {}
       ELSE UNCHANGED <<publisher_wakers, asleep>>
    /\ UNCHANGED <<next_message_id, handles, position, delivered, subscriber_wakers, waiting>>

Next ==
    \/ \E s \in Subs : Subscribe(s) \/ Unsubscribe(s) \/ TryNextMessage(s)
    \/ \E p \in Pubs : CreatePublisher(p) \/ DropPublisher(p)
    \/ \E t \in Subs \cup Pubs : Ask(t) \/ Cancel(t) \/ WokenByOther(t) \/ Poll(t)
    \/ TryPublish
    \/ PublishImmediate
    \/ Clear

Safety == Init /\ [][Next]_vars

\* An executor polls every task it was asked to poll.
Spec == Safety /\ \A t \in Subs \cup Pubs : WF_vars(Poll(t))

-----------------------------------------------------------------------------
\* Properties.

\* Types and the sizes of the Deque and of the waker lists; a counter never
\* goes below zero, where the subtraction would panic.
TypeOK ==
    /\ queue \in Seq([message : Nat, count : Nat]) /\ Len(queue) <= CAP
    /\ next_message_id \in Nat /\ Len(queue) <= next_message_id
    /\ subscribers \subseteq Subs /\ Cardinality(subscribers) <= SUBS
    /\ publishers \subseteq Pubs /\ Cardinality(publishers) <= PUBS
    /\ position \in [Subs -> Nat]
    /\ delivered \in [Subs -> Nat \cup {Nil}]
    /\ subscriber_wakers \subseteq Subs /\ Cardinality(subscriber_wakers) <= SUBS
    /\ publisher_wakers \subseteq Pubs /\ Cardinality(publisher_wakers) <= PUBS
    /\ waiting \subseteq subscribers \cup publishers
    /\ asleep \subseteq waiting
    /\ lagging_drop \in BOOLEAN

\* Who has yet to read the message at index i.
Unread(i) == {s \in subscribers : Lagging(s) \/ Index(s) <= i}

\* The counter of a message is the number of its readers to come, however
\* reads, losses, new and dropped subscribers interleave; after the drop of a
\* subscriber that lagged it may be too high, never too low.
CountsReaders ==
    \A i \in 1 .. Len(queue) :
        /\ queue[i].count >= Cardinality(Unread(i))
        /\ ~lagging_drop => queue[i].count = Cardinality(Unread(i))

\* The queue keeps no message that nobody is to read ("All messages that
\* haven't been read yet by this subscriber must have their counter
\* decremented", pubsub/mod.rs:394).
NothingLeftBehind == \A i \in 1 .. Len(queue) : Unread(i) # {}

\* Who sleeps is registered and has nothing to do: subscribers always, and
\* publishers as long as no lagging subscriber was dropped (pubsub/mod.rs:396
\* then leaves messages in the queue that nobody will take out).
NoLostWakeup ==
    /\ \A s \in asleep \cap Subs :
          s \in subscriber_wakers /\ ~HasMessage(s) /\ ~Lagging(s)
    /\ \A p \in asleep \cap Pubs :
          lagging_drop \/ (p \in publisher_wakers /\ Full /\ subscribers # {})

\* What s has still to read is at the end of the queue.
Unseen(s) == IF Lagging(s) THEN Len(queue) ELSE Len(queue) - Index(s) + 1
Inbox(s) ==
    IF s \notin subscribers THEN <<>>
    ELSE [i \in 1 .. Unseen(s) |-> queue[Len(queue) - Unseen(s) + i].message]
Lag(s) == IF s \in subscribers /\ Lagging(s) THEN Start - position[s] ELSE 0

Inboxes == [s \in Subs |-> Inbox(s)]
Lags == [s \in Subs |-> Lag(s)]

B == INSTANCE Broadcast WITH inbox <- Inboxes, lag <- Lags

\* One queue with counters and shared waker lists is an inbox of CAP messages
\* for each subscriber: everybody reads every message once and in order or is
\* told the exact number it lost, a subscriber that waits is answered, and a
\* publisher that waits gets through when every inbox has room.
ImplementsBroadcast == B!BroadcastSpec
=============================================================================
