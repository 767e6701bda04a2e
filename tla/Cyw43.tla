------------------------------- MODULE Cyw43 -------------------------------
(***************************************************************************)
(* The cyw43 WiFi driver (cyw43/src): its runner between the chip on one   *)
(* side and, on the other, the control task with its ioctls (ioctl.rs) and *)
(* the network stack with its packets (embassy-net-driver-channel on the   *)
(* zero-copy channel).                                                     *)
(*                                                                         *)
(* The tasks run on one executor: what a task does from one await to the   *)
(* next is not interrupted by the others (Idle).  The chip is external and *)
(* runs on its own.  Wakers are Booleans, as each has one task to wake.    *)
(***************************************************************************)
EXTENDS ZeroCopyChannel, Sequences

CONSTANTS
    SeqMod,     \* sdpcm_seq counts modulo this (2^8)
    IdMod,      \* ioctl_id counts modulo this (2^16)
    Numbers,    \* packets are numbered modulo this, to see their order
    TxSize,     \* N_TX of the driver channel
    RxSize,     \* N_RX
    Window,     \* frames that the chip has room for
    Waiting     \* frames that the chip keeps for the driver, at most

\* update_credit takes a window of more than 0x40 for an error.  The ids of
\* the ioctls that are on their way are distinct.
ASSUME ChipAssumption ==
    /\ {SeqMod, IdMod, Numbers, TxSize, RxSize, Window, Waiting} \subseteq Nat \ {0}
    /\ SeqMod % 4 = 0
    /\ Window <= SeqMod \div 4
    /\ Window + Waiting < IdMod

VARIABLES
    ioctl,      \* IoctlState.state; live: history, see Frame
    calling,    \* the control task awaits do_ioctl
    wakers,     \* IoctlState.wakers: those of whom are registered
    tx, rx,     \* the two zero-copy channels
    seq, seqMax, ioctlId, \* the Runner's
    pc,         \* where the runner is
    out,        \* the frame that it writes
    busy,       \* the stack is being polled
    backlog,    \* it has a packet to send
    number,     \* of the next packet
    woken,      \* tasks that were woken and not yet polled
    inbox,      \* frames in the chip
    consumed,   \* how many it has taken from there, modulo SeqMod
    outbox,     \* frames that wait in the chip to be read
    expected    \* history: the number of the next packet

ioctlVars == <<ioctl, calling, wakers>>
seqVars == <<seq, seqMax, ioctlId>>
stackVars == <<busy, backlog, number>>
chipVars == <<inbox, consumed, outbox, expected>>
vars == <<ioctlVars, tx, rx, seqVars, pc, out, stackVars, woken, chipVars>>

Tasks == {"control", "runner", "stack"}

\* A frame on the bus; live: it belongs to the ioctl that is being awaited.
Frame(kind, id, live, n) == [kind |-> kind, id |-> id, live |-> live, number |-> n]
Frames == [kind : {"ioctl", "data"}, id : 0 .. IdMod - 1, live : BOOLEAN,
           number : 0 .. Numbers - 1]
Answer(kind, id, live, credit) ==
    [kind |-> kind, id |-> id, live |-> live, credit |-> credit]
Answers == [kind : {"reply", "data", "event"}, id : 0 .. IdMod - 1,
            live : BOOLEAN, credit : 0 .. SeqMod - 1]
Nothing == Frame("data", 0, FALSE, 0)

TypeOK ==
    /\ ioctl \in [tag : {"Pending", "Sent", "Done"}, live : BOOLEAN]
    /\ calling \in BOOLEAN
    /\ wakers \in SUBSET {"control", "runner"}
    /\ tx \in Channel(0 .. Numbers - 1, TxSize)
    /\ rx \in Channel({0}, RxSize)
    /\ seq \in 0 .. SeqMod - 1
    /\ seqMax \in 0 .. SeqMod - 1
    /\ ioctlId \in 0 .. IdMod - 1
    /\ pc \in {"loop", "select", "stalled", "write", "read_irq", "read"}
    /\ out \in Frames
    /\ busy \in BOOLEAN
    /\ backlog \in BOOLEAN
    /\ number \in 0 .. Numbers - 1
    /\ woken \in SUBSET Tasks
    /\ inbox \in Seq(Frames)
    /\ consumed \in 0 .. SeqMod - 1
    /\ outbox \in Seq(Answers) /\ Len(outbox) <= Waiting
    /\ expected \in 0 .. Numbers - 1

Init ==
    /\ ioctl = [tag |-> "Done", live |-> FALSE]
    /\ calling = FALSE
    /\ wakers = {}
    /\ tx = NewChannel(0, TxSize)
    /\ rx = NewChannel(0, RxSize)
    /\ seq = 0
    /\ seqMax = 1
    /\ ioctlId = 0
    /\ pc = "loop"
    /\ out = Nothing
    /\ busy = FALSE
    /\ backlog = FALSE
    /\ number = 0
    /\ woken = {"stack"}
    /\ inbox = <<>>
    /\ consumed = 0
    /\ outbox = <<>>
    /\ expected = 0

\* Nobody is between two awaits.
Idle == pc # "loop" /\ ~busy

\* Whom a registered waker wakes.
Woken(task, registered) == IF registered THEN {task} ELSE {}

---------------------------------------------------------------------------
(* The control task: Control::ioctl_inner and IoctlState.                  *)

\* History: no answer that is still to come is for the call that comes next.
StaleFrames(q) == [i \in DOMAIN q |-> [q[i] EXCEPT !.live = FALSE]]
GiveUp ==
    /\ inbox' = StaleFrames(inbox)
    /\ outbox' = StaleFrames(outbox)
    /\ out' = [out EXCEPT !.live = FALSE]

DoIoctl ==
    /\ Idle
    /\ ~calling
    /\ calling' = TRUE
    /\ ioctl' = [tag |-> "Pending", live |-> FALSE]
    /\ woken' = woken \cup (wakers \cap {"runner"})
    /\ wakers' = {"control"}
    /\ UNCHANGED <<tx, rx, seqVars, pc, out, stackVars, chipVars>>

\* wait_complete.
PollControl ==
    /\ Idle
    /\ "control" \in woken
    /\ woken' = woken \ {"control"}
    /\ IF calling /\ ioctl.tag # "Done"
       THEN wakers' = wakers \cup {"control"} /\ UNCHANGED calling
       ELSE calling' = FALSE /\ UNCHANGED wakers
    /\ UNCHANGED <<ioctl, tx, rx, seqVars, pc, out, stackVars, chipVars>>

\* The call is dropped: CancelOnDrop.
Cancel ==
    /\ Idle
    /\ calling
    /\ calling' = FALSE
    /\ ioctl' = [tag |-> "Done", live |-> FALSE]
    /\ GiveUp
    /\ UNCHANGED <<wakers, tx, rx, seqVars, pc, stackVars, woken, consumed,
                   expected>>

---------------------------------------------------------------------------
(* The network stack, on the driver channel's Device.                      *)

\* TxToken::consume.
Push ==
    /\ tx' = PushDone(tx, number, TxSize)
    /\ number' = (number + 1) % Numbers
    /\ woken' = woken \cup Woken("runner", tx.receiver)

\* A socket has something to send.
AppSend ==
    /\ Idle
    /\ ~backlog
    /\ backlog' = TRUE
    /\ woken' = woken \cup {"stack"}
    /\ UNCHANGED <<ioctlVars, tx, rx, seqVars, pc, out, busy, number, chipVars>>

PollStack ==
    /\ Idle
    /\ "stack" \in woken
    /\ woken' = woken \ {"stack"}
    /\ busy' = TRUE
    /\ UNCHANGED <<ioctlVars, tx, rx, seqVars, pc, out, backlog, number, chipVars>>

\* Device::receive: a packet, and room for the answer that it may get.
StackReceives ==
    /\ busy
    /\ ~IsEmpty(rx) /\ ~IsFull(tx)
    /\ rx' = PopDone(rx, RxSize)
    /\ Push \/ UNCHANGED <<tx, number, woken>>
    /\ UNCHANGED <<ioctlVars, seqVars, pc, out, busy, backlog, chipVars>>

\* Device::transmit.
StackTransmits ==
    /\ busy
    /\ backlog /\ ~IsFull(tx)
    /\ Push
    /\ backlog' = FALSE
    /\ UNCHANGED <<ioctlVars, rx, seqVars, pc, out, busy, chipVars>>

\* Both have returned None, having registered the waker.
StackWaits ==
    /\ busy
    /\ IsEmpty(rx) \/ IsFull(tx)
    /\ backlog => IsFull(tx)
    /\ rx' = AwaitElement(rx)
    /\ tx' = IF backlog \/ ~IsEmpty(rx) THEN AwaitRoom(tx) ELSE tx
    /\ busy' = FALSE
    /\ UNCHANGED <<ioctlVars, seqVars, pc, out, backlog, number, woken, chipVars>>

---------------------------------------------------------------------------
(* The runner.                                                             *)

Minus(a, b) == (a + SeqMod - b) % SeqMod

\* Mutant: the last credit is not waited for.
HasCreditAlways == Minus(seqMax, seq) < SeqMod \div 2

HasCredit == seq # seqMax /\ Minus(seqMax, seq) < SeqMod \div 2

Send(frame) ==
    /\ seq' = (seq + 1) % SeqMod
    /\ out' = frame
    /\ pc' = "write"

\* select4 prefers the ioctl ...
TakeIoctl ==
    /\ pc = "loop" /\ HasCredit
    /\ ioctl.tag = "Pending"
    /\ ioctl' = [ioctl EXCEPT !.tag = "Sent"]
    /\ ioctlId' = (ioctlId + 1) % IdMod
    /\ Send(Frame("ioctl", ioctlId', TRUE, 0))
    /\ UNCHANGED <<calling, wakers, tx, rx, seqMax, stackVars, woken, chipVars>>

\* ... to a packet, which stays in the channel until it is written, ...
TakePacket ==
    /\ pc = "loop" /\ HasCredit
    /\ ioctl.tag # "Pending" /\ ~IsEmpty(tx)
    /\ wakers' = wakers \cup {"runner"}
    /\ Send(Frame("data", 0, FALSE, First(tx)))
    /\ UNCHANGED <<ioctl, calling, tx, rx, seqMax, ioctlId, stackVars, woken, chipVars>>

\* ... and that to the chip's interrupt.
Await ==
    /\ pc = "loop" /\ HasCredit
    /\ ioctl.tag # "Pending" /\ IsEmpty(tx)
    /\ wakers' = wakers \cup {"runner"}
    /\ tx' = AwaitElement(tx)
    /\ pc' = IF outbox = <<>> THEN "select" ELSE "read_irq"
    /\ UNCHANGED <<ioctl, calling, rx, seqVars, out, stackVars, woken, chipVars>>

\* Without credit only the interrupt counts.
Stall ==
    /\ pc = "loop" /\ ~HasCredit
    /\ pc' = IF outbox = <<>> THEN "stalled" ELSE "read_irq"
    /\ UNCHANGED <<ioctlVars, tx, rx, seqVars, out, stackVars, woken, chipVars>>

PollRunner ==
    /\ Idle
    /\ pc \in {"select", "stalled"}
    /\ "runner" \in woken \/ outbox # <<>>
    /\ pc' = "loop"
    /\ woken' = woken \ {"runner"}
    /\ UNCHANGED <<ioctlVars, tx, rx, seqVars, out, stackVars, chipVars>>

\* A wake while the runner awaits the bus has no effect.
PollInVain ==
    /\ Idle
    /\ pc \in {"write", "read_irq", "read"}
    /\ "runner" \in woken
    /\ woken' = woken \ {"runner"}
    /\ UNCHANGED <<ioctlVars, tx, rx, seqVars, pc, out, stackVars, chipVars>>

\* Mutant: it waits without a look at what came meanwhile.
CheckStatusWaits(frames) == pc' = IF frames = <<>> THEN "select" ELSE "read"

\* check_status: every transfer ends with the chip's status.
CheckStatus(frames) == pc' = IF frames = <<>> THEN "loop" ELSE "read"

\* wlan_write has ended, and with a packet tx_done.
Written ==
    /\ Idle
    /\ pc = "write"
    /\ inbox' = Append(inbox, out)
    /\ out' = Nothing
    /\ IF out.kind = "data"
       THEN /\ tx' = PopDone(tx, TxSize)
            /\ woken' = (woken \ {"runner"}) \cup Woken("stack", tx.sender)
       ELSE /\ UNCHANGED tx
            /\ woken' = woken \ {"runner"}
    /\ CheckStatus(outbox)
    /\ UNCHANGED <<ioctlVars, rx, seqVars, stackVars, consumed, outbox, expected>>

\* handle_irq.
IrqRead ==
    /\ Idle
    /\ pc = "read_irq"
    /\ woken' = woken \ {"runner"}
    /\ CheckStatus(outbox)
    /\ UNCHANGED <<ioctlVars, tx, rx, seqVars, out, stackVars, chipVars>>

\* update_credit.
Credit(c) == IF Minus(c, seq) > SeqMod \div 4 THEN (seq + 2) % SeqMod ELSE c

\* Mutant: the id of a reply is not looked at.
IsReplyAny(a) == ioctl.tag = "Sent"

\* The reply to the last ioctl that was sent, and somebody waits for it.
IsReply(a) == a.id = ioctlId /\ ioctl.tag = "Sent"

IoctlDone(a) ==
    /\ a.kind = "reply" /\ IsReply(a)
    /\ ioctl' = [tag |-> "Done", live |-> a.live]
    /\ wakers' = wakers \ {"control"}
    /\ woken' = (woken \ {"runner"}) \cup (wakers \cap {"control"})
    /\ UNCHANGED rx

\* A packet for the stack ...
RxDone(a) ==
    /\ a.kind = "data" /\ ~IsFull(rx)
    /\ rx' = PushDone(rx, 0, RxSize)
    /\ woken' = (woken \ {"runner"}) \cup Woken("stack", rx.receiver)
    /\ UNCHANGED <<ioctl, wakers>>

\* ... is dropped if it has no room, as is a reply that nobody waits for.
\* Events are left out.
Dropped(a) ==
    /\ ~(a.kind = "reply" /\ IsReply(a))
    /\ ~(a.kind = "data" /\ ~IsFull(rx))
    /\ woken' = woken \ {"runner"}
    /\ UNCHANGED <<ioctl, wakers, rx>>

\* wlan_read has ended: rx.
Read ==
    /\ Idle
    /\ pc = "read"
    /\ LET a == Head(outbox)
       IN  /\ seqMax' = Credit(a.credit)
           /\ IoctlDone(a) \/ RxDone(a) \/ Dropped(a)
    /\ outbox' = Tail(outbox)
    /\ CheckStatus(Tail(outbox))
    /\ UNCHANGED <<calling, tx, seq, ioctlId, out, stackVars, inbox, consumed,
                   expected>>

---------------------------------------------------------------------------
(* The chip.                                                               *)

Granted == (consumed + Window) % SeqMod

\* It takes a frame, and answers an ioctl.
ChipTakes ==
    /\ inbox # <<>>
    /\ inbox' = Tail(inbox)
    /\ consumed' = (consumed + 1) % SeqMod
    /\ LET f == Head(inbox)
       IN  IF f.kind = "ioctl"
           THEN /\ Len(outbox) < Waiting
                /\ outbox' = Append(outbox, Answer("reply", f.id, f.live, Granted'))
                /\ UNCHANGED expected
           ELSE /\ expected' = (f.number + 1) % Numbers
                /\ UNCHANGED outbox
    /\ UNCHANGED <<ioctlVars, tx, rx, seqVars, pc, out, stackVars, woken>>

\* It sends a packet or an event, and with it a credit.
ChipSends(kind) ==
    /\ Len(outbox) < Waiting
    /\ outbox' = Append(outbox, Answer(kind, 0, FALSE, Granted))
    /\ UNCHANGED <<ioctlVars, tx, rx, seqVars, pc, out, stackVars, woken,
                   inbox, consumed, expected>>

\* It makes known a credit that it has not sent yet.
ChipGrants ==
    /\ Granted # IF outbox = <<>> THEN seqMax ELSE outbox[Len(outbox)].credit
    /\ ChipSends("event")

---------------------------------------------------------------------------
Control == DoIoctl \/ Cancel
StackSteps == PollStack \/ StackReceives \/ StackTransmits \/ StackWaits
RunnerSteps ==
    \/ TakeIoctl \/ TakePacket \/ Await \/ Stall
    \/ PollRunner \/ Written \/ IrqRead \/ Read
Chip == ChipTakes \/ \E kind \in {"data", "event"} : ChipSends(kind)

Next ==
    \/ Control \/ PollControl
    \/ AppSend \/ StackSteps
    \/ RunnerSteps \/ PollInVain
    \/ Chip

\* The executor polls who was woken (Executor), and the bus ends a transfer.
\* The stack does not use all the room there is for answers.  The chip takes
\* what it is sent and says so.  It leaves the runner a gap between frames now
\* and then, and the control task does not go on for ever dropping calls:
\* check_status and select4 are not fair.
Fairness ==
    /\ SF_vars(PollControl)
    /\ SF_vars(StackSteps)
    /\ SF_vars(StackTransmits)
    /\ SF_vars(RunnerSteps)
    /\ SF_vars(ChipTakes \/ ChipGrants)
    /\ []<>(pc # "read")
    /\ <>[][~Cancel]_vars

Safety == Init /\ [][Next]_vars
Spec == Safety /\ Fairness
---------------------------------------------------------------------------
(* Properties.                                                             *)

\* The runner keeps a pointer to a buffer only while its call is awaited, and
\* a call ends with the answer to itself: not with a late one to a call that
\* was dropped (ioctl.rs:109, runner.rs:442).
AnswersTheCaller ==
    IF calling THEN ioctl.tag = "Done" => ioctl.live
    ELSE ioctl.tag = "Done"

\* The chip has room for every frame that the driver sends, though the counts
\* of both wrap and a credit may be read long after it was given.
CreditKept ==
    /\ Len(inbox) <= Window
    /\ pc = "write" => Len(inbox) < Window

\* The chip takes the packets of the stack in their order, each once.
InOrder ==
    inbox # <<>> /\ Head(inbox).kind = "data" => Head(inbox).number = expected

\* Nobody sleeps with something to do: the control task with its answer there,
\* the runner (with credit) with an ioctl or a packet to send, the stack with a
\* packet it could take or send; and if it is full, it will be told of room.
NoLostWakeup ==
    /\ "control" \notin woken /\ calling => ioctl.tag # "Done"
    /\ "runner" \notin woken /\ pc = "select" => ioctl.tag # "Pending" /\ IsEmpty(tx)
    /\ "stack" \notin woken /\ ~busy /\ (backlog \/ ~IsEmpty(rx)) =>
            IsFull(tx) /\ tx.sender

\* An ioctl that is not dropped is answered.
Answered == calling ~> ~calling

\* A packet that the stack has to send finds room.
Transmits == backlog ~> ~backlog
=============================================================================
