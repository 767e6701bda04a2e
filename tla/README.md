# Verification of Embassy and of the bathroom heater built on it

The repository is the Embassy workspace (an async executor, synchronisation
primitives, a bootloader, HALs and drivers for microcontrollers) with, under
`examples/picow`, the firmware of a bathroom heater that runs on it. This
directory holds TLA+ models of the parts whose correctness lies in
interleavings, interruptions and long histories, the TLC runs that check them,
and TLAPS proofs about them.

`PROJECT.json` is the index: components, runs, mutants, the source lines of
every definition, findings, hazards and theorems.

    tlc -workers 2 -config MCExecutor.cfg MCExecutor.tla
    tlapm ExecutorProofs.tla

Besides the runs that `PROJECT.json` lists there are seven instances to run by
hand, whose cfg files have a name behind an underscore: one for each finding but
the first (section 8) and one for the liveness of cyw43 (section 6). `Telemetry` and
`TimeDriver` have no model values and are checked without an `MC` module.

## 1. Inventory

| Part | State | Operations | Hard because | Correct when | Modules |
|---|---|---|---|---|---|
| Executor (`embassy-executor/src/raw`, `arch`) | state bits, `executor`, `poll_fn` and future of each task; the lock-free run queue; the pender's event | claim and spawn, wake, wake without pend, poll, exit, sleep | interrupts, cores and nested executors run the same lock-free code | only live futures are polled, by their own executor; no wake is lost; a batch ends | `TaskLifecycle`, `Executor`, `ExecutorInvariant`, `ExecutorProofs` |
| Bootloader and updater (`embassy-boot*`) | magic, validity marker, progress words, active and DFU pages | `prepare_boot`, swap, revert; `mark_updated`, `mark_booted`, `mark_dfu`, `write_firmware`, `prepare_update` | power fails between any two flash operations | what starts is a whole image, an unconfirmed one is rolled back | `TrialUpdate`, `UpdaterState`, `Boot`, `FirmwareUpdateProofs` |
| Channel (`embassy-sync/src/channel.rs`) | queue, one waker per direction | send, receive, readiness, `try_*`, clear; dropping a future | tasks evict each other's wakers; wakes are conditional | no task waits for what is already there | `BoundedQueue`, `Channel`, `ChannelProofs` |
| PubSub (`embassy-sync/src/pubsub`, `waitqueue/multi_waker.rs`) | queue with a reader count per message, a position per subscriber, two lists of wakers | subscribe, read, publish, `publish_immediate`, clear, drop | counts per message and positions per reader change under losses and drops | each subscriber reads every message once, in order, or is told how many it lost | `Broadcast`, `PubSub`, `PubSubProofs` |
| Fair semaphore (`embassy-sync/src/semaphore.rs`) | permits, a queue of wakers found by tickets | acquire, `acquire_all`, `try_*`, release, disarm, set; cancellation | places shift with every pop; entries are cancelled in the middle | first come, first served; no permit lies beside a sleeper it is enough for | `PermitLine`, `FairSemaphore`, `FairSemaphoreProofs` |
| Timer, timer queue and RP2040 driver (`embassy-time`, `embassy-time-queue-utils`, `embassy-rp`) | an expiration per task, `timestamp`, the alarm | `Timer::poll`, `schedule_wake`, `next_expiration`, `set_alarm`, the interrupt | the counter runs on while the alarm is set; the alarm sees one word of it | no expiration is missed, every timer ends | `TimeDriver`, `TimeDriverProofs` |
| Buffered UART receiver and atomic ring buffer (`embassy-rp/src/uart/buffered.rs`, `embassy-hal-internal`) | FIFO, interrupt mask, `start` and `end`, error bits, waker | the interrupt handler; `read`, `blocking_read`, `fill_buf`, `consume` | interrupt, or another core, against task without a lock | no character is lost, doubled or reordered; what arrives ends a wait | `ByteStream`, `AtomicRingBuffer`, `BufferedUartRx`, `BufferedUartRxProofs` |
| Heater telemetry (`bath_heater_httpdate_rtc_htu_mq.rs`) | pending sample, `HTU_AVG_CH`, MQTT connection, timers | measure, send, connect, publish, ping, retreat | a slow consumer, a full channel, sockets that fail late | the broker hears in time; what is reported is recent | `Telemetry`, `ChannelProofs` |
| Heater clock and calendar (same file, `embassy-rp/src/rtc`) | `RTC_EPOCH_CH`, the RTC | fetch a date, convert it, set the RTC | a date that waits in the channel; leap years | the RTC shows the date | `Calendar`, `HeaterClock`, `ChannelProofs` |
| Mutex, RwLock, greedy semaphore, Signal, Watch, OnceLock, Pipe, priority channel | a value, buffer or counter and wakers | | cancellation, wrapping indices | exclusion; nothing torn | not modelled (section 9) |
| USB DFU (`embassy-usb-dfu`, `write_firmware`) | DFU state and status, offset, block buffer, the sector erased last, the DFU partition and the magic | detach, download, status, abort, reset | a host that breaks off, repeats and starts again; blocks across sectors; power loss | what is swapped in is what one download sent; DFU mode never gets stuck | `UpdaterState`, `UsbDfu`, `FirmwareUpdateProofs` |
| cyw43 with the driver channel and the zero-copy channel (`cyw43/src`, `embassy-net-driver-channel`, `zerocopy_channel.rs`) | ioctl hand-over, credits, two channels of packet buffers, wakers | ioctl and its cancellation; packets out and in; the runner's loop | answers to calls given up, wrapping counters, buffers lent across awaits | each call gets its own answer; the chip is not overrun; packets keep their order; nobody sleeps with work | `ZeroCopyChannel`, `Cyw43`, `Cyw43Proofs` |
| embassy-net and its drivers, USB stack, HALs, buses | chip registers, smoltcp | | | | not modelled (section 9) |

How they interact. A task runs when its executor polls it. Everything that lets
it run again goes through `wake_task`: a channel's registration, the timer
queue, an interrupt handler. The primitives of embassy-sync hold wakers and rely
on the executor only for "a woken task is polled again", which is
`EveryWakeVisits` in `Executor` and the fairness assumed in `Channel`, `PubSub`,
`FairSemaphore` and `TimeDriver`. The heater's tasks rely on the channel for "a
queue whose calls end when they can", which is `ImplementsQueue` in `Channel`.
The bootloader shares only flash with the application; `Boot` contains both.
`UsbDfu` stands before it: it fills the DFU partition and writes the magic that
`Boot` starts from.

## 2. Executor

### Model

`Executor.tla` has one action per atomic access of `raw/state_atomics.rs`,
`raw/run_queue_atomics.rs` and `raw/mod.rs`. `Threads` are the executors' own
threads and other contexts (interrupts, threads, cores); each has a program
counter `pc[p]`, and `item`, `target` and `prev` are the locals of its wake or
spawn. `walk` and `current` are the locals of `dequeue_all`.

| Code | Actions |
|---|---|
| `State::spawn`, `initialize_impl`, `SyncExecutor::spawn` | `Claim`, `SetPollFn`, `WriteFuture`, `StoreExecutor` |
| `run_enqueue`, `wake_task`, `wake_task_no_pend` | `Wake`, `LoadExecutor` |
| `RunQueue::enqueue` (`fetch_update`) | `LoadHead`, `CasOk`, `CasRetry` |
| `__pender` and its like | `Pend` |
| `dequeue_all`, `run_dequeue` | `TakeBatch`, `NextTask`, `RunDequeue`, `BatchDone` |
| `SyncExecutor::poll`, `TaskStorage::poll`, `poll_exited` | `PollFuture`, `PollPending`, `PollReady`, `PollExited`, `SetExited`, `Despawn` |
| `Executor::run` of `arch/*` | `EnterLoop`, `WaitForEvent`, `SpuriousEvent` |

A future is arbitrary code that, while polled, may wake and spawn any number of
times and then returns pending or ready. Waking is possible for any task that
ever was spawned, so wakers outlive the task they were made for. The pender and
the sleep are one event bit: SEV and WFE on Cortex-M, the NVIC pending bit for
an interrupt executor, the condition variable's flag on std. The model's
accesses are sequentially consistent; the code's `AcqRel` and `SeqCst` orders on
the two contended words, and one core or a coherent interconnect, justify it.
Threads interleave freely: that includes what nested interrupts do.

`SpawnRights` says who may claim which storage to spawn it where. `OwnedStorage`
(in `ExecutorInvariant`) is the discipline under which a storage is claimed by
one thread only, for its own executor; a `Spawner` is not `Send`, so this is how
a `static` task pool is used from one executor.

### Runs

`executor` has two executors that wake each other's tasks, one with two tasks and
one with one: each of the two threads is to the other what an interrupt or a
second core is, and a compare-exchange fails when both enqueue. Two tasks on one
executor make a list with an inner element and a task that is enqueued while the
batch is walked. The run shows `PollsOwnLiveTask`;
`EnqueueExclusive` (who enqueues is alone and the task is on no list);
`NothingStranded` (a queued bit leads to a visit); `NoLostPend`;
`BatchOnlyShrinks` (a task that wakes itself waits for the next batch);
`LifeCycle` and `EveryWakeVisits`: the executor implements `TaskLifecycle`, the
state diagram drawn above `TaskHeader`, without and with its fairness. Separate
contexts, and among them such that do not pend, occur in the proofs only.

`executor_shared`: two executors that claim one storage, a finding (section 8).

Fairness (`Fairness`): a thread finishes the wake or spawn that it began
(`WF` on its steps), a compare-exchange that can succeed again and again does
(`SF` on `CasOk`: `fetch_update` has no bound of its own), an executor goes on
running its loop, and a future's poll returns. Spurious events and further wakes
and spawns are never forced.

### Proofs

For any tasks, executors and contexts, under `OwnedStorage`, `ExecutorProofs` has
`Inductive` and `TypeCorrect` (`IInv`, and with it the types),
`PollsOwnLiveTaskAlways`, `NoLostPendAlways` (if no context wakes without pend)
and `LifeCycleHolds` (the steps implement `TaskLifecycle`).

`PollsOwnLiveTask` is not inductive: that a visited task is alive depends on who
may have claimed it meanwhile, and that no second executor visits it depends on
the shape of every list. `IInv` therefore says, of each thread, what it holds
(`HolderInv`, `SpawnInv`, `EnqueueInv`), of each executor what it visits
(`VisitInv`), of each task how its bits, `poll_fn`, future and executor fit
together (`TaskInv`), and of the lists only this (`PointerInv`): every pointer
leads to a queued task of the same executor, and no task is at the end of two
pointers. There is one lemma per action, split by the parts of `IInv`.
`NoLostPend` rests on `PendInv`, which holds of the event bit in every location
of the run loop and not just before the sleep.

Its second part adds `EnqueueExclusiveAlways`, `NothingStrandedAlways` and
`BatchOnlyShrinksAlways`, which speak of reachability along lists. A list is the
least set that contains its head and is closed under `next` (`Chain`), so that
the proofs compare closed sets and count nothing: what is added in front is in
the closure of the new head, what is taken off leaves a closed rest. Two more
invariants are needed: where the walk's pointers stand (`CursorInv`), and that
every queued task is in a list, in somebody's hand, or about to be (`ReachInv`).

## 3. Bootloader and updater

### Model

`Boot.tla` contains the bootloader (`PrepareBoot`, `CopySkip`, `CopyErase`,
`CopyWrite`, `CopyMark`, `CopyDone`, `Load`), the replacement of the magic that
both programs perform (`Invalidate`, `EraseProgress`, `EraseHead`, `EraseTail`,
`WriteMagic`), the application's calls, and `PowerLoss` in between any two of
them. Flash is modelled by page and by state word: a page under erasure or
writing counts as erased; a state word appears at once, because a torn magic is
no magic, a torn progress word reads as unwritten and a torn validity marker as
invalid. The pages of the state partition are erased in address order, and the
magic and the marker, which share a page with the first progress words, may go
last of their page.

The application is any that keeps to the interface: it marks an image only when
all its pages are written, and writes pages in any order. `old`, `new` and
`tried` are history.

`TrialUpdate` is the abstract specification: staged, swapped in, tried, then
confirmed or rolled back. The mapping reads `staged` from the progress being
below `2 * P`, and `stable` from the validity marker: the one write that
invalidates the progress is the moment at which a revert, a confirmation or a
withdrawal happens.

### Run

`boot` (three pages, two images, 15 state words) shows `BootsWholeImage`,
`RevertKeepsBothImages`; that `Boot` implements `TrialUpdate`
(`UpdatesAsPromised`); `HandsOver`: a boot ends; `RollsBack`: an unconfirmed
trial is undone. Three pages give a first, an inner and a last page, and progress
words on two erase pages (four words on the first); two images are what an
update involves, and a page of the wrong one, or of the wrong place, is told from
the right one. 15 words are `4 * 3 + 3`, the smallest partition with which
everything works. The number of power failures is not bounded. That every copy
finds its progress word (`NoOverrun`) follows there from arithmetic alone, so it is
no property of the run: `MCBoot_state.cfg` has 10 words, which the code's assertion
accepts, and the revert runs over (section 8).

Fairness: the bootloader does not stop by itself, and power eventually stays on
for the time of a boot (`<>[][~PowerLoss]`). Without the second there is no
liveness: power that fails in every boot's first copy allows no progress. The
application owes nothing.

### Proofs

`FirmwareUpdateProofs` proves all but the liveness, for any number of pages and
images and any state partition with `4 * P + 3 <= Slots` (`EnoughSlots`):
`TypeCorrect`, `BootsWholeImageAlways`, `RevertKeepsBothImagesAlways`,
`NoOverrunAlways`, and `RefinesTrialUpdate`, that every step maps to a step or a
stutter of the abstract specification. Its second part is about `UsbDfu`.

None of these is inductive, since they say nothing of the pages in the middle of
a swap. What is inductive is the layout (`Layout(n)`): which page holds what when
`n` copies are made. The copy to `dfu[j]` is number `2 * (P - j)` in a swap and
`2 * P + 2 * j` in a revert, that to `active[i]` number `2 * (P - i) - 1` and
`2 * P + 2 * i + 1`; before the first and after the second of these numbers a
page holds what it held when the update was marked, between them the other
image's, and while copy `n` is being made its target may hold anything. Two
lemmas carry the argument: a copy spoils nothing but its target
(`CopyKeepsLayout`), so it can be begun again after any power failure; and its
source is intact, so it makes the next layout (`CopyMakesLayout`). The rest of
the invariant says that the progress words are exactly the first `n`, and which
`n` are possible in which place of the two programs (`Place`): the application
runs with none or `2 * P` copies made and the state is replaced with `4 * P`, so
that the write that ends an update always finds whole images.

## 4. Synchronisation

Each method of the three primitives below runs under a blocking mutex and is one
action. A task starts a call, is polled when it is woken, may drop the future and
leave its waker behind, and may be woken by another future it holds. The only
fairness is that the executor polls a woken task (`WF` on `Poll`), which
`EveryWakeVisits` shows of the executor.

### Channel

`Evicted` is `WakerRegistration::register`, `Taken` its `wake`. `TrySend`,
`TryReceive`, `TryPeek` and `Clear` are the calls without a waker. Messages are
named by their senders; nothing depends on more.

`channel` (three tasks, capacity 2): `NoLostWakeup`, who waits is about to be
polled, or registered with nothing to do; `ImplementsQueue`: `BoundedQueue` with
its fairness: a call that can be answered all the time is answered. Three tasks
allow two to fight over a registration while the third acts from the other side;
capacity 2 separates full, empty and neither. A particular sender among several
may starve, in the model as in the code; `ImplementsQueue` claims no more.

`ChannelProofs` proves `TypeCorrect`, `NoLostWakeupAlways` and `RefinesQueue` (the
safety part of the refinement) for every capacity and number of tasks.
`NoLostWakeup` is inductive with the types: a waiting sender that is not woken is
the one in the registration *and* the queue is full, and the only steps that
make room in a full queue take that registration.

### PubSub

A message is its sequence number, put in by the publisher, so that the arithmetic
that finds a message by a subscriber's position is checked and not assumed.
`Unsubscribe` counts down what was not read and trims the queue, `PublishImmediate`
throws out the oldest message of a full one, `Evicted` is
`MultiWakerRegistration::register`, which empties a full list. `lagging_drop`
remembers that a subscriber was dropped while it lagged (a finding, section 8).

`pubsub` (three subscribers for two slots, one publisher, a queue of 2, four
messages): `CountsReaders`, the counter of a message is the number of those yet
to read it, and never too low; `NoLostWakeup`; `ImplementsBroadcast`:
an inbox of `CAP` messages for each subscriber, who is told exactly how many it
lost, and answered when there is something; a waiting publisher gets through
when every inbox has room. Three subscribers in two slots let one come while
another leaves; four messages in a queue of two let a reader lag by one and by
two and the queue wrap past it. `MCPubSub_lagged.cfg` is the finding.

`PubSubProofs` proves types, `CountsReaders` and `NoLostWakeup` for any numbers,
the latter's half about publishers for as long as no lagging subscriber was
dropped: after that the code does leave them asleep.
The invariant counts by positions instead of indices: the counter of the message
with number `a` is that of the subscribers with a position up to `a`
(`Counted`), which reads and trims shift but do not change.

`RefinesBroadcast` is the safety part of `ImplementsBroadcast`. The mapping takes
positions to inboxes, so three facts about the queue come first: its messages are
numbered by their places (`Found`), the inbox of a subscriber holds the messages
from the later of its position and the queue's start up to the next (`Views`),
and the start moves only past messages that nobody is left to read, or whose
readers are told of the loss. There is one lemma for each thing that may happen
to all inboxes at once (kept, emptied, shortened, given a message, cleared) and
one for each action that cites it.

### Fair semaphore

`Leading` and `From` are `pop_canceled`, `WakeFirst` is `wake`, `MayTake` `take`,
`Registered` `register`, `DropFuture` `cancel`. A request is a minimum and whether
all is taken (`acquire_all`). Tickets do not wrap in the model: in the code that
takes 2^32 waits while one future is kept. `acquire(0)` is left out: it is
granted without looking at the permits, and means nothing.

`semaphore` (three tasks, a queue of 2, requests of one, two and all, up to two
permits, five tickets): `TicketsFindWakers`, `NoLostWakeup`, `ImplementsLine`:
permits are granted in the order of the line, and the first is served when there
are enough. `PermitLine` has no sequence, only who is in line and who is ahead of
whom. A queue of two is full with the third task still outside, and has an
inner entry to cancel; five tickets let the places shift below futures that are
already done. `unsignalled` remembers who became first by a cancellation and was
not woken: the code does not wake it, `MCFairSemaphore_cancel.cfg` is the finding.

`FairSemaphoreProofs` proves types, `TicketsFindWakers` and `NoLostWakeup`. The
tickets need a strengthening (`Fits`): a future that is done keeps a ticket that
was passed, and must stay without an entry as the queue grows. `RefinesLine` is
the safety part of `ImplementsLine`: whoever is ahead of a task in the line is a
task with an earlier entry that is not cancelled, so that pops, which shift all
places, leave the line as it is.

## 5. Bathroom heater

Time is discrete in both models: `Tick` is possible only when no task has
anything to do; a socket operation may end, well or badly, at any moment up to
its timeout.

### Telemetry

`htu21d_task` and `mqtt_task` with the channel between them. `outbox` is the
sample the sensor task waits to send, `channel` is `HTU_AVG_CH`, `mqtt` the await
that `mqtt_task` is at. A sample is its age. Measuring (0.27 s) takes no tick. A
receive with a timeout of 1 ms is a receive that does not wait.

`set_timeout(10 s)` (`:422`) is an idle timeout: a socket is closed when the peer
has been silent for that long (`embassy-net/src/tcp.rs:344`). `heard` is how long
the broker has said nothing, `Open` that the socket is not closed yet, and an
operation on a closed one fails (`SocketClosed`). A broker owes a quiet client
nothing: it may speak at any time (`BrokerSpeaks`) or never. One that only
acknowledges loses its connections in the 60 s before the ping, which then fails
and reconnects at once; one that speaks often enough keeps them through both
pings. The model has both and all in between.

The run `telemetry` takes a tick of 15 seconds: 1 between samples, 4 between
pings, a socket timeout of 10 s and the 3 s before a reconnect rounded up to one.
The channel has two places where the code has four, for the sake of the state
space: with two it is empty, full and neither, and a sample waits behind two
others. Ages are counted up to just above the bound checked. It shows

- `KeepAliveMet`: a packet every 75 s while online, however late sockets time out;
- `AttemptsSpaced`: no failure leads to a reconnect loop without a pause;
- `BoundedStaleness`: what is published is at most 25 ticks old, on however many
  connections. After an outage the channel and its sender hold samples from before
  it, one more than the channel has places, and no bound holds of them; `pubs`
  counts the publications since the last failure other than a ping's, and the
  bound holds from the third on. TLC finds one that is 24 ticks old and none
  older; 25 is what the theorem below gives;
- `KeepsMeasuring`: with a broker that stays reachable the sensor task is never
  blocked for good.

Fairness: time passes and tasks run (`WF` on their steps), and from some time on
the network fails no operation (`<>[][~SockFails]`). That is an assumption about
the network, not about the code; without it the sensor task does stand still. The
idle timeout is not part of it: connections may end in every wait for ever.

`ChannelProofs`, which holds the proofs about the heater too, has `HeardInTime`
and `ReconnectsSpaced` for all waits and timeouts with `PingWait + SockTimeout <=
KeepAlive` and `PingWait >= RetryWait`, as the code's are. What is inductive
(`PacedInv`) says of each place of `mqtt_task` how long the broker can have heard
nothing together with what the wait may still take (`Heard`), and that the time
since the last attempt together with the wait still to come is at least
`RetryWait` wherever the next thing may be an attempt (`Spaced`).

`PublishedFresh` is `BoundedStaleness` for all waits, timeouts and rooms in the
channel, under two conditions on them that it states. `Sized`: two samples are
measured between two pings, and the channel has room for two. `StaleEnough`: a
round from one publication to the next takes at most `Cycle`, which is the wait,
the publication, the ping that fails, and a new connection (100 s with the code's
numbers), and a sample may wait for one round more than the channel has places,
and a timeout: `(Capacity + 1) * Cycle + SockTimeout <= StaleAt`. For the run that
is 25; for the code's four places it is 510 s.

A sample's age when it is published is known from its place in the line: at least
one is taken in each round (`OnTime`). What is inductive (`FreshInv`, next to
`PacedInv`) says this of every sample behind those an outage may have left
(`LineFresh`) and of the one taken last (`LastFresh`), with the time to the next
publication (`TimeToGo`) and the number taken since the outage (`Drawn`).
`Supplied`, that no take after the first publication comes away with nothing, is
why places and takes go together. None of it depends on whether connections last.

### Clock and calendar

`Calendar` holds the firmware's conversions (`ToUnix`, from the Date header to
seconds since 1970, and `ToDateTime`, from there to what the RTC is set to), with
the loops over years and months as recursive functions, and next to them a
calendar that only knows what comes after a day: `TrueNext` with the Gregorian
leap years, `RtcNext` with the RTC's, every fourth. `HeaterClock` joins
`httpdate_task`, `rtc_task`, `RTC_EPOCH_CH` and a world in which days pass.

The run `clock` has days of 8 ticks, requests every 5, rounds of `rtc_task` every
2, a socket timeout of 2, and switches the device on, for up to 28 ticks, on the
eve of seven turns: leap days of 2000 and 2024, the missing ones of 2025 and 2100,
a new year after a common year and before 2100, the end of a month. `ShowsDate`:
the RTC, once set, shows the date of the world, weekday included, late by what an
answer takes to be read and a round of `rtc_task` at most. As the clock is set at
any time of these days and runs on over midnight, both conversions and both
calendars must agree. The one exception is a 29 February that the RTC invents in
2100, until it is set again. `SetInTime`: the RTC is set in every period and the
time a request takes, one more for each that fails.

The constants keep the code's order (a socket operation is shorter than a period,
a round than both) and not its proportions. `ClockAssumption` keeps what `ShowsDate`
needs of that order, that a round is no longer than a period: with longer rounds
a date waits in the channel, and the next waits to be sent, and TLC finds
`ShowsDate` violated. `StartsAssumption` says that the device is switched on at a
moment of the calendar (`IsDate`: from 1970 on, a day that its month has, on its
weekday).

`SetInTimeAlways`, in `ChannelProofs`, is `SetInTime` for all of them. The time
since the RTC was set and the time that the request under way may still take
together stay within the periods that `failures` allows; once the date is sent,
within a round of `rtc_task` more (`Underway`). The conversions have no part in
it.

`ShowsDateAlways` is `ShowsDate` for all starts, periods, timeouts, rounds and
lengths of a day. It rests on three facts about the calendar, each proved:

- `RoundTrip`: `ToDateTime(ToUnix(d)) = d` for every date of the calendar. The loop
  of `days_before_year` has a closed form (`DaysUntil`, with quotients by 4, 100 and
  400). The loop of `unix_to_datetime` over years takes a year's days off exactly
  when the closed form says that the year is over (`YearFound`); so does the one
  over months with the twelve partial sums (`MonthFound`). Induction over years is
  stated over sets of naturals, by their least element (`Induction`). The recursive
  functions are shown to be what their equations say: `YearOf`, whose argument
  grows, by giving a function that satisfies its equation (`YearLoop`).
- `NextIsDate`: the day after a date of the calendar is one, with the weekday that
  the seconds give it; a day has one number more than the day before
  (`NextDayNumber`).
- `RtcNextIs`: the RTC's calendar makes the same step, unless it steps to a
  29 February that the Gregorian calendar does not have.

What is inductive (`DateInv`) follows a date through the device: the server's
answer is a date that the world had at most so many ticks ago as the socket has
waited (`Answered`); what is in the channel is the seconds of one that is older
by at most what has passed of a round, and is taken before the next request can
send (`Sent`); what the RTC shows is older by both at most (`Shown`). Years are
not bounded in the model; the RTC's register ends with the year 4095.

## 6. Drivers

### Timers

`TimeDriver.tla` joins the tasks that await a `Timer`, the integrated timer queue
and the RP2040's driver. `queue` maps the tasks in the queue to `expires_at` (the
linked list's order has no effect); `alarm`, `armed` and `irq` are the registers.
`schedule_wake` and the interrupt handler each run in a critical section, but
time does not stop for it: between any two accesses to the clock or the alarm
there is a step of their own, `pc` says which is next, and `Tick` may come in
between. The alarm compares for equality with the counter's low word, so it can
be set too late, and fires early for a time more than a word ahead. Whether it
fires at once when it is set to the very word of the counter is left open.

| Code | Actions |
|---|---|
| `Timer::after`, `Timer::poll`, drop | `StartTimer`, `Poll`, `DropTimer` |
| `Queue::schedule_wake` | `ScheduleWake` |
| `Queue::next_expiration`, `retain` | `NextExpiration` |
| `set_alarm` | `SetAlarm`, `CheckSet` |
| `check_alarm` | `TakeIrq`, `CheckAlarm`, `Rearm` |
| the hardware | `Tick`, `Arm` |

The run `time_driver` has two tasks, a word of 3 ticks in place of 2^32, delays of
1 and of 4 ticks (one more than a word), and time up to 5: a timer may start
after the first word, fire early, be armed again and expire. A delay of 0 is a
delay of 1 whose task is slow to call. `u64::MAX` is the last double word, 8. It
shows `NoMissedExpiration`, `KeptByQueue` and `EveryTimerEnds`.

`Latency` bounds how many ticks a critical section takes, and how many an
interrupt waits for a free one and runs; twice that must be less than a word.
Without it the code would be wrong: an interrupt that fired early and is answered
a word later arms the alarm for a moment that has passed. On the chip a word is
more than an hour.

Fairness: the clock runs, the driver's code goes on (`WF`), and a task or the
interrupt that waits for the critical section gets it in the end (`SF`: others
take it in between). The executor polls woken tasks, as `Executor` shows.

`TimeDriverProofs` proves `TypeCorrect`, `NoMissedExpirationAlways` and
`KeptByQueueAlways` for all constants that satisfy the assumptions. The
invariant says of each place in the driver (`AlarmInv`) that the alarm is armed
and ahead, or that it fired early and at least a word less the latencies spent is
left to arm it again, or that the interrupt or the loop that sets it anew is
still to come; and (`FirstInv`) that no queued expiration precedes the alarm's.
Its arithmetic is one lemma: times with the same low word are a word apart.

### Buffered UART receiver

`AtomicRingBuffer` is the index arithmetic, `BufferedUartRx` the interrupt handler
(`PushSlice`, `Store`, `DropBad`, `PushDone`, `WakeReader`, `CheckFull`, `Mask`)
against one task that reads: one action per access to what they share. With
`sameCore` the handler preempts the reader, without it they interleave freely.
`Call` begins `read`, `blocking_read` or `fill_buf`; `PopBuf`, `Copy`, `PopDone`,
`Consume` and `Unmask` are the ways through them. The FIFO may receive a good
character or one with an error at any time; the handler also runs when the
transmitter wants it (`TxInterrupt`).

`uart_rx` (one task, a ring of 2, a FIFO of 1, two good characters and a bad one):
`ImplementsStream`, every character the FIFO took is delivered once and in order,
an error some time near its place; `NoLostWakeup`; `MaskedForAReason`: the
interrupt is masked only while there is something to read, or a read is about to
unmask it; `ReadEnds`: a wait with characters in the FIFO ends, on one core or two.
A ring of two distinguishes empty, full and half,
and wraps in the middle of a slice. More tasks take turns with the receiver, but
only one holds it at a time, so one is checked; the proofs allow any number.

Fairness: the handler is called when its line is high and runs to its end (`WF`),
and interrupts leave the processor time for the reader (`SF` on `Reading`: each
interrupt disables it). `late` and `deaf` are history for what the code does not see
to (section 8). `late`: the first wait of a task, whose waker is registered after
the look at the buffer. `deaf`: a call is over and the interrupt stays masked,
either because `fill_buf` returned an error, or because a reader on the other core
had done its unmasking when the handler masked. `MCBufferedUartRx_cores.cfg` shows
the second; a wait behind such a mask is left out of `ReadEnds` only as long as it
finds nothing else to return.

`BufferedUartRxProofs` proves types, `NoLostWakeup`, `MaskedForAReason` and the
refinement (`RefinesStream`) for every length of ring, FIFO and reads. The invariant
keeps the two slices apart, each within the buffer (`WriterSlice`, `ReaderSlice`),
bad characters out of it (`GoodOnly`), and says what a reader that has looked at an
empty buffer may rely on (`Announced`). For the mask (`MaskInv`) the handler's
decision to set it counts as the mask itself.

### USB DFU

`UsbDfu` has the two handlers and what they call. In the application a detach,
followed by a USB reset in time, writes the magic and resets (`Detach`,
`UsbReset`, `Tick`). In the bootloader `Dnload` is DFU_DNLOAD up to the first
flash operation, `EraseSector` and `WriteChunk` are the loop of `write_firmware`,
`EraseState` and `WriteDfuMagic` are `set_magic`. `UpdaterState` declares what this
updater has in common with `Boot`'s. A flash cell that is written
without having been erased holds neither the old nor the new data (`Mixed`).
Lengths count units of the flash's write size. Power may fail in any state, which
loses all but the flash.

The host (`Confused`) sends any request at any time, aborts, repeats and starts
again with another image, but numbers blocks as DFU prescribes and sends short
ones only at the end. The buffer's tail from the block before, which is written
behind a short one, is in the model. The swap is one step: `Boot` has it in full.

`dfu` (two images, lengths 3, 10 and 14, blocks of 4, three sectors of 5): blocks
cross sectors, one image is a single short block, one ends with a sector in the
middle of a block, and one fits into the partition's 15 units only without the
padding of its last block, which the device refuses (`OutOfBounds`).
`MarkedAsSent`: as long as the magic says swap, the partition holds what one
download sent up to the marking, unit by unit, whatever came before or after. It
compares with what was sent and not with what the host has: a host that ends a
download early gets its part marked, because the device is never told a length.
`DfuTypeOK`: the offsets and sectors stay within the partition for every image.
`DownloadEnds`: from any state, a host that follows the device's state, with an
image whose blocks fit, gets it marked. In this run the host does not start a
download while its first sector is the one erased last (`RestartsAnywhere`);
`MCUsbDfu_restart.cfg` lets it, and is a finding (section 8).

The one assumption on sizes, next to whole sectors, is that the numbers of the
blocks in a partition do not wrap (`SizeAssumption`): there are 65,536.

Fairness: the device ends what it began; from some time on power stays and the
host keeps to the order (`Orderly`), without which no download need ever end.

`FirmwareUpdateProofs` has `DfuTypeCorrect` for all sizes of images, blocks, sectors
and partition and for any host. A block leads at most its own length beyond what
has been sent, and the check before the first flash operation is what keeps it
inside; what is inductive (`DfuTypeInv`) are the types together with how the
offset, the place of writing and the length of the block relate (`Offsets`).
`MarkedAsSentAlways` is for all sizes and any host that is not `RestartsAnywhere`.
It says nothing of a download that has not come to its end. The invariant
(`DfuDataInv`) says of the time between two blocks that the offset is what was
sent, all of which has landed, and that writing may go on there, since the rest of
the sector is erased or a sector begins (`Writable`); inside a block the same of
the chunk that is next (`InBlock`); and of the time from the last block to the
magic that all that was sent is there (`Marking`).

### cyw43

`ZeroCopyChannel` is the state of the zero-copy channel as operators on a record.
`Cyw43` joins two of them (the driver channel), the stack's `Device`, the
control task with its ioctls and the runner, against a chip that takes frames,
answers and sends in its own time. All tasks are on one executor, so that what a
task does between two awaits is one action, or several that nobody else
interrupts (`Idle`); the chip is under no such restriction.

| Code | Actions |
|---|---|
| `do_ioctl`, `wait_complete`, `CancelOnDrop` | `DoIoctl`, `PollControl`, `Cancel` |
| `Inner::poll` on `Device::receive`, `transmit` | `PollStack`, `StackReceives`, `StackTransmits`, `StackWaits` |
| `Runner::run` | `TakeIoctl`, `TakePacket`, `Await`, `Stall`, `PollRunner` |
| `wlan_write` and `tx_done`, `handle_irq`, `check_status` and `rx` | `Written`, `IrqRead`, `Read` |
| the chip | `ChipTakes`, `ChipSends` |

A frame carries its kind and the ioctl's id; `live`, which the code does not
have, says that the call it belongs to is still awaited. Sequence numbers count
modulo `SeqMod`, with the thresholds 0x40 and 0x80 of the code as a quarter and a
half of it. Events from the chip are read and have no other effect here.

`cyw43` (`SeqMod` 8, room in the chip for 2 frames, 4 ioctl ids, a tx channel of
2): `AnswersTheCaller`, a call ends with its own answer, and a call that was given
up leaves no pointer to its buffer; `CreditKept`, the chip has room for each frame
sent, with counters that wrap and credits read late; `InOrder`, packets reach the
chip once and in order; `NoLostWakeup`. Two frames in the chip let an answer to a
call that was given up be on its way together with the next call. The instance
`MCCyw43_answers.cfg` (room for one frame, channels of one), to be run by hand,
shows the types, `Answered` and `Transmits`: each ioctl that is not given up ends
and each packet gets out.

Fairness: the executor polls woken tasks, the bus ends its transfers, and the
chip answers and passes on credits. Three things are assumed because the code
does not see to them: `check_status` reads as long as there is something to read,
so the chip must pause; `select4` prefers ioctls, so the control task must not
give up and ask again for ever; the stack uses the room in `tx` for answers first
(`SF` on `StackTransmits`), so not all of it may go to them.

`Cyw43Proofs` proves types and the four properties of the run for all sizes of
channels, windows and counters that satisfy the assumptions. Counters that wrap
are compared by their distance from the chip's own count: each credit that the
runner has, or that is on its way to it, lies between the frames still on their
way and the chip's room, in the order in which it was granted (`CreditInv`). An
ioctl id comes again after `IdMod` calls; the frames and answers still on their way
that carry one have an age bounded by the calls after it, so that
`Window + Waiting < IdMod` keeps them distinct (`AgeInv`), and one that carries the
last id belongs to the call awaited (`LiveInv`). Packets are numbered without a gap
from the chip's back to the stack's end of the channel (`PacketInv`), and
`WakerInv` says of each task that sleeps where its waker is. TLC checked all of it
on small instances first.

## 7. What is proved, what is checked

Proved for all values of the constants:

- every invariant and action property that a passing run checks of `Executor`,
  `Boot`, `Channel`, `TimeDriver`, `PubSub`, `FairSemaphore`, `BufferedUartRx`,
  `UsbDfu`, `Cyw43`, `Telemetry` and `HeaterClock`, that is, of all of them;
- that the firmware's conversions between a date and the seconds since 1970 undo
  each other (`RoundTrip`);
- that `Executor`, `Boot`, `Channel`, `PubSub`, `FairSemaphore` and
  `BufferedUartRx` implement `TaskLifecycle`, `TrialUpdate`, `BoundedQueue`,
  `Broadcast`, `PermitLine` and `ByteStream` step by step.

Every proof has the same shape: an inductive invariant that contains the property
or implies it, one lemma per action, and a temporal step that puts them together.

The assumptions are the named `ASSUME`s (the null pointer is no task, threads are
distinct, sizes are positive), which TLC evaluates in the runs, and those that a
theorem states itself: `OwnedStorage` for the executor, no context that wakes
without pend for `NoLostPendAlways`, `EnoughSlots` for the bootloader,
`~RestartsAnywhere` for what USB DFU marks, two inequalities between `mqtt_task`'s
waits, and `Sized` and `StaleEnough` for what it publishes. The runs of these
modules satisfy them; `executor_shared`, `MCBoot_state.cfg` and
`MCUsbDfu_restart.cfg`, which do not, are findings.

The statements of some properties have an exception, where the code falls short of
the whole: all three of `PubSub` (`lagging_drop`), `NoLostWakeup` and
`ImplementsLine` of the semaphore (`unsignalled`), and `NoLostWakeup`,
`MaskedForAReason` and `ReadEnds` of the receiver (`late`, `deaf`). Each exception
is recorded in section 8.

Model-checked only is liveness (`EveryWakeVisits`, `HandsOver`, `RollsBack`,
`KeepsMeasuring`, `EveryTimerEnds`, `ReadEnds`, `DownloadEnds`, and the fairness
parts of `ImplementsQueue`, `ImplementsBroadcast`, `ImplementsLine`), which is out
of the prover's reach.

Types are a theorem of these modules; only `DfuTypeOK`, which says something
about the code, is checked by a run as well.

Every property of a run has a mutant: a definition changed as a plausible bug would
change it, next to the original in the module, which breaks the property.

## 8. Findings

Seven instances end in a violation of what a comment or the documentation of the
code says. The first is a run of `PROJECT.json`; the others are run by hand, with
`tlc -config MCPubSub_lagged.cfg MCPubSub.tla` and so on (the sixth on `Telemetry`).

1. `executor_shared` (`PollsOwnLiveTask`), against `raw/mod.rs:82`. `run_dequeue`
   clears the queued bit of an exited task before `poll_fn` is read. If another
   executor claims the storage in between, the first one polls a future that is
   not written yet. `OwnedStorage` excludes it.
2. `MCPubSub_lagged.cfg` (`NothingLeftBehind`), against `pubsub/mod.rs:394`, "All
   messages that haven't been read yet by this subscriber must have their counter
   decremented". A subscriber that is dropped while it lags leaves the counters of
   the queue as they are (`:396`): the messages are never removed, and a publisher
   that waits for room is never woken.
3. `MCFairSemaphore_cancel.cfg` (`FirstIsWoken`), against `semaphore.rs:39`, where a
   release is "making them available to be acquired". Cancelling the first waiter
   (`:423`) wakes nobody: the next one sleeps beside permits that are enough for it
   until some later release.
4. `MCUsbDfu_restart.cfg` (`MarkedAsSent`), against `dfu.rs:211`, "the chunks sent by
   the host will be written to the DFU partition". `write_firmware` remembers the
   sector it erased last (`blocking.rs:267`), also when a new download begins at
   offset 0. If that sector was the first, the new data is written over the old
   without an erasure, and what is then marked is no image.
5. `MCBoot_state.cfg` (`NoOverrun`), against `boot_loader.rs:245`, "Ensure we have
   enough progress pages to store copy progress": the assertion behind it (`:432`)
   accepts 10 words for three pages. Two go to the magic and the marker, a swap and
   its revert make 12 copies, and the ninth finds no word for its progress.
6. `Telemetry_latest.cfg` (`PublishesLatest`), against the comments at `:239` and
   `:410` of the heater: what is reported is the oldest sample of the channel, and
   newer ones stay in it.
7. `MCBufferedUartRx_cores.cfg` (`MaskEndsWithReading`), against `buffered.rs:277` and
   `:324`, where a read re-enables the interrupt that a full buffer disabled. On the
   other core it may do so between the handler's look at the full buffer (`:581`)
   and its mask (`:582`), which then stays over an empty buffer, and the next reader
   waits for ever.

The models show more that no run of its own records.

Bootloader. The assertion on the size of the state partition
(`boot_loader.rs:432`) asks for `2 + 2 * P` words. With exactly that many the
bootloader never sees that it has swapped, and an unconfirmed image runs again
and again. With `2 * P + 3` to `4 * P + 1` the revert writes past the partition
(`:245`, `:314`) and no boot succeeds any more. With `4 * P + 2` an invalid
progress (`:301`) reads as the index of the revert's last copy, which is made
once more from a page that is not part of the backup, and a mixed image is
started. From `4 * P + 3` on all is well; that is `EnoughSlots`. A power loss in
`mark_booted` after the progress is invalidated (`blocking.rs:383`) makes the
next boot report `Revert` for a confirmed image; the boot that reverts returns
`Swap`, the state it read.

Semaphore. Cancelled entries in the middle keep their places, so `WaitQueueFull`
may come with fewer than `N` tasks waiting, where the comment at
`semaphore.rs:219` speaks of `N` tasks.

UART receiver. `read`, `fill_buf`, `write` and `flush` register the waker after
looking at the buffer: an interrupt in between wakes nobody in the first wait of
a task (`buffered.rs:234`, `:306`). The error path of `fill_buf` (`:308`) leaves
the interrupt masked, against the comment at `:324`. Errors may be reported before
or after their neighbours, where the comment at `:559` speaks of the exact place.
The embedded-hal 0.2 and nb reads go past the ring buffer to the FIFO. Dropping the
receiver while the transmitter lives leaves its interrupt unmasked.

Heater. The idle timeout of `:422` is shorter than the 60 s before a ping: with a
broker that only acknowledges, the ping fails, and each publication has a
connection of its own. Publications are then 60 s apart, 100 s at most, and two
minutes with a broker that speaks often enough, where the comments at `:239` and
`:410` say three. Either way the consumer takes three samples in two minutes at
most, while eight are due: the channel is full, its oldest sample is published,
and sampling slows down to the consumer's pace and stops with the broker away.
Failed readings are averaged in as zeroes (`:144`, against `:127`). A connection
made before the first sample publishes 0.00 (`:440`). The RTC invents a 29 February
in 2100; the firmware never turns its leap year check off, and if it did, the next
`set_datetime` would turn it on again (`rtc/mod.rs:99` writes the whole register).

USB DFU. A first DNLOAD without data marks whatever is in the partition
(`dfu.rs:130`), and one in the middle of a download marks the part that came.
Block number 0 begins again in every state, also when the 16-bit number wraps. The
last block is written with its padding, so an image that fits only without it ends
with ErrAddress. After an abort in ManifestSync the device is in DfuIdle with the
magic written: it refuses further data with ErrUnknown until it is reset.
`DfuMarker` writes the magic without `verify_booted`, so a detach during an
unconfirmed trial gives up the way back; in `UsbDfu` the swap completes and is
confirmed in one step, so no run has that.

cyw43. An error status in an answer with the current id ends in a panic
(`runner.rs:445`), also when the call it answers was given up. A credit that looks
out of range is replaced by `self.sdpcm_seq + 2` (`:553`), which does not wrap and
panics in a debug build at 254 and 255; a chip that keeps to its window, which
`Cyw43` assumes, never sends one. A packet that finds the rx channel full is
dropped, and the stack takes none while tx is full.

Executor. `wake_task_no_pend` (`raw/mod.rs:598`) followed by `wake_task` leaves an
executor asleep with a queue that is not empty, since only the enqueue that finds
it empty pends. The caller must pend by itself.

## 9. Not modelled

HALs, network drivers, the USB stack and cyw43's bus code are register and wire
protocols, most of it generated: what matters in them is the hardware's side,
which is not in the repository. They are nearly all of its 216,000 lines; the
mapped share of the whole stays small for that reason. embassy-net is a shell
around smoltcp, likewise outside. Formatting, encodings (MQTT, JSON, the sensor's
CRC, the cutting of the Date header), signature checks, tracing and macros carry
no control.

Of what is modelled: memory ordering weaker than sequential consistency; writes
smaller than a page, and flash errors other than out of bounds; the UART's
transmitting half, `init`, drop, and `push_bufs`; other users of the ring buffer.
The critical-section and ARM variants of the run queue take coarser steps of the
protocol modelled. Mutex, RwLock, the greedy semaphore, Signal, Watch, OnceLock
and the priority channel keep one value or counter and the wakers of Channel or
PubSub. Pipe is a buffer under a mutex with one waker on each side, as in Channel.
In `UsbDfu`: signatures, misaligned writes. In `Cyw43`: joining, events and their
queue, which drops the oldest, Bluetooth, firmware download and logs, link state.

## 10. Plan

What would come next, in order:

1. The UART's transmitting half, with the FIFO and `flush`, and the wait for a
   break to end.
2. cyw43's events: joining a network, and what its queue of two drops.
3. `Pipe`, and the USB logger on top of it.
4. The critical-section executor as a second implementation of `TaskLifecycle`.

No invariant or action property of a run is left without a theorem. A proof of
the liveness properties would need their leads-to chains, which the prover does not
reach; the next components come with invariants of their own.
