----------------------------- MODULE Telemetry -----------------------------
(***************************************************************************)
(* The telemetry of the bathroom heater (examples/picow/src/bin/           *)
(* bath_heater_httpdate_rtc_htu_mq.rs): htu21d_task measures and sends its *)
(* averages through HTU_AVG_CH; mqtt_task takes one before it publishes    *)
(* and one after each ping.  A socket that hears nothing from the broker   *)
(* for SockTimeout is closed (set_timeout, embassy-net/src/tcp.rs): at the *)
(* latest then, the next operation on it fails.  Time passes in ticks, and *)
(* only while neither task has something to do.  A sample is known by its  *)
(* age: what was measured is left out.                                     *)
(***************************************************************************)
EXTENDS Integers, Sequences

CONSTANTS
    Capacity,     \* capacity of HTU_AVG_CH
    SampleWait,   \* ticks between two measurements
    PingWait,     \* ticks between two pings
    Pings,        \* pings between two publications
    RetryWait,    \* ticks before reconnecting
    SockTimeout,  \* ticks without a word from the broker that close a socket
    KeepAlive,    \* ticks after which the broker gives up a silent client
    StaleAt,      \* the age in ticks that a published sample may have
    MaxAge        \* the age of a sample is counted up to here

ASSUME TelemetryAssumption ==
    /\ {Capacity, SampleWait, PingWait, Pings, RetryWait,
      KeepAlive, StaleAt, MaxAge} \subseteq Nat \ {0}
    /\ SockTimeout \in Nat

VARIABLES
    outbox,   \* htu21d_task: <<>> while it sleeps, else the sample it waits to send
    channel,  \* HTU_AVG_CH: a sequence of samples
    mqtt,     \* mqtt_task: where it waits
    pings,    \* pings sent since the publication
    last,     \* last_t and last_rh: the sample to publish
    left,     \* left[task]: ticks until its timer or its socket operation ends
    quiet,    \* ticks since the last packet to the broker
    heard,    \* ticks since the last packet from the broker
    attempt,  \* ticks since the last connection attempt
    pubs      \* publications since a connection failed before or in its own

tasks == <<outbox, channel, mqtt, pings, last, left>>
clocks == <<quiet, heard, attempt, pubs>>
telemetryVars == <<tasks, clocks>>

\* Counts up to max.
Later(n, max) == IF n < max THEN n + 1 ELSE max

SockOps == {"connect", "hello", "publish", "ping"}

\* The socket is connected, and its idle timeout has not closed it.
Open ==
    /\ mqtt \in {"hello", "top", "publish", "wait", "ping"}
    /\ heard <= SockTimeout

MaxPubs == Capacity + 1  \* publications are counted up to here

\* A sample just measured, and the zeroes that last_t and last_rh hold on a new
\* connection, as old as can be.
Fresh == 0
Zero == MaxAge

TelemetryInit ==
    /\ outbox = <<>>
    /\ channel = <<>>
    /\ mqtt = "retry"
    /\ pings = 0
    /\ last = Zero
    /\ left = [sampler |-> 0, mqtt |-> 0]
    /\ quiet = 0
    /\ heard = 0
    /\ attempt = RetryWait
    /\ pubs = 0

-----------------------------------------------------------------------------
\* htu21d_task.

\* The measurement takes less than a tick; then the task waits to send it.
Measure ==
    /\ outbox = <<>> /\ left["sampler"] = 0
    /\ outbox' = <<Fresh>>
    /\ UNCHANGED <<channel, mqtt, pings, last, left, clocks>>

\* HTU_AVG_CH.send(..).await, which waits for room, and the sleep.
SendAverage ==
    /\ outbox # <<>>
    /\ Len(channel) < Capacity
    /\ channel' = channel \o outbox
    /\ outbox' = <<>>
    /\ left' = [left EXCEPT !["sampler"] = SampleWait]
    /\ UNCHANGED <<mqtt, pings, last, clocks>>

-----------------------------------------------------------------------------
\* mqtt_task.

GoTo(place, ticks) ==
    /\ mqtt' = place
    /\ left' = [left EXCEPT !["mqtt"] = ticks]

\* Mutant: the sample is looked at and left where it is.
PeekOne ==
    IF channel = <<>>
    THEN UNCHANGED <<channel, last>>
    ELSE last' = Head(channel) /\ UNCHANGED channel

\* with_timeout(1 ms, HTU_AVG_CH.receive()): the oldest sample, if there is one.
TakeOne ==
    IF channel = <<>>
    THEN UNCHANGED <<channel, last>>
    ELSE channel' = Tail(channel) /\ last' = Head(channel)

Connect ==
    /\ mqtt = "retry" /\ left["mqtt"] = 0
    /\ GoTo("connect", SockTimeout)
    /\ attempt' = 0
    /\ UNCHANGED <<outbox, channel, pings, last, quiet, heard, pubs>>

Connected ==
    /\ mqtt = "connect"
    /\ GoTo("hello", SockTimeout)
    /\ heard' = 0
    /\ UNCHANGED <<outbox, channel, pings, last, quiet, attempt, pubs>>

\* The CONNECT packet is written: a connection starts from zeroes.
HelloSent ==
    /\ mqtt = "hello" /\ Open
    /\ GoTo("top", 0)
    /\ last' = Zero
    /\ quiet' = 0
    /\ UNCHANGED <<outbox, channel, pings, heard, attempt, pubs>>

Prepare ==
    /\ mqtt = "top"
    /\ TakeOne
    /\ GoTo("publish", SockTimeout)
    /\ UNCHANGED <<outbox, pings, clocks>>

\* Mutant: nothing is sent until the next publication is due.
PublishedSilent ==
    /\ mqtt = "publish" /\ Open
    /\ GoTo("wait", Pings * PingWait)
    /\ pings' = 0
    /\ quiet' = 0
    /\ pubs' = Later(pubs, MaxPubs)
    /\ UNCHANGED <<outbox, channel, last, heard, attempt>>

Published ==
    /\ mqtt = "publish" /\ Open
    /\ GoTo("wait", PingWait)
    /\ pings' = 0
    /\ quiet' = 0
    /\ pubs' = Later(pubs, MaxPubs)
    /\ UNCHANGED <<outbox, channel, last, heard, attempt>>

StartPing ==
    /\ mqtt = "wait" /\ left["mqtt"] = 0
    /\ GoTo("ping", SockTimeout)
    /\ UNCHANGED <<outbox, channel, pings, last, clocks>>

\* Mutant: only the publication takes a sample.
PingSentOnly ==
    /\ mqtt = "ping" /\ Open
    /\ pings' = pings + 1
    /\ quiet' = 0
    /\ IF pings' = Pings THEN GoTo("top", 0) ELSE GoTo("wait", PingWait)
    /\ UNCHANGED <<outbox, channel, last, heard, attempt, pubs>>

PingSent ==
    /\ mqtt = "ping" /\ Open
    /\ TakeOne
    /\ pings' = pings + 1
    /\ quiet' = 0
    /\ IF pings' = Pings THEN GoTo("top", 0) ELSE GoTo("wait", PingWait)
    /\ UNCHANGED <<outbox, heard, attempt, pubs>>

\* Only a failed ping reconnects at once.
Retreat(wait) ==
    /\ GoTo("retry", wait)
    /\ pubs' = IF mqtt = "ping" THEN pubs ELSE 0
    /\ UNCHANGED <<outbox, channel, pings, last, quiet, heard, attempt>>

RetreatWait == IF mqtt = "ping" THEN 0 ELSE RetryWait

\* Mutant: every failure reconnects at once.
SockFailsNow == mqtt \in SockOps /\ Retreat(0)

\* The network fails a socket operation, or lets it time out.
SockFails == mqtt \in SockOps /\ Retreat(RetreatWait)

\* An operation on a socket that its idle timeout has closed.
SocketClosed ==
    /\ mqtt \in {"hello", "publish", "ping"} /\ ~Open
    /\ Retreat(RetreatWait)

-----------------------------------------------------------------------------
\* The broker acknowledges or answers a packet, or sends one of its own: to a
\* publication of QoS 0 or a quiet client it owes none.
BrokerSpeaks ==
    /\ Open /\ heard # 0
    /\ heard' = 0
    /\ UNCHANGED <<tasks, quiet, attempt, pubs>>

-----------------------------------------------------------------------------
OlderSample(age) == Later(age, MaxAge)
OlderSamples(q) == [i \in DOMAIN q |-> OlderSample(q[i])]

SamplerBusy ==
    IF outbox = <<>> THEN left["sampler"] = 0 ELSE Len(channel) < Capacity
MqttBusy == left["mqtt"] = 0

Tick ==
    /\ ~SamplerBusy /\ ~MqttBusy
    /\ outbox' = OlderSamples(outbox)
    /\ channel' = OlderSamples(channel)
    /\ last' = OlderSample(last)
    /\ left' = [left EXCEPT !["sampler"] = IF outbox = <<>> THEN @ - 1 ELSE @,
                            !["mqtt"] = @ - 1]
    /\ quiet' = Later(quiet, KeepAlive + 1)
    /\ heard' = Later(heard, SockTimeout + 1)
    /\ attempt' = Later(attempt, RetryWait)
    /\ UNCHANGED <<mqtt, pings, pubs>>

Steps ==
    \/ Measure \/ SendAverage
    \/ Connect \/ Connected \/ HelloSent
    \/ Prepare \/ Published \/ StartPing \/ PingSent
    \/ SocketClosed \/ Tick

TelemetryNext == Steps \/ BrokerSpeaks \/ SockFails

TelemetrySpec == TelemetryInit /\ [][TelemetryNext]_telemetryVars

\* From some time on the broker is reachable and its network works; how often
\* it speaks is left open, and with it how long a connection lasts.
ReachableSpec ==
    /\ TelemetrySpec
    /\ WF_telemetryVars(Steps)
    /\ <>[][~SockFails]_telemetryVars

-----------------------------------------------------------------------------
\* Properties.

Online == mqtt \in {"top", "publish", "wait", "ping"}

\* The broker, told to expect a packet every 75 seconds, is never left longer
\* without one while the connection lasts (mqtt_send_connect(.., 75)).
KeepAliveMet == Online => quiet <= KeepAlive

\* However sockets fail, connection attempts are never closer than RetryWait
\* (the timers before each continue 'reconnect).
AttemptsSpaced == [][Connect => attempt >= RetryWait]_telemetryVars

\* Over however many connections, of which each may last no longer than one
\* publication: once mqtt_task has published as often as HTU_AVG_CH and its
\* sender hold samples, what it publishes is no older than this.  What an
\* outage has left in them, up to its own length old, is published before.
BoundedStaleness == mqtt = "publish" /\ pubs = MaxPubs => last <= StaleAt

\* With a reachable broker the sensor goes on being measured: the blocking
\* send of htu21d_task waits for a receiver that always comes again.
KeepsMeasuring == []<><<Measure>>_telemetryVars

\* "Published every 3 minutes, with the latest value of HTU_AVG_CH" (the
\* comments on mqtt_task and on its spawn): nothing newer is left in it.
PublishesLatest == [][Prepare => channel' = <<>>]_telemetryVars
=============================================================================
