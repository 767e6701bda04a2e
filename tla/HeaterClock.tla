---------------------------- MODULE HeaterClock ----------------------------
(***************************************************************************)
(* The clock of the bathroom heater (examples/picow/src/bin/               *)
(* bath_heater_httpdate_rtc_htu_mq.rs): httpdate_task asks a web server    *)
(* for the date and sends it through RTC_EPOCH_CH to rtc_task, which sets  *)
(* the RTC.  Time passes in ticks, and only while neither task has         *)
(* something to do.                                                        *)
(***************************************************************************)
EXTENDS Calendar, Sequences

CONSTANTS
    Starts,       \* moments at which the device is switched on
    Horizon,      \* ticks that it stays on, at most
    Sync,         \* ticks between two requests
    Round,        \* ticks between two rounds of rtc_task
    HttpTimeout,  \* ticks after which a socket operation gives up
    None

ASSUME ClockAssumption ==
    /\ {Horizon, Sync, Round, HttpTimeout} \subseteq Nat \ {0}
    /\ Round <= Sync

ASSUME StartsAssumption == \A start \in Starts : IsDate(start)

VARIABLES
    now,       \* the date and time of the world
    rtc,       \* those that the RTC shows; None while it does not run
    http,      \* httpdate_task: where it waits
    answer,    \* the Date that the server put into its response
    epoch_channel,  \* RTC_EPOCH_CH, of capacity 1
    due,       \* due[task]: ticks until its timer or its socket operation ends
    invented,  \* history: the RTC counted a 29 February that there was not
    since,     \* history: ticks since the RTC was set, or the device switched on
    failures,  \* history: requests that failed since then
    age        \* ticks since the device was switched on

clockTasks == <<http, answer, epoch_channel, due>>
clockHistory == <<invented, since, failures, age>>
clockVars == <<now, rtc, clockTasks, clockHistory>>

HttpOps == {"connect", "write", "read"}

ClockInit ==
    /\ now \in Starts
    /\ rtc = None
    /\ http = "sleep"
    /\ answer = None
    /\ epoch_channel = <<>>
    /\ due = [http |-> 0, rtc |-> 0]
    /\ invented = FALSE
    /\ since = 0
    /\ failures = 0
    /\ age = 0

-----------------------------------------------------------------------------
\* httpdate_task.

HttpGoTo(place, ticks) ==
    /\ http' = place
    /\ due' = [due EXCEPT !.http = ticks]

Request ==
    /\ http = "sleep" /\ due.http = 0
    /\ HttpGoTo("connect", HttpTimeout)
    /\ UNCHANGED <<now, rtc, answer, epoch_channel, clockHistory>>

HttpConnected ==
    /\ http = "connect"
    /\ HttpGoTo("write", HttpTimeout)
    /\ UNCHANGED <<now, rtc, answer, epoch_channel, clockHistory>>

HttpWritten ==
    /\ http = "write"
    /\ HttpGoTo("read", HttpTimeout)
    /\ UNCHANGED <<now, rtc, answer, epoch_channel, clockHistory>>

\* The server answers, with its date, some time before the answer is read.
ServerAnswers ==
    /\ http = "read" /\ answer = None
    /\ answer' = now
    /\ UNCHANGED <<now, rtc, http, epoch_channel, due, clockHistory>>

\* The answer is read; RTC_EPOCH_CH.send(..).await waits for room ...
HttpRead ==
    /\ http = "read" /\ answer # None
    /\ HttpGoTo("send", 0)
    /\ UNCHANGED <<now, rtc, answer, epoch_channel, clockHistory>>

SendEpoch ==
    /\ http = "send" /\ epoch_channel = <<>>
    /\ epoch_channel' = <<ToUnix(answer)>>
    /\ answer' = None
    /\ HttpGoTo("sleep", Sync)
    /\ UNCHANGED <<now, rtc, clockHistory>>

\* An operation fails or times out, or the answer has no proper Date; the LED
\* blinks, in less than a tick.
HttpFails ==
    /\ http \in HttpOps
    /\ answer' = None
    /\ HttpGoTo("sleep", Sync)
    /\ failures' = failures + 1
    /\ UNCHANGED <<now, rtc, epoch_channel, invented, since, age>>

-----------------------------------------------------------------------------
\* rtc_task.

\* Mutant: the timeout of 0 ends the receive before it is tried.
RtcRoundTimesOut ==
    /\ due.rtc = 0
    /\ due' = [due EXCEPT !.rtc = Round]
    /\ UNCHANGED <<now, rtc, http, answer, epoch_channel, clockHistory>>

\* A receive with a timeout of 0 takes what there is; then the ticker's wait.
RtcRound ==
    /\ due.rtc = 0
    /\ due' = [due EXCEPT !.rtc = Round]
    /\ IF epoch_channel = <<>>
       THEN UNCHANGED <<rtc, epoch_channel, invented, since, failures>>
       ELSE /\ epoch_channel' = <<>>
            /\ rtc' = ToDateTime(Head(epoch_channel))
            /\ invented' = FALSE
            /\ since' = 0
            /\ failures' = 0
    /\ UNCHANGED <<now, http, answer, age>>

-----------------------------------------------------------------------------
\* The world.

HttpBusy == IF http = "send" THEN epoch_channel = <<>> ELSE due.http = 0
RtcBusy == due.rtc = 0

LeapDay(date) == date.month = 2 /\ date.day = 29

ClockTick ==
    /\ ~HttpBusy /\ ~RtcBusy
    /\ age < Horizon
    /\ now' = TrueNext(now)
    /\ rtc' = IF rtc = None THEN None ELSE RtcNext(rtc)
    /\ invented' =
          (invented \/ (rtc # None /\ LeapDay(rtc') /\ ~Gregorian(rtc'.year)))
    /\ due' = [http |-> IF http = "send" THEN 0 ELSE due.http - 1,
                rtc |-> due.rtc - 1]
    /\ since' = since + 1
    /\ age' = age + 1
    /\ UNCHANGED <<http, answer, epoch_channel, failures>>

\* The device is switched off, and on again some day.
PowerCycle ==
    /\ now' \in Starts
    /\ rtc' = None
    /\ http' = "sleep"
    /\ answer' = None
    /\ epoch_channel' = <<>>
    /\ due' = [http |-> 0, rtc |-> 0]
    /\ invented' = FALSE
    /\ since' = 0
    /\ failures' = 0
    /\ age' = 0

ClockNext ==
    \/ Request \/ HttpConnected \/ HttpWritten \/ ServerAnswers
    \/ HttpRead \/ SendEpoch \/ HttpFails
    \/ RtcRound
    \/ ClockTick \/ PowerCycle

ClockSpec == ClockInit /\ [][ClockNext]_clockVars

-----------------------------------------------------------------------------
\* Properties.

After(date, ticks) ==
    LET after[n \in 0 .. ticks] == IF n = 0 THEN date ELSE TrueNext(after[n - 1])
    IN  after[ticks]

\* Once set, the RTC shows the date of the world, late by no more than what an
\* answer takes to be read and a round of rtc_task; across midnight, the ends of
\* months and years, and leap days, whenever in between it is set.  The only
\* exception is a 29 February that the RTC invents, until it is set again.
ShowsDate ==
    rtc # None /\ ~invented =>
        \E ticks \in 0 .. HttpTimeout + Round : After(rtc, ticks) = now

\* "every 15 minutes" (the comment at :111): whatever the tasks are waiting for,
\* the RTC is set once in a period and the time that a request takes, and one
\* more of them for each request that failed.
SetInTime ==
    since <= (failures + 1) * (Sync + 3 * HttpTimeout) + Round
=============================================================================
