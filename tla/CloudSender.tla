----------------------------- MODULE CloudSender -----------------------------
(***************************************************************************)
(* The thread cloud_send (src/src/d_pipeline/cloud_sender.cpp) on top of   *)
(* an UplinkService: it wakes every ten minutes or when it is notified,    *)
(* packs what is pending batch by batch, hands every batch over up to      *)
(* SendRetryCount times, and sends the statistics of the day once the      *)
(* date has changed.                                                       *)
(***************************************************************************)
EXTENDS UplinkService

CONSTANTS
  SendRetryCount,  \* SEND_RETRY_COUNT
  PackMax,         \* most items one batch holds
  MaxSamples,      \* bound: samples taken
  MaxDay,          \* bound: calendar days
  TimeFails        \* whether the clock event may come without the time

ASSUME SenderAssumption ==
  /\ {SendRetryCount, PackMax, MaxSamples, MaxDay} \subseteq Nat \ {0}
  /\ TimeFails \in BOOLEAN

VARIABLES
  pc,        \* where run() is
  wakeup,    \* WAKEUP_BIT of wakeup_event_
  pending,   \* items the serializer holds
  attempt,   \* hand-overs of the batch so far
  dayCount,  \* day_msg_count_
  lastDay,   \* last_day_
  today,     \* the local of that name, while the log is sent
  day,       \* the calendar day
  sampled,   \* samples taken so far
  bootDay,   \* the calendar day run() began its loop on
  logDays    \* the calendar days a log was handed over on

runVars    == <<pc, wakeup, pending, attempt, dayCount, lastDay, today>>
worldVars  == <<day, sampled>>
watchVars  == <<bootDay, logDays>>
senderVars == <<runVars, worldVars, watchVars>>
vars       == <<serviceVars, senderVars>>

\* time(nullptr) / 86400: the clock starts in 1970 and knows the day once set.
Clock == IF timeSet THEN day ELSE 0

Init ==
  /\ ServiceInit
  /\ pc = "clock_wait" /\ wakeup = FALSE /\ pending = 0 /\ attempt = 0
  /\ dayCount = 0 /\ lastDay = 0 /\ today = 0
  /\ day = 1 /\ sampled = 0
  /\ bootDay = 0 /\ logDays = {}

At(from, to) == pc = from /\ pc' = to

\* Mutant: the day of the boot is not remembered.
ClockWaitDayless ==
  /\ At("clock_wait", "wait")
  /\ clockSet
  /\ bootDay' = day
  /\ UNCHANGED <<serviceVars, wakeup, pending, attempt, dayCount, lastDay, today, worldVars, logDays>>

\* AppEvents::clock_wait, the day of the boot, and the timer is started.
ClockWait ==
  /\ At("clock_wait", "wait")
  /\ clockSet
  /\ lastDay' = Clock
  /\ bootDay' = day
  /\ UNCHANGED <<serviceVars, wakeup, pending, attempt, dayCount, today, worldVars, logDays>>

\* k_event_wait with reset wipes the bit, then waits for it.
Wait ==
  /\ At("wait", "asleep")
  /\ wakeup' = FALSE
  /\ UNCHANGED <<serviceVars, pending, attempt, dayCount, lastDay, today, worldVars, watchVars>>

Wake ==
  /\ At("asleep", "check")
  /\ wakeup
  /\ UNCHANGED <<serviceVars, wakeup, pending, attempt, dayCount, lastDay, today, worldVars,
                 watchVars>>

\* Mutant: a single item does not start a round.
CheckPendingPlural ==
  /\ pc = "check"
  /\ IF pending > 1 THEN pc' = "len" /\ AskMaxPayload
                    ELSE pc' = "stats" /\ UNCHANGED serviceVars
  /\ UNCHANGED <<wakeup, pending, attempt, dayCount, lastDay, today, worldVars, watchVars>>

\* while (serializer_.pending() > 0)
CheckPending ==
  /\ pc = "check"
  /\ IF pending > 0 THEN pc' = "len" /\ AskMaxPayload
                    ELSE pc' = "stats" /\ UNCHANGED serviceVars
  /\ UNCHANGED <<wakeup, pending, attempt, dayCount, lastDay, today, worldVars, watchVars>>

MaxPayload ==
  /\ pc = "len" /\ call \in LenResults
  /\ pc' = IF call = "lenOk" THEN "pack" ELSE "stats"
  /\ UNCHANGED <<serviceVars, wakeup, pending, attempt, dayCount, lastDay, today, worldVars,
                 watchVars>>

\* pack() takes items off the queues and hands the batch over for the first
\* time; or the first item does not fit, and the round ends.
Pack ==
  /\ pc = "pack"
  /\ \E k \in 0..PackMax :
       /\ k <= pending
       /\ pending' = pending - k
       /\ IF k = 0 THEN pc' = "stats" /\ UNCHANGED <<serviceVars, attempt>>
                   ELSE pc' = "sending" /\ attempt' = 1 /\ HandOverNew
  /\ UNCHANGED <<wakeup, dayCount, lastDay, today, worldVars, watchVars>>

SendOk ==
  /\ At("sending", "check")
  /\ call = "ok"
  /\ dayCount' = dayCount + 1
  /\ UNCHANGED <<serviceVars, wakeup, pending, attempt, lastDay, today, worldVars, watchVars>>

SendFails ==
  /\ pc = "sending" /\ call \in {"err", "timeout"}
  /\ IF attempt < SendRetryCount
     THEN attempt' = attempt + 1 /\ HandOverAgain /\ UNCHANGED pc
     ELSE pc' = "stats" /\ UNCHANGED <<serviceVars, attempt>>
  /\ UNCHANGED <<wakeup, pending, dayCount, lastDay, today, worldVars, watchVars>>

\* Mutant: the date is not compared.
StatsAlways ==
  /\ pc = "stats"
  /\ IF dayCount > 0
     THEN /\ pc' = "logging"
          /\ today' = Clock
          /\ HandOverNew
          /\ logDays' = logDays \cup {day}
     ELSE /\ pc' = "wait"
          /\ UNCHANGED <<serviceVars, today, logDays>>
  /\ UNCHANGED <<wakeup, pending, attempt, dayCount, lastDay, worldVars, bootDay>>

\* The statistics go out when the date differs from that of the last log.
Stats ==
  /\ pc = "stats"
  /\ IF dayCount > 0 /\ Clock # lastDay
     THEN /\ pc' = "logging"
          /\ today' = Clock
          /\ HandOverNew
          /\ logDays' = logDays \cup {day}
     ELSE /\ pc' = "wait"
          /\ UNCHANGED <<serviceVars, today, logDays>>
  /\ UNCHANGED <<wakeup, pending, attempt, dayCount, lastDay, worldVars, bootDay>>

\* Mutant: the statistics are not reset.
LogSentEndless ==
  /\ At("logging", "wait")
  /\ call \in SendResults
  /\ lastDay' = today
  /\ UNCHANGED <<serviceVars, wakeup, pending, attempt, dayCount, today, worldVars, watchVars>>

\* Whatever became of the log, the statistics start again from zero.
LogSent ==
  /\ At("logging", "wait")
  /\ call \in SendResults
  /\ dayCount' = 0
  /\ lastDay' = today
  /\ UNCHANGED <<serviceVars, wakeup, pending, attempt, today, worldVars, watchVars>>

Thread == \/ ClockWait \/ Wait \/ Wake \/ CheckPending \/ MaxPayload \/ Pack
          \/ SendOk \/ SendFails \/ Stats \/ LogSent

------------------------------------------------------------------------------
(* The other actors *)

\* timer_cb, every WAKEUP_PERIOD_M minutes.
TimerExpires ==
  /\ pc # "clock_wait"
  /\ wakeup' = TRUE
  /\ UNCHANGED <<serviceVars, pc, pending, attempt, dayCount, lastDay, today, worldVars, watchVars>>

\* The shell command transmit calls notify().
Transmit ==
  /\ wakeup' = TRUE
  /\ UNCHANGED <<serviceVars, pc, pending, attempt, dayCount, lastDay, today, worldVars, watchVars>>

\* A scanner publishes a sample.
Sample ==
  /\ sampled < MaxSamples
  /\ sampled' = sampled + 1
  /\ pending' = pending + 1
  /\ UNCHANGED <<serviceVars, pc, wakeup, attempt, dayCount, lastDay, today, day, watchVars>>

Midnight ==
  /\ day < MaxDay
  /\ day' = day + 1
  /\ UNCHANGED <<serviceVars, runVars, sampled, watchVars>>

Service ==
  /\ ServiceStep
  /\ clockSet' # clockSet /\ ~TimeFails => timeSet'
  /\ UNCHANGED senderVars

Next == Thread \/ TimerExpires \/ Transmit \/ Sample \/ Midnight \/ Service

Spec == Init /\ [][Next]_vars

(***************************************************************************)
(* Fairness: the thread runs when it can, the timer of the kernel expires  *)
(* again and again, every call returns (it has a deadline), and the clock  *)
(* event comes.                                                            *)
(***************************************************************************)
Returns == (MaxPayloadReturns \/ SendReturns) /\ UNCHANGED senderVars
ClockComes == ClockEvent /\ clockSet' # clockSet /\ UNCHANGED senderVars

FairSpec ==
  /\ Spec
  /\ WF_vars(Thread) /\ WF_vars(TimerExpires) /\ WF_vars(Returns) /\ WF_vars(ClockComes)

------------------------------------------------------------------------------
(* Properties *)

TypeOK ==
  /\ ServiceTypeOK
  /\ pc \in {"clock_wait", "wait", "asleep", "check", "len", "pack", "sending", "stats", "logging"}
  /\ wakeup \in BOOLEAN
  /\ pending \in Nat /\ attempt \in Nat /\ dayCount \in Nat
  /\ lastDay \in Nat /\ today \in Nat /\ day \in Nat /\ sampled \in Nat
  /\ bootDay \in Nat /\ logDays \subseteq Nat

\* At most one log is handed over a calendar day.
OneLogPerDay == [][At("stats", "logging") => day \notin logDays]_vars

\* "initializing first day as boot-up day so the log msg wouldn't be sent on
\* boot" (cloud_sender.cpp:91).
NoLogOnBootDay == bootDay \notin logDays

\* The invariant behind both: once the loop runs on a clock that is set, the days
\* rise from that of the boot over those of the logs to the present one.
DaysRise ==
  ~TimeFails =>
    /\ clockSet => timeSet
    /\ pc = "clock_wait" => logDays = {} /\ bootDay < day
    /\ pc # "clock_wait" => /\ clockSet
                            /\ bootDay <= lastDay /\ lastDay <= day
                            /\ \A d \in logDays : bootDay < d
                            /\ pc # "logging" => \A d \in logDays : d <= lastDay
    /\ pc = "logging" => lastDay <= today /\ today <= day /\ \A d \in logDays : d <= today

\* Every sample is either packed or the transport asked about it again and
\* again: a wakeup lost costs a period, never the sample.
PendingIsTried == pending > 0 ~> pc \in {"len", "pack"}

\* The statistics of a day that is over are reported, or lost with their log.
StatsAreReported == dayCount > 0 /\ Clock # lastDay ~> dayCount = 0
==============================================================================
