-------------------------- MODULE CloudSender_proofs --------------------------
(***************************************************************************)
(* Theorems about CloudSender for every value of its constants.  Those on  *)
(* the logs need a clock event that comes with the time: CloudSender's run *)
(* with TimeFails shows what happens without it.                           *)
(***************************************************************************)
EXTENDS CloudSender, TLAPS

\* The calls of the thread are steps of the service that leave the clock alone.
LEMMA CallsType ==
  ASSUME ServiceTypeOK,
         \/ AskMaxPayload \/ HandOverNew \/ HandOverAgain
         \/ UNCHANGED serviceVars
  PROVE  ServiceTypeOK' /\ UNCHANGED <<clockSet, timeSet>>
BY DEF ServiceTypeOK, AskMaxPayload, HandOverNew, HandOverAgain, HandOver, serviceVars,
       Returned, LenResults, SendResults

LEMMA ServiceStepType ==
  ASSUME ServiceTypeOK, ServiceStep
  PROVE  ServiceTypeOK' /\ (clockSet => clockSet') /\ (timeSet => timeSet')
<1>1. CASE MaxPayloadReturns \/ SendReturns \/ Deliver
  BY <1>1 DEF ServiceTypeOK, MaxPayloadReturns, SendReturns, Deliver, Returned, LenResults, SendResults
<1>2. CASE ClockEvent
  <2>1. clockSet' = TRUE /\ timeSet' \in BOOLEAN /\ (timeSet => timeSet')
    BY <1>2 DEF ClockEvent, ServiceTypeOK
  <2>2. QED
    BY <1>2, <2>1 DEF ClockEvent, ServiceTypeOK
<1>3. QED
  BY <1>1, <1>2 DEF ServiceStep

\* The clock shows the day once it is set.
LEMMA ClockType ==
  ASSUME TypeOK
  PROVE  Clock \in Nat /\ (timeSet => Clock = day)
BY DEF TypeOK, ServiceTypeOK, Clock

LEMMA ThreadCalls ==
  ASSUME Thread
  PROVE  \/ AskMaxPayload \/ HandOverNew \/ HandOverAgain
         \/ UNCHANGED serviceVars
BY DEF Thread, ClockWait, Wait, Wake, CheckPending, MaxPayload, Pack, SendOk, SendFails, Stats,
       LogSent

LEMMA InitInv == Init => TypeOK /\ DaysRise
<1> SUFFICES ASSUME Init PROVE TypeOK /\ DaysRise
  OBVIOUS
<1>1. TypeOK
  BY DEF Init, ServiceInit, TypeOK, ServiceTypeOK, Returned
<1>2. DaysRise
  BY DEF Init, ServiceInit, DaysRise
<1>3. QED
  BY <1>1, <1>2

\* The thread keeps the types.
LEMMA ThreadType ==
  ASSUME TypeOK, Thread
  PROVE  TypeOK'
<1> DEFINE Pcs == {"clock_wait", "wait", "asleep", "check", "len", "pack", "sending", "stats", "logging"}
<1>1. ServiceTypeOK'
  BY CallsType, ThreadCalls DEF TypeOK
<1>2. /\ pc' \in Pcs
      /\ wakeup' \in BOOLEAN
  BY DEF Thread, ClockWait, Wait, Wake, CheckPending, MaxPayload, Pack, SendOk, SendFails, Stats,
         LogSent, At, TypeOK, watchVars
<1>3. pending' \in Nat /\ attempt' \in Nat /\ dayCount' \in Nat
  <2>1. CASE Pack
    <3>1. PICK k \in 0..PackMax : k <= pending /\ pending' = pending - k
      BY <2>1 DEF Pack
    <3>2. pending' \in Nat
      BY <3>1, SenderAssumption DEF TypeOK
    <3>3. attempt' \in {attempt, 1} /\ dayCount' = dayCount
      BY <2>1 DEF Pack
    <3>4. QED
      BY <3>2, <3>3 DEF TypeOK
  <2>2. CASE ~Pack
    BY <2>2
    DEF Thread, ClockWait, Wait, Wake, CheckPending, MaxPayload, SendOk, SendFails, Stats,
        LogSent, TypeOK
  <2>3. QED
    BY <2>1, <2>2
<1>4. lastDay' \in Nat /\ today' \in Nat
  BY ClockType
  DEF Thread, ClockWait, Wait, Wake, CheckPending, MaxPayload, Pack, SendOk, SendFails, Stats,
      LogSent, TypeOK
<1>5. UNCHANGED worldVars
  BY DEF Thread, ClockWait, Wait, Wake, CheckPending, MaxPayload, Pack, SendOk, SendFails, Stats,
         LogSent, worldVars
<1>6. bootDay' \in {bootDay, day} /\ logDays' \subseteq logDays \cup {day}
  BY DEF Thread, ClockWait, Wait, Wake, CheckPending, MaxPayload, Pack, SendOk, SendFails, Stats,
         LogSent, watchVars
<1>7. QED
  BY <1>1, <1>2, <1>3, <1>4, <1>5, <1>6 DEF TypeOK, worldVars

\* The others keep the types.
LEMMA NextType == TypeOK /\ [Next]_vars => TypeOK'
<1> SUFFICES ASSUME TypeOK, [Next]_vars PROVE TypeOK'
  OBVIOUS
<1>1. CASE Thread
  BY <1>1, ThreadType
<1>2. CASE TimerExpires \/ Transmit \/ Sample \/ Midnight
  <2>1. ServiceTypeOK'
    BY <1>2, CallsType DEF TimerExpires, Transmit, Sample, Midnight, TypeOK
  <2>2. CASE TimerExpires \/ Transmit
    BY <2>1, <2>2 DEF TimerExpires, Transmit, worldVars, watchVars, TypeOK
  <2>3. CASE Sample
    BY <2>1, <2>3 DEF Sample, watchVars, TypeOK
  <2>4. CASE Midnight
    <3>1. day' \in Nat /\ UNCHANGED <<runVars, sampled, watchVars>>
      BY <2>4 DEF Midnight, TypeOK
    <3>2. QED
      BY <2>1, <3>1 DEF runVars, watchVars, TypeOK
  <2>5. QED
    BY <1>2, <2>2, <2>3, <2>4
<1>3. CASE Service
  BY <1>3, ServiceStepType DEF Service, senderVars, runVars, worldVars, watchVars, TypeOK
<1>4. CASE UNCHANGED vars
  BY <1>4 DEF vars, senderVars, serviceVars, runVars, worldVars, watchVars, TypeOK, ServiceTypeOK
<1>5. QED
  BY <1>1, <1>2, <1>3, <1>4 DEF Next

\* Every variable of the thread keeps its type.
THEOREM TypeCorrect == Spec => []TypeOK
<1>1. Init => TypeOK
  BY InitInv
<1>2. QED
  BY <1>1, NextType, PTL DEF Spec

------------------------------------------------------------------------------
(* The days of the logs *)

\* The thread keeps the order of the days.
LEMMA ThreadDays ==
  ASSUME TypeOK, DaysRise, ~TimeFails, Thread
  PROVE  DaysRise'
<1>1. UNCHANGED <<clockSet, timeSet>>
  BY CallsType, ThreadCalls DEF TypeOK
<1>2. UNCHANGED day
  BY DEF Thread, ClockWait, Wait, Wake, CheckPending, MaxPayload, Pack, SendOk, SendFails, Stats,
         LogSent, worldVars
<1>3. lastDay \in Nat /\ today \in Nat /\ day \in Nat /\ bootDay \in Nat /\ logDays \subseteq Nat
  BY DEF TypeOK
<1>4. CASE ClockWait
  BY <1>1, <1>2, <1>3, <1>4, ClockType DEF ClockWait, At, DaysRise
<1>5. CASE Stats
  <2>1. pc = "stats" /\ UNCHANGED <<lastDay, bootDay>> /\ Clock = day
    BY <1>5, ClockType DEF Stats, DaysRise
  <2>2. CASE dayCount > 0 /\ Clock # lastDay
    <3>1. /\ pc' = "logging" /\ today' = day /\ logDays' = logDays \cup {day}
          /\ bootDay <= lastDay /\ lastDay <= day /\ lastDay # day
          /\ \A d \in logDays : bootDay < d /\ d <= lastDay
      BY <1>5, <2>1, <2>2 DEF Stats, DaysRise
    <3>2. /\ \A d \in logDays' : bootDay < d /\ d <= day
          /\ bootDay <= lastDay /\ lastDay <= day
      BY <1>3, <3>1
    <3>3. clockSet' /\ timeSet'
      BY <1>1, <2>1 DEF DaysRise
    <3>4. QED
      BY <1>2, <2>1, <3>1, <3>2, <3>3 DEF DaysRise
  <2>3. CASE ~(dayCount > 0 /\ Clock # lastDay)
    BY <1>1, <1>2, <1>3, <1>5, <2>1, <2>3 DEF Stats, DaysRise
  <2>4. QED
    BY <2>2, <2>3
<1>6. CASE LogSent
  BY <1>1, <1>2, <1>3, <1>6 DEF LogSent, At, DaysRise, watchVars
<1>7. CASE Wait \/ Wake \/ CheckPending \/ MaxPayload \/ Pack \/ SendOk \/ SendFails
  <2>1. /\ UNCHANGED <<lastDay, today, bootDay, logDays>>
        /\ pc \notin {"clock_wait", "logging"} /\ pc' \notin {"clock_wait", "logging"}
    BY <1>7 DEF Wait, Wake, CheckPending, MaxPayload, Pack, SendOk, SendFails, At, watchVars
  <2>2. QED
    BY <1>1, <1>2, <2>1 DEF DaysRise
<1>8. QED
  BY <1>4, <1>5, <1>6, <1>7 DEF Thread

LEMMA NextDays ==
  ASSUME ~TimeFails
  PROVE  TypeOK /\ DaysRise /\ [Next]_vars => DaysRise'
<1> SUFFICES ASSUME TypeOK, DaysRise, [Next]_vars PROVE DaysRise'
  OBVIOUS
<1>1. CASE Thread
  BY <1>1, ThreadDays
<1>2. CASE TimerExpires \/ Transmit \/ Sample
  <2>1. UNCHANGED <<clockSet, timeSet, pc, lastDay, today, bootDay, logDays, day>>
    BY <1>2 DEF TimerExpires, Transmit, Sample, serviceVars, worldVars, watchVars
  <2>2. QED
    BY <2>1 DEF DaysRise
<1>3. CASE Midnight
  <2>1. day' = day + 1 /\ UNCHANGED <<clockSet, timeSet, pc, lastDay, today, bootDay, logDays>>
    BY <1>3 DEF Midnight, serviceVars, runVars, watchVars
  <2>2. lastDay \in Nat /\ today \in Nat /\ day \in Nat /\ bootDay \in Nat
    BY DEF TypeOK
  <2>3. QED
    BY <2>1, <2>2 DEF DaysRise
<1>4. CASE Service
  <2>1. UNCHANGED <<pc, lastDay, today, bootDay, logDays, day>>
    BY <1>4 DEF Service, senderVars, runVars, worldVars, watchVars
  <2>2. (clockSet => clockSet') /\ (clockSet' => timeSet')
    <3>1. (clockSet => clockSet') /\ (timeSet => timeSet')
      BY <1>4, ServiceStepType DEF Service, TypeOK
    <3>2. clockSet' # clockSet => timeSet'
      BY <1>4 DEF Service
    <3>3. clockSet => timeSet
      BY DEF DaysRise
    <3>4. QED
      BY <3>1, <3>2, <3>3 DEF TypeOK, ServiceTypeOK
  <2>3. QED
    BY <2>1, <2>2 DEF DaysRise
<1>5. CASE UNCHANGED vars
  BY <1>5 DEF vars, senderVars, serviceVars, runVars, worldVars, watchVars, DaysRise
<1>6. QED
  BY <1>1, <1>2, <1>3, <1>4, <1>5 DEF Next

\* The days rise from the boot over the logs to today.
THEOREM RisingDays == Spec => [](TypeOK /\ DaysRise)
<1>1. CASE TimeFails
  <2>1. DaysRise
    BY <1>1 DEF DaysRise
  <2>2. QED
    BY <2>1, TypeCorrect, PTL
<1>2. CASE ~TimeFails
  <2>1. TypeOK /\ DaysRise /\ [Next]_vars => (TypeOK /\ DaysRise)'
    BY <1>2, NextType, NextDays
  <2>2. QED
    BY <2>1, InitInv, PTL DEF Spec
<1>3. QED
  BY <1>1, <1>2

\* No log is handed over on the day of the boot, provided the clock event comes
\* with the time.
THEOREM QuietBootDay ==
  ASSUME ~TimeFails
  PROVE  Spec => []NoLogOnBootDay
<1>1. TypeOK /\ DaysRise => NoLogOnBootDay
  BY DEF TypeOK, DaysRise, NoLogOnBootDay
<1>2. QED
  BY <1>1, RisingDays, PTL

\* At most one log is handed over a day, on the same condition.
THEOREM OneLog ==
  ASSUME ~TimeFails
  PROVE  Spec => OneLogPerDay
<1>1. TypeOK /\ DaysRise /\ [Next]_vars => [At("stats", "logging") => day \notin logDays]_vars
  <2>1. SUFFICES ASSUME TypeOK, DaysRise, Next, At("stats", "logging")
                 PROVE  day \notin logDays
    OBVIOUS
  <2>2. Stats /\ pc' = "logging"
    BY <2>1
    DEF At, Next, Thread, ClockWait, Wait, Wake, CheckPending, MaxPayload, Pack, SendOk,
        SendFails, LogSent, TimerExpires, Transmit, Sample, Midnight, Service, senderVars, runVars
  <2>3. Clock # lastDay /\ Clock = day
    BY <2>1, <2>2, ClockType DEF Stats, DaysRise
  <2>4. QED
    BY <2>1, <2>2, <2>3 DEF TypeOK, Stats, DaysRise
<1>2. QED
  BY <1>1, RisingDays, PTL DEF Spec, OneLogPerDay
==============================================================================
