------------------------ MODULE LoRaStateMachine_proofs ------------------------
(***************************************************************************)
(* Theorems about LoRaStateMachine for every value of its constants.       *)
(***************************************************************************)
EXTENDS LoRaStateMachine, SequenceTheorems, TLAPS

------------------------------------------------------------------------------
(* Queues and lines *)

\* The event queue and its other reader have their types.
EventTypeOK ==
  eventQ \in Seq(EventTypes) /\ Len(eventQ) <= EventCap /\ reader \in {"no", "waits", "reads"}

\* What puts with K_NO_WAIT leave in an event queue.
LEMMA FitType ==
  ASSUME NEW q \in Seq(EventTypes)
  PROVE  Fit(q) \in Seq(EventTypes) /\ Len(Fit(q)) <= EventCap
<1>1. EventCap \in Nat /\ Len(q) \in Nat
  BY LenProperties, LimitsAssumption DEF Limits
<1>2. CASE Len(q) <= EventCap
  BY <1>1, <1>2, SubSeqProperties DEF Fit
<1>3. CASE ~(Len(q) <= EventCap)
  BY <1>1, <1>3, SubSeqProperties DEF Fit
<1>4. QED
  BY <1>2, <1>3

LEMMA PostType ==
  ASSUME MachineTypeOK, NEW e \in EventTypes, Post(e)
  PROVE  EventTypeOK'
<1>1. Append(eventQ, e) \in Seq(EventTypes)
  BY AppendProperties DEF MachineTypeOK
<1>2. QED
  BY <1>1, FitType DEF Post, MachineTypeOK, EventTypeOK

LEMMA HandledType ==
  ASSUME MachineTypeOK, eventQ # <<>>, NEW es \in Seq(EventTypes), Handled(es)
  PROVE  EventTypeOK'
<1>1. Tail(eventQ) \in Seq(EventTypes) /\ (es # <<>> => Tail(es) \in Seq(EventTypes))
  BY HeadTailProperties DEF MachineTypeOK
<1>2. CASE reader = "waits" /\ es # <<>>
  BY <1>1, <1>2, FitType, ConcatProperties DEF Handled, MachineTypeOK, EventTypeOK
<1>3. CASE ~(reader = "waits" /\ es # <<>>)
  BY <1>1, <1>3, FitType, ConcatProperties DEF Handled, MachineTypeOK, EventTypeOK
<1>4. QED
  BY <1>2, <1>3

\* The payloads left when the head is removed.
LEMMA PoppedType ==
  ASSUME MachineTypeOK
  PROVE  Popped \in Seq(Payload) /\ Len(Popped) <= PayloadCap
BY HeadTailProperties, EmptySeq, LimitsAssumption DEF MachineTypeOK, Limits, Popped

\* The lines that have come in.
LEMMA PendingType ==
  ASSUME TypeOK
  PROVE  /\ Pending \in Seq(Lines)
         /\ Pending # <<>> => Head(Pending) \in Lines /\ Left \in Seq(Lines)
BY HeadTailProperties, ConcatProperties
DEF TypeOK, ModemTypeOK, MachineTypeOK, Pending, Left

LEMMA PostedType ==
  /\ <<>> \in Seq(EventTypes)
  /\ MoreLines \in Seq(EventTypes)
  /\ \A es \in Seq(EventTypes) : es \o <<"PayloadReady">> \in Seq(EventTypes) /\ es \o <<>> \in Seq(EventTypes)
<1>1. <<>> \in Seq(EventTypes) /\ <<"Receive">> \in Seq(EventTypes) /\ <<"PayloadReady">> \in Seq(EventTypes)
  BY EmptySeq DEF EventTypes
<1>2. QED
  BY <1>1, ConcatProperties DEF MoreLines

------------------------------------------------------------------------------
(* Type correctness *)

LEMMA HearType ==
  ASSUME ModemTypeOK, NEW c \in Commands, Hear(c)
  PROVE  /\ cmd' \in Commands /\ cmd'.name \notin LongNames
         /\ op' \in Operations
         /\ UNCHANGED <<mport, air, healthy>>
BY DEF ModemTypeOK, Hear, Takes, Commands, Carriers, Operations, Operation, NoOp, Nothing,
       ShortNames, LongNames, Query, Command, NoPayload

LEMMA GreetingType ==
  ASSUME NEW s \in States, NEW q \in Seq(Payload)
  PROVE  /\ Greeting(s, q) \in Commands
         /\ q # <<>> => Command("DATA", Head(q)) \in Commands
BY HeadTailProperties
DEF Greeting, Commands, Carriers, Command, Query, Nothing, ShortNames, LongNames, NoPayload

LEMMA QueryType ==
  /\ Nothing \in Commands
  /\ \A n \in (ShortNames \cup LongNames) \ Carriers : Query(n) \in Commands
BY DEF Commands, Carriers, Query, Command, Nothing, ShortNames, LongNames

\* Entering a state keeps the types of the machine and of the module.
LEMMA EnterType ==
  ASSUME TypeOK, eventQ # <<>>, NEW s \in States, NEW es \in Seq(EventTypes),
         NEW pq \in Seq(Payload), Len(pq) <= PayloadCap,
         Enter(s, es, pq)
  PROVE  ModemTypeOK' /\ MachineTypeOK'
<1>1. /\ cmd' \in Commands /\ cmd'.name \notin LongNames
      /\ op' \in Operations
      /\ UNCHANGED <<mport, air, healthy>>
  <2>1. CASE s = "st_send"
    <3>1. PICK c \in Commands : Hear(c)
      BY <2>1, GreetingType, QueryType DEF Enter, EnterSend
    <3>2. QED
      BY <3>1, HearType DEF TypeOK
  <2>2. CASE s # "st_send"
    BY <2>2, GreetingType, HearType DEF Enter, TypeOK
  <2>3. QED
    BY <2>1, <2>2
<1>2. EventTypeOK'
  BY PostedType, HandledType DEF Enter, TypeOK
<1>3. count' \in Nat
  BY DEF Enter, EnterSend
<1>4. pipe' \in Seq(Lines) /\ buf' \in Seq(Lines)
  BY EmptySeq DEF Enter
<1>5. QED
  BY <1>1, <1>2, <1>3, <1>4 DEF Enter, TypeOK, ModemTypeOK, MachineTypeOK, EventTypeOK

\* Waking the caller keeps the types of its variables.
LEMMA RespondType ==
  ASSUME ClientTypeOK, NEW b, Respond(b), clockSet' \in BOOLEAN, timeSet' \in BOOLEAN
  PROVE  ClientTypeOK'
BY DEF ClientTypeOK, Respond, Calls, SendCalls

\* Staying in a state keeps the types of the machine.
LEMMA StayType ==
  ASSUME MachineTypeOK, eventQ # <<>>, NEW es \in Seq(EventTypes), Stay(es),
         timer' \in Nat, count' \in Nat, buf' \in Seq(Lines)
  PROVE  MachineTypeOK'
BY HandledType DEF MachineTypeOK, EventTypeOK, Stay

\* Writing a command keeps the types of the module, whatever is left unread.
LEMMA WriteType ==
  ASSUME TypeOK, NEW c \in Commands, Hear(c), pipe' \in Seq(Lines)
  PROVE  ModemTypeOK'
BY HearType DEF TypeOK, ModemTypeOK

\* Taking a line keeps the types of the machine and of the module.
LEMMA TakeLineType ==
  ASSUME TypeOK, eventQ # <<>>, Pending # <<>>, NEW c \in Commands, TakeLine(c)
  PROVE  ModemTypeOK' /\ MachineTypeOK' /\ NoResponse
<1>1. buf' \in Seq(Lines) /\ pipe' \in Seq(Lines)
  BY PendingType, EmptySeq DEF TakeLine
<1>2. MachineTypeOK'
  BY <1>1, PostedType, StayType DEF TakeLine, TypeOK, MachineTypeOK
<1>3. QED
  BY <1>1, <1>2, WriteType DEF TakeLine

LEMMA NoResponseType ==
  ASSUME ClientTypeOK, NoResponse, clockSet' \in BOOLEAN, timeSet' \in BOOLEAN
  PROVE  ClientTypeOK'
BY DEF ClientTypeOK, NoResponse, clientVars

\* A tick keeps the types.
LEMMA TickActionType ==
  ASSUME TypeOK,
         \/ TickInit \/ TickSetup \/ TickGetPayloadLen \/ TickJoin \/ TickClockSync
         \/ TickUnsent \/ TickAwaitAck \/ TickResend \/ TickGiveUp \/ TickConnected
  PROVE  TypeOK'
<1> eventQ # <<>>
  BY DEF TickInit, TickSetup, TickGetPayloadLen, TickJoin, TickClockSync, TickUnsent,
         TickAwaitAck, TickResend, TickGiveUp, TickConnected, Tick
<1> USE DEF TypeOK
<1>1. <<>> \in Seq(EventTypes)
  BY PostedType
<1>2. ClientTypeOK /\ MachineTypeOK /\ ModemTypeOK /\ <<>> \in Seq(Lines)
  BY EmptySeq
<1>3. /\ timer \in Nat /\ timer + 1 \in Nat /\ 0 \in Nat
      /\ count \in Nat /\ count + 1 \in Nat
      /\ buf \in Seq(Lines) /\ pipe \in Seq(Lines)
      /\ payloadQ \in Seq(Payload) /\ Len(payloadQ) <= PayloadCap
  BY <1>2 DEF MachineTypeOK, ModemTypeOK
<1>4. ASSUME NEW n, NEW s \in States, Patience(n, s)
      PROVE  ModemTypeOK' /\ MachineTypeOK'
  <2>1. CASE timer + 1 > n
    BY <1>1, <1>3, <1>4, <2>1, EnterType DEF Patience
  <2>2. CASE ~(timer + 1 > n)
    BY <1>1, <1>2, <1>3, <1>4, <2>2, StayType DEF Patience, modemVars, ModemTypeOK
  <2>3. QED
    BY <2>1, <2>2
<1>5. UNCHANGED clockVars => clockSet' \in BOOLEAN /\ timeSet' \in BOOLEAN
  BY <1>2 DEF clockVars, ClientTypeOK
<1>6. NoResponse /\ UNCHANGED clockVars => ClientTypeOK'
  BY <1>2, <1>5, NoResponseType
<1>7. UNCHANGED modemVars => ModemTypeOK'
  BY <1>2 DEF modemVars, ModemTypeOK
<1>8. ASSUME UNCHANGED buf \/ buf' = <<>>, timer' \in Nat, count' \in Nat, Stay(<<>>)
      PROVE  MachineTypeOK'
  BY <1>1, <1>2, <1>3, <1>8, StayType
<1>9. CASE TickInit
  BY <1>3, <1>6, <1>8, <1>9, WriteType, QueryType DEF TickInit, ShortNames, Carriers
<1>10. CASE TickSetup
  BY <1>4, <1>6, <1>10 DEF TickSetup, States
<1>11. CASE TickGetPayloadLen
  BY <1>4, <1>6, <1>11 DEF TickGetPayloadLen, States
<1>12. CASE TickJoin
  <2>1. PICK c \in Commands : Hear(c)
    BY <1>12, QueryType DEF TickJoin, LongNames, Carriers
  <2>2. QED
    BY <1>3, <1>6, <1>8, <1>12, <2>1, WriteType DEF TickJoin
<1>13. CASE TickClockSync
  <2>1. PICK c \in Commands : Hear(c)
    BY <1>13, QueryType DEF TickClockSync, ShortNames, Carriers
  <2>2. QED
    BY <1>3, <1>6, <1>8, <1>13, <2>1, WriteType DEF TickClockSync
<1>14. CASE TickUnsent
  BY <1>2, <1>4, <1>5, <1>6, <1>14, RespondType DEF TickUnsent, States
<1>15. CASE TickAwaitAck
  BY <1>3, <1>6, <1>7, <1>8, <1>15 DEF TickAwaitAck
<1>16. CASE TickResend
  <2>1. CASE payloadQ = <<>>
    BY <1>3, <1>6, <1>7, <1>8, <1>16, <2>1 DEF TickResend
  <2>2. CASE payloadQ # <<>>
    BY <1>2, <1>3, <1>6, <1>8, <1>16, <2>2, WriteType, GreetingType DEF TickResend, States
  <2>3. QED
    BY <2>1, <2>2
<1>17. CASE TickGiveUp
  BY <1>1, <1>2, <1>5, <1>17, PoppedType, EnterType, RespondType DEF TickGiveUp, States
<1>18. CASE TickConnected
  BY <1>3, <1>6, <1>7, <1>8, <1>18 DEF TickConnected
<1>19. QED
  BY <1>9, <1>10, <1>11, <1>12, <1>13, <1>14, <1>15, <1>16, <1>17, <1>18

\* A receive event or a request keeps the types.
LEMMA ReceiveActionType ==
  ASSUME TypeOK,
         \/ ReceiveNothing \/ ReceiveOther \/ ReceiveAnswer \/ ReceiveLen \/ ReceiveDtr
         \/ ReceiveDone \/ ReceiveRtc \/ ReceiveBadRtc \/ ReceiveAck
         \/ ReceiveLengthError \/ ReceiveNotJoined \/ StartCommand \/ IgnoreCommand
  PROVE  TypeOK'
<1> eventQ # <<>>
  BY DEF ReceiveNothing, ReceiveOther, ReceiveAnswer, ReceiveLen, ReceiveDtr, ReceiveDone,
         ReceiveRtc, ReceiveBadRtc, ReceiveAck, ReceiveLengthError, ReceiveNotJoined,
         StartCommand, IgnoreCommand, Got, Receive, Asked
<1> USE DEF TypeOK
<1>1. <<>> \in Seq(EventTypes) /\ MoreLines \in Seq(EventTypes)
  BY PostedType
<1>2. ClientTypeOK /\ MachineTypeOK /\ ModemTypeOK
  OBVIOUS
<1>3. payloadQ \in Seq(Payload) /\ Len(payloadQ) <= PayloadCap
  BY <1>2 DEF MachineTypeOK
<1>4. ASSUME UNCHANGED <<timer, count, buf, modemVars, clockVars>>, Stay(<<>>), NoResponse
      PROVE  TypeOK'
  <2>1. MachineTypeOK'
    BY <1>1, <1>2, <1>4, StayType DEF MachineTypeOK
  <2>2. QED
    BY <1>2, <1>4, <2>1, NoResponseType DEF modemVars, ModemTypeOK, clockVars, ClientTypeOK
<1>5. UNCHANGED clockVars => clockSet' \in BOOLEAN /\ timeSet' \in BOOLEAN
  BY <1>2 DEF clockVars, ClientTypeOK
<1>6. ASSUME NEW s \in States, Enter(s, MoreLines, payloadQ) \/ Enter(s, <<>>, payloadQ)
                               \/ Enter(s, MoreLines, Popped)
      PROVE  ModemTypeOK' /\ MachineTypeOK'
  BY <1>1, <1>2, <1>3, <1>6, PoppedType, EnterType
<1>7. CASE ReceiveNothing \/ IgnoreCommand
  BY <1>4, <1>7 DEF ReceiveNothing, IgnoreCommand
<1>8. CASE ReceiveOther
  BY <1>2, <1>5, <1>8, TakeLineType, QueryType, NoResponseType DEF ReceiveOther
<1>9. CASE ReceiveAnswer
  <2>1. Successor[state] \in States
    BY <1>9 DEF ReceiveAnswer, Successor, States, SetupStates
  <2>2. QED
    BY <1>2, <1>5, <1>6, <1>9, <2>1, NoResponseType DEF ReceiveAnswer
<1>10. CASE ReceiveDtr \/ ReceiveDone
  BY <1>2, <1>5, <1>10, TakeLineType, QueryType, NoResponseType
  DEF ReceiveDtr, ReceiveDone, Got, LongNames, ShortNames, Carriers
<1>11. CASE ReceiveRtc
  BY <1>2, <1>6, <1>11, NoResponseType DEF ReceiveRtc, States
<1>12. CASE ReceiveBadRtc
  BY <1>2, <1>12, TakeLineType, QueryType, NoResponseType
  DEF ReceiveBadRtc, Got, ClientTypeOK
<1>13. CASE ReceiveLen \/ ReceiveAck \/ ReceiveLengthError \/ ReceiveNotJoined
  BY <1>2, <1>5, <1>6, <1>13, RespondType
  DEF ReceiveLen, ReceiveAck, ReceiveLengthError, ReceiveNotJoined, States
<1>14. CASE StartCommand
  BY <1>2, <1>5, <1>6, <1>14, NoResponseType DEF StartCommand, States, SetupStates
<1>15. QED
  BY <1>7, <1>8, <1>9, <1>10, <1>11, <1>12, <1>13, <1>14

\* What the module prints is lines.
LEMMA PrintsType ==
  ASSUME ModemTypeOK, NEW p \in Payload \cup {NoPayload}
  PROVE  /\ \A t \in AnswersTo(cmd) \cup {"Joined", "JoinFailed", "NotJoined", "Done"} :
              pipe \o <<Line(t, NoPayload)>> \in Seq(Lines)
         /\ pipe \o <<Line("LengthError", p)>> \in Seq(Lines)
         /\ pipe \o <<Line("Ack", p), Line("Done", NoPayload)>> \in Seq(Lines)
<1>1. AnswersTo(cmd) \subseteq LineTexts
  BY RtcAssumption DEF AnswersTo, LineTexts
<1>2. \A t \in LineTexts : \A f \in Payload \cup {NoPayload} : Line(t, f) \in Lines
  BY DEF Line, Lines
<1>3. {"Joined", "JoinFailed", "NotJoined", "Done", "LengthError", "Ack"} \subseteq LineTexts
  BY DEF LineTexts
<1>4. pipe \in Seq(Lines)
  BY DEF ModemTypeOK
<1>5. /\ \A l \in Lines : <<l>> \in Seq(Lines)
      /\ \A l, m \in Lines : <<l, m>> \in Seq(Lines)
  OBVIOUS
<1>6. QED
  BY <1>1, <1>2, <1>3, <1>4, <1>5, ConcatProperties

\* The module's own steps keep its types.
LEMMA ModemStepType ==
  ASSUME ModemTypeOK,
         Answer \/ Mute \/ JoinEnds \/ UplinkAcked \/ UplinkUnanswered \/ UplinkRefused \/ ModuleResets
  PROVE  ModemTypeOK'
<1>1. /\ Nothing \in Commands /\ Nothing.name \notin LongNames /\ NoOp \in Operations
      /\ cmd \in Commands /\ op.pl \in Payload \cup {NoPayload}
  BY QueryType
  DEF Nothing, Query, Command, LongNames, NoOp, Operation, Operations, NoPayload, ModemTypeOK
<1>2. CASE Answer \/ Mute
  <2>1. cmd.name = "PORT" => cmd.pl.port \in Ports \cup {0}
    BY <1>1 DEF Commands, Payload, NoPayload
  <2>2. pipe' \in Seq(Lines)
    BY <1>1, <1>2, PrintsType DEF Answer, Mute, Prints, ModemTypeOK
  <2>3. mport' \in Ports \cup {0}
    BY <1>2, <2>1 DEF Answer, Mute, ModemTypeOK
  <2>4. QED
    BY <1>1, <1>2, <2>2, <2>3 DEF Answer, Mute, ModemTypeOK
<1>3. CASE JoinEnds \/ UplinkAcked \/ UplinkUnanswered \/ UplinkRefused \/ ModuleResets
  <2>1. pipe' \in Seq(Lines)
    BY <1>1, <1>3, PrintsType
    DEF JoinEnds, UplinkAcked, UplinkUnanswered, UplinkRefused, ModuleResets, Prints, ModemTypeOK
  <2>2. air' \in Nat
    BY <1>1, <1>3
    DEF JoinEnds, UplinkAcked, UplinkUnanswered, UplinkRefused, ModuleResets, ModemTypeOK,
        Payload, NoPayload
  <2>3. QED
    BY <1>1, <1>3, <2>1, <2>2
    DEF JoinEnds, UplinkAcked, UplinkUnanswered, UplinkRefused, ModuleResets, Ends, ModemTypeOK
<1>4. QED
  BY <1>2, <1>3

\* The timer, the module and the shell keep the types.
LEMMA EnvironmentType ==
  ASSUME TypeOK, Environment
  PROVE  TypeOK'
<1> USE DEF TypeOK
<1>1. ModemTypeOK /\ MachineTypeOK /\ ClientTypeOK
  OBVIOUS
<1>2. (\E e \in EventTypes : Post(e)) => EventTypeOK'
  BY <1>1, PostType
<1>3. CASE TimerTick
  <2>1. EventTypeOK'
    BY <1>2, <1>3 DEF TimerTick, EventTypes
  <2>2. QED
    BY <1>1, <1>3, <2>1
    DEF TimerTick, modemVars, smiVars, clockVars, EventTypeOK, ModemTypeOK, MachineTypeOK, ClientTypeOK
<1>4. CASE ModemAnswers \/ ModemCompletes
  <2>1. ModemTypeOK'
    BY <1>1, <1>4, ModemStepType DEF ModemAnswers, ModemCompletes
  <2>2. OnRx
    BY <1>4 DEF ModemAnswers, ModemCompletes
  <2>3. EventTypeOK'
    BY <1>2, <2>2 DEF OnRx, EventTypes
  <2>4. QED
    BY <1>1, <2>1, <2>2, <2>3
    DEF OnRx, smiVars, clockVars, clientVars, EventTypeOK, MachineTypeOK, ClientTypeOK
<1>5. CASE ModemSilent
  BY <1>1, <1>5, ModemStepType
  DEF ModemSilent, smiVars, eventVars, clockVars, clientVars, MachineTypeOK, ClientTypeOK
<1>6. CASE ShellWrite
  <2>1. ModemTypeOK'
    BY <1>1, <1>6, WriteType, QueryType DEF ShellWrite, ShortNames, Carriers, ModemTypeOK
  <2>2. QED
    BY <1>1, <1>6, <2>1 DEF ShellWrite, smiVars, eventVars, clockVars, clientVars, MachineTypeOK, ClientTypeOK
<1>7. CASE ShellWaits \/ ShellReads
  BY <1>1, <1>7, EmptySeq
  DEF ShellWaits, ShellReads, modemVars, smiVars, clockVars, clientVars, ModemTypeOK, MachineTypeOK, ClientTypeOK
<1>8. QED
  BY <1>3, <1>4, <1>5, <1>6, <1>7 DEF Environment

\* The caller keeps the types.
LEMMA CallerType ==
  ASSUME TypeOK, CallBegins \/ CallStep \/ Deadline
  PROVE  TypeOK'
<1> USE DEF TypeOK
<1>1. ModemTypeOK /\ MachineTypeOK /\ ClientTypeOK
  OBVIOUS
<1>2. (UNCHANGED eventVars \/ \E e \in EventTypes : Post(e)) => EventTypeOK'
  BY <1>1, PostType DEF eventVars, MachineTypeOK, EventTypeOK
<1>3. UNCHANGED firmwareVars => ModemTypeOK'
  BY <1>1 DEF firmwareVars, modemVars, ModemTypeOK
<1>4. ASSUME NEW p \in Payload, QueuePayload(p)
      PROVE  TypeOK'
  <2>1. payloadQ' \in Seq(Payload) /\ Len(payloadQ') <= PayloadCap
    <3>1. payloadQ \in Seq(Payload) /\ Len(payloadQ) \in Nat /\ Len(payloadQ) <= PayloadCap /\ PayloadCap \in Nat
      BY <1>1, LimitsAssumption DEF MachineTypeOK, Limits
    <3>2. /\ Append(payloadQ, p) \in Seq(Payload)
          /\ Len(Append(payloadQ, p)) = Len(payloadQ) + 1
      BY <1>4, <3>1, AppendProperties
    <3>3. payloadQ' = payloadQ \/ (Len(payloadQ) < PayloadCap /\ payloadQ' = Append(payloadQ, p))
      BY <1>4, <3>1 DEF QueuePayload
    <3>4. QED
      BY <3>1, <3>2, <3>3
  <2>2. MachineTypeOK'
    BY <1>1, <1>4, <2>1 DEF QueuePayload, firmwareVars, smiVars, eventVars, MachineTypeOK
  <2>3. ClientTypeOK'
    <3>1. call' \in {"putEvent", "err"} /\ cur' = p
      BY <1>4 DEF QueuePayload
    <3>2. QED
      BY <1>1, <1>4, <3>1 DEF QueuePayload, firmwareVars, clockVars, ClientTypeOK, Calls, SendCalls
  <2>4. QED
    BY <1>3, <1>4, <2>2, <2>3 DEF QueuePayload
<1>5. CASE CallBegins
  <2>1. CASE CallMaxPayload
    BY <1>1, <1>3, <2>1
    DEF CallMaxPayload, firmwareVars, smiVars, eventVars, clockVars, MachineTypeOK, ClientTypeOK, Calls, SendCalls
  <2>2. CASE \E port \in Ports : SendNew(port)
    <3>1. PICK port \in Ports : SendNew(port)
      BY <2>2
    <3>2. [batch |-> cur.batch + 1, port |-> port] \in Payload
      BY <1>1, PortsAssumption DEF ClientTypeOK, Payload, NoPayload
    <3>3. QED
      BY <1>4, <3>1, <3>2 DEF SendNew
  <2>3. CASE SendAgain
    BY <1>1, <1>4, <2>3 DEF SendAgain, ClientTypeOK, SendCalls
  <2>4. QED
    BY <1>5, <2>1, <2>2, <2>3 DEF CallBegins
<1>6. CASE CallStep \/ Deadline
  <2>1. ModemTypeOK' /\ MachineTypeOK'
    <3>1. EventTypeOK'
      BY <1>2, <1>6
      DEF CallStep, Deadline, PostCommand, LenTimeout, PutEvent, ResetResponses, RespTimeout, EventTypes
    <3>2. QED
      BY <1>1, <1>3, <1>6, <3>1
      DEF CallStep, Deadline, PostCommand, LenTimeout, PutEvent, ResetResponses, RespTimeout,
          firmwareVars, smiVars, EventTypeOK, MachineTypeOK
  <2>2. ClientTypeOK'
    <3>1. /\ call' \in Calls /\ waited' \in Nat /\ UNCHANGED <<cur, clockVars>>
          /\ call' \in SendCalls => call \in SendCalls
      BY <1>1, <1>6
      DEF CallStep, Deadline, PostCommand, LenTimeout, PutEvent, ResetResponses, RespTimeout,
          firmwareVars, ClientTypeOK, Calls, SendCalls
    <3>2. lenReady' \in BOOLEAN
      BY <1>1, <1>6
      DEF CallStep, Deadline, PostCommand, LenTimeout, PutEvent, ResetResponses, RespTimeout,
          ClientTypeOK
    <3>3. QED
      BY <1>1, <3>1, <3>2 DEF clockVars, ClientTypeOK
  <2>3. QED
    BY <2>1, <2>2
<1>7. QED
  BY <1>5, <1>6

LEMMA InitType == Init => TypeOK
<1> SUFFICES ASSUME Init PROVE TypeOK
  OBVIOUS
<1>1. ModemTypeOK
  BY EmptySeq, QueryType
  DEF Init, ModemInit, ModemTypeOK, Nothing, Query, Command, LongNames, NoOp, Operation, Operations
<1>2. MachineTypeOK
  BY EmptySeq, LimitsAssumption DEF Init, MachineTypeOK, States, Limits
<1>3. ClientTypeOK
  BY DEF Init, ClientTypeOK, Calls, SendCalls
<1>4. QED
  BY <1>1, <1>2, <1>3 DEF TypeOK

LEMMA NextType == TypeOK /\ [Next]_vars => TypeOK'
<1> SUFFICES ASSUME TypeOK, [Next]_vars PROVE TypeOK'
  OBVIOUS
<1>1. CASE HandleEvent
  BY <1>1, TickActionType, ReceiveActionType DEF HandleEvent
<1>2. CASE Environment \/ CallBegins \/ CallStep \/ Deadline
  BY <1>2, EnvironmentType, CallerType
<1>3. CASE UNCHANGED vars
  BY <1>3
  DEF vars, modemVars, smiVars, eventVars, clockVars, clientVars, TypeOK, ModemTypeOK, MachineTypeOK, ClientTypeOK
<1>4. QED
  BY <1>1, <1>2, <1>3 DEF Next

\* Every variable keeps its type: the two queues never hold more than the
\* firmware's message queues can.
THEOREM TypeCorrect == Spec => []TypeOK
BY InitType, NextType, PTL DEF Spec
==============================================================================
