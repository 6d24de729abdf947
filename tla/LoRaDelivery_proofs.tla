-------------------------- MODULE LoRaDelivery_proofs --------------------------
(***************************************************************************)
(* What LoRaStateMachine delivers, on which port and in which order: the   *)
(* inductive invariant IInv, the properties that follow from it and the    *)
(* refinement of UplinkService.                                            *)
(***************************************************************************)
EXTENDS LoRaStateMachine_proofs

------------------------------------------------------------------------------
(* The lines that wait to be read *)

LEMMA LinesFlushed ==
  ASSUME buf' = <<>>, pipe' = <<>>
  PROVE  LineSet' = {}
BY ConcatProperties, EmptySeq DEF LineSet, Pending

LEMMA LinesKept ==
  ASSUME UNCHANGED <<buf, pipe>>
  PROVE  LineSet' = LineSet
BY DEF LineSet, Pending

\* The first line is one that waits, and no other comes in when it is taken.
LEMMA LinesTaken ==
  ASSUME TypeOK, Pending # <<>>
  PROVE  /\ Head(Pending) \in LineSet
         /\ buf' = Left /\ pipe' = <<>> => LineSet' \subseteq LineSet
<1>1. Pending \in Seq(Lines) /\ Left \in Seq(Lines)
  BY PendingType
<1>2. Head(Pending) = Pending[1] /\ 1 \in 1..Len(Pending)
  BY <1>1, HeadTailProperties
<1>3. ASSUME buf' = Left, pipe' = <<>>
      PROVE  LineSet' \subseteq LineSet
  <2>1. Pending' = Left
    BY <1>1, <1>3, ConcatEmptySeq DEF Pending
  <2>2. \A i \in 1..Len(Left) : Left[i] = Pending[i + 1] /\ i + 1 \in 1..Len(Pending)
    BY <1>1, HeadTailProperties DEF Left
  <2>3. QED
    BY <2>1, <2>2 DEF LineSet
<1>4. QED
  BY <1>2, <1>3 DEF LineSet

\* sm_clear forgets lines of the buffer, not those in the pipe.
LEMMA LinesForgotten ==
  ASSUME TypeOK, buf' = <<>>, UNCHANGED pipe
  PROVE  LineSet' \subseteq LineSet
<1>1. buf \in Seq(Lines) /\ pipe \in Seq(Lines) /\ Pending \in Seq(Lines)
  BY PendingType DEF TypeOK, ModemTypeOK, MachineTypeOK
<1>2. Pending' = pipe
  BY <1>1, ConcatEmptySeq DEF Pending
<1>3. \A i \in 1..Len(pipe) : i + Len(buf) \in 1..Len(Pending) /\ Pending[i + Len(buf)] = pipe[i]
  <2>1. /\ Len(Pending) = Len(buf) + Len(pipe) /\ Len(buf) \in Nat /\ Len(pipe) \in Nat
        /\ \A i \in 1..(Len(buf) + Len(pipe)) :
             Pending[i] = IF i <= Len(buf) THEN buf[i] ELSE pipe[i - Len(buf)]
    BY <1>1, ConcatProperties DEF Pending
  <2>2. QED
    BY <2>1
<1>4. QED
  BY <1>2, <1>3 DEF LineSet

\* What the module prints joins the lines that wait.
LEMMA LinesPrinted ==
  ASSUME TypeOK, NEW r \in Seq(Lines), Prints(r), UNCHANGED buf
  PROVE  LineSet' = LineSet \cup {r[i] : i \in 1..Len(r)}
<1>1. buf \in Seq(Lines) /\ pipe \in Seq(Lines)
  BY DEF TypeOK, ModemTypeOK, MachineTypeOK
<1>2. Pending' = Pending \o r
  BY <1>1, ConcatAssociative DEF Prints, Pending
<1>3. Pending \in Seq(Lines)
  BY PendingType
<1>4. /\ Len(Pending \o r) = Len(Pending) + Len(r)
      /\ \A i \in 1..(Len(Pending) + Len(r)) :
           (Pending \o r)[i] = IF i <= Len(Pending) THEN Pending[i] ELSE r[i - Len(Pending)]
  BY <1>3, ConcatProperties
<1>5. Len(Pending) \in Nat /\ Len(r) \in Nat
  BY <1>3
<1>6. LineSet' = {(Pending \o r)[i] : i \in 1..Len(Pending \o r)}
  BY <1>2 DEF LineSet
<1>7. LineSet' \subseteq LineSet \cup {r[i] : i \in 1..Len(r)}
  <2>1. \A i \in 1..(Len(Pending) + Len(r)) : i <= Len(Pending) => i \in 1..Len(Pending)
    BY <1>5
  <2>2. \A i \in 1..(Len(Pending) + Len(r)) : ~(i <= Len(Pending)) => i - Len(Pending) \in 1..Len(r)
    BY <1>5
  <2>3. QED
    BY <1>4, <1>6, <2>1, <2>2 DEF LineSet
<1>8. ASSUME NEW l \in LineSet \cup {r[i] : i \in 1..Len(r)}
      PROVE  l \in LineSet'
  <2>1. CASE l \in LineSet
    <3>1. PICK i \in 1..Len(Pending) : l = Pending[i]
      BY <2>1 DEF LineSet
    <3>2. i \in 1..(Len(Pending) + Len(r)) /\ l = (Pending \o r)[i]
      BY <1>4, <1>5, <3>1
    <3>3. QED
      BY <1>4, <1>6, <3>2
  <2>2. CASE l \in {r[i] : i \in 1..Len(r)}
    <3>1. PICK i \in 1..Len(r) : l = r[i]
      BY <2>2
    <3>2. /\ i + Len(Pending) \in 1..(Len(Pending) + Len(r))
          /\ l = (Pending \o r)[i + Len(Pending)]
      BY <1>4, <1>5, <3>1
    <3>3. QED
      BY <1>4, <1>6, <3>2
  <2>3. QED
    BY <1>8, <2>1, <2>2
<1>9. QED
  BY <1>7, <1>8

------------------------------------------------------------------------------
(* The inductive invariant *)

\* What IInv says besides the types.
Shape ==
  /\ PortCommandInTime /\ PortAnswered /\ SendReady /\ OnItsPort
  /\ InFlight /\ ResultEndsFlight /\ AckForHead
  /\ BatchesRise

LEMMA CommandRange ==
  ASSUME ModemTypeOK
  PROVE  /\ cmd.name = "PORT" => cmd.pl \in Payload
         /\ op.name = "DATA" => op.pl \in Payload
         /\ op.name # "DATA" => op.pl = NoPayload
BY DEF ModemTypeOK, Commands, Operations, Carriers

LEMMA HeadOfQueue ==
  ASSUME MachineTypeOK, payloadQ # <<>>
  PROVE  Head(payloadQ) = payloadQ[1] /\ Head(payloadQ) \in Payload /\ 1 \in 1..Len(payloadQ)
BY HeadTailProperties DEF MachineTypeOK

(***************************************************************************)
(* A step in which the machine stays where it is, and neither starts a     *)
(* port command nor an uplink, and in which no line comes in.              *)
(***************************************************************************)
LEMMA QuietStep ==
  ASSUME IInv,
         UNCHANGED cmd \/ cmd'.name # "PORT",
         UNCHANGED op \/ op'.name # "DATA",
         UNCHANGED <<mport, air, state, payloadQ, cur>>,
         UNCHANGED count \/ state # "st_send",
         LineSet' \subseteq LineSet
  PROVE  Shape'
<1> USE DEF IInv
<1>1. \A t : Printed(t)' => Printed(t)
  BY DEF Printed
<1>2. PortCommandInTime' /\ PortAnswered'
  BY <1>1 DEF PortCommandInTime, PortAnswered
<1>3. SendReady' /\ OnItsPort'
  BY DEF SendReady, OnItsPort
<1>4. InFlight' /\ ResultEndsFlight'
  BY <1>1 DEF InFlight, ResultEndsFlight
<1>5. AckForHead'
  BY DEF AckForHead
<1>6. BatchesRise'
  BY DEF BatchesRise
<1>7. QED
  BY <1>2, <1>3, <1>4, <1>5, <1>6 DEF Shape

\* BatchesRise for the queue that is left when its head may be removed.
RisesIn(q) ==
  \A i \in 1..Len(q) :
    /\ air <= q[i].batch /\ q[i].batch <= cur.batch
    /\ op.name = "DATA" => op.pl.batch <= q[i].batch
    /\ \A j \in 1..i : q[j].batch <= q[i].batch

LEMMA PoppedRises ==
  ASSUME IInv
  PROVE  RisesIn(payloadQ) /\ RisesIn(Popped)
<1>1. RisesIn(payloadQ)
  BY DEF IInv, BatchesRise, RisesIn
<1>2. CASE payloadQ = <<>>
  BY <1>1, <1>2 DEF Popped
<1>3. CASE payloadQ # <<>>
  <2>1. payloadQ \in Seq(Payload)
    BY DEF IInv, TypeOK, MachineTypeOK
  <2>2. Popped = Tail(payloadQ) /\ Len(Popped) \in Nat
    BY <1>3, <2>1, HeadTailProperties DEF Popped
  <2>3. \A i \in 1..Len(Popped) : i + 1 \in 1..Len(payloadQ) /\ Popped[i] = payloadQ[i + 1]
    BY <1>3, <2>1, <2>2, HeadTailProperties
  <2>4. \A i \in 1..Len(Popped) : \A j \in 1..i :
          /\ j \in 1..Len(Popped) /\ j + 1 \in 1..(i + 1)
          /\ Popped[j].batch <= Popped[i].batch
    <3>1. TAKE i \in 1..Len(Popped)
    <3>2. TAKE j \in 1..i
    <3>3. j \in 1..Len(Popped) /\ j + 1 \in 1..(i + 1) /\ i + 1 \in 1..Len(payloadQ)
      BY <2>2, <2>3
    <3>4. payloadQ[j + 1].batch <= payloadQ[i + 1].batch
      BY <1>1, <3>3 DEF RisesIn
    <3>5. QED
      BY <2>3, <3>3, <3>4
  <2>5. QED
    BY <1>1, <2>3, <2>4 DEF RisesIn
<1>4. QED
  BY <1>1, <1>2, <1>3

(***************************************************************************)
(* A change of state.  An Enter handler may write a port command or an     *)
(* uplink; what was written before stays behind only where IInv allows it. *)
(***************************************************************************)
LEMMA EnterShape ==
  ASSUME IInv, NEW s \in States, NEW es, NEW pq \in {payloadQ, Popped},
         Enter(s, es, pq), UNCHANGED cur,
         cmd.name = "PORT" => s = "st_init",
         op.name = "DATA" => s = "st_join",
         s = "st_send" => pq # <<>> /\ mport = Head(pq).port
  PROVE  Shape'
<1> USE DEF IInv
<1>1. TypeOK /\ ModemTypeOK /\ MachineTypeOK /\ ClientTypeOK
  BY DEF TypeOK
<1>2. /\ LineSet' = {} /\ state' = s /\ payloadQ' = pq /\ cur' = cur
      /\ UNCHANGED <<mport, air>>
  BY LinesFlushed DEF Enter, EnterSend, Hear
<1>3. \A t : ~Printed(t)'
  BY <1>2 DEF Printed
<1>4. pq \in Seq(Payload) /\ (pq # <<>> => Head(pq) = pq[1] /\ Head(pq) \in Payload /\ 1 \in 1..Len(pq))
  <2>1. pq \in Seq(Payload)
    BY <1>1, PoppedType DEF MachineTypeOK
  <2>2. QED
    BY <2>1, HeadTailProperties
<1>5. RisesIn(pq)
  BY PoppedRises
<1>6. \/ UNCHANGED cmd
      \/ cmd' = Greeting(s, pq) /\ s # "st_send"
  BY <1>4
  DEF Enter, EnterSend, Hear, Takes, Nothing, Query, Command, ShortNames, LongNames
<1>7. \/ UNCHANGED op
      \/ op'.name # "DATA"
      \/ /\ s = "st_send" /\ count' = 1
         /\ op' = Operation("DATA", Head(pq), mport)
  BY <1>4
  DEF Enter, EnterSend, Hear, Takes, Greeting, Nothing, Query, Command, ShortNames, LongNames,
      Operation, NoOp
<1>8. cmd'.name = "PORT" => \/ s = "st_port" /\ pq # <<>> /\ cmd'.pl = Head(pq)
                           \/ s = "st_init"
  <2>1. CASE UNCHANGED cmd
    BY <2>1
  <2>2. CASE cmd' = Greeting(s, pq)
    BY <2>2 DEF Greeting, Query, Command, Nothing
  <2>3. QED
    BY <1>6, <2>1, <2>2
<1>9. PortCommandInTime' /\ PortAnswered' /\ ResultEndsFlight' /\ AckForHead'
  BY <1>2, <1>3, <1>8 DEF PortCommandInTime, PortAnswered, ResultEndsFlight, AckForHead
<1>10. SendReady'
  BY <1>2 DEF SendReady
<1>11. OnItsPort'
  BY <1>2, <1>7 DEF OnItsPort, Operation
<1>12. InFlight'
  BY <1>2, <1>3, <1>7 DEF InFlight, Operation
<1>13. BatchesRise'
  <2>1. op'.name = "DATA" => (op' = op \/ (pq # <<>> /\ op'.pl = Head(pq)))
    <3>1. Operation("DATA", Head(pq), mport).pl = Head(pq)
      BY DEF Operation
    <3>2. QED
      BY <1>7, <3>1
  <2>2. op'.name = "DATA" =>
          /\ air <= op'.pl.batch /\ op'.pl.batch <= cur.batch
          /\ \A i \in 1..Len(pq) : op'.pl.batch <= pq[i].batch
    <3>1. SUFFICES ASSUME op'.name = "DATA"
                   PROVE  /\ air <= op'.pl.batch /\ op'.pl.batch <= cur.batch
                          /\ \A i \in 1..Len(pq) : op'.pl.batch <= pq[i].batch
      OBVIOUS
    <3>2. CASE op' = op
      BY <1>5, <3>1, <3>2 DEF RisesIn, BatchesRise
    <3>3. CASE pq # <<>> /\ op'.pl = Head(pq)
      <4>1. \A i \in 1..Len(pq) : 1 \in 1..i
        BY <1>4
      <4>2. QED
        BY <1>4, <1>5, <3>3, <4>1 DEF RisesIn
    <3>4. QED
      BY <2>1, <3>1, <3>2, <3>3
  <2>3. air <= cur.batch
    BY DEF BatchesRise
  <2>4. QED
    BY <1>2, <1>5, <2>2, <2>3 DEF BatchesRise, RisesIn
<1>14. QED
  BY <1>9, <1>10, <1>11, <1>12, <1>13 DEF Shape

------------------------------------------------------------------------------
(* The steps of lora_sm *)

LEMMA HearQuiet ==
  ASSUME NEW c, Hear(c), c.name \notin Carriers
  PROVE  /\ UNCHANGED cmd \/ cmd'.name # "PORT"
         /\ UNCHANGED op \/ op'.name # "DATA"
         /\ UNCHANGED <<mport, air>>
BY DEF Hear, Carriers, Operation

LEMMA QuietNames ==
  /\ Nothing.name \notin Carriers
  /\ \A n : n \notin Carriers => Query(n).name \notin Carriers
BY DEF Nothing, Query, Command, Carriers

\* The line lora_wait_for takes waits to be read.
LEMMA GotPrinted ==
  ASSUME TypeOK, NEW t, Got(t)
  PROVE  Printed(t) /\ Pending # <<>> /\ Head(Pending) \in LineSet
BY LinesTaken DEF Got, Printed

\* A state may be left for st_init or st_connected, as far as the module goes,
\* unless it is st_init or a payload may be on the air.
LEMMA NothingLeftBehind ==
  ASSUME IInv, state \notin {"st_init", "st_port"}
  PROVE  cmd.name # "PORT"
BY DEF IInv, PortCommandInTime

LEMMA NothingInFlight ==
  ASSUME IInv, state \notin {"st_send", "st_join"}
  PROVE  op.name # "DATA"
BY DEF IInv, InFlight

LEMMA PatienceShape ==
  ASSUME IInv, NEW n, NEW s \in {"st_init", "st_connected"}, Patience(n, s), UNCHANGED cur,
         state = "st_init" => s = "st_init",
         state = "st_port" => s = "st_init",
         op.name # "DATA"
  PROVE  Shape'
<1>1. CASE timer + 1 > n
  <2>1. Enter(s, <<>>, payloadQ)
    BY <1>1 DEF Patience
  <2>2. cmd.name = "PORT" => s = "st_init"
    BY NothingLeftBehind
  <2>3. QED
    BY <2>1, <2>2, EnterShape DEF States
<1>2. CASE ~(timer + 1 > n)
  BY <1>2, QuietStep, LinesKept DEF Patience, Stay, modemVars
<1>3. QED
  BY <1>1, <1>2

\* The head of the queue is written again: the module is still set to its port.
LEMMA ResendShape ==
  ASSUME IInv, TickResend, payloadQ # <<>>, UNCHANGED cur
  PROVE  Shape'
<1> USE DEF IInv
<1>1. MachineTypeOK /\ ModemTypeOK
  BY DEF TypeOK
<1>2. /\ state = "st_send" /\ Hear(Command("DATA", Head(payloadQ)))
      /\ count' = count + 1 /\ count' > 0
      /\ UNCHANGED <<state, payloadQ>>
    BY <1>1 DEF TickResend, Stay, MachineTypeOK
<1>3. LineSet' = {}
  BY LinesFlushed DEF TickResend
<1>4. /\ UNCHANGED <<cmd, mport, air>>
      /\ op' = op \/ op' = Operation("DATA", Head(payloadQ), mport)
  BY <1>2 DEF Hear, Command, ShortNames
<1>5. /\ Operation("DATA", Head(payloadQ), mport).pl = Head(payloadQ)
      /\ Operation("DATA", Head(payloadQ), mport).port = mport
  BY DEF Operation
<1>6. \A t : ~Printed(t)'
  BY <1>3 DEF Printed
<1>7. SendReady' /\ OnItsPort'
  BY <1>2, <1>4, <1>5 DEF SendReady, OnItsPort
<1>8. PortCommandInTime' /\ PortAnswered' /\ ResultEndsFlight' /\ AckForHead'
  BY <1>2, <1>3, <1>4, <1>6
  DEF PortCommandInTime, PortAnswered, ResultEndsFlight, AckForHead
<1>9. op'.name = "DATA" => op'.pl = Head(payloadQ)
  BY <1>2, <1>4, <1>5 DEF InFlight
<1>10. InFlight'
  BY <1>2, <1>9 DEF InFlight
<1>11. BatchesRise'
  <2>1. Head(payloadQ) = payloadQ[1] /\ 1 \in 1..Len(payloadQ)
    BY <1>1, HeadOfQueue
  <2>2. \A i \in 1..Len(payloadQ) : 1 \in 1..i
    OBVIOUS
  <2>3. \A i \in 1..Len(payloadQ) :
          payloadQ[1].batch <= payloadQ[i].batch /\ air <= payloadQ[1].batch
          /\ payloadQ[1].batch <= cur.batch
    BY <2>1, <2>2 DEF BatchesRise
  <2>4. QED
    BY <1>2, <1>4, <1>9, <2>1, <2>3 DEF BatchesRise
<1>12. QED
  BY <1>7, <1>8, <1>10, <1>11 DEF Shape

LEMMA TickShape ==
  ASSUME IInv,
         \/ TickInit \/ TickSetup \/ TickGetPayloadLen \/ TickJoin \/ TickClockSync
         \/ TickUnsent \/ TickAwaitAck \/ TickResend \/ TickGiveUp \/ TickConnected
  PROVE  Shape'
<1>1. UNCHANGED cur
  BY DEF TickInit, TickSetup, TickGetPayloadLen, TickJoin, TickClockSync, TickUnsent,
         TickAwaitAck, TickResend, TickGiveUp, TickConnected, NoResponse, Respond, clientVars
<1>2. CASE TickInit
  <2>1. Query("AT").name \notin Carriers
    BY DEF Query, Command, Carriers
  <2>2. QED
    BY <1>1, <1>2, <2>1, HearQuiet, QuietStep, LinesKept DEF TickInit, Stay
<1>3. CASE TickSetup
  <2>1. state \in SetupStates /\ Patience(StepTicks, "st_init")
    BY <1>3 DEF TickSetup
  <2>2. op.name # "DATA"
    BY <2>1, NothingInFlight DEF SetupStates
  <2>3. QED
    BY <1>1, <2>1, <2>2, PatienceShape
<1>4. CASE TickGetPayloadLen
  <2>1. state = "st_get_payload_len" /\ Patience(LenTicks, "st_connected")
    BY <1>4 DEF TickGetPayloadLen
  <2>2. QED
    BY <1>1, <2>1, PatienceShape, NothingInFlight
<1>5. CASE TickJoin
  <2>1. Query("JOIN").name \notin Carriers /\ Nothing.name \notin Carriers
    BY DEF Query, Command, Carriers, Nothing
  <2>2. QED
    BY <1>1, <1>5, <2>1, HearQuiet, QuietStep, LinesKept DEF TickJoin, Stay
<1>6. CASE TickClockSync
  <2>1. Query("DTR").name \notin Carriers /\ Nothing.name \notin Carriers
    BY DEF Query, Command, Carriers, Nothing
  <2>2. \E c : Hear(c) /\ c.name \notin Carriers
    BY <1>6, <2>1 DEF TickClockSync
  <2>3. LineSet' \subseteq LineSet
    <3>1. CASE UNCHANGED <<buf, pipe>>
      BY <3>1, LinesKept
    <3>2. CASE buf' = <<>> /\ UNCHANGED pipe
      BY <3>2, LinesForgotten DEF IInv
    <3>3. QED
      BY <1>6, <3>1, <3>2 DEF TickClockSync
  <2>4. QED
    BY <1>1, <1>6, <2>2, <2>3, HearQuiet, QuietStep DEF TickClockSync, Stay
<1>7. CASE TickUnsent
  <2>1. state = "st_send" /\ count = 0 /\ Patience(RetryTicks, "st_connected")
    BY <1>7 DEF TickUnsent
  <2>2. op.name # "DATA"
    BY <2>1 DEF IInv, InFlight
  <2>3. QED
    BY <1>1, <2>1, <2>2, PatienceShape
<1>8. CASE TickAwaitAck \/ TickConnected
  BY <1>1, <1>8, QuietStep, LinesKept DEF TickAwaitAck, TickConnected, Stay, modemVars
<1>9. CASE TickResend
  <2>1. CASE payloadQ = <<>>
    BY <1>1, <1>9, <2>1, QuietStep, LinesKept DEF TickResend, Stay, modemVars
  <2>2. CASE payloadQ # <<>>
    BY <1>1, <1>9, <2>2, ResendShape
  <2>3. QED
    BY <2>1, <2>2
<1>10. CASE TickGiveUp
  <2>1. state = "st_send" /\ Enter("st_join", <<>>, Popped)
    BY <1>10 DEF TickGiveUp
  <2>2. cmd.name # "PORT"
    BY <2>1, NothingLeftBehind
  <2>3. QED
    BY <1>1, <2>1, <2>2, EnterShape DEF States
<1>11. QED
  BY <1>2, <1>3, <1>4, <1>5, <1>6, <1>7, <1>8, <1>9, <1>10

LEMMA TakeLineShape ==
  ASSUME IInv, Pending # <<>>, NEW c, c.name \notin Carriers, TakeLine(c)
  PROVE  Shape'
<1>1. LineSet' \subseteq LineSet
  BY LinesTaken DEF TakeLine, IInv
<1>2. QED
  BY <1>1, HearQuiet, QuietStep DEF TakeLine, Stay, NoResponse, clientVars

\* The answer st_init or st_port waits for comes after the port command was
\* answered, the one st_join waits for when the module is done with the uplinks.
LEMMA ReceiveAnswerShape ==
  ASSUME IInv, ReceiveAnswer
  PROVE  Shape'
<1> USE DEF IInv
<1>1. PICK t \in Matches[state] : Got(t)
  BY DEF ReceiveAnswer
<1>2. Printed(t)
  BY <1>1, GotPrinted
<1>3. /\ Enter(Successor[state], MoreLines, payloadQ)
      /\ UNCHANGED cur
      /\ state \in {"st_init", "st_mode", "st_class", "st_dr", "st_join", "st_port"}
      /\ Successor[state] \in States
  BY DEF ReceiveAnswer, NoResponse, clientVars, Successor, States, SetupStates
<1>4. cmd.name # "PORT"
  <2>1. CASE state = "st_init"
    BY <1>2, <2>1 DEF PortCommandInTime, Matches
  <2>2. CASE state = "st_port"
    BY <1>2, <2>2 DEF PortAnswered, Matches
  <2>3. QED
    BY <2>1, <2>2, NothingLeftBehind
<1>5. op.name # "DATA"
  BY <1>2, <1>3 DEF InFlight, Matches
<1>6. Successor[state] = "st_send" => payloadQ # <<>> /\ mport = Head(payloadQ).port
  BY <1>2, <1>3 DEF Successor, Matches, PortAnswered
<1>7. QED
  BY <1>3, <1>4, <1>5, <1>6, EnterShape

LEMMA ReceiveShape ==
  ASSUME IInv,
         \/ ReceiveNothing \/ ReceiveOther \/ ReceiveAnswer \/ ReceiveLen \/ ReceiveDtr
         \/ ReceiveDone \/ ReceiveRtc \/ ReceiveBadRtc \/ ReceiveAck
         \/ ReceiveLengthError \/ ReceiveNotJoined \/ StartCommand \/ IgnoreCommand
  PROVE  Shape'
<1> USE DEF IInv
<1>1. UNCHANGED cur
  BY DEF ReceiveNothing, ReceiveOther, ReceiveAnswer, ReceiveLen, ReceiveDtr, ReceiveDone,
         ReceiveRtc, ReceiveBadRtc, ReceiveAck, ReceiveLengthError, ReceiveNotJoined,
         StartCommand, IgnoreCommand, TakeLine, NoResponse, Respond, clientVars
<1>2. CASE ReceiveNothing \/ IgnoreCommand
  BY <1>1, <1>2, QuietStep, LinesKept DEF ReceiveNothing, IgnoreCommand, Stay, modemVars
<1>3. CASE ReceiveOther \/ ReceiveDtr \/ ReceiveDone \/ ReceiveBadRtc
  <2>1. /\ Query("DUMMY").name \notin Carriers /\ Query("RTC").name \notin Carriers
        /\ Nothing.name \notin Carriers
    BY DEF Query, Command, Nothing, Carriers
  <2>2. Pending # <<>> /\ \E c : c.name \notin Carriers /\ TakeLine(c)
    BY <1>3, <2>1 DEF ReceiveOther, ReceiveDtr, ReceiveDone, ReceiveBadRtc, Got
  <2>3. QED
    BY <2>2, TakeLineShape
<1>4. CASE ReceiveAnswer
  BY <1>4, ReceiveAnswerShape
<1>5. ASSUME NEW s \in {"st_connected", "st_get_payload_len", "st_port", "st_join"},
             NEW es, NEW pq \in {payloadQ, Popped}, Enter(s, es, pq),
             state \notin {"st_init", "st_port", "st_send", "st_join"}
      PROVE  Shape'
  <2>1. cmd.name # "PORT" /\ op.name # "DATA"
    BY <1>5, NothingLeftBehind, NothingInFlight
  <2>2. QED
    BY <1>1, <1>5, <2>1, EnterShape DEF States, SetupStates
<1>6. CASE ReceiveLen \/ ReceiveRtc \/ StartCommand
  BY <1>5, <1>6 DEF ReceiveLen, ReceiveRtc, StartCommand
<1>7. CASE ReceiveAck \/ ReceiveLengthError \/ ReceiveNotJoined
  <2>1. PICK t \in Matches["st_send"] : state = "st_send" /\ Got(t)
    BY <1>7 DEF ReceiveAck, ReceiveLengthError, ReceiveNotJoined, Matches
  <2>2. cmd.name # "PORT" /\ op.name # "DATA"
    BY <2>1, NothingLeftBehind, GotPrinted DEF ResultEndsFlight
  <2>3. PICK s \in {"st_connected", "st_join"}, pq \in {payloadQ, Popped} :
          Enter(s, MoreLines, pq)
    BY <1>7 DEF ReceiveAck, ReceiveLengthError, ReceiveNotJoined
  <2>4. QED
    BY <1>1, <2>2, <2>3, EnterShape DEF States
<1>8. QED
  BY <1>2, <1>3, <1>4, <1>6, <1>7

------------------------------------------------------------------------------
(* The steps of the radio module *)

LEMMA OneLine ==
  ASSUME NEW l
  PROVE  /\ {<<l>>[i] : i \in 1..Len(<<l>>)} = {l}
         /\ \A i \in 1..Len(<<l>>) : <<l>>[i] = l
OBVIOUS

\* A short command is answered: the answer to a port command means that the
\* port is set.
LEMMA AnswerShape ==
  ASSUME IInv, Answer, UNCHANGED <<buf, state, payloadQ, count, cur>>
  PROVE  Shape'
<1> USE DEF IInv
<1>1. PICK t \in AnswersTo(cmd) : Prints(<<Line(t, NoPayload)>>)
  BY DEF Answer
<1>2. t \in LineTexts /\ t \notin {"Joined", "Ack", "LengthError", "NotJoined"}
  BY RtcAssumption DEF AnswersTo, LineTexts
<1>3. t = "Port" => cmd.name = "PORT"
  BY RtcAssumption DEF AnswersTo
<1>4. LineSet' = LineSet \cup {Line(t, NoPayload)}
  <2>1. <<Line(t, NoPayload)>> \in Seq(Lines)
    BY <1>2 DEF Line, Lines
  <2>2. QED
    BY <1>1, <2>1, LinesPrinted, OneLine
<1>5. \A x : Printed(x)' => Printed(x) \/ x = t
  BY <1>4 DEF Printed, Line
<1>6. cmd' = Nothing /\ cmd'.name = "none" /\ UNCHANGED <<op, air>>
  BY DEF Answer, Nothing, Query, Command
<1>7. cmd.name # "PORT" => mport' = mport
  BY DEF Answer
<1>8. cmd.name = "PORT" /\ state = "st_port" => payloadQ # <<>> /\ mport' = Head(payloadQ).port
  BY DEF Answer, PortCommandInTime
<1>9. cmd.name = "PORT" => state \in {"st_port", "st_init"}
  BY DEF PortCommandInTime
<1>10. PortCommandInTime'
  BY <1>6 DEF PortCommandInTime
<1>11. PortAnswered'
  BY <1>3, <1>5, <1>6, <1>7, <1>8 DEF PortAnswered
<1>12. SendReady' /\ OnItsPort'
  BY <1>6, <1>7, <1>9 DEF SendReady, OnItsPort
<1>13. InFlight' /\ ResultEndsFlight'
  BY <1>2, <1>5, <1>6 DEF InFlight, ResultEndsFlight, Matches
<1>14. AckForHead'
  BY <1>2, <1>4 DEF AckForHead, Line
<1>15. BatchesRise'
  BY <1>6 DEF BatchesRise
<1>16. QED
  BY <1>10, <1>11, <1>12, <1>13, <1>14, <1>15 DEF Shape

LEMMA MuteShape ==
  ASSUME IInv, Mute, UNCHANGED <<buf, state, payloadQ, count, cur>>
  PROVE  Shape'
<1> USE DEF IInv
<1>1. LineSet' = LineSet /\ (\A x : Printed(x)' => Printed(x))
  BY LinesKept DEF Mute, Printed
<1>2. /\ cmd'.name = "none" /\ UNCHANGED <<op, air>>
      /\ cmd.name # "PORT" => mport' = mport
      /\ cmd.name = "PORT" => state \in {"st_port", "st_init"}
      /\ cmd.name = "PORT" /\ state = "st_port" => ~Printed("Port")
  BY DEF Mute, Nothing, Query, Command, PortCommandInTime, PortAnswered
<1>3. PortCommandInTime' /\ PortAnswered'
  BY <1>1, <1>2 DEF PortCommandInTime, PortAnswered
<1>4. SendReady' /\ OnItsPort' /\ InFlight' /\ ResultEndsFlight'
  BY <1>1, <1>2 DEF SendReady, OnItsPort, InFlight, ResultEndsFlight
<1>5. AckForHead' /\ BatchesRise'
  BY <1>1, <1>2 DEF AckForHead, BatchesRise
<1>6. QED
  BY <1>3, <1>4, <1>5 DEF Shape

(***************************************************************************)
(* A long operation ends.  Only the end of an uplink speaks of a payload,  *)
(* and it does while st_send still has that payload at the head.           *)
(***************************************************************************)
LEMMA OperationEndsShape ==
  ASSUME IInv, NEW r \in Seq(Lines), Prints(r), Ends, op # NoOp,
         \A i \in 1..Len(r) :
           /\ r[i].txt \notin {"AtOk", "Port"}
           /\ r[i].txt = "Joined" => op.name = "JOIN"
           /\ r[i].of \in {NoPayload, op.pl},
         air' = air \/ (op.name = "DATA" /\ air' = op.pl.batch),
         UNCHANGED <<buf, state, payloadQ, count, cur>>
  PROVE  Shape'
<1> USE DEF IInv
<1>1. LineSet' = LineSet \cup {r[i] : i \in 1..Len(r)}
  BY LinesPrinted
<1>2. op' = NoOp /\ op'.name = "none" /\ UNCHANGED <<cmd, mport>>
  BY DEF Ends, NoOp, Operation
<1>3. \A t \in {"AtOk", "Port"} : Printed(t)' => Printed(t)
  BY <1>1 DEF Printed
<1>4. PortCommandInTime' /\ PortAnswered'
  BY <1>2, <1>3 DEF PortCommandInTime, PortAnswered
<1>5. SendReady' /\ OnItsPort' /\ InFlight' /\ ResultEndsFlight'
  BY <1>2 DEF SendReady, OnItsPort, InFlight, ResultEndsFlight
<1>6. AckForHead'
  <2>1. op.pl = NoPayload \/ op.name = "DATA"
    BY CommandRange DEF TypeOK
  <2>2. QED
    BY <1>1, <2>1 DEF AckForHead, InFlight, SendReady
<1>7. BatchesRise'
  BY <1>2 DEF BatchesRise
<1>8. QED
  BY <1>4, <1>5, <1>6, <1>7 DEF Shape

LEMMA OneLineEndsShape ==
  ASSUME IInv, NEW l \in Lines, Prints(<<l>>), Ends, op # NoOp,
         l.txt \notin {"AtOk", "Port"},
         l.txt = "Joined" => op.name = "JOIN",
         l.of \in {NoPayload, op.pl},
         air' = air \/ (op.name = "DATA" /\ air' = op.pl.batch),
         UNCHANGED <<buf, state, payloadQ, count, cur>>
  PROVE  Shape'
<1>1. <<l>> \in Seq(Lines)
  OBVIOUS
<1>2. \A i \in 1..Len(<<l>>) :
        /\ <<l>>[i].txt \notin {"AtOk", "Port"}
        /\ <<l>>[i].txt = "Joined" => op.name = "JOIN"
        /\ <<l>>[i].of \in {NoPayload, op.pl}
  BY OneLine
<1>3. QED
  BY <1>1, <1>2, OperationEndsShape

LEMMA CompletesShape ==
  ASSUME IInv, JoinEnds \/ UplinkAcked \/ UplinkUnanswered \/ UplinkRefused,
         UNCHANGED <<buf, state, payloadQ, count, cur>>
  PROVE  Shape'
<1> USE DEF IInv
<1>1. op.name \in {"JOIN", "DUMMY", "DATA"} => op # NoOp
  BY DEF NoOp, Operation
<1>2. /\ op.pl \in Payload \cup {NoPayload}
      /\ \A t \in LineTexts : \A p \in Payload \cup {NoPayload} : Line(t, p) \in Lines
      /\ \A t, p : Line(t, p).txt = t /\ Line(t, p).of = p
  BY CommandRange DEF TypeOK, Line, Lines
<1>3. {"Joined", "JoinFailed", "NotJoined", "Done", "LengthError", "Ack"} \subseteq LineTexts
  BY DEF LineTexts
<1>4. CASE JoinEnds
  <2>1. PICK t \in {"Joined", "JoinFailed"} : Prints(<<Line(t, NoPayload)>>)
    BY <1>4 DEF JoinEnds
  <2>2. Line(t, NoPayload) \in Lines
    BY <1>2, <1>3
  <2>3. QED
    BY <1>1, <1>2, <1>4, <2>1, <2>2, OneLineEndsShape DEF JoinEnds
<1>5. CASE UplinkAcked
  <2>1. <<Line("Ack", op.pl), Line("Done", NoPayload)>> \in Seq(Lines)
    BY <1>2, <1>3
  <2>2. \A i \in 1..2 :
          LET l == <<Line("Ack", op.pl), Line("Done", NoPayload)>>[i]
          IN  l.txt \in {"Ack", "Done"} /\ l.of \in {NoPayload, op.pl}
    BY <1>2
  <2>3. QED
    BY <1>1, <1>5, <2>1, <2>2, OperationEndsShape DEF UplinkAcked
<1>6. CASE UplinkUnanswered
  <2>1. Line("Done", NoPayload) \in Lines
    BY <1>2, <1>3
  <2>2. QED
    BY <1>1, <1>2, <1>6, <2>1, OneLineEndsShape DEF UplinkUnanswered
<1>7. CASE UplinkRefused
  <2>1. PICK t \in {"NotJoined", "LengthError"}, p \in {NoPayload, op.pl} : Prints(<<Line(t, p)>>)
    BY <1>7 DEF UplinkRefused
  <2>2. Line(t, p) \in Lines
    BY <1>2, <1>3
  <2>3. QED
    BY <1>1, <1>2, <1>7, <2>1, <2>2, OneLineEndsShape DEF UplinkRefused
<1>8. QED
  BY <1>4, <1>5, <1>6, <1>7

LEMMA EnvironmentShape ==
  ASSUME IInv, Environment
  PROVE  Shape'
<1> USE DEF IInv
<1>1. CASE TimerTick
  BY <1>1, QuietStep, LinesKept DEF TimerTick, modemVars, smiVars
<1>2. CASE ModemAnswers
  BY <1>2, AnswerShape DEF ModemAnswers, OnRx, smiVars, clientVars
<1>3. CASE ModemCompletes
  BY <1>3, CompletesShape DEF ModemCompletes, OnRx, smiVars, clientVars
<1>4. CASE ModemSilent
  <2>1. UNCHANGED <<buf, state, payloadQ, count, cur>>
    BY <1>4 DEF ModemSilent, smiVars, clientVars
  <2>2. CASE Mute
    BY <2>1, <2>2, MuteShape
  <2>3. CASE ModuleResets
    <3>1. op'.name # "DATA" /\ UNCHANGED <<cmd, mport, air, pipe>>
      BY <2>3 DEF ModuleResets, Ends, NoOp, Operation
    <3>2. QED
      BY <2>1, <3>1, QuietStep, LinesKept
  <2>4. QED
    BY <1>4, <2>2, <2>3 DEF ModemSilent
<1>5. CASE ShellWrite
  <2>1. Query("OTHER").name \notin Carriers
    BY DEF Query, Command, Carriers
  <2>2. QED
    BY <1>5, <2>1, HearQuiet, QuietStep, LinesKept DEF ShellWrite, smiVars, clientVars
<1>6. CASE ShellWaits
  BY <1>6, QuietStep, LinesKept DEF ShellWaits, modemVars, smiVars, clientVars
<1>7. CASE ShellReads
  <2>1. LineSet' \subseteq LineSet
    <3>1. buf \in Seq(Lines) /\ pipe \in Seq(Lines)
      BY DEF TypeOK, ModemTypeOK, MachineTypeOK
    <3>2. Pending' = buf
      BY <1>7, <3>1, ConcatEmptySeq DEF ShellReads, smiVars, Pending
    <3>3. \A i \in 1..Len(buf) : i \in 1..Len(Pending) /\ Pending[i] = buf[i]
      <4>1. /\ Len(Pending) = Len(buf) + Len(pipe) /\ Len(buf) \in Nat /\ Len(pipe) \in Nat
            /\ \A i \in 1..(Len(buf) + Len(pipe)) :
                 Pending[i] = IF i <= Len(buf) THEN buf[i] ELSE pipe[i - Len(buf)]
        BY <3>1, ConcatProperties DEF Pending
      <4>2. QED
        BY <4>1
    <3>4. QED
      BY <3>2, <3>3 DEF LineSet
  <2>2. QED
    BY <1>7, <2>1, QuietStep DEF ShellReads, smiVars, clientVars
<1>8. QED
  BY <1>1, <1>2, <1>3, <1>4, <1>5, <1>6, <1>7 DEF Environment

------------------------------------------------------------------------------
(* The steps of the caller *)

\* A batch that is not older than the last one joins the queue.
LEMMA QueuePayloadShape ==
  ASSUME IInv, NEW p \in Payload, QueuePayload(p), cur.batch <= p.batch
  PROVE  Shape'
<1> USE DEF IInv
<1>1. payloadQ \in Seq(Payload) /\ cur.batch \in Nat /\ p.batch \in Nat /\ air \in Nat
      /\ (op.name = "DATA" => op.pl.batch \in Nat)
  BY CommandRange DEF TypeOK, MachineTypeOK, ModemTypeOK, ClientTypeOK, Payload, NoPayload
<1>2. /\ UNCHANGED <<cmd, op, mport, air, state, count>> /\ cur' = p
      /\ LineSet' = LineSet /\ (\A t : Printed(t)' = Printed(t))
  <2>1. UNCHANGED <<modemVars, smiVars>>
    BY DEF QueuePayload, firmwareVars
  <2>2. UNCHANGED <<cmd, op, mport, air, state, count, buf, pipe>>
    BY <2>1 DEF modemVars, smiVars
  <2>3. QED
    BY <2>2, LinesKept DEF Printed, QueuePayload
<1>3. payloadQ' = payloadQ \/ payloadQ' = Append(payloadQ, p)
  BY DEF QueuePayload
<1>4. payloadQ # <<>> => payloadQ' # <<>> /\ Head(payloadQ') = Head(payloadQ)
  <2>1. CASE payloadQ' = Append(payloadQ, p)
    <3>1. SUFFICES ASSUME payloadQ # <<>>
                   PROVE  payloadQ' # <<>> /\ Head(payloadQ') = Head(payloadQ)
      OBVIOUS
    <3>2. Len(payloadQ) \in Nat \ {0}
      BY <1>1, <3>1, EmptySeq
    <3>3. payloadQ' \in Seq(Payload) /\ Len(payloadQ') = Len(payloadQ) + 1 /\ payloadQ'[1] = payloadQ[1]
      BY <1>1, <2>1, <3>2, AppendProperties
    <3>4. QED
      BY <1>1, <3>1, <3>2, <3>3, HeadTailProperties, EmptySeq
  <2>2. QED
    BY <1>3, <2>1
<1>5. PortCommandInTime' /\ PortAnswered' /\ SendReady' /\ OnItsPort'
  BY <1>2, <1>4 DEF PortCommandInTime, PortAnswered, SendReady, OnItsPort
<1>6. InFlight' /\ ResultEndsFlight' /\ AckForHead'
  BY <1>2, <1>4 DEF InFlight, ResultEndsFlight, AckForHead, SendReady
<1>7. BatchesRise'
  <2>1. \A i \in 1..Len(payloadQ) : payloadQ[i].batch \in Nat
    <3>1. \A i \in 1..Len(payloadQ) : payloadQ[i] \in Payload
      BY <1>1, ElementOfSeq
    <3>2. \A x \in Payload : x.batch \in Nat
      BY DEF Payload
    <3>3. QED
      BY <3>1, <3>2
  <2>2. CASE payloadQ' = payloadQ
    BY <1>1, <1>2, <2>1, <2>2 DEF BatchesRise
  <2>3. CASE payloadQ' = Append(payloadQ, p)
    <3>1. /\ Len(payloadQ') = Len(payloadQ) + 1 /\ Len(payloadQ) \in Nat
          /\ \A i \in 1..Len(payloadQ) : payloadQ'[i] = payloadQ[i]
          /\ payloadQ'[Len(payloadQ) + 1] = p
      BY <1>1, <2>3, AppendProperties
    <3>2. \A i \in 1..Len(payloadQ') : i \in 1..Len(payloadQ) \/ i = Len(payloadQ) + 1
      BY <3>1
    <3>3. \A i \in 1..Len(payloadQ') : payloadQ'[i].batch \in Nat /\ payloadQ'[i].batch <= p.batch
                                      /\ air <= payloadQ'[i].batch
      BY <1>1, <2>1, <3>1, <3>2 DEF BatchesRise
    <3>4. op.name = "DATA" => \A i \in 1..Len(payloadQ') : op.pl.batch <= payloadQ'[i].batch
      BY <1>1, <2>1, <3>1, <3>2 DEF BatchesRise
    <3>5. \A i \in 1..Len(payloadQ') : \A j \in 1..i : payloadQ'[j].batch <= payloadQ'[i].batch
      <4>1. TAKE i \in 1..Len(payloadQ')
      <4>2. TAKE j \in 1..i
      <4>3. CASE i \in 1..Len(payloadQ)
        <5>1. j \in 1..Len(payloadQ)
          BY <3>1, <4>3
        <5>2. QED
          BY <3>1, <4>3, <5>1 DEF BatchesRise
      <4>4. CASE i = Len(payloadQ) + 1
        <5>1. j \in 1..Len(payloadQ')
          BY <3>1, <4>4
        <5>2. QED
          BY <3>1, <3>3, <4>4, <5>1
      <4>5. QED
        BY <3>2, <4>3, <4>4
    <3>6. /\ op.name = "DATA" => air <= op.pl.batch /\ op.pl.batch <= p.batch
          /\ air <= p.batch
      BY <1>1 DEF BatchesRise
    <3>7. QED
      BY <1>2, <3>3, <3>4, <3>5, <3>6 DEF BatchesRise
  <2>4. QED
    BY <1>3, <2>2, <2>3
<1>8. QED
  BY <1>5, <1>6, <1>7 DEF Shape

LEMMA CallerShape ==
  ASSUME IInv, CallBegins \/ CallStep \/ Deadline
  PROVE  Shape'
<1> USE DEF IInv
<1>1. ASSUME UNCHANGED <<firmwareVars, payloadQ, cur>>
      PROVE  Shape'
  BY <1>1, QuietStep, LinesKept DEF firmwareVars, modemVars, smiVars
<1>2. CASE CallMaxPayload \/ CallStep \/ Deadline
  BY <1>1, <1>2
  DEF CallMaxPayload, CallStep, Deadline, PostCommand, LenTimeout, PutEvent, ResetResponses,
      RespTimeout
<1>3. CASE \E port \in Ports : SendNew(port)
  <2>1. PICK port \in Ports : SendNew(port)
    BY <1>3
  <2>2. [batch |-> cur.batch + 1, port |-> port] \in Payload /\ cur.batch \in Nat
    BY PortsAssumption DEF TypeOK, ClientTypeOK, Payload, NoPayload
  <2>3. QED
    BY <2>1, <2>2, QueuePayloadShape DEF SendNew
<1>4. CASE SendAgain
  <2>1. cur \in Payload /\ cur.batch <= cur.batch
    BY <1>4 DEF SendAgain, TypeOK, ClientTypeOK, SendCalls, Payload
  <2>2. QED
    BY <1>4, <2>1, QueuePayloadShape DEF SendAgain
<1>5. QED
  BY <1>2, <1>3, <1>4 DEF CallBegins

------------------------------------------------------------------------------
(* Theorems *)

LEMMA InitShape == Init => Shape
<1> SUFFICES ASSUME Init PROVE Shape
  OBVIOUS
<1>1. LineSet = {} /\ payloadQ = <<>> /\ state = "st_init" /\ cmd.name = "none" /\ op.name = "none"
  BY ConcatProperties, EmptySeq
  DEF Init, ModemInit, LineSet, Pending, Nothing, Query, Command, NoOp, Operation
<1>2. air = 0 /\ cur.batch = 0 /\ Len(payloadQ) = 0
  BY EmptySeq DEF Init, ModemInit, NoPayload
<1>3. QED
  BY <1>1, <1>2
  DEF Shape, PortCommandInTime, PortAnswered, SendReady, OnItsPort, InFlight, ResultEndsFlight,
      AckForHead, BatchesRise, Printed

LEMMA NextShape == IInv /\ [Next]_vars => Shape'
<1> SUFFICES ASSUME IInv, [Next]_vars PROVE Shape'
  OBVIOUS
<1>1. CASE HandleEvent
  BY <1>1, TickShape, ReceiveShape DEF HandleEvent
<1>2. CASE Environment \/ CallBegins \/ CallStep \/ Deadline
  BY <1>2, EnvironmentShape, CallerShape
<1>3. CASE UNCHANGED vars
  BY <1>3, QuietStep, LinesKept DEF vars, modemVars, smiVars, clientVars
<1>4. QED
  BY <1>1, <1>2, <1>3 DEF Next

\* IInv is an invariant, and inductive.
THEOREM Inductive == Spec => []IInv
<1>1. Init => IInv
  BY InitType, InitShape DEF IInv, Shape
<1>2. IInv /\ [Next]_vars => IInv'
  BY NextType, NextShape DEF IInv, Shape
<1>3. QED
  BY <1>1, <1>2, PTL DEF Spec

\* Every payload goes out on its own port: data on the data port, logs on the
\* log port, whatever is retried, refused or interrupted in between.
THEOREM RightPort == Spec => []OnItsPort
<1>1. IInv => OnItsPort
  BY DEF IInv
<1>2. QED
  BY <1>1, Inductive, PTL

\* An acknowledgement of a payload never removes another payload from the queue.
THEOREM RightAck == Spec => []AckForHead
<1>1. IInv => AckForHead
  BY DEF IInv
<1>2. QED
  BY <1>1, Inductive, PTL

------------------------------------------------------------------------------
(* The network server *)

\* lora_sm alone delivers nothing.
LEMMA HandlersDeliverNothing ==
  ASSUME HandleEvent
  PROVE  UNCHANGED air
<1>1. \A s, es, pq : Enter(s, es, pq) => UNCHANGED air
  BY DEF Enter, EnterSend, Hear
<1>2. \A c : Hear(c) => UNCHANGED air
  BY DEF Hear
<1>3. \A n, s : Patience(n, s) => UNCHANGED air
  BY <1>1 DEF Patience, modemVars
<1>4. UNCHANGED modemVars => UNCHANGED air
  BY DEF modemVars
<1>5. CASE TickInit \/ TickSetup \/ TickGetPayloadLen \/ TickJoin \/ TickClockSync
  BY <1>2, <1>3, <1>5 DEF TickInit, TickSetup, TickGetPayloadLen, TickJoin, TickClockSync
<1>6. CASE TickUnsent \/ TickAwaitAck \/ TickResend \/ TickGiveUp \/ TickConnected
  BY <1>1, <1>2, <1>3, <1>4, <1>6
  DEF TickUnsent, TickAwaitAck, TickResend, TickGiveUp, TickConnected
<1>7. CASE ReceiveNothing \/ ReceiveOther \/ ReceiveDtr \/ ReceiveDone \/ ReceiveBadRtc \/ IgnoreCommand
  BY <1>2, <1>4, <1>7
  DEF ReceiveNothing, ReceiveOther, ReceiveDtr, ReceiveDone, ReceiveBadRtc, IgnoreCommand, TakeLine
<1>8. CASE \/ ReceiveAnswer \/ ReceiveLen \/ ReceiveRtc \/ ReceiveAck \/ ReceiveLengthError
           \/ ReceiveNotJoined \/ StartCommand
  BY <1>1, <1>8
  DEF ReceiveAnswer, ReceiveLen, ReceiveRtc, ReceiveAck, ReceiveLengthError, ReceiveNotJoined,
      StartCommand
<1>9. QED
  BY <1>5, <1>6, <1>7, <1>8 DEF HandleEvent

\* A delivery is the work of the radio module alone, and of the uplink it has
\* in progress.
LEMMA OnlyUplinksDeliver ==
  ASSUME [Next]_vars, air' # air
  PROVE  /\ op.name = "DATA" /\ air' = op.pl.batch
         /\ UNCHANGED <<call, cur, clockSet, timeSet>>
<1>1. ~HandleEvent
  BY HandlersDeliverNothing
<1>2. ~(CallBegins \/ CallStep \/ Deadline)
  BY DEF CallBegins, CallStep, Deadline, CallMaxPayload, SendNew, SendAgain, QueuePayload,
         PostCommand, PutEvent, ResetResponses, LenTimeout, RespTimeout, firmwareVars, modemVars
<1>3. ~(TimerTick \/ ModemAnswers \/ ModemSilent \/ ShellWrite \/ ShellWaits \/ ShellReads)
  BY DEF TimerTick, ModemAnswers, Answer, ModemSilent, Mute, ModuleResets, ShellWrite, Hear,
         ShellWaits, ShellReads, modemVars
<1>4. ModemCompletes
  BY <1>1, <1>2, <1>3 DEF Next, Environment, vars, modemVars
<1>5. UNCHANGED <<call, cur, clockSet, timeSet>>
  BY <1>4 DEF ModemCompletes, OnRx, clockVars, clientVars
<1>6. op.name = "DATA" /\ air' = op.pl.batch
  BY <1>4 DEF ModemCompletes, JoinEnds, UplinkAcked, UplinkUnanswered, UplinkRefused
<1>7. QED
  BY <1>5, <1>6

\* The batches reach the network server in the order they were handed over.
THEOREM RightOrder == Spec => DeliveredInOrder
<1>1. IInv /\ [Next]_vars => [air' >= air]_vars
  <2>1. SUFFICES ASSUME IInv, [Next]_vars
                 PROVE  air' >= air
    OBVIOUS
  <2>2. air \in Nat
    BY <2>1 DEF IInv, TypeOK, ModemTypeOK
  <2>3. CASE air' # air
    BY <2>1, <2>2, <2>3, OnlyUplinksDeliver, CommandRange
    DEF IInv, TypeOK, BatchesRise, Payload
  <2>4. QED
    BY <2>2, <2>3
<1>2. QED
  BY <1>1, Inductive, PTL DEF Spec, DeliveredInOrder

------------------------------------------------------------------------------
(* LoRaStateMachine implements UplinkService: every step of the firmware,   *)
(* the timer, the radio module and the caller is a step of the service or   *)
(* leaves the service as it is.                                             *)

\* What the caller is doing, as the service sees it.
LEMMA CallMap ==
  ASSUME ClientTypeOK
  PROVE  /\ call \in Returned => CallOfService = call
         /\ call \in {"lenPost", "lenWait"} => CallOfService = "len"
         /\ call \in {"putEvent", "respReset", "respWait"} => CallOfService = "send"
BY DEF CallOfService, Returned

LEMMA ServiceUnchanged ==
  ASSUME UNCHANGED <<call, cur, air, clockSet, timeSet>>
  PROVE  UNCHANGED Service!serviceVars
BY DEF CallOfService, Service!serviceVars

\* A response ends the call that waits for it, or ends none.
LEMMA RespondServes ==
  ASSUME TypeOK, NEW b, Respond(b), UNCHANGED <<air, clockSet, timeSet>>
  PROVE  [Service!ServiceNext]_(Service!serviceVars)
<1>1. CASE call' = call
  BY <1>1, ServiceUnchanged DEF Respond
<1>2. CASE call = "lenWait" /\ call' = "lenOk"
  BY <1>2
  DEF Respond, CallOfService, Service!ServiceNext, Service!ServiceStep,
      Service!MaxPayloadReturns, Service!LenResults
<1>3. CASE call = "respWait" /\ call' \in {"ok", "err"}
  BY <1>3
  DEF Respond, CallOfService, Service!ServiceNext, Service!ServiceStep,
      Service!SendReturns, Service!SendResults
<1>4. QED
  BY <1>1, <1>2, <1>3 DEF Respond

LEMMA NoResponseServes ==
  ASSUME NoResponse, UNCHANGED <<air, clockVars>>
  PROVE  UNCHANGED Service!serviceVars
BY ServiceUnchanged DEF NoResponse, clientVars, clockVars

\* lora_sm ends calls and posts the clock event.
LEMMA HandlersServe ==
  ASSUME TypeOK, HandleEvent
  PROVE  [Service!ServiceNext]_(Service!serviceVars)
<1>1. UNCHANGED air
  BY HandlersDeliverNothing
<1>2. CASE NoResponse /\ UNCHANGED clockVars
  BY <1>1, <1>2, NoResponseServes
<1>3. CASE (\E b : Respond(b)) /\ UNCHANGED clockVars
  BY <1>1, <1>3, RespondServes DEF clockVars
<1>4. CASE ReceiveRtc \/ ReceiveBadRtc
  <2>1. clockSet' = TRUE /\ timeSet' \in {timeSet, TRUE} /\ UNCHANGED <<call, cur>>
    BY <1>4 DEF ReceiveRtc, ReceiveBadRtc, TakeLine, NoResponse, clientVars
  <2>2. QED
    BY <1>1, <2>1
    DEF CallOfService, Service!ServiceNext, Service!ServiceStep, Service!ClockEvent
<1>5. CASE \/ TickInit \/ TickSetup \/ TickGetPayloadLen \/ TickJoin \/ TickClockSync
           \/ TickUnsent \/ TickAwaitAck \/ TickResend \/ TickGiveUp \/ TickConnected
  BY <1>2, <1>3, <1>5
  DEF TickInit, TickSetup, TickGetPayloadLen, TickJoin, TickClockSync, TickUnsent, TickAwaitAck,
      TickResend, TickGiveUp, TickConnected
<1>6. CASE \/ ReceiveNothing \/ ReceiveOther \/ ReceiveAnswer \/ ReceiveLen \/ ReceiveDtr
           \/ ReceiveDone \/ ReceiveAck \/ ReceiveLengthError \/ ReceiveNotJoined
           \/ StartCommand \/ IgnoreCommand
  BY <1>2, <1>3, <1>6
  DEF ReceiveNothing, ReceiveOther, ReceiveAnswer, ReceiveLen, ReceiveDtr, ReceiveDone,
      ReceiveAck, ReceiveLengthError, ReceiveNotJoined, StartCommand, IgnoreCommand, TakeLine
<1>7. QED
  BY <1>4, <1>5, <1>6 DEF HandleEvent

\* A call begins as the service lets it.
LEMMA CallBeginsServes ==
  ASSUME TypeOK, CallBegins
  PROVE  [Service!ServiceNext]_(Service!serviceVars)
<1>1. clockSet /\ ClientTypeOK
  BY DEF CallBegins, TypeOK
<1>2. UNCHANGED firmwareVars => UNCHANGED <<air, clockSet, timeSet>>
  BY DEF firmwareVars, modemVars, clockVars
<1>3. call \in Returned => Service!MayCall
  BY <1>1 DEF Service!MayCall, Service!Returned, Service!LenResults, Service!SendResults,
              CallOfService, Returned
<1>4. CASE CallMaxPayload
  <2>1. CallOfService' = "len" /\ UNCHANGED <<cur, air, clockSet, timeSet>>
    BY <1>2, <1>4 DEF CallMaxPayload, CallOfService
  <2>2. QED
    BY <1>3, <1>4, <2>1 DEF CallMaxPayload, Service!AskMaxPayload, Service!ServiceNext
<1>5. ASSUME NEW p, QueuePayload(p)
      PROVE  Service!HandOver(p.batch)
  <2>1. CallOfService' \in {"send", "err"} /\ cur' = p /\ UNCHANGED <<air, clockSet, timeSet>>
    BY <1>2, <1>5 DEF QueuePayload, CallOfService
  <2>2. QED
    BY <1>3, <1>5, <2>1 DEF QueuePayload, Service!HandOver
<1>6. CASE \E port \in Ports : SendNew(port)
  <2>1. PICK port \in Ports : SendNew(port)
    BY <1>6
  <2>2. Service!HandOver(cur.batch + 1)
    BY <1>5, <2>1 DEF SendNew
  <2>3. QED
    BY <2>2 DEF Service!HandOverNew, Service!ServiceNext
<1>7. CASE SendAgain
  BY <1>5, <1>7 DEF SendAgain, CallOfService, Service!HandOverAgain, Service!ServiceNext
<1>8. QED
  BY <1>4, <1>6, <1>7 DEF CallBegins

\* A call ends, or comes a step nearer to its end.
LEMMA CallEndsServes ==
  ASSUME TypeOK, CallStep \/ Deadline
  PROVE  [Service!ServiceNext]_(Service!serviceVars)
<1>1. UNCHANGED <<cur, air, clockSet, timeSet>>
  BY DEF CallStep, Deadline, PostCommand, PutEvent, ResetResponses, LenTimeout, RespTimeout,
         firmwareVars, modemVars, clockVars
<1>2. CASE UNCHANGED CallOfService
  BY <1>1, <1>2 DEF Service!serviceVars
<1>3. CASE CallOfService = "len" /\ CallOfService' \in {"lenOk", "lenFail"}
  BY <1>1, <1>3
  DEF Service!ServiceNext, Service!ServiceStep, Service!MaxPayloadReturns, Service!LenResults
<1>4. CASE CallOfService = "send" /\ CallOfService' = "timeout"
  BY <1>1, <1>4
  DEF Service!ServiceNext, Service!ServiceStep, Service!SendReturns, Service!SendResults
<1>5. QED
  BY <1>2, <1>3, <1>4
  DEF CallStep, Deadline, PostCommand, PutEvent, ResetResponses, LenTimeout, RespTimeout,
      CallOfService

\* The environment delivers batches.
LEMMA EnvironmentServes ==
  ASSUME IInv, Environment
  PROVE  [Service!ServiceNext]_(Service!serviceVars)
<1>1. CASE air' = air
  <2>1. UNCHANGED <<call, cur, clockSet, timeSet>>
    BY DEF Environment, TimerTick, ModemAnswers, ModemCompletes, ModemSilent, ShellWrite,
           ShellWaits, ShellReads, OnRx, clockVars, clientVars
  <2>2. QED
    BY <1>1, <2>1, ServiceUnchanged
<1>2. CASE air' # air
  <2>1. /\ op.name = "DATA" /\ air' = op.pl.batch
        /\ UNCHANGED <<call, cur, clockSet, timeSet>>
    BY <1>2, OnlyUplinksDeliver DEF Next
  <2>2. air \in Nat /\ cur.batch \in Nat /\ op.pl.batch \in Nat
    BY <2>1, CommandRange DEF IInv, TypeOK, ModemTypeOK, ClientTypeOK, Payload, NoPayload
  <2>3. air' \in (air + 1)..cur.batch
    BY <1>2, <2>1, <2>2 DEF IInv, BatchesRise
  <2>4. QED
    BY <2>1, <2>3
    DEF CallOfService, Service!ServiceNext, Service!ServiceStep, Service!Deliver
<1>3. QED
  BY <1>1, <1>2

LEMMA InitServes == Init => Service!ServiceInit
BY DEF Init, ModemInit, CallOfService, NoPayload, Service!ServiceInit

LEMMA NextServes == IInv /\ [Next]_vars => [Service!ServiceNext]_(Service!serviceVars)
<1> SUFFICES ASSUME IInv, [Next]_vars
             PROVE  [Service!ServiceNext]_(Service!serviceVars)
  OBVIOUS
<1>1. TypeOK
  BY DEF IInv
<1>2. CASE HandleEvent
  BY <1>1, <1>2, HandlersServe
<1>3. CASE Environment
  BY <1>3, EnvironmentServes
<1>4. CASE CallBegins \/ CallStep \/ Deadline
  BY <1>1, <1>4, CallBeginsServes, CallEndsServes
<1>5. CASE UNCHANGED vars
  BY <1>5, ServiceUnchanged DEF vars, modemVars, clockVars, clientVars
<1>6. QED
  BY <1>2, <1>3, <1>4, <1>5 DEF Next

\* The state machine with its callers implements the service cloud_send is
\* written against: calls return, batches arrive in order, and a batch may still
\* arrive after its call has failed.
THEOREM Implements == Spec => ImplementsService
<1>1. Init => Service!ServiceInit
  BY InitServes
<1>2. IInv /\ [Next]_vars => [Service!ServiceNext]_(Service!serviceVars)
  BY NextServes
<1>3. QED
  BY <1>1, <1>2, Inductive, PTL DEF Spec, ImplementsService, Service!ServiceSpec
==============================================================================
