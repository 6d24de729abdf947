--------------------------- MODULE LoRaStateMachine ---------------------------
(***************************************************************************)
(* The thread lora_sm (src/src/transport/lora_statemachine.cpp) and the    *)
(* calls the thread cloud_send makes on it through LoRaTransport.  The     *)
(* thread takes one event at a time off event_queue_ and runs the handler  *)
(* of its state on it, then the Exit and Enter handlers if the state       *)
(* changes.  No handler blocks, so an event is one action.  The calls run  *)
(* in the other thread and are cut into the steps between which lora_sm,   *)
(* the timer and the radio module may act.                                 *)
(***************************************************************************)
EXTENDS LoRaModem

CONSTANTS
  StepTicks,    \* patience of st_mode, st_class, st_dr and st_port, in ticks of 1 s
  JoinTicks,    \* period of AT+JOIN in st_join
  ClockTicks,   \* patience of st_clock_sync
  LenTicks,     \* patience of st_get_payload_len
  RetryTicks,   \* st_send, when the command could not be written
  AckTicks,     \* st_send, wait for the acknowledgement of one attempt
  MaxAttempts,  \* attempts of st_send
  LenWait,      \* deadline of get_max_payload_len
  SendWait,     \* deadline of wait_for_response in send_on_port
  EventCap,     \* capacity of event_queue_
  PayloadCap,   \* capacity of payload_queue_
  Shell,        \* whether the operator uses the raw commands of the shell
  MaxBatch,     \* bound: batches handed over
  MaxLines      \* bound: the module prints no more while so many lines are unread

Limits == {StepTicks, JoinTicks, ClockTicks, LenTicks, RetryTicks, AckTicks,
           MaxAttempts, LenWait, SendWait, EventCap, PayloadCap, MaxBatch, MaxLines}

ASSUME LimitsAssumption == Limits \subseteq Nat \ {0}
ASSUME ShellAssumption  == Shell \in BOOLEAN

VARIABLES
  state,     \* Smi.state
  timer,     \* Smi.timer
  count,     \* Smi.count
  buf,       \* the lines in Smi.buffer not handled yet
  eventQ,    \* event_queue_
  reader,    \* the shell in raw_read: "no", "waits" for an event, or "reads"
  payloadQ,  \* payload_queue_
  lenReady,  \* LORA_LEN_READY_BIT of lora_response_event
  clockSet,  \* CLOCK_SET was posted
  timeSet,   \* clock_settime succeeded
  call,      \* where the caller (cloud_send) is
  cur,       \* the payload it last handed over
  waited     \* ticks since it started to wait, 0 when it does not

smiVars    == <<state, timer, count, buf>>
clockVars  == <<clockSet, timeSet>>
clientVars == <<call, cur, waited>>
eventVars  == <<eventQ, reader>>
vars == <<modemVars, smiVars, eventVars, payloadQ, lenReady, clockVars, clientVars>>

SetupStates == {"st_mode", "st_class", "st_dr", "st_port"}
States == SetupStates \cup {"st_init", "st_join", "st_clock_sync", "st_connected",
                            "st_get_payload_len", "st_send"}
EventTypes == {"Tick", "Receive", "Command", "PayloadReady"}
Returned   == {"idle", "lenOk", "lenFail", "ok", "err", "timeout"}
SendCalls  == {"putEvent", "respReset", "respWait", "ok", "err", "timeout"}
Calls      == {"idle", "lenOk", "lenFail", "lenPost", "lenWait"} \cup SendCalls

\* Mutant: a put that grows the queue beyond its capacity.
FitGrowing(q) == q

\* k_msgq_put(..., K_NO_WAIT): what does not fit is dropped.
Fit(q) == SubSeq(q, 1, IF Len(q) <= EventCap THEN Len(q) ELSE EventCap)

(***************************************************************************)
(* raw_read waits on event_queue_ too.  An event goes to lora_sm if it is  *)
(* waiting, it has the higher priority; while it is at work, which it is   *)
(* when it posts itself and when an event it was given is not handled yet, *)
(* the event goes to the shell, and is lost.                               *)
(***************************************************************************)
Post(e) ==
  LET taken == reader = "waits" /\ eventQ # <<>>
  IN  /\ eventQ' = IF taken THEN eventQ ELSE Fit(Append(eventQ, e))
      /\ reader' = IF taken THEN "reads" ELSE reader

\* lora_sm is done with the event at the head and posted the events es.
Handled(es) ==
  LET taken == reader = "waits" /\ es # <<>>
  IN  /\ eventQ' = Fit(Tail(eventQ) \o (IF taken THEN Tail(es) ELSE es))
      /\ reader' = IF taken THEN "reads" ELSE reader

Init ==
  /\ ModemInit
  /\ state = "st_init" /\ timer = 0 /\ count = 0 /\ buf = <<>>
  /\ eventQ = <<>> /\ reader = "no" /\ payloadQ = <<>> /\ lenReady = FALSE
  /\ clockSet = FALSE /\ timeSet = FALSE
  /\ call = "idle" /\ cur = NoPayload /\ waited = 0

------------------------------------------------------------------------------
(* Changes of state *)

\* The command the Enter handler of s writes, q being the payload queue.
Greeting(s, q) ==
  CASE s = "st_mode"            -> Query("MODE")
    [] s = "st_class"           -> Query("CLASS")
    [] s = "st_dr"              -> Query("DR")
    [] s = "st_join"            -> Query("JOIN")
    [] s = "st_clock_sync"      -> Query("DTR")
    [] s = "st_get_payload_len" -> Query("LEN")
    [] s = "st_port" /\ q # <<>> -> Command("PORT", Head(q))
    [] OTHER                    -> Nothing

\* st_send writes the payload at the head of the queue; count stays 0 if the
\* serial line takes nothing.
EnterSend(q) ==
  IF q = <<>> THEN count' = 0 /\ Hear(Nothing)
  ELSE \/ ~healthy /\ count' = 0 /\ Hear(Nothing)
       \/ count' = 1 /\ Hear(Command("DATA", Head(q)))

\* Mutant: st_connected does not look for payloads that wait already.
EnterIdly(s, es, pq) ==
  /\ state' = s
  /\ timer' = 0
  /\ buf' = <<>> /\ pipe' = <<>>
  /\ payloadQ' = pq
  /\ Handled(es)
  /\ IF s = "st_send" THEN EnterSend(pq)
                      ELSE count' = 0 /\ Hear(Greeting(s, pq))

(***************************************************************************)
(* TRAN(s) and the Enter handler of s, with es the events posted by the    *)
(* handler that decided the change and pq the payloads it left.            *)
(***************************************************************************)
Enter(s, es, pq) ==
  /\ state' = s
  /\ timer' = 0
  /\ buf' = <<>> /\ pipe' = <<>>
  /\ payloadQ' = pq
  /\ Handled(es \o (IF s = "st_connected" /\ pq # <<>> THEN <<"PayloadReady">> ELSE <<>>))
  /\ IF s = "st_send" THEN EnterSend(pq)
                      ELSE count' = 0 /\ Hear(Greeting(s, pq))

\* The handler ends without changing the state, having posted es.
Stay(es) ==
  /\ Handled(es)
  /\ UNCHANGED <<state, payloadQ>>

(***************************************************************************)
(* k_event_post on lora_response_event: a caller waiting for b goes on.    *)
(* SENT and ERROR posted while nobody waits need no variable: the only     *)
(* wait for them, wait_for_response, wipes the bits before it looks.       *)
(***************************************************************************)
Respond(b) ==
  /\ lenReady' = (lenReady \/ b = "LEN")
  /\ call' = CASE call = "lenWait"  /\ b = "LEN"   -> "lenOk"
               [] call = "respWait" /\ b = "SENT"  -> "ok"
               [] call = "respWait" /\ b = "ERROR" -> "err"
               [] OTHER                            -> call
  /\ waited' = IF call' = call THEN waited ELSE 0
  /\ UNCHANGED cur

NoResponse == UNCHANGED <<lenReady, clientVars>>

------------------------------------------------------------------------------
(* Tick: what each state does every second *)

Tick == eventQ # <<>> /\ Head(eventQ) = "Tick"

TickInit ==
  /\ Tick /\ state = "st_init"
  /\ Hear(Query("AT"))
  /\ Stay(<<>>)
  /\ NoResponse
  /\ UNCHANGED <<timer, count, buf, pipe, clockVars>>

\* ++timer > n sends the machine to s; otherwise it keeps waiting.
Patience(n, s) ==
  IF timer + 1 > n
  THEN Enter(s, <<>>, payloadQ)
  ELSE /\ timer' = timer + 1
       /\ Stay(<<>>)
       /\ UNCHANGED <<count, buf, modemVars>>

\* Mutant: the wait for an answer has no end.
TickSetupForever ==
  /\ Tick /\ state \in SetupStates
  /\ Stay(<<>>)
  /\ NoResponse
  /\ UNCHANGED <<timer, count, buf, modemVars, clockVars>>

TickSetup ==
  /\ Tick /\ state \in SetupStates
  /\ Patience(StepTicks, "st_init")
  /\ NoResponse
  /\ UNCHANGED clockVars

TickGetPayloadLen ==
  /\ Tick /\ state = "st_get_payload_len"
  /\ Patience(LenTicks, "st_connected")
  /\ NoResponse
  /\ UNCHANGED clockVars

\* Every JoinTicks the join is asked for again.
TickJoin ==
  /\ Tick /\ state = "st_join"
  /\ IF timer + 1 = JoinTicks
     THEN timer' = 0 /\ Hear(Query("JOIN"))
     ELSE timer' = timer + 1 /\ Hear(Nothing)
  /\ Stay(<<>>)
  /\ NoResponse
  /\ UNCHANGED <<count, buf, pipe, clockVars>>

\* The time request is repeated, and sm_clear forgets the lines in the buffer.
TickClockSync ==
  /\ Tick /\ state = "st_clock_sync"
  /\ IF timer + 1 > ClockTicks
     THEN timer' = 0 /\ count' = 0 /\ buf' = <<>> /\ Hear(Query("DTR"))
     ELSE timer' = timer + 1 /\ UNCHANGED <<count, buf>> /\ Hear(Nothing)
  /\ Stay(<<>>)
  /\ NoResponse
  /\ UNCHANGED <<pipe, clockVars>>

\* st_send wrote nothing: after RetryTicks the caller is told, and the payload
\* stays in the queue.
TickUnsent ==
  /\ Tick /\ state = "st_send" /\ count = 0
  /\ Patience(RetryTicks, "st_connected")
  /\ IF timer + 1 > RetryTicks THEN Respond("ERROR") ELSE NoResponse
  /\ UNCHANGED clockVars

\* st_send waits for the acknowledgement.
TickAwaitAck ==
  /\ Tick /\ state = "st_send" /\ count > 0 /\ timer + 1 <= AckTicks
  /\ timer' = timer + 1
  /\ Stay(<<>>)
  /\ NoResponse
  /\ UNCHANGED <<count, buf, modemVars, clockVars>>

\* No acknowledgement: what came in meanwhile is flushed and the head of the
\* queue is written again.
TickResend ==
  /\ Tick /\ state = "st_send" /\ count > 0 /\ timer + 1 > AckTicks
  /\ count < MaxAttempts
  /\ IF payloadQ = <<>>
     THEN timer' = timer + 1 /\ UNCHANGED <<count, buf, modemVars>>
     ELSE /\ timer' = 0
          /\ count' = count + 1
          /\ buf' = <<>> /\ pipe' = <<>>
          /\ Hear(Command("DATA", Head(payloadQ)))
  /\ Stay(<<>>)
  /\ NoResponse
  /\ UNCHANGED clockVars

\* k_msgq_get(&payload_queue_, &p, K_NO_WAIT)
Popped == IF payloadQ = <<>> THEN <<>> ELSE Tail(payloadQ)

\* Mutant: after the last attempt the machine goes on without joining anew.
TickGiveUpConnected ==
  /\ Tick /\ state = "st_send" /\ count >= MaxAttempts /\ timer + 1 > AckTicks
  /\ Respond("ERROR")
  /\ Enter("st_connected", <<>>, Popped)
  /\ UNCHANGED clockVars

\* The last attempt failed: the payload is given up and the network joined anew.
TickGiveUp ==
  /\ Tick /\ state = "st_send" /\ count >= MaxAttempts /\ timer + 1 > AckTicks
  /\ Respond("ERROR")
  /\ Enter("st_join", <<>>, Popped)
  /\ UNCHANGED clockVars

TickConnected ==
  /\ Tick /\ state = "st_connected"
  /\ Stay(<<>>)
  /\ NoResponse
  /\ UNCHANGED <<timer, count, buf, modemVars, clockVars>>

------------------------------------------------------------------------------
(* Receive: lora_wait_for and what follows *)

Pending == buf \o pipe
Left    == Tail(Pending)

Receive == eventQ # <<>> /\ Head(eventQ) = "Receive"

\* lora_wait_for takes one line, of text t, ...
Got(t) == Receive /\ Pending # <<>> /\ Head(Pending).txt = t
\* ... and posts the event again when there are more.
MoreLines == IF Left = <<>> THEN <<>> ELSE <<"Receive">>

\* The line changes nothing but what is left to read; c is written.
TakeLine(c) ==
  /\ Hear(c)
  /\ buf' = Left /\ pipe' = <<>>
  /\ Stay(MoreLines)
  /\ NoResponse
  /\ UNCHANGED <<timer, count>>

\* The texts each state acts on.
Matches ==
  [ st_init |-> {"AtOk"}, st_mode |-> {"Mode"}, st_class |-> {"Class"}, st_dr |-> {"Dr"},
    st_port |-> {"Port"}, st_join |-> {"Joined"}, st_get_payload_len |-> {"Len"},
    st_clock_sync |-> {"Dtr", "Done", "RtcGood", "RtcBad"},
    st_send |-> {"Ack", "LengthError", "NotJoined"} ]

\* The next state of those that wait for one answer.
Successor ==
  [ st_init |-> "st_mode", st_mode |-> "st_class", st_class |-> "st_dr",
    st_dr |-> "st_join", st_join |-> "st_clock_sync", st_port |-> "st_send" ]

ReceiveNothing ==
  /\ Receive /\ (state = "st_connected" \/ Pending = <<>>)
  /\ Stay(<<>>)
  /\ NoResponse
  /\ UNCHANGED <<timer, count, buf, modemVars, clockVars>>

ReceiveOther ==
  /\ state # "st_connected"
  /\ Receive /\ Pending # <<>> /\ Head(Pending).txt \notin Matches[state]
  /\ TakeLine(Nothing)
  /\ UNCHANGED clockVars

ReceiveAnswer ==
  /\ state \in DOMAIN Successor
  /\ \E t \in Matches[state] : Got(t)
  /\ Enter(Successor[state], MoreLines, payloadQ)
  /\ NoResponse
  /\ UNCHANGED clockVars

ReceiveLen ==
  /\ state = "st_get_payload_len" /\ Got("Len")
  /\ Respond("LEN")
  /\ Enter("st_connected", MoreLines, payloadQ)
  /\ UNCHANGED clockVars

\* st_clock_sync: +LW: DTR is followed by an empty uplink, its end by the
\* question for the time.
ReceiveDtr ==
  /\ state = "st_clock_sync" /\ Got("Dtr")
  /\ TakeLine(Query("DUMMY"))
  /\ UNCHANGED clockVars

ReceiveDone ==
  /\ state = "st_clock_sync" /\ Got("Done")
  /\ TakeLine(Query("RTC"))
  /\ UNCHANGED clockVars

ReceiveRtc ==
  /\ state = "st_clock_sync" /\ Got("RtcGood")
  /\ timeSet' = TRUE /\ clockSet' = TRUE
  /\ Enter("st_connected", MoreLines, payloadQ)
  /\ NoResponse

\* A year that passes the test in a time set_system_time refuses: the clock
\* event is posted all the same.
ReceiveBadRtc ==
  /\ state = "st_clock_sync" /\ Got("RtcBad")
  /\ clockSet' = TRUE
  /\ TakeLine(Nothing)
  /\ UNCHANGED timeSet

ReceiveAck ==
  /\ state = "st_send" /\ Got("Ack")
  /\ Respond("SENT")
  /\ Enter("st_connected", MoreLines, Popped)
  /\ UNCHANGED clockVars

ReceiveLengthError ==
  /\ state = "st_send" /\ Got("LengthError")
  /\ Respond("ERROR")
  /\ Enter("st_connected", MoreLines, Popped)
  /\ UNCHANGED clockVars

\* The payload stays in the queue, though its caller is told it failed.
ReceiveNotJoined ==
  /\ state = "st_send" /\ Got("NotJoined")
  /\ Respond("ERROR")
  /\ Enter("st_join", MoreLines, payloadQ)
  /\ UNCHANGED clockVars

------------------------------------------------------------------------------
(* Command and PayloadReady mean something to st_connected only *)

Asked == eventQ # <<>> /\ Head(eventQ) \in {"Command", "PayloadReady"}

\* Mutant: a payload is sent without setting the port.
StartCommandPortless ==
  /\ Asked /\ state = "st_connected"
  /\ Enter(IF Head(eventQ) = "Command" THEN "st_get_payload_len" ELSE "st_send",
           <<>>, payloadQ)
  /\ NoResponse
  /\ UNCHANGED clockVars

StartCommand ==
  /\ Asked /\ state = "st_connected"
  /\ Enter(IF Head(eventQ) = "Command" THEN "st_get_payload_len" ELSE "st_port",
           <<>>, payloadQ)
  /\ NoResponse
  /\ UNCHANGED clockVars

IgnoreCommand ==
  /\ Asked /\ state # "st_connected"
  /\ Stay(<<>>)
  /\ NoResponse
  /\ UNCHANGED <<timer, count, buf, modemVars, clockVars>>

HandleEvent ==
  \/ TickInit \/ TickSetup \/ TickGetPayloadLen \/ TickJoin \/ TickClockSync
  \/ TickUnsent \/ TickAwaitAck \/ TickResend \/ TickGiveUp \/ TickConnected
  \/ ReceiveNothing \/ ReceiveOther \/ ReceiveAnswer \/ ReceiveLen \/ ReceiveDtr
  \/ ReceiveDone \/ ReceiveRtc \/ ReceiveBadRtc \/ ReceiveAck
  \/ ReceiveLengthError \/ ReceiveNotJoined \/ StartCommand \/ IgnoreCommand

------------------------------------------------------------------------------
(* The timer, the radio module and the shell *)

\* A deadline that is due is met before the next second begins.
Due == \/ call = "lenWait"  /\ waited >= LenWait
       \/ call = "respWait" /\ waited >= SendWait

\* tick_cb, once a second.  By then the threads that can run have run: lora_sm
\* has handled the last tick and all events but one that has just come in, and no
\* call is halfway.  A healthy module has answered.
TimerTick ==
  /\ healthy => cmd = Nothing /\ op = NoOp
  /\ ~Due /\ call \notin {"lenPost", "putEvent", "respReset"}
  /\ Len(eventQ) <= 1 /\ ~Tick
  /\ Post("Tick")
  /\ waited' = IF call \in {"lenWait", "respWait"} THEN waited + 1 ELSE waited
  /\ UNCHANGED <<modemVars, smiVars, payloadQ, lenReady, clockVars, call, cur>>

\* on_rx: whatever the module prints raises a Receive event.
OnRx ==
  /\ Post("Receive")
  /\ UNCHANGED <<smiVars, payloadQ, lenReady, clockVars, clientVars>>

\* MaxLines bounds the lines not read.  A healthy module needs no bound: it is
\* slower than lora_sm, which has read one answer before the next is printed.
MayPrint == IF healthy THEN eventQ = <<>> ELSE Len(Pending) < MaxLines

ModemAnswers ==
  /\ MayPrint
  /\ Answer
  /\ OnRx

ModemCompletes ==
  /\ MayPrint
  /\ JoinEnds \/ UplinkAcked \/ UplinkUnanswered \/ UplinkRefused
  /\ OnRx

ModemSilent ==
  /\ Mute \/ ModuleResets
  /\ UNCHANGED <<smiVars, eventVars, payloadQ, lenReady, clockVars, clientVars>>

\* raw_write: the operator asks the module something else.  The shell has the
\* lowest priority, so it runs when lora_sm has no event left.
ShellWrite ==
  /\ Shell /\ ~healthy /\ eventQ = <<>> /\ Len(pipe) < MaxLines
  /\ Hear(Query("OTHER"))
  /\ UNCHANGED <<pipe, smiVars, eventVars, payloadQ, lenReady, clockVars, clientVars>>

\* raw_read: the operator reads what lora_sm has left in the pipe, and waits for
\* an event first and whenever there was something.
ShellWaits ==
  /\ Shell /\ ~healthy /\ eventQ = <<>> /\ reader = "no"
  /\ reader' = "waits"
  /\ UNCHANGED <<modemVars, smiVars, eventQ, payloadQ, lenReady, clockVars, clientVars>>

\* An event came, or the second it waits was over; it stops when the text is full.
ShellReads ==
  /\ eventQ = <<>> /\ reader # "no"
  /\ pipe' = <<>>
  /\ reader' \in IF pipe = <<>> THEN {"no"} ELSE {"waits", "no"}
  /\ UNCHANGED <<cmd, op, mport, air, healthy, smiVars, eventQ, payloadQ, lenReady, clockVars, clientVars>>

------------------------------------------------------------------------------
(* The calls of cloud_send *)

firmwareVars == <<modemVars, smiVars, clockVars>>

\* get_max_payload_len: clear the bit, ...
CallMaxPayload ==
  /\ call \in Returned
  /\ lenReady' = FALSE
  /\ call' = "lenPost"
  /\ UNCHANGED <<firmwareVars, eventVars, payloadQ, cur, waited>>

\* ... post the command, and wait unless the bit is up already.
PostCommand ==
  /\ call = "lenPost"
  /\ Post("Command")
  /\ call' = IF lenReady THEN "lenOk" ELSE "lenWait"
  /\ UNCHANGED <<firmwareVars, payloadQ, lenReady, cur, waited>>

LenTimeout ==
  /\ call = "lenWait" /\ waited >= LenWait
  /\ call' = "lenFail" /\ waited' = 0
  /\ UNCHANGED <<firmwareVars, eventVars, payloadQ, lenReady, cur>>

\* Mutant: the payload overtakes those that wait.
QueuePayloadFirst(p) ==
  /\ call \in Returned
  /\ cur' = p
  /\ \/ Len(payloadQ) < PayloadCap
        /\ payloadQ' = <<p>> \o payloadQ /\ call' = "putEvent"
     \/ UNCHANGED payloadQ /\ call' = "err"
  /\ UNCHANGED <<firmwareVars, eventVars, lenReady, waited>>

\* queue_payload: the payload is queued, or the call fails at once because it is
\* too long or the queue is full.
QueuePayload(p) ==
  /\ call \in Returned
  /\ cur' = p
  /\ \/ Len(payloadQ) < PayloadCap
        /\ payloadQ' = Append(payloadQ, p) /\ call' = "putEvent"
     \/ UNCHANGED payloadQ /\ call' = "err"
  /\ UNCHANGED <<firmwareVars, eventVars, lenReady, waited>>

SendNew(port) ==
  /\ cur.batch < MaxBatch
  /\ QueuePayload([batch |-> cur.batch + 1, port |-> port])

\* The caller tries a payload again that failed.
SendAgain ==
  /\ call \in {"err", "timeout"}
  /\ QueuePayload(cur)

PutEvent ==
  /\ call = "putEvent"
  /\ Post("PayloadReady")
  /\ call' = "respReset"
  /\ UNCHANGED <<firmwareVars, payloadQ, lenReady, cur, waited>>

\* wait_for_response: k_event_wait with reset wipes the bits before it waits.
ResetResponses ==
  /\ call = "respReset"
  /\ lenReady' = FALSE
  /\ call' = "respWait"
  /\ UNCHANGED <<firmwareVars, eventVars, payloadQ, cur, waited>>

RespTimeout ==
  /\ call = "respWait" /\ waited >= SendWait
  /\ call' = "timeout" /\ waited' = 0
  /\ UNCHANGED <<firmwareVars, eventVars, payloadQ, lenReady, cur>>

Deadline == LenTimeout \/ RespTimeout
CallStep == PostCommand \/ PutEvent \/ ResetResponses

\* Mutant: cloud_send does not wait for the clock event.
CallBeginsEarly == CallMaxPayload \/ (\E port \in Ports : SendNew(port)) \/ SendAgain

\* cloud_send makes no call before the clock event.
CallBegins == clockSet /\ (CallMaxPayload \/ (\E port \in Ports : SendNew(port)) \/ SendAgain)

Environment ==
  TimerTick \/ ModemAnswers \/ ModemCompletes \/ ModemSilent \/ ShellWrite \/ ShellWaits \/ ShellReads

Next == HandleEvent \/ Environment \/ CallBegins \/ CallStep \/ Deadline

Spec == Init /\ [][Next]_vars

(***************************************************************************)
(* Fairness for the recovery from any trouble.  The threads of equal       *)
(* priority run when they can, the timer and the deadlines of the kernel   *)
(* expire, and a healthy module answers and ends what it does.  cloud_send *)
(* need not call.                                                          *)
(***************************************************************************)
Recovery ==
  /\ Heal
  /\ UNCHANGED <<smiVars, eventVars, payloadQ, lenReady, clockVars, clientVars>>

FairSpec ==
  /\ Init
  /\ [][Next \/ Recovery]_vars
  /\ WF_vars(HandleEvent) /\ WF_vars(TimerTick)
  /\ WF_vars(ModemAnswers) /\ WF_vars(ModemCompletes)
  /\ WF_vars(ShellReads) /\ WF_vars(CallStep) /\ WF_vars(Deadline)

------------------------------------------------------------------------------
(* Properties *)

LineSet == {Pending[i] : i \in 1..Len(Pending)}

MachineTypeOK ==
  /\ state \in States /\ timer \in Nat /\ count \in Nat
  /\ buf \in Seq(Lines)
  /\ eventQ \in Seq(EventTypes) /\ Len(eventQ) <= EventCap
  /\ reader \in {"no", "waits", "reads"}
  /\ payloadQ \in Seq(Payload) /\ Len(payloadQ) <= PayloadCap

ClientTypeOK ==
  /\ lenReady \in BOOLEAN /\ clockSet \in BOOLEAN /\ timeSet \in BOOLEAN
  /\ call \in Calls /\ cur \in Payload \cup {NoPayload} /\ waited \in Nat
  /\ call \in SendCalls => cur \in Payload

\* The type invariant.
TypeOK == ModemTypeOK /\ MachineTypeOK /\ ClientTypeOK

\* No payload goes out on a port that is not its own: the port command of
\* st_port has taken effect by the time st_send writes the payload.
OnItsPort == op.name = "DATA" => op.port = op.pl.port

\* An acknowledgement of a payload that st_send will read is about the payload
\* at the head of the queue, the one st_send is going to remove.
AckForHead ==
  state = "st_send" =>
    \A l \in LineSet : l.txt = "Ack" /\ l.of # NoPayload =>
      payloadQ # <<>> /\ l.of = Head(payloadQ)

\* The network server receives the batches in the order they were handed over:
\* a batch that was given up on never arrives after a later one.
DeliveredInOrder == [][air' >= air]_vars

(***************************************************************************)
(* The inductive invariant behind the three properties above.              *)
(***************************************************************************)
Printed(t) == \E l \in LineSet : l.txt = t

\* A port command is answered, or dropped, before st_init is left.
PortCommandInTime ==
  cmd.name = "PORT" => \/ state = "st_port" /\ payloadQ # <<>> /\ cmd.pl = Head(payloadQ)
                       \/ state = "st_init" /\ ~Printed("AtOk")

PortAnswered ==
  state = "st_port" /\ Printed("Port") =>
    cmd.name # "PORT" /\ payloadQ # <<>> /\ mport = Head(payloadQ).port

SendReady == state = "st_send" => payloadQ # <<>> /\ mport = Head(payloadQ).port

\* A payload on the air is the head of the queue, or one given up in st_join.
InFlight ==
  op.name = "DATA" =>
    \/ state = "st_send" /\ op.pl = Head(payloadQ) /\ count > 0
    \/ state = "st_join" /\ ~Printed("Joined")

ResultEndsFlight ==
  state = "st_send" /\ (\E t \in Matches["st_send"] : Printed(t)) => op.name # "DATA"

\* The batches rise along their way: the one delivered last, the one on the air,
\* the queue, the one handed over last.
BatchesRise ==
  /\ op.name = "DATA" => air <= op.pl.batch /\ op.pl.batch <= cur.batch
  /\ \A i \in 1..Len(payloadQ) :
       /\ air <= payloadQ[i].batch /\ payloadQ[i].batch <= cur.batch
       /\ op.name = "DATA" => op.pl.batch <= payloadQ[i].batch
       /\ \A j \in 1..i : payloadQ[j].batch <= payloadQ[i].batch
  /\ air <= cur.batch

IInv ==
  /\ TypeOK
  /\ PortCommandInTime /\ PortAnswered /\ SendReady /\ OnItsPort
  /\ InFlight /\ ResultEndsFlight /\ AckForHead
  /\ BatchesRise

------------------------------------------------------------------------------
\* "wait for ack or for error" (lora_transport.cpp:30): a call that reports
\* success has seen its own batch reach the network server.
OkMeansDelivered == [][call = "respWait" /\ call' = "ok" => air' >= cur.batch]_vars

\* Whatever went wrong before, once the module is healthy and cloud_send makes no
\* more calls, the firmware finds its way back to st_connected and every payload
\* still queued leaves the queue, unless a raw_read took the event that announces
\* one to st_connected.
Recovers ==
  [](reader = "no") /\ <>[](healthy /\ call \in Returned) => <>[](payloadQ = <<>> /\ state = "st_connected")

\* With raw_read, a payload may stay behind; the next call of max_payload after
\* the operator is done gets it sent.
NextCallFlushes ==
  /\ <>(healthy /\ reader = "no" /\ call = "lenPost")
  /\ <>[](healthy /\ call \in Returned)
  => <>[](payloadQ = <<>> /\ state = "st_connected")

------------------------------------------------------------------------------
(***************************************************************************)
(* LoRaTransport over this state machine is an UplinkService.              *)
(***************************************************************************)
CallOfService ==
  CASE call \in {"lenPost", "lenWait"}                -> "len"
    [] call \in {"putEvent", "respReset", "respWait"} -> "send"
    [] OTHER                                          -> call

Service == INSTANCE UplinkService WITH call <- CallOfService, batch <- cur.batch

ImplementsService == Service!ServiceSpec
==============================================================================
