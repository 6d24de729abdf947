------------------------------ MODULE LoRaModem ------------------------------
(***************************************************************************)
(* The LoRa-E5 radio module at the other end of the serial line.  It is    *)
(* not part of the repository: what it may do is read off the commands     *)
(* lora_statemachine.cpp writes and the answers it waits for.  It answers  *)
(* a short command (AT, AT+PORT=2, ...) with one line, or not at all.  It  *)
(* works on a long one (AT+JOIN, AT+CMSGHEX) for as long as it likes and   *)
(* refuses another one meanwhile.  A command it is asleep or busy for is   *)
(* lost; so may any answer be.                                             *)
(***************************************************************************)
EXTENDS Naturals, Sequences

CONSTANTS
  Ports,      \* LoRaWAN ports a payload may be queued for (DATA_MSG_PORT, LOG_MSG_PORT)
  RtcReplies  \* what an AT+RTC=UTCMS may show: "RtcGood", "RtcStale", "RtcBad"

ASSUME PortsAssumption == Ports \subseteq Nat \ {0} /\ Ports # {}
ASSUME RtcAssumption   == RtcReplies \subseteq {"RtcGood", "RtcStale", "RtcBad"}

VARIABLES
  cmd,    \* the short command not answered yet
  op,     \* the long command in progress, with the port it was started on
  mport,  \* the port the module is set to
  air,    \* the batch the network server received last
  pipe,   \* the lines it printed that the firmware has not read
  healthy \* from now on nothing goes wrong: no command or answer is lost, joins
          \* and uplinks succeed, answers come before the next tick, and the
          \* operator leaves the module alone

modemVars == <<cmd, op, mport, air, pipe, healthy>>

\* A payload is known by the number of its batch and by its port.
Payload   == [batch : Nat \ {0}, port : Ports]
NoPayload == [batch |-> 0, port |-> 0]

ShortNames == {"AT", "MODE", "CLASS", "DR", "PORT", "DTR", "RTC", "LEN", "OTHER"}
LongNames  == {"JOIN", "DUMMY", "DATA"}

Command(n, p) == [name |-> n, pl |-> p]
Query(n)      == Command(n, NoPayload)
Nothing       == Query("none")

Operation(n, p, q) == [name |-> n, pl |-> p, port |-> q]
NoOp               == Operation("none", NoPayload, 0)

LineTexts == {"AtOk", "Mode", "Class", "Dr", "Port", "Dtr", "RtcGood", "RtcStale", "RtcBad",
              "Len", "Other", "Joined", "JoinFailed", "Ack", "Done", "NotJoined",
              "LengthError"}

\* AT+PORT is about the payload it is written for, AT+CMSGHEX carries one.
Carriers   == {"PORT", "DATA"}
Commands   == [name : Carriers, pl : Payload]
              \cup [name : (ShortNames \cup LongNames \cup {"none"}) \ Carriers, pl : {NoPayload}]
Operations == [name : {"DATA"}, pl : Payload, port : Ports \cup {0}]
              \cup [name : {"JOIN", "DUMMY", "none"}, pl : {NoPayload}, port : Ports \cup {0}]
Lines      == [txt : LineTexts, of : Payload \cup {NoPayload}]

\* A line the module prints, and the payload it is about (if any).
Line(t, p)    == [txt |-> t, of |-> p]
Prints(reply) == pipe' = pipe \o reply

ModemInit ==
  /\ cmd = Nothing
  /\ op = NoOp
  /\ mport \in Ports \cup {0}
  /\ air = 0
  /\ pipe = <<>>
  /\ healthy = FALSE

\* The module takes a short command when it has answered the last one, and a
\* long one when none is in progress.
Takes(c) == \/ c.name \in ShortNames /\ cmd = Nothing
            \/ c.name \in LongNames  /\ op = NoOp

(***************************************************************************)
(* c is written to the serial line: it is lost, or it waits for its        *)
(* answer, or the operation it asks for starts on the port set now.  What  *)
(* becomes of pipe is up to the writer, which may flush it first.          *)
(***************************************************************************)
Hear(c) ==
  /\ \/ ~ (healthy /\ Takes(c))
        /\ UNCHANGED <<cmd, op>>
     \/ c.name \in ShortNames /\ Takes(c)
        /\ cmd' = c
        /\ UNCHANGED op
     \/ c.name \in LongNames /\ Takes(c)
        /\ op' = Operation(c.name, c.pl, mport)
        /\ UNCHANGED cmd
  /\ UNCHANGED <<mport, air, healthy>>

\* The texts a short command may be answered with.
AnswersTo(c) ==
  CASE c.name = "AT"    -> {"AtOk"}
    [] c.name = "MODE"  -> {"Mode"}
    [] c.name = "CLASS" -> {"Class"}
    [] c.name = "DR"    -> {"Dr"}
    [] c.name = "PORT"  -> {"Port"}
    [] c.name = "DTR"   -> {"Dtr"}
    [] c.name = "RTC"   -> RtcReplies
    [] c.name = "LEN"   -> {"Len"}
    [] OTHER            -> {"Other"}

\* The short command is answered with one line; a port command sets the port.
Answer ==
  /\ cmd # Nothing
  /\ \E t \in AnswersTo(cmd) : (healthy => t \notin {"RtcStale", "RtcBad"}) /\ Prints(<<Line(t, NoPayload)>>)
  /\ cmd' = Nothing
  /\ mport' = IF cmd.name = "PORT" THEN cmd.pl.port ELSE mport
  /\ UNCHANGED <<op, air, healthy>>

\* The answer gets lost, or the command was dropped after all.
Mute ==
  /\ ~healthy /\ cmd # Nothing
  /\ cmd' = Nothing
  /\ mport' \in IF cmd.name = "PORT" THEN {mport, cmd.pl.port} ELSE {mport}
  /\ UNCHANGED <<op, air, pipe, healthy>>

Ends == op' = NoOp /\ UNCHANGED <<cmd, mport, healthy>>

\* A join succeeds or fails.
JoinEnds ==
  /\ op.name = "JOIN"
  /\ \E t \in {"Joined"} \cup (IF healthy THEN {} ELSE {"JoinFailed"}) : Prints(<<Line(t, NoPayload)>>)
  /\ Ends
  /\ UNCHANGED air

\* An uplink (the empty one of the clock synchronisation too) is acknowledged:
\* the network server has it.
UplinkAcked ==
  /\ op.name \in {"DUMMY", "DATA"}
  /\ Prints(<<Line("Ack", op.pl), Line("Done", NoPayload)>>)
  /\ air' = IF op.name = "DATA" THEN op.pl.batch ELSE air
  /\ Ends

\* No acknowledgement comes: the uplink or its acknowledgement was lost.
UplinkUnanswered ==
  /\ ~healthy
  /\ op.name \in {"DUMMY", "DATA"}
  /\ Prints(<<Line("Done", NoPayload)>>)
  /\ air' \in IF op.name = "DATA" THEN {air, op.pl.batch} ELSE {air}
  /\ Ends

\* The module refuses the uplink: it is not joined, or the data is too long.
UplinkRefused ==
  /\ ~healthy
  /\ op.name \in {"DUMMY", "DATA"}
  /\ \/ Prints(<<Line("NotJoined", NoPayload)>>)
     \/ op.name = "DATA" /\ Prints(<<Line("LengthError", op.pl)>>)
  /\ Ends
  /\ UNCHANGED air

\* The module resets: whatever it was doing is dropped without a word.
ModuleResets ==
  /\ ~healthy
  /\ op # NoOp
  /\ Ends
  /\ UNCHANGED <<air, pipe>>

\* The trouble is over for good.
Heal ==
  /\ ~healthy /\ healthy' = TRUE
  /\ UNCHANGED <<cmd, op, mport, air, pipe>>

\* The types of the module's variables.
ModemTypeOK ==
  /\ cmd \in Commands /\ cmd.name \notin LongNames
  /\ op \in Operations
  /\ mport \in Ports \cup {0}
  /\ air \in Nat
  /\ pipe \in Seq(Lines)
  /\ healthy \in BOOLEAN
==============================================================================
