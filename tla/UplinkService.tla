---------------------------- MODULE UplinkService ----------------------------
(***************************************************************************)
(* What LoRaTransport promises its caller, and no more: every call comes   *)
(* back, batches reach the network server in the order they were handed    *)
(* over, and a batch may still arrive long after its call has failed.  It  *)
(* does not promise that a call that succeeded is about the batch it was   *)
(* made for.  LoRaStateMachine implements this specification, CloudSender  *)
(* is written against it.                                                  *)
(***************************************************************************)
EXTENDS Naturals

VARIABLES
  call,      \* what the caller is doing, or what its last call returned
  batch,     \* the batch handed over last, 0 before the first
  air,       \* the batch the network server received last
  clockSet,  \* the clock event was posted
  timeSet    \* the system clock was set

serviceVars == <<call, batch, air, clockSet, timeSet>>

LenResults  == {"lenOk", "lenFail"}
SendResults == {"ok", "err", "timeout"}
Returned    == {"idle"} \cup LenResults \cup SendResults

ServiceTypeOK ==
  /\ call \in Returned \cup {"len", "send"}
  /\ batch \in Nat /\ air \in Nat
  /\ clockSet \in BOOLEAN /\ timeSet \in BOOLEAN

ServiceInit ==
  /\ call = "idle" /\ batch = 0 /\ air = 0
  /\ clockSet = FALSE /\ timeSet = FALSE

\* The caller waits for the clock event before its first call.
MayCall == clockSet /\ call \in Returned

AskMaxPayload ==
  /\ MayCall
  /\ call' = "len"
  /\ UNCHANGED <<batch, air, clockSet, timeSet>>

\* The length comes at once, in time, or not at all.
MaxPayloadReturns ==
  /\ call = "len"
  /\ call' \in LenResults
  /\ UNCHANGED <<batch, air, clockSet, timeSet>>

\* Batch b is handed over; the call fails at once when the queue is full.
HandOver(b) ==
  /\ MayCall
  /\ batch' = b
  /\ call' \in {"send", "err"}
  /\ UNCHANGED <<air, clockSet, timeSet>>

HandOverNew   == HandOver(batch + 1)
HandOverAgain == call \in {"err", "timeout"} /\ HandOver(batch)

SendReturns ==
  /\ call = "send"
  /\ call' \in SendResults
  /\ UNCHANGED <<batch, air, clockSet, timeSet>>

\* A batch handed over some time ago reaches the network server.
Deliver ==
  /\ air' \in (air + 1)..batch
  /\ UNCHANGED <<call, batch, clockSet, timeSet>>

\* The clock event, with or without a time that could be set.
ClockEvent ==
  /\ clockSet' = TRUE
  /\ timeSet' \in {timeSet, TRUE}
  /\ UNCHANGED <<call, batch, air>>

\* The steps the service takes by itself.
ServiceStep == MaxPayloadReturns \/ SendReturns \/ Deliver \/ ClockEvent

ServiceNext == ServiceStep \/ AskMaxPayload \/ HandOverNew \/ HandOverAgain

ServiceSpec == ServiceInit /\ [][ServiceNext]_serviceVars
==============================================================================
