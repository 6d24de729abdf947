-------------------------------- MODULE Node ---------------------------------
(***************************************************************************)
(* The start of a node and the loop of main (src/src/main.cpp), with the   *)
(* events the threads wait for (app_events.cpp) and, in the build for 4G,  *)
(* the calls of main and cloud_send on the 4G transport.  What the build   *)
(* for LoRa does with its transport is LoRaStateMachine.                   *)
(***************************************************************************)
EXTENDS ModemTransport

CONSTANTS
  SendRetryCount,  \* SEND_RETRY_COUNT
  Cycle,           \* MEASURE_CYCLE_MINUTES, in units of time
  Minute,          \* units in a minute
  Early,           \* how much before the next slot main wakes up
  AdcTime,         \* most units adc_read takes
  MaxBatch         \* bound: batches handed over

ASSUME NodeAssumption ==
  /\ {SendRetryCount, Cycle, Minute, Early, MaxBatch} \subseteq Nat \ {0}
  /\ AdcTime \in Nat /\ AdcTime <= Early
  /\ Minute + Early < Cycle

VARIABLES
  build,    \* the transport chosen at compile time
  events,   \* HALT, CONTINUE and CLOCK of envisens_events_
  main,     \* where main is
  lora,     \* where the thread lora_sm is
  cloud,    \* where the thread cloud_send is
  timeSet,  \* the system clock was set
  (* cloud_send on the 4G transport *)
  call,     \* what it is doing, or what its last call returned
  attempt,  \* attempts at the batch so far
  result,   \* what send returned
  batch,    \* the batch handed over last
  air,      \* the batch the server received last
  sound,    \* the attempt began with everything in order
  (* the loop of main *)
  now,      \* time in the ten minute slot
  sleep,    \* how long main still sleeps
  took,     \* samples asked for in this slot
  whole     \* main saw the slot begin

startVars == <<build, events, main, lora, cloud, timeSet>>
sendVars  == <<call, attempt, result, batch, air, sound>>
loopVars  == <<now, sleep, took, whole>>
vars      == <<transportVars, startVars, sendVars, loopVars>>

\* The LoRa build goes to the prompt at once.
Init ==
  /\ TransportInit
  /\ build \in {"lora", "4g"} /\ events = {} /\ lora = "start" /\ cloud = "boot"
  /\ main = IF build = "4g" THEN "boot" ELSE "toPrompt"
  /\ timeSet = FALSE
  /\ call = "idle" /\ attempt = 0 /\ result = "ok" /\ batch = 0 /\ air = 0 /\ sound = FALSE
  /\ now \in 0..(Cycle - 1) /\ (build = "4g" => now = 0)
  /\ sleep = 0 /\ took = 0 /\ whole = FALSE

------------------------------------------------------------------------------
(* Events: a post wakes everyone who waits for it, whatever becomes of the  *)
(* bits afterwards.                                                         *)
Post(bits) ==
  /\ events' = events \cup bits
  /\ lora'  = IF lora = "boot" /\ "CONTINUE" \in bits THEN "runs" ELSE lora
  /\ cloud' = CASE cloud = "boot" /\ "CONTINUE" \in bits -> "booted"
                [] cloud = "clock" /\ "CLOCK" \in bits   -> "rest"
                [] OTHER                                 -> cloud

MainWakes(bits) ==
  main' = CASE main = "prompt" /\ "HALT" \in bits                   -> "stopping"
            [] main \in {"prompt", "halted"} /\ "CONTINUE" \in bits -> "go"
            [] main = "clock" /\ "CLOCK" \in bits                   -> "loop"
            [] OTHER                                                -> main

\* The shell commands stop and continue.  Bound: stop where something may come of it.
Stop ==
  /\ main \in {"boot", "toPrompt", "prompt"} /\ "HALT" \notin events
  /\ Post({"HALT"}) /\ MainWakes({"HALT"})
  /\ UNCHANGED <<transportVars, build, timeSet, sendVars, loopVars>>

Continue ==
  /\ "CONTINUE" \notin events
  /\ Post({"CONTINUE"}) /\ MainWakes({"CONTINUE"})
  /\ UNCHANGED <<transportVars, build, timeSet, sendVars, loopVars>>

------------------------------------------------------------------------------
(* main *)

Main(from, to) == main = from /\ main' = to

\* boot_setup fails at once when the UART cannot be set up.
BootSetup ==
  \/ Main("boot", "setup") /\ BeginBoot /\ UNCHANGED <<build, events, lora, cloud, timeSet>>
  \/ ~healthy /\ Main("boot", "pause") /\ UNCHANGED <<transportVars, build, events, lora, cloud, timeSet>>

\* SystemClock::set: the result is not looked at.
SetClock ==
  /\ place = "setClock"
  /\ Go("cpof")
  /\ \/ timeSet' = TRUE /\ Post({"CLOCK"}) /\ MainWakes({"CLOCK"})
     \/ ~healthy /\ UNCHANGED <<timeSet, events, lora, cloud, main>>
  /\ UNCHANGED <<uartVars, job, rc, tries, timeOk, full, chunk, heapVars, modemVars, build>>

BootSetupReturns ==
  /\ Main("setup", IF rc = "ok" THEN "toPrompt" ELSE "pause")
  /\ End
  /\ UNCHANGED <<build, events, lora, cloud, timeSet>>

\* The 30 s between two attempts.
BootAgain ==
  /\ Main("pause", "boot")
  /\ UNCHANGED <<transportVars, build, events, lora, cloud, timeSet>>

\* k_event_wait with reset wipes every bit before it waits.
Prompt ==
  /\ Main("toPrompt", "prompt")
  /\ events' = {}
  /\ UNCHANGED <<transportVars, build, lora, cloud, timeSet>>

PromptTimeout ==
  /\ Main("prompt", "go")
  /\ UNCHANGED <<transportVars, build, events, lora, cloud, timeSet>>

\* boot_wait
Halt ==
  /\ Main("stopping", IF "CONTINUE" \in events THEN "go" ELSE "halted")
  /\ UNCHANGED <<transportVars, build, events, lora, cloud, timeSet>>

\* Mutant: the others are not told.
BootContinueSilent ==
  /\ Main("go", "adc")
  /\ UNCHANGED <<transportVars, build, events, lora, cloud, timeSet>>

BootContinue ==
  /\ Main("go", "adc")
  /\ Post({"CONTINUE"})
  /\ UNCHANGED <<transportVars, build, timeSet>>

\* The set up of the ADC, without which main ends; clock_wait.
Adc ==
  /\ main = "adc"
  /\ main' \in {"ended", IF "CLOCK" \in events THEN "loop" ELSE "clock"}
  /\ UNCHANGED <<transportVars, build, events, lora, cloud, timeSet>>

Boot == /\ \/ BootSetup \/ SetClock \/ BootSetupReturns \/ BootAgain \/ Prompt \/ PromptTimeout
           \/ Halt \/ BootContinue \/ Adc
        /\ UNCHANGED <<sendVars, loopVars>>

\* Mutant: main does not wake up before the next slot.
LookLate ==
  /\ main = "loop" /\ sleep = 0
  /\ IF now < Minute
     THEN took' = took + 1 /\ \E d \in 0..AdcTime : sleep' = d + Cycle
     ELSE sleep' = 1 /\ UNCHANGED took
  /\ UNCHANGED <<transportVars, startVars, sendVars, now, whole>>

\* take_sample_now and adc_read in the first minute of a slot, and the long sleep;
\* else the short one.
Look ==
  /\ main = "loop" /\ sleep = 0
  /\ IF now < Minute
     THEN /\ took' = took + 1
          /\ \E d \in 0..AdcTime : sleep' = d + Cycle - Early
     ELSE sleep' = 1 /\ UNCHANGED took
  /\ UNCHANGED <<transportVars, startVars, sendVars, now, whole>>

Tick ==
  /\ main = "loop" /\ sleep > 0
  /\ now' = IF now + 1 = Cycle THEN 0 ELSE now + 1
  /\ sleep' = sleep - 1
  /\ IF now' = 0 THEN took' = 0 /\ whole' = TRUE ELSE UNCHANGED <<took, whole>>
  /\ UNCHANGED <<transportVars, startVars, sendVars>>

------------------------------------------------------------------------------
(* lora_sm, which either build starts: it sets up the same UART before it   *)
(* waits for the boot, and ends when that fails.                            *)
LoRaInit ==
  /\ lora = "start"
  /\ lora' \in {IF "CONTINUE" \in events THEN "runs" ELSE "boot", "gone"}
  /\ Detach
  /\ UNCHANGED <<callVars, heapVars, modemVars, build, events, main, cloud, timeSet, sendVars,
                 loopVars>>

\* In the LoRa build it gets the time in the end, long after main has come to the
\* prompt, and posts the event whether or not the clock could be set.
LoRaClock ==
  /\ build = "lora" /\ lora = "runs" /\ main # "toPrompt"
  /\ timeSet' \in {timeSet, TRUE}
  /\ Post({"CLOCK"}) /\ MainWakes({"CLOCK"})
  /\ UNCHANGED <<transportVars, build, sendVars, loopVars>>

LoRa == LoRaInit \/ LoRaClock

------------------------------------------------------------------------------
(* cloud_send *)

\* boot_wait has returned; clock_wait.
CloudBooted ==
  /\ cloud = "booted"
  /\ cloud' = IF "CLOCK" \in events THEN "rest" ELSE "clock"
  /\ UNCHANGED <<transportVars, build, events, main, lora, timeSet, sendVars, loopVars>>

Cloud(from, to) ==
  /\ build = "4g"
  /\ cloud = from /\ cloud' = to
  /\ UNCHANGED <<build, events, main, lora, timeSet, loopVars>>

\* Bound: main has gone as far as it gets before cloud_send, which the timer wakes
\* ten minutes after the clock was set, calls the transport.
MayCall == main = "clock"

\* Between two batches: the last was sent or given up.
IsDone == call # "len" /\ (call = "err" => attempt = SendRetryCount)

AskMaxPayload ==
  /\ Cloud("rest", "rest")
  /\ IsDone
  /\ call' = "len"
  /\ UNCHANGED <<transportVars, attempt, result, batch, air, sound>>

\* max_payload
MaxPayload ==
  /\ Cloud("rest", "rest")
  /\ call = "len"
  /\ call' = "lenOk"
  /\ UNCHANGED <<transportVars, attempt, result, batch, air, sound>>

Connect ==
  /\ Cloud("rest", "connecting")
  /\ BeginConnect
  /\ call' = "send"
  /\ sound' = (healthy /\ lora = "gone")
  /\ UNCHANGED <<result, air>>

\* A new batch, and the one that was not sent.
ConnectNew ==
  /\ Connect
  /\ MayCall /\ call = "lenOk" /\ batch < MaxBatch
  /\ batch' = batch + 1 /\ attempt' = 1

\* Mutant: the loop goes on when the batch was sent.
ConnectAgainSent ==
  /\ Connect
  /\ call \in {"ok", "err"} /\ attempt < SendRetryCount
  /\ attempt' = attempt + 1 /\ UNCHANGED batch

ConnectAgain ==
  /\ Connect
  /\ call = "err" /\ attempt < SendRetryCount
  /\ attempt' = attempt + 1 /\ UNCHANGED batch

ConnectReturns ==
  /\ IF rc = "ok" THEN Cloud("connecting", "connected") /\ UNCHANGED call
                  ELSE Cloud("connecting", "rest") /\ call' = "err"
  /\ End
  /\ UNCHANGED <<attempt, result, batch, air, sound>>

Send ==
  /\ Cloud("connected", "sending")
  /\ BeginSend
  /\ UNCHANGED sendVars

SendReturns ==
  /\ Cloud("sending", "sent")
  /\ End
  /\ result' = rc
  /\ UNCHANGED <<call, attempt, batch, air, sound>>

Disconnect ==
  /\ Cloud("sent", "disconnecting")
  /\ BeginDisconnect
  /\ UNCHANGED sendVars

DisconnectReturns ==
  /\ Cloud("disconnecting", "rest")
  /\ End
  /\ call' = result /\ result' = "ok"
  /\ UNCHANGED <<attempt, batch, air, sound>>

\* send_log without a connection (bound: one after the last batch).
SendLog ==
  /\ Cloud("rest", "rest")
  /\ call \in {"ok", "err"} /\ IsDone /\ batch <= MaxBatch
  /\ ~token
  /\ batch' = batch + 1 /\ call' = "err"
  /\ attempt' = SendRetryCount /\ sound' = FALSE
  /\ UNCHANGED <<transportVars, result, air>>

CloudSend == \/ CloudBooted \/ AskMaxPayload \/ MaxPayload \/ ConnectNew \/ ConnectAgain
             \/ ConnectReturns \/ Send \/ SendReturns \/ Disconnect \/ DisconnectReturns \/ SendLog

------------------------------------------------------------------------------
(* The transport at work, and its modem.  The server has the batch when the *)
(* modem has taken the last chunk of a request, unless the network lost it. *)
(* lora_sm has begun before boot_setup has slept its first 27 s.            *)
Delivers == taken < Chunks /\ taken' = Chunks

Transport ==
  /\ lora # "start"
  /\ Talk \/ Think
  /\ \/ Delivers /\ air' = batch
     \/ (Delivers => ~healthy) /\ UNCHANGED air
  /\ UNCHANGED <<startVars, call, attempt, result, batch, sound, loopVars>>

\* lora_sm writes to the same UART: the modem answers that too.
Modem ==
  /\ \/ ComesIn \/ Lost \/ Heal
     \/ (~healthy \/ lora = "runs") /\ Unasked
  /\ build = "4g"
  /\ UNCHANGED <<startVars, sendVars, loopVars>>

Next == Stop \/ Continue \/ Boot \/ Look \/ Tick \/ LoRa \/ CloudSend \/ Transport \/ Modem

Spec == Init /\ [][Next]_vars

(***************************************************************************)
(* Fairness: the threads run when they can (the commands of the user and   *)
(* what goes wrong have none), what is on its way comes in, and lora_sm    *)
(* gets the time of its network.                                           *)
(***************************************************************************)
ComesInNow == ComesIn /\ build = "4g" /\ UNCHANGED <<startVars, sendVars, loopVars>>

FairSpec ==
  /\ Spec
  /\ WF_vars(Boot) /\ WF_vars(LoRaInit) /\ WF_vars(LoRaClock) /\ WF_vars(CloudSend)
  /\ WF_vars(Transport) /\ WF_vars(ComesInNow)

------------------------------------------------------------------------------
(* Properties *)

TypeOK ==
  /\ TransportTypeOK
  /\ build \in {"lora", "4g"} /\ events \subseteq {"HALT", "CONTINUE", "CLOCK"}
  /\ main \in {"boot", "setup", "pause", "toPrompt", "prompt", "stopping", "halted", "go", "adc",
               "ended", "clock", "loop"}
  /\ lora \in {"start", "boot", "runs", "gone"}
  /\ cloud \in {"boot", "booted", "clock", "rest", "connecting", "connected", "sending", "sent",
                "disconnecting"}
  /\ timeSet \in BOOLEAN
  /\ call \in {"idle", "len", "lenOk", "send", "ok", "err"}
  /\ attempt \in 0..SendRetryCount /\ result \in {"ok", "err"}
  /\ batch \in 0..(MaxBatch + 1) /\ air \in Nat /\ sound \in BOOLEAN
  /\ now \in 0..(Cycle - 1) /\ sleep \in 0..(Cycle - Early + AdcTime)
  /\ took \in Nat /\ whole \in BOOLEAN

\* What has come in is never forgotten: while the pipe holds anything, read_line
\* will not wait for more (uart.cpp:96-99: the event is cleared before the read).
PendingIsSignalled == pipe # <<>> => rcvEvt \/ reading

\* Whatever fails, between two calls of the transport no block is held but the
\* token, and none was freed twice.
HeapBalanced ==
  job = "none" => heap = [b \in Blocks |-> IF b = "token" /\ token THEN 1 ELSE 0]

\* However it ends, boot_setup switches the modem off, and so do disconnect and a connect
\* that fails; between two calls the modem has power from connect to disconnect only.  The
\* exception: a boot_setup that cannot set up the UART (modem_transport.cpp:150-153) leaves
\* the modem as it was at power up, which is on.
OffAtRest ==
  build = "4g" /\ powered =>
    /\ place = "done" => job \in {"none", "send"} \/ (job = "connect" /\ rc = "ok")
    /\ job = "none" => main \in {"boot", "pause"} \/ cloud \in {"connected", "sent"}

\* An attempt that begins with everything in order, whatever the last one left in
\* the pipe, delivers its batch and says so.
SoundCallDelivers ==
  sound /\ cloud = "rest" /\ call \in {"ok", "err"} => call = "ok" /\ air = batch

\* main asks for a sample once in every slot it sees from the beginning, never twice:
\* the long sleep (main.cpp:187) neither skips the first minute of the next slot nor
\* ends within that of this one.
EachSlotOnce == took <= 1 /\ (whole /\ now >= Minute => took = 1)

\* The 4G transport is an UplinkService too: batches are delivered in order, though an
\* attempt that fails is made again.  What CloudSender shows of batches holds in both
\* builds; what it shows of logs that get through does not, as send_log fails without a
\* connection (modem_transport.cpp:228-231, 395) and none is made for it.
Service == INSTANCE UplinkService WITH clockSet <- timeSet

ImplementsService == Service!ServiceSpec

\* Unlike the LoRa transport it never delivers a batch twice, though what send()
\* returns (modem_transport.cpp:424-430) does not depend on the answers to the data.
DeliveredOnce == [][Transport /\ Delivers => air # batch]_vars

\* "Power on modem, sync system clock, power off ... Returns 0 on success"
\* (modem_transport.hpp:23-24), "parses string, calls clock_settime + CLOCK_SYNCED"
\* (modem_transport.cpp:178): with the clock set, main does not wait for it.
SyncedClockEndsWait == timeSet => main # "clock"

\* In the LoRa build main and cloud_send get past the boot and clock events, unless
\* the user stops the boot or the UART of the module fails.
StartsUp ==
  build = "lora" => <>(\/ main \in {"loop", "ended"} /\ cloud = "rest"
                      \/ main = "halted" \/ lora = "gone")

Quiet == healthy /\ lora # "runs"

\* Once the modem is healthy, and as long as lora_sm does not talk to it as well,
\* boot_setup succeeds in the end and every call returns.
GetsThrough == <>[]Quiet => <>(main \notin {"boot", "setup", "pause"}) /\ []<>(job = "none")
==============================================================================
