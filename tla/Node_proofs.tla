----------------------------- MODULE Node_proofs ------------------------------
(***************************************************************************)
(* Theorems about Node: the loop of main, the receive pipe, the memory and *)
(* the power of the 4G transport, and what it delivers, for every value of *)
(* the constants.                                                          *)
(***************************************************************************)
EXTENDS Node, TLAPS

------------------------------------------------------------------------------
(* The loop of main *)

\* Where main is in a slot: what it still sleeps ends before the first minute of the
\* next slot is over if it has asked for a sample, and within the first minute of this
\* one if it has not.
SlotInv ==
  /\ now \in 0..(Cycle - 1) /\ sleep \in Nat /\ took \in {0, 1} /\ whole \in BOOLEAN
  /\ main # "loop" => sleep = 0 /\ took = 0 /\ whole = FALSE
  /\ took = 1 => Minute <= now + sleep /\ now + sleep <= Cycle + Minute - 1
  /\ took = 0 /\ whole => now + sleep <= Minute - 1
  /\ took = 0 /\ ~whole => sleep <= 1 /\ (now < Minute => sleep = 0)

LEMMA LoopSteps ==
  ASSUME [Next]_vars, ~Look, ~Tick
  PROVE  UNCHANGED loopVars /\ (main = "loop" => main' = "loop")
<1>1. CASE Stop \/ Continue
  BY <1>1 DEF Stop, Continue, MainWakes
<1>2. CASE Boot
  <2>1. UNCHANGED loopVars
    BY <1>2 DEF Boot
  <2>2. CASE SetClock
    BY <2>1, <2>2 DEF SetClock, MainWakes
  <2>3. CASE ~SetClock
    BY <1>2, <2>1, <2>3
    DEF Boot, BootSetup, BootSetupReturns, BootAgain, Prompt, PromptTimeout, Halt, BootContinue, Adc, Main
  <2>4. QED
    BY <2>2, <2>3
<1>3. CASE LoRa
  BY <1>3 DEF LoRa, LoRaInit, LoRaClock, MainWakes
<1>4. CASE CloudSend
  BY <1>4 DEF CloudSend, CloudBooted, Cloud, AskMaxPayload, MaxPayload, Connect, ConnectNew, ConnectAgain,
              ConnectReturns, Send, SendReturns, Disconnect, DisconnectReturns, SendLog
<1>5. CASE Transport \/ Modem
  BY <1>5 DEF Transport, Modem, startVars
<1>6. CASE UNCHANGED vars
  BY <1>6 DEF vars, startVars
<1>7. QED
  BY <1>1, <1>2, <1>3, <1>4, <1>5, <1>6 DEF Next

LEMMA LookStep ==
  ASSUME SlotInv, Look
  PROVE  SlotInv'
<1>1. main = "loop" /\ main' = "loop" /\ sleep = 0 /\ now' = now /\ whole' = whole
  BY DEF Look, startVars
<1>2. CASE now < Minute
  <2>1. PICK d \in 0..AdcTime : sleep' = d + Cycle - Early
    BY <1>2 DEF Look
  <2>2. took = 0 /\ took' = 1
    BY <1>1, <1>2, NodeAssumption DEF Look, SlotInv
  <2>3. sleep' \in Nat /\ Minute <= now + sleep' /\ now + sleep' <= Cycle + Minute - 1
    BY <1>1, <1>2, <2>1, NodeAssumption DEF SlotInv
  <2>4. QED
    BY <1>1, <2>2, <2>3 DEF SlotInv
<1>3. CASE ~(now < Minute)
  <2>1. sleep' = 1 /\ took' = took
    BY <1>3 DEF Look
  <2>2. took = 1 => Minute <= now + 1 /\ now + 1 <= Cycle + Minute - 1
    BY <1>3, NodeAssumption DEF SlotInv
  <2>3. ~(took = 0 /\ whole)
    BY <1>1, <1>3, NodeAssumption DEF SlotInv
  <2>4. QED
    BY <1>1, <1>3, <2>1, <2>2, <2>3 DEF SlotInv
<1>4. QED
  BY <1>2, <1>3

LEMMA TickStep ==
  ASSUME SlotInv, Tick
  PROVE  SlotInv'
<1>1. main = "loop" /\ main' = "loop" /\ sleep > 0 /\ sleep' = sleep - 1
  BY DEF Tick, startVars
<1>2. sleep \in Nat /\ now \in 0..(Cycle - 1)
  BY DEF SlotInv
<1>3. CASE now + 1 = Cycle
  <2>1. now' = 0 /\ took' = 0 /\ whole' = TRUE
    BY <1>3 DEF Tick
  <2>2. sleep <= Minute
    BY <1>1, <1>2, <1>3, NodeAssumption DEF SlotInv
  <2>3. QED
    BY <1>1, <1>2, <2>1, <2>2, NodeAssumption DEF SlotInv
<1>4. CASE now + 1 # Cycle
  <2>1. now' = now + 1 /\ took' = took /\ whole' = whole
    BY <1>2, <1>4 DEF Tick
  <2>2. now' \in 0..(Cycle - 1) /\ sleep' \in Nat /\ now' + sleep' = now + sleep
    BY <1>1, <1>2, <1>4, <2>1, NodeAssumption
  <2>3. QED
    BY <1>1, <1>2, <2>1, <2>2 DEF SlotInv
<1>5. QED
  BY <1>3, <1>4

LEMMA SlotInit ==
  ASSUME Init
  PROVE  SlotInv
<1>1. now \in 0..(Cycle - 1) /\ sleep = 0 /\ took = 0 /\ whole = FALSE /\ ~whole
  BY DEF Init
<1>2. whole \in BOOLEAN
  BY <1>1
<1>3. took = 0 /\ took # 1 /\ took \in {0, 1} /\ sleep \in Nat /\ sleep <= 1
  BY <1>1
<1>4. QED
  BY <1>1, <1>2, <1>3 DEF SlotInv

LEMMA SlotNext ==
  ASSUME SlotInv, [Next]_vars
  PROVE  SlotInv'
<1>1. CASE ~Look /\ ~Tick
  BY <1>1, LoopSteps DEF SlotInv, loopVars
<1>2. QED
  BY <1>1, LookStep, TickStep

\* The long sleep of main (main.cpp:187) neither skips a slot nor ends in the minute it
\* began in, whatever adc_read takes up to the 5 s it wakes up early.
THEOREM OneSampleASlot == Spec => []EachSlotOnce
<1>1. Init => SlotInv
  BY SlotInit
<1>2. SlotInv /\ [Next]_vars => SlotInv'
  BY SlotNext
<1>3. SlotInv => EachSlotOnce
  BY NodeAssumption DEF SlotInv, EachSlotOnce
<1>4. QED
  BY <1>1, <1>2, <1>3, PTL DEF Spec

------------------------------------------------------------------------------
(* The receive pipe *)

LEMMA UartSteps ==
  ASSUME [Next]_vars
  PROVE  \/ UNCHANGED uartVars
         \/ UartSetup \/ Detach \/ ClearRcvEvt \/ ReadPart \/ ReadLine \/ ReadTimeout
         \/ coming # <<>> /\ \E p \in {Head(coming), [Head(coming) EXCEPT !.nl = FALSE]} : OnRx(p)
<1>1. CASE Stop \/ Continue \/ Look \/ Tick
  BY <1>1 DEF Stop, Continue, Look, Tick, transportVars
<1>2. CASE Boot
  BY <1>2 DEF Boot, BootSetup, BeginBoot, SetClock, BootSetupReturns, End, BootAgain, Prompt, PromptTimeout,
              Halt, BootContinue, Adc, transportVars
<1>3. CASE LoRa
  BY <1>3 DEF LoRa, LoRaInit, LoRaClock, transportVars
<1>4. CASE CloudSend
  BY <1>4 DEF CloudSend, CloudBooted, AskMaxPayload, MaxPayload, Connect, ConnectNew, ConnectAgain,
              ConnectReturns, Send, SendReturns, Disconnect, DisconnectReturns, SendLog, BeginConnect,
              BeginSend, BeginDisconnect, End, transportVars
<1>5. CASE Talk
  BY <1>5 DEF Talk, Write, Notice, GetPart, AtLine, AtTimeout, TimeLine, TimeTimeout, TokenLine,
              TokenTimeout, Expired
<1>6. CASE Think
  BY <1>6 DEF Think, Works, InitFailed, InitDone, Jwt, Payload, Sign, Assertion, StartFailed, TooLong,
              Posted, PostFailed, Buffer, ReadFailed, Parse, ReadToken, Fetched, Request, Form, OpenFailed,
              ChunkDone, Sent, PowerOff
<1>7. CASE Modem
  BY <1>7 DEF Modem, ComesIn, Lost, Heal, Unasked
<1>8. CASE UNCHANGED vars
  BY <1>8 DEF vars, transportVars
<1>9. QED
  BY <1>1, <1>2, <1>3, <1>4, <1>5, <1>6, <1>7, <1>8 DEF Next, Transport

LEMMA SignalKept ==
  ASSUME PendingIsSignalled, [Next]_vars
  PROVE  PendingIsSignalled'
BY UartSteps
DEF PendingIsSignalled, uartVars, UartSetup, Detach, ClearRcvEvt, ReadPart, ReadLine, ReadTimeout, OnRx

\* Nothing that has come in is forgotten (uart.cpp:96-99), whatever the interrupt, the
\* two UART objects on the device and the timeouts do.
THEOREM NothingIsForgotten == Spec => []PendingIsSignalled
<1>1. Init => PendingIsSignalled
  BY DEF Init, TransportInit, UartInit, PendingIsSignalled
<1>2. PendingIsSignalled /\ [Next]_vars => PendingIsSignalled'
  BY SignalKept
<1>3. QED
  BY <1>1, <1>2, PTL DEF Spec

------------------------------------------------------------------------------
(* A call of the transport, and what is true of it at each of its places *)

Busy == {"connecting", "connected", "sending", "sent", "disconnecting"}

BootPlaces == {"at", "cpinAsk", "cpin", "initFailed", "initDone", "cclk", "setClock", "cpof", "powerOff",
               "done"}

\* Places of connect at which there is no token.
NoToken == {"at", "cpinAsk", "cpin", "initFailed", "initDone", "jwt", "payload", "sign", "assertion",
            "httpInit", "startFailed", "url", "content", "data", "body", "action", "posted",
            "postFailed", "cpof", "powerOff"}

ConnectPlaces == NoToken \cup {"buffer", "readAsk", "httpRead", "collect", "readFailed", "parse",
                               "readToken", "httpTerm", "fetched", "done"}

\* Places of send at which nothing has been delivered.
EarlyPlaces == {"request", "form", "netAsk", "netOpen", "sslVersion", "authMode", "cchSet", "cchStart",
          "cchSsl", "cchOpen", "cchOpenAsk", "openFailed", "cchSend"}

SendPlaces == EarlyPlaces \cup {"cchData", "chunkDone", "cchClose", "cchStop", "netClose", "sent", "done"}

OffPlaces == {"cpof", "powerOff", "done"}

Requesting == SendPlaces \ {"request", "form", "done"}

\* The blocks held at a place, but for the token.
Held(p) ==
  CASE p \in {"payload", "assertion"} -> {"jwt"}
    [] p = "sign"                     -> {"jwt", "payload"}
    [] p \in {"httpInit", "startFailed", "url", "content", "data", "body", "action", "posted",
              "postFailed"}           -> {"body"}
    [] p \in {"readAsk", "httpRead", "collect", "readFailed", "parse"} -> {"full"}
    [] p = "readToken"                -> {"json"}
    [] p = "form"                     -> {"encoded", "body"}
    [] p \in Requesting          -> {"encoded"}
    [] OTHER                          -> {}

Counts(S) == [b \in Blocks |-> IF b \in S THEN 1 ELSE 0]

TokenBlock == IF token THEN {"token"} ELSE {}

Roles ==
  /\ job \in Jobs \cup {"none"}
  /\ job = "boot" <=> main = "setup"
  /\ job = "connect" <=> cloud = "connecting"
  /\ job = "send" <=> cloud = "sending"
  /\ job = "disconnect" <=> cloud = "disconnecting"

Calls ==
  /\ call \in {"idle", "len", "lenOk", "send", "ok", "err"}
  /\ rc \in {"ok", "err"} /\ result \in {"ok", "err"}
  /\ cloud \in Busy <=> call = "send"
  /\ cloud \in {"boot", "booted", "clock"} => call = "idle"
  /\ batch \in Nat /\ air \in Nat /\ attempt \in Nat

\* In the build for 4G nobody gets past the clock event before the clock is set.
ClockInv ==
  /\ timeSet \in BOOLEAN
  /\ build = "4g" /\ ("CLOCK" \in events \/ cloud \in Busy \cup {"rest"}) => timeSet

PlaceInv ==
  /\ job = "none" => place = "done"
  /\ job = "boot" => place \in BootPlaces
  /\ job = "connect" => place \in ConnectPlaces
  /\ job = "send" => place \in SendPlaces
  /\ job = "disconnect" => place \in OffPlaces

TokenInv ==
  /\ token \in BOOLEAN
  /\ cloud \notin Busy \/ job = "disconnect" => ~token
  /\ job = "connect" /\ (place \in NoToken \/ (place = "done" /\ rc = "err")) => ~token

HeapInv == heap = Counts(Held(place) \cup TokenBlock)

\* Between two calls.
RestInv ==
  build = "4g" /\ job = "none" /\ powered => main \in {"boot", "pause"} \/ cloud \in {"connected", "sent"}

PowerInv ==
  /\ powered \in BOOLEAN
  /\ place = "done" /\ job \in {"boot", "disconnect"} => ~powered
  /\ place = "done" /\ job = "connect" /\ rc = "err" => ~powered
  /\ RestInv

\* The chunks of a request and those the modem took.
ChunkInv ==
  /\ chunk \in 0..(Chunks - 1) /\ taken \in Nat
  /\ place \notin {"cchSend", "cchData", "chunkDone"} => chunk = 0
  /\ place = "cchOpenAsk" \/ (place = "cchOpen" /\ written) => taken = 0
  /\ place = "cchSend" \/ (place = "cchData" /\ ~written) => taken <= chunk
  /\ place \in {"cchData", "chunkDone"} => taken <= chunk + 1
  /\ job = "send" /\ place # "done" => rc = "ok"

\* The batch has not been delivered.
Undelivered ==
  \/ cloud \in {"connecting", "connected"}
  \/ /\ cloud = "sending"
     /\ \/ place \in EarlyPlaces \/ rc = "err"
        \/ place = "cchData" /\ (~written \/ chunk + 1 < Chunks)
        \/ place = "chunkDone" /\ chunk + 1 < Chunks
  \/ cloud \in {"sent", "disconnecting"} /\ result = "err"
  \/ cloud = "rest" /\ call = "err" /\ attempt < SendRetryCount

AirInv == air <= batch /\ (Undelivered => air # batch)

CallInv == Roles /\ Calls /\ ClockInv /\ PlaceInv /\ TokenInv /\ PowerInv /\ ChunkInv /\ AirInv

LEMMA HeldFacts ==
  /\ \A p \in {"at", "cpinAsk", "cpin", "initFailed", "initDone", "cclk", "setClock", "cpof", "powerOff",
               "done", "jwt", "buffer", "httpTerm", "fetched", "request"} : Held(p) = {}
  /\ Held("payload") = {"jwt"} /\ Held("assertion") = {"jwt"} /\ Held("sign") = {"jwt", "payload"}
  /\ \A p \in {"httpInit", "startFailed", "url", "content", "data", "body", "action", "posted",
               "postFailed"} : Held(p) = {"body"}
  /\ \A p \in {"readAsk", "httpRead", "collect", "readFailed", "parse"} : Held(p) = {"full"}
  /\ Held("readToken") = {"json"} /\ Held("form") = {"encoded", "body"}
  /\ \A p \in Requesting : Held(p) = {"encoded"}
BY DEF Held, Requesting, SendPlaces, EarlyPlaces

LEMMA MemoryStep ==
  ASSUME NEW S, NEW frees, NEW takes, heap = Counts(S), Memory(frees, takes),
         frees \subseteq S, takes \cap S = {}
  PROVE  heap' = Counts((S \ frees) \cup takes)
<1>1. ASSUME NEW b \in Blocks
      PROVE  heap[b] + (IF b \in takes THEN 1 ELSE 0) - (IF b \in frees THEN 1 ELSE 0)
               = IF b \in (S \ frees) \cup takes THEN 1 ELSE 0
  <2>1. heap[b] = IF b \in S THEN 1 ELSE 0
    BY DEF Counts
  <2>2. b \in frees => b \in S
    OBVIOUS
  <2>3. b \in takes => b \notin S
    OBVIOUS
  <2>4. QED
    BY <2>1, <2>2, <2>3
<1>2. QED
  BY <1>1 DEF Memory, Counts

\* Where a row of the dialogues leads to.
LEMMA RowShape ==
  ASSUME NEW row \in Dialogue, NEW q \in {row.yes, row.no}
  PROVE  /\ Held(q) = Held(row.cmd) /\ q # "done"
         /\ row.cmd \in BootPlaces => q \in BootPlaces
         /\ row.cmd \in ConnectPlaces => q \in ConnectPlaces /\ (row.cmd \in NoToken <=> q \in NoToken)
         /\ row.cmd \in SendPlaces => q \in SendPlaces
         /\ row.cmd \in OffPlaces => q \in OffPlaces
         /\ q = "cchOpenAsk" => row.cmd = "cchOpen"
         /\ q = "cchSend" => row.cmd = "cchOpenAsk"
         /\ q = "cchData" => row.cmd = "cchSend"
         /\ q = "chunkDone" => row.cmd = "cchData"
         /\ q \in EarlyPlaces => row.cmd \in EarlyPlaces
         /\ row.cmd \in {"cchSend", "cchData"} => q \in {"cchData", "chunkDone"}
         /\ row.cmd \notin {"chunkDone", "done"}
<1>1. CASE row \in ModemInit \cup HttpStart \cup PowerDown \cup HttpStop
  <2>1. \/ row.cmd = "at" /\ q \in {"cpinAsk", "initFailed"}
        \/ row.cmd = "cpinAsk" /\ q \in {"cpin", "initDone"}
        \/ row.cmd = "cpin" /\ q \in {"initDone", "initFailed"}
        \/ row.cmd = "httpInit" /\ q \in {"url", "startFailed"}
        \/ row.cmd = "httpTerm" /\ q = "fetched"
        \/ row.cmd = "cpof" /\ q = "powerOff"
    BY <1>1 DEF ModemInit, HttpStart, PowerDown, HttpStop, Row
  <2>2. Held(q) = Held(row.cmd) /\ q # "done"
    BY <2>1, HeldFacts
  <2>3. QED
    BY <2>1, <2>2 DEF BootPlaces, ConnectPlaces, NoToken, SendPlaces, OffPlaces, EarlyPlaces
<1>2. CASE row \in HttpPost \cup HttpRead
  <2>1. \/ row.cmd = "url" /\ q \in {"content", "postFailed"}
        \/ row.cmd = "content" /\ q \in {"data", "postFailed"}
        \/ row.cmd = "data" /\ q \in {"body", "postFailed"}
        \/ row.cmd = "body" /\ q \in {"action", "postFailed"}
        \/ row.cmd = "action" /\ q \in {"posted", "postFailed"}
        \/ row.cmd = "httpRead" /\ q \in {"collect", "readFailed"}
    BY <1>2 DEF HttpPost, HttpRead, Row
  <2>2. Held(q) = Held(row.cmd) /\ q # "done"
    BY <2>1, HeldFacts
  <2>3. QED
    BY <2>1, <2>2 DEF BootPlaces, ConnectPlaces, NoToken, SendPlaces, OffPlaces, EarlyPlaces
<1>3. CASE row \in TcpOpen
  <2>1. \/ row.cmd = "netAsk" /\ q \in {"sslVersion", "netOpen"}
        \/ row.cmd = "netOpen" /\ q \in {"sslVersion", "openFailed"}
        \/ row.cmd = "sslVersion" /\ q \in {"authMode", "openFailed"}
        \/ row.cmd = "authMode" /\ q \in {"cchSet", "openFailed"}
        \/ row.cmd = "cchSet" /\ q \in {"cchStart", "openFailed"}
        \/ row.cmd = "cchStart" /\ q \in {"cchSsl", "openFailed"}
        \/ row.cmd = "cchSsl" /\ q \in {"cchOpen", "openFailed"}
        \/ row.cmd = "cchOpen" /\ q \in {"cchOpenAsk", "openFailed"}
        \/ row.cmd = "cchOpenAsk" /\ q \in {"cchSend", "openFailed"}
    BY <1>3 DEF TcpOpen, Row
  <2>2. row.cmd \in Requesting /\ q \in Requesting
    BY <2>1 DEF Requesting, SendPlaces, EarlyPlaces
  <2>3. Held(q) = Held(row.cmd) /\ q # "done"
    BY <2>1, <2>2, HeldFacts
  <2>4. QED
    BY <2>1, <2>3 DEF BootPlaces, ConnectPlaces, NoToken, SendPlaces, OffPlaces, EarlyPlaces
<1>4. CASE row \in TcpSendChunked \cup TcpClose
  <2>1. \/ row.cmd = "cchSend" /\ q = "cchData"
        \/ row.cmd = "cchData" /\ q = "chunkDone"
        \/ row.cmd = "cchClose" /\ q = "cchStop"
        \/ row.cmd = "cchStop" /\ q = "netClose"
        \/ row.cmd = "netClose" /\ q = "sent"
    BY <1>4 DEF TcpSendChunked, TcpClose, Row
  <2>2. row.cmd \in Requesting /\ q \in Requesting
    BY <2>1 DEF Requesting, SendPlaces, EarlyPlaces
  <2>3. Held(q) = Held(row.cmd) /\ q # "done"
    BY <2>1, <2>2, HeldFacts
  <2>4. QED
    BY <2>1, <2>3 DEF BootPlaces, ConnectPlaces, NoToken, SendPlaces, OffPlaces, EarlyPlaces
<1>5. QED
  BY <1>1, <1>2, <1>3, <1>4 DEF Dialogue

------------------------------------------------------------------------------
(* A step of a dialogue *)

\* The command of the place is written.
WriteShape ==
  /\ place \in Commands \cup {"cclk", "readAsk"}
  /\ place' = place /\ ~written /\ written' = TRUE /\ UNCHANGED rc
  /\ taken' \in {0, taken, taken + 1}
  /\ place = "cchOpen" => taken' = 0
  /\ place \notin {"cchOpen", "cchData"} => taken' = taken
  /\ place = "cchData" => taken' \in {taken, taken + 1}

\* Nothing but the pipe has changed.
PassShape == UNCHANGED <<place, written, rc, taken>>

\* The code goes on where a row leads to.
RowStep ==
  /\ written /\ UNCHANGED <<rc, taken>>
  /\ \E row \in Dialogue : row.cmd = place /\ place' \in {row.yes, row.no}
  /\ written' = (place' = "collect")

\* The loops of lines.
LoopShape ==
  /\ written' = (place' = "collect") /\ UNCHANGED taken
  /\ \/ place = "cclk" /\ place' = "setClock" /\ UNCHANGED rc
     \/ place = "cclk" /\ place' = "cpof" /\ rc' = "err"
     \/ place = "readAsk" /\ place' \in {"readFailed", "httpRead"} /\ UNCHANGED rc
     \/ place = "collect" /\ place' \in {"readFailed", "parse"} /\ UNCHANGED rc

LEMMA HearTaken ==
  ASSUME Hear, taken \in Nat
  PROVE  /\ taken' \in {0, taken, taken + 1}
         /\ place = "cchOpen" => taken' = 0
         /\ place \notin {"cchOpen", "cchData"} => taken' = taken
         /\ place = "cchData" => taken' \in {taken, taken + 1}
         /\ UNCHANGED powered
<1>1. \/ place = "cchOpen" /\ taken' = 0
      \/ place = "cchData" /\ taken' \in {taken, taken + 1}
      \/ place \notin {"cchOpen", "cchData"} /\ taken' = taken
  <2>1. PICK r, good : taken' = IF place = "cchOpen" THEN 0
                                ELSE IF place = "cchData" /\ r \in good THEN taken + 1
                                ELSE taken
    BY DEF Hear
  <2>2. QED
    BY <2>1
<1>2. UNCHANGED powered
  BY DEF Hear
<1>3. QED
  BY <1>1, <1>2

LEMMA TalkShape ==
  ASSUME Talk, taken \in Nat
  PROVE  /\ UNCHANGED <<job, tries, chunk, heapVars, powered>>
         /\ WriteShape \/ PassShape \/ RowStep \/ LoopShape
<1>1. CASE Write
  BY <1>1, HearTaken DEF Write, WriteShape
<1>2. CASE Notice \/ GetPart
  BY <1>2 DEF Notice, GetPart, PassShape, callVars, modemVars
<1>3. CASE AtLine
  <2>1. PICK row \in Dialogue :
          /\ row.cmd = place
          /\ IF row.expect \in FirstLine THEN Go(row.yes)
             ELSE IF "ERROR" \in FirstLine THEN Go(row.no)
             ELSE UNCHANGED <<place, written>>
    BY <1>3 DEF AtLine
  <2>2. \/ UNCHANGED <<place, written>>
        \/ place' \in {row.yes, row.no} /\ written' = (place' = "collect")
    BY <2>1 DEF Go
  <2>3. QED
    BY <1>3, <2>1, <2>2 DEF AtLine, RowStep, PassShape, modemVars
<1>4. CASE AtTimeout
  <2>1. PICK row \in Dialogue : row.cmd = place /\ Go(row.no)
    BY <1>4 DEF AtTimeout
  <2>2. QED
    BY <1>4, <2>1 DEF AtTimeout, RowStep, Go, modemVars
<1>5. CASE TimeLine \/ TimeTimeout
  BY <1>5 DEF TimeLine, TimeTimeout, Waiting, Fails, Go, LoopShape, PassShape, modemVars
<1>6. CASE TokenLine \/ TokenTimeout
  BY <1>6 DEF TokenLine, TokenTimeout, Waiting, Go, LoopShape, PassShape, modemVars
<1>7. QED
  BY <1>1, <1>2, <1>3, <1>4, <1>5, <1>6 DEF Talk

\* What a step of the transport leaves to the others.
Frame ==
  /\ UNCHANGED <<build, events, main, lora, cloud, timeSet, call, attempt, result, batch>>
  /\ air' \in {air, batch} /\ (air' # air => Delivers)

\* Which call is at a place of the dialogues.
LEMMA PlaceFacts ==
  ASSUME Roles, PlaceInv
  PROVE  /\ place \in {"cclk", "setClock"} => job = "boot"
         /\ place \in {"readAsk", "collect", "httpRead", "readFailed", "parse"} => job = "connect"
         /\ place \in {"cchSend", "cchData", "chunkDone"} \cup EarlyPlaces => job = "send"
         /\ place # "done" => job # "none"
BY DEF Roles, PlaceInv, Jobs, BootPlaces, ConnectPlaces, NoToken, SendPlaces, EarlyPlaces, OffPlaces

LEMMA FrameStep ==
  ASSUME CallInv, Frame, UNCHANGED job, rc' \in {"ok", "err"}
  PROVE  Roles' /\ Calls' /\ ClockInv'
<1>1. Roles' /\ ClockInv'
  BY DEF CallInv, Frame, Roles, ClockInv
<1>2. Calls'
  BY DEF CallInv, Frame, Calls
<1>3. QED
  BY <1>1, <1>2

\* Only the last chunk of a request delivers, and what it delivers is new.
LEMMA WriteDelivers ==
  ASSUME CallInv, WriteShape, Delivers
  PROVE  place = "cchData" /\ job = "send" /\ ~written /\ chunk + 1 = Chunks /\ air # batch
<1>1. taken \in Nat /\ chunk \in 0..(Chunks - 1) /\ Chunks \in Nat \ {0}
  BY ModemAssumption DEF CallInv, ChunkInv
<1>2. place = "cchData" /\ taken' = taken + 1 /\ ~written
  BY <1>1 DEF WriteShape, Delivers
<1>3. taken <= chunk
  BY <1>2 DEF CallInv, ChunkInv
<1>4. chunk + 1 = Chunks
  BY <1>1, <1>2, <1>3 DEF Delivers
<1>5. job = "send" /\ cloud = "sending"
  BY <1>2, PlaceFacts DEF CallInv, Roles
<1>6. air # batch
  BY <1>2, <1>5 DEF CallInv, AirInv, Undelivered
<1>7. QED
  BY <1>2, <1>4, <1>5, <1>6

LEMMA TalkCall ==
  ASSUME CallInv, Talk, Frame
  PROVE  CallInv' /\ (Delivers => air # batch)
<1>1. /\ UNCHANGED <<job, tries, chunk, heapVars, powered>>
      /\ WriteShape \/ PassShape \/ RowStep \/ LoopShape
      /\ taken \in Nat
  BY TalkShape DEF CallInv, ChunkInv
<1>2. rc' \in {"ok", "err"}
  BY <1>1 DEF CallInv, Calls, WriteShape, PassShape, RowStep, LoopShape
<1>3. Roles' /\ Calls' /\ ClockInv'
  BY <1>1, <1>2, FrameStep
<1>4. UNCHANGED token /\ (RestInv)'
  BY <1>1 DEF CallInv, PowerInv, RestInv, Frame, heapVars
<1>5. CASE PassShape
  <2>1. ~Delivers /\ UNCHANGED air
    BY <1>1, <1>5 DEF PassShape, Delivers, Frame
  <2>2. PlaceInv' /\ TokenInv' /\ PowerInv'
    BY <1>1, <1>4, <1>5 DEF CallInv, PassShape, Frame, PlaceInv, TokenInv, PowerInv
  <2>3. ChunkInv'
    BY <1>1, <1>5 DEF CallInv, PassShape, ChunkInv
  <2>4. AirInv'
    BY <1>1, <1>5, <2>1 DEF CallInv, PassShape, Frame, AirInv, Undelivered
  <2>5. QED
    BY <1>3, <2>1, <2>2, <2>3, <2>4 DEF CallInv
<1>6. CASE WriteShape
  <2>1. UNCHANGED <<place, rc>> /\ ~written /\ written' = TRUE /\ place # "done"
    BY <1>6 DEF WriteShape, Commands, Dialogue, ModemInit, HttpStart, HttpPost, HttpRead, HttpStop, TcpOpen,
                TcpSendChunked, TcpClose, PowerDown, Row
  <2>2. PlaceInv' /\ TokenInv' /\ PowerInv'
    BY <1>1, <1>4, <2>1 DEF CallInv, Frame, PlaceInv, TokenInv, PowerInv
  <2>3. ChunkInv'
    BY <1>1, <1>6, <2>1 DEF CallInv, WriteShape, ChunkInv
  <2>4. CASE Delivers
    <3>1. place = "cchData" /\ job = "send" /\ ~written /\ chunk + 1 = Chunks /\ air # batch
      BY <1>6, <2>4, WriteDelivers
    <3>2. cloud = "sending" /\ rc = "ok" /\ air \in Nat /\ batch \in Nat /\ chunk \in Nat
      BY <3>1 DEF CallInv, Roles, ChunkInv, Calls
    <3>3. ~Undelivered'
      BY <1>1, <2>1, <3>1, <3>2, ModemAssumption DEF Frame, Undelivered, EarlyPlaces
    <3>4. AirInv'
      BY <3>2, <3>3 DEF CallInv, Frame, AirInv
    <3>5. QED
      BY <1>3, <2>2, <2>3, <3>1, <3>4 DEF CallInv
  <2>5. CASE ~Delivers
    <3>1. UNCHANGED air
      BY <2>5 DEF Frame
    <3>2. Undelivered' => Undelivered
      BY <1>1, <2>1 DEF Frame, Undelivered
    <3>3. AirInv'
      BY <3>1, <3>2 DEF CallInv, Frame, AirInv
    <3>4. QED
      BY <1>3, <2>2, <2>3, <2>5, <3>3 DEF CallInv
  <2>6. QED
    BY <2>4, <2>5
<1>7. CASE RowStep
  <2>1. PICK row \in Dialogue : row.cmd = place /\ place' \in {row.yes, row.no}
    BY <1>7 DEF RowStep
  <2>2. /\ place' # "done"
        /\ place \in BootPlaces => place' \in BootPlaces
        /\ place \in ConnectPlaces => place' \in ConnectPlaces /\ (place \in NoToken <=> place' \in NoToken)
        /\ place \in SendPlaces => place' \in SendPlaces
        /\ place \in OffPlaces => place' \in OffPlaces
        /\ place' = "cchOpenAsk" => place = "cchOpen"
        /\ place' = "cchSend" => place = "cchOpenAsk"
        /\ place' = "cchData" => place = "cchSend"
        /\ place' = "chunkDone" => place = "cchData"
        /\ place' \in EarlyPlaces => place \in EarlyPlaces
        /\ place \in {"cchSend", "cchData"} => place' \in {"cchData", "chunkDone"}
        /\ place \notin {"chunkDone", "done"}
    BY <2>1, RowShape
  <2>3. written /\ UNCHANGED <<rc, taken>> /\ written' = (place' = "collect")
    BY <1>7 DEF RowStep
  <2>4. place # "done"
    BY <2>2
  <2>5. PlaceInv'
    BY <1>1, <2>2, <2>4 DEF CallInv, PlaceInv
  <2>6. TokenInv' /\ PowerInv'
    BY <1>1, <1>4, <2>2, <2>3, <2>4 DEF CallInv, Frame, PlaceInv, TokenInv, PowerInv
  <2>7. ChunkInv'
    <3>1. chunk' \in 0..(Chunks - 1) /\ taken' \in Nat
      BY <1>1, <2>3 DEF CallInv, ChunkInv
    <3>2. place' \notin {"cchSend", "cchData", "chunkDone"} => chunk' = 0
      BY <1>1, <2>2 DEF CallInv, ChunkInv
    <3>3. place' = "cchOpenAsk" \/ (place' = "cchOpen" /\ written') => taken' = 0
      BY <2>2, <2>3 DEF CallInv, ChunkInv
    <3>4. place' = "cchSend" \/ (place' = "cchData" /\ ~written') => taken' <= chunk'
      BY <1>1, <2>2, <2>3 DEF CallInv, ChunkInv
    <3>5. place' \in {"cchData", "chunkDone"} => taken' <= chunk' + 1
      BY <1>1, <2>2, <2>3, <3>1, <3>4 DEF CallInv, ChunkInv
    <3>6. job' = "send" /\ place' # "done" => rc' = "ok"
      BY <1>1, <2>3, <2>4 DEF CallInv, ChunkInv
    <3>7. QED
      BY <3>1, <3>2, <3>3, <3>4, <3>5, <3>6 DEF ChunkInv
  <2>8. UNCHANGED air /\ ~Delivers
    BY <1>1, <2>3 DEF Frame, Delivers
  <2>9. Undelivered' => Undelivered
    BY <1>1, <2>2, <2>3 DEF Frame, Undelivered, EarlyPlaces
  <2>10. AirInv'
    BY <2>8, <2>9 DEF CallInv, Frame, AirInv
  <2>11. QED
    BY <1>3, <2>5, <2>6, <2>7, <2>8, <2>10 DEF CallInv
<1>8. CASE LoopShape
  <2>1. job \in {"boot", "connect"} /\ place' \notin {"done", "cchOpenAsk", "cchOpen", "cchSend", "cchData",
                                                      "chunkDone"}
    BY <1>8, PlaceFacts DEF CallInv, LoopShape
  <2>2. place # "done" /\ place \notin {"cchOpenAsk", "cchOpen", "cchSend", "cchData", "chunkDone"}
    BY <1>8 DEF LoopShape
  <2>3. PlaceInv' /\ (job = "connect" => place' \notin NoToken)
    BY <1>1, <1>8, <2>1, PlaceFacts DEF CallInv, LoopShape, PlaceInv, BootPlaces, ConnectPlaces, NoToken
  <2>4. TokenInv' /\ PowerInv'
    BY <1>1, <1>4, <2>1, <2>2, <2>3 DEF CallInv, Frame, TokenInv, PowerInv
  <2>5. ChunkInv'
    BY <1>1, <1>8, <2>1, <2>2 DEF CallInv, ChunkInv, LoopShape
  <2>6. UNCHANGED air /\ ~Delivers
    BY <1>1, <1>8 DEF Frame, Delivers, LoopShape
  <2>7. cloud # "sending" /\ cloud' # "sending"
    BY <2>1 DEF CallInv, Roles, Frame
  <2>8. AirInv'
    BY <1>1, <2>6, <2>7 DEF CallInv, Frame, AirInv, Undelivered
  <2>9. QED
    BY <1>3, <2>3, <2>4, <2>5, <2>6, <2>8 DEF CallInv
<1>9. QED
  BY <1>1, <1>5, <1>6, <1>7, <1>8

\* A step of the transport in a call other than send.
LEMMA OtherCall ==
  ASSUME CallInv, Frame, UNCHANGED <<job, chunk>>, taken' \in {taken, 0}, rc' \in {"ok", "err"},
         job \in {"boot", "connect", "disconnect"}, PlaceInv', TokenInv', PowerInv'
  PROVE  CallInv' /\ ~Delivers
<1>1. Roles' /\ Calls' /\ ClockInv'
  BY FrameStep
<1>2. ~Delivers /\ UNCHANGED air
  BY ModemAssumption DEF Frame, Delivers
<1>3. ChunkInv'
  <2>1. chunk \in 0..(Chunks - 1) /\ taken' \in Nat
    BY DEF CallInv, ChunkInv
  <2>2. place \notin {"cchOpenAsk", "cchOpen", "cchSend", "cchData", "chunkDone"}
    BY PlaceFacts DEF CallInv, EarlyPlaces
  <2>3. place' \notin {"cchOpenAsk", "cchOpen", "cchSend", "cchData", "chunkDone"}
    BY DEF PlaceInv, BootPlaces, ConnectPlaces, NoToken, OffPlaces
  <2>4. QED
    BY <2>1, <2>2, <2>3 DEF CallInv, ChunkInv
<1>4. AirInv'
  <2>1. cloud # "sending" /\ UNCHANGED <<cloud, result, call, attempt>>
    BY DEF CallInv, Roles, Frame
  <2>2. QED
    BY <1>2, <2>1 DEF CallInv, Frame, AirInv, Undelivered
<1>5. QED
  BY <1>1, <1>2, <1>3, <1>4 DEF CallInv

\* modem_init and the token before it is there.
NoTokenStep ==
  /\ UNCHANGED <<job, chunk, taken, powered, token>>
  /\ \/ place = "initFailed" /\ place' \in {"at", "cpof"}
     \/ place = "initDone" /\ place' = (IF job = "boot" THEN "cclk" ELSE "jwt")
     \/ place = "jwt" /\ place' \in {"payload", "cpof"}
     \/ place = "payload" /\ place' \in {"sign", "cpof"}
     \/ place = "sign" /\ place' \in {"assertion", "cpof"}
     \/ place = "assertion" /\ place' \in {"httpInit", "cpof"}
     \/ place = "startFailed" /\ place' = "cpof"
     \/ place = "url" /\ place' = "postFailed"
     \/ place = "postFailed" /\ place' = "httpTerm"
  /\ rc' \in {rc, "err"}

LEMMA NoTokenShape ==
  ASSUME \/ InitFailed \/ InitDone \/ Jwt \/ Payload \/ Sign \/ Assertion \/ StartFailed \/ TooLong
         \/ PostFailed
  PROVE  NoTokenStep
<1>1. CASE InitFailed \/ InitDone
  BY <1>1 DEF InitFailed, InitDone, Works, Go, Fails, NoTokenStep, modemVars, heapVars
<1>2. CASE Jwt \/ Payload \/ Sign \/ Assertion
  BY <1>2 DEF Jwt, Payload, Sign, Assertion, Works, Step, Go, Fails, NoTokenStep, modemVars
<1>3. CASE StartFailed \/ TooLong \/ PostFailed
  BY <1>3 DEF StartFailed, TooLong, PostFailed, Works, Go, Fails, NoTokenStep, modemVars, heapVars
<1>4. QED
  BY <1>1, <1>2, <1>3

\* The token once it is there.
TokenStep ==
  /\ UNCHANGED <<job, chunk, taken, powered>>
  /\ \/ place = "posted" /\ place' = "buffer" /\ token' = TRUE /\ UNCHANGED rc
     \/ place = "posted" /\ place' = "httpTerm" /\ UNCHANGED token /\ rc' = "err"
     \/ place = "buffer" /\ place' \in {"readAsk", "httpTerm"} /\ UNCHANGED token /\ rc' \in {rc, "err"}
     \/ place = "readFailed" /\ place' = "httpTerm" /\ UNCHANGED token /\ rc' = "err"
     \/ place = "parse" /\ place' \in {"readToken", "httpTerm"} /\ UNCHANGED token /\ rc' \in {rc, "err"}
     \/ place = "readToken" /\ place' = "httpTerm" /\ UNCHANGED token /\ rc' \in {rc, "err"}
     \/ place = "fetched" /\ place' = "done" /\ UNCHANGED <<token, rc>> /\ rc = "ok"
     \/ place = "fetched" /\ place' = "cpof" /\ token' = FALSE /\ UNCHANGED rc

LEMMA TokenShape ==
  ASSUME Posted \/ Buffer \/ ReadFailed \/ Parse \/ ReadToken \/ Fetched
  PROVE  TokenStep
<1>1. CASE Posted \/ Buffer \/ ReadFailed
  BY <1>1 DEF Posted, Buffer, ReadFailed, Works, Go, Fails, TokenStep, modemVars
<1>2. CASE Parse \/ ReadToken \/ Fetched
  BY <1>2 DEF Parse, ReadToken, Fetched, Works, Go, Fails, TokenStep, modemVars, heapVars
<1>3. QED
  BY <1>1, <1>2

\* The work of send.
SendStep ==
  /\ UNCHANGED <<job, taken, powered, token>>
  /\ \/ place = "request" /\ place' = "form" /\ UNCHANGED <<chunk, rc>>
     \/ place = "request" /\ place' = "done" /\ UNCHANGED chunk /\ rc' = "err"
     \/ place = "form" /\ place' = "netAsk" /\ UNCHANGED <<chunk, rc>>
     \/ place = "form" /\ place' = "done" /\ UNCHANGED chunk /\ rc' = "err"
     \/ place = "openFailed" /\ place' = "done" /\ chunk' = 0 /\ rc' = "err"
     \/ place = "chunkDone" /\ place' = "cchSend" /\ UNCHANGED rc /\ chunk + 1 < Chunks /\ chunk' = chunk + 1
     \/ place = "chunkDone" /\ place' = "cchClose" /\ UNCHANGED rc /\ ~(chunk + 1 < Chunks) /\ chunk' = 0
     \/ place = "sent" /\ place' = "done" /\ UNCHANGED <<chunk, rc>>
  /\ written' = FALSE

LEMMA SendShape ==
  ASSUME Request \/ Form \/ OpenFailed \/ ChunkDone \/ Sent
  PROVE  SendStep
<1>1. CASE Request \/ Form
  BY <1>1 DEF Request, Form, Works, Step, Go, Fails, SendStep, modemVars
<1>2. CASE OpenFailed \/ ChunkDone \/ Sent
  BY <1>2 DEF OpenFailed, ChunkDone, Sent, Works, Go, Fails, SendStep, modemVars, heapVars
<1>3. QED
  BY <1>1, <1>2

LEMMA ThinkCall ==
  ASSUME CallInv, Think, Frame
  PROVE  CallInv' /\ ~Delivers
<1>1. rc \in {"ok", "err"} /\ job \in Jobs \cup {"none"}
  BY DEF CallInv, Calls, Roles
<1>2. powered' = powered => (RestInv)' \/ job' # job
  BY DEF CallInv, PowerInv, RestInv, Frame
<1>3. CASE NoTokenStep
  <2>1. job \in {"boot", "connect"} /\ place \in NoToken /\ (job = "boot" => place \in BootPlaces)
    BY <1>1, <1>3, PlaceFacts
    DEF CallInv, NoTokenStep, PlaceInv, NoToken, Jobs, SendPlaces, EarlyPlaces, OffPlaces
  <2>2. PlaceInv' /\ place' # "done"
    BY <1>3, <2>1 DEF NoTokenStep, PlaceInv, BootPlaces, ConnectPlaces, NoToken
  <2>3. job = "connect" => ~token
    BY <2>1 DEF CallInv, TokenInv
  <2>4. TokenInv' /\ PowerInv'
    BY <1>2, <1>3, <2>1, <2>2, <2>3 DEF CallInv, NoTokenStep, Frame, TokenInv, PowerInv
  <2>5. QED
    BY <1>1, <1>3, <2>1, <2>2, <2>4, OtherCall DEF NoTokenStep
<1>4. CASE TokenStep
  <2>1. job = "connect"
    BY <1>1, <1>4, PlaceFacts
    DEF CallInv, TokenStep, PlaceInv, BootPlaces, Jobs, SendPlaces, EarlyPlaces, OffPlaces
  <2>2. PlaceInv' /\ (place' \in NoToken \cup {"done"} => place = "fetched")
    BY <1>4, <2>1 DEF TokenStep, PlaceInv, ConnectPlaces, NoToken
  <2>3. cloud = "connecting" /\ main # "setup"
    BY <2>1 DEF CallInv, Roles
  <2>4. TokenInv'
    <3>1. token' \in BOOLEAN
      BY <1>4 DEF CallInv, TokenStep, TokenInv
    <3>2. place' = "done" => rc' = "ok"
      BY <1>4 DEF TokenStep
    <3>3. place' \in NoToken => ~token'
      BY <1>4, <2>2 DEF TokenStep, NoToken
    <3>4. QED
      BY <1>4, <2>1, <2>3, <3>1, <3>2, <3>3 DEF TokenStep, Frame, TokenInv, Busy
  <2>5. PowerInv'
    BY <1>2, <1>4, <2>1, <2>2 DEF CallInv, TokenStep, Frame, PowerInv
  <2>6. rc' \in {"ok", "err"}
    BY <1>1, <1>4 DEF TokenStep
  <2>7. QED
    BY <1>4, <2>1, <2>2, <2>4, <2>5, <2>6, OtherCall DEF TokenStep
<1>5. CASE SendStep
  <2>1. job = "send" /\ cloud = "sending" /\ rc = "ok" /\ place # "done"
    BY <1>1, <1>5, PlaceFacts
    DEF CallInv, SendStep, PlaceInv, BootPlaces, ConnectPlaces, NoToken, Jobs, OffPlaces, Roles, ChunkInv
  <2>2. PlaceInv' /\ rc' \in {"ok", "err"} /\ (place' # "done" => rc' = "ok")
    BY <1>5, <2>1 DEF SendStep, PlaceInv, SendPlaces, EarlyPlaces
  <2>3. Roles' /\ Calls' /\ ClockInv'
    BY <1>5, <2>2, FrameStep DEF SendStep
  <2>4. TokenInv' /\ PowerInv'
    BY <1>2, <1>5, <2>1 DEF CallInv, SendStep, Frame, TokenInv, PowerInv
  <2>5. taken \in Nat /\ chunk \in 0..(Chunks - 1) /\ Chunks \in Nat \ {0}
    BY ModemAssumption DEF CallInv, ChunkInv
  <2>6. ChunkInv'
    <3>1. CASE place = "chunkDone"
      <4>1. taken <= chunk + 1
        BY <3>1 DEF CallInv, ChunkInv
      <4>2. QED
        BY <1>5, <2>1, <2>5, <3>1, <4>1 DEF SendStep, ChunkInv
    <3>2. CASE place # "chunkDone"
      <4>1. chunk = 0
        BY <1>5, <3>2 DEF CallInv, SendStep, ChunkInv
      <4>2. place' \in {"form", "netAsk", "done"}
        BY <1>5, <3>2 DEF SendStep
      <4>3. QED
        BY <1>5, <2>2, <2>5, <3>2, <4>1, <4>2 DEF SendStep, ChunkInv
    <3>3. QED
      BY <3>1, <3>2
  <2>7. ~Delivers /\ UNCHANGED air
    BY <1>5, <2>5 DEF SendStep, Frame, Delivers
  <2>8. AirInv'
    <3>1. Undelivered' => Undelivered
      BY <1>5, <2>1 DEF SendStep, Frame, Undelivered, EarlyPlaces
    <3>2. QED
      BY <2>7, <3>1 DEF CallInv, Frame, AirInv
  <2>9. QED
    BY <2>2, <2>3, <2>4, <2>6, <2>7, <2>8 DEF CallInv
<1>6. CASE PowerOff
  <2>1. /\ place = "powerOff" /\ place' = "done" /\ powered' = FALSE /\ taken' = 0
        /\ UNCHANGED <<job, rc, chunk, token>>
    BY <1>6 DEF PowerOff, Go, heapVars
  <2>2. job \in {"boot", "connect", "disconnect"}
    BY <1>1, <2>1 DEF CallInv, PlaceInv, Jobs, SendPlaces, EarlyPlaces
  <2>3. PlaceInv'
    BY <2>1, <2>2 DEF PlaceInv, BootPlaces, ConnectPlaces, OffPlaces
  <2>4. TokenInv'
    BY <2>1, <2>2 DEF CallInv, Frame, TokenInv, NoToken
  <2>5. PowerInv'
    BY <2>1 DEF PowerInv, RestInv
  <2>6. QED
    BY <1>1, <2>1, <2>2, <2>3, <2>4, <2>5, OtherCall
<1>7. QED
  BY <1>3, <1>4, <1>5, <1>6, NoTokenShape, TokenShape, SendShape DEF Think

------------------------------------------------------------------------------
(* The memory *)

LEMMA HeapStep ==
  ASSUME NEW frees, NEW takes, HeapInv, Memory(frees, takes), UNCHANGED token,
         frees \subseteq Held(place), takes \cap Held(place) = {}, "token" \notin frees \cup takes,
         Held(place') = (Held(place) \ frees) \cup takes
  PROVE  HeapInv'
<1>1. UNCHANGED TokenBlock /\ TokenBlock \subseteq {"token"}
  BY DEF TokenBlock
<1>2. heap' = Counts(((Held(place) \cup TokenBlock) \ frees) \cup takes)
  <2> DEFINE S == Held(place) \cup TokenBlock
  <2>1. frees \subseteq S /\ takes \cap S = {}
    BY <1>1
  <2>2. heap = Counts(S)
    BY DEF HeapInv
  <2> HIDE DEF S
  <2>3. heap' = Counts((S \ frees) \cup takes)
    BY <2>1, <2>2, MemoryStep
  <2>4. QED
    BY <2>3 DEF S
<1>3. ((Held(place) \cup TokenBlock) \ frees) \cup takes = Held(place') \cup TokenBlock'
  BY <1>1
<1>4. QED
  BY <1>2, <1>3 DEF HeapInv

LEMMA HeapStays ==
  ASSUME HeapInv, UNCHANGED heapVars, Held(place') = Held(place)
  PROVE  HeapInv'
BY DEF HeapInv, TokenBlock, heapVars

LEMMA TalkHeap ==
  ASSUME CallInv, HeapInv, Talk
  PROVE  HeapInv'
<1>1. UNCHANGED heapVars /\ (WriteShape \/ PassShape \/ RowStep \/ LoopShape)
  BY TalkShape DEF CallInv, ChunkInv
<1>2. CASE WriteShape \/ PassShape
  BY <1>1, <1>2, HeapStays DEF WriteShape, PassShape
<1>3. CASE RowStep
  BY <1>1, <1>3, HeapStays, RowShape DEF RowStep
<1>4. CASE LoopShape
  <2>1. Held(place') = Held(place)
    BY <1>4, HeldFacts DEF LoopShape
  <2>2. QED
    BY <1>1, <2>1, HeapStays
<1>5. QED
  BY <1>1, <1>2, <1>3, <1>4

\* What a step of the memory leaves to be shown.
LEMMA StepHeap ==
  ASSUME NEW frees, NEW takes, NEW p, NEW cleans, NEW q, HeapInv, Step(frees, takes, p, cleans, q),
         frees \cup cleans \subseteq Held(place), takes \cap Held(place) = {},
         "token" \notin frees \cup takes \cup cleans,
         Held(p) = (Held(place) \ frees) \cup takes, Held(q) = Held(place) \ cleans
  PROVE  HeapInv'
<1>1. \/ Memory(frees, takes) /\ place' = p
      \/ Memory(cleans, {}) /\ place' = q
  BY DEF Step, Go, Fails
<1>2. UNCHANGED token
  BY DEF Step
<1>3. CASE Memory(frees, takes) /\ place' = p
  BY <1>2, <1>3, HeapStep
<1>4. CASE Memory(cleans, {}) /\ place' = q
  BY <1>2, <1>4, HeapStep
<1>5. QED
  BY <1>1, <1>3, <1>4

LEMMA ThinkHeap ==
  ASSUME CallInv, HeapInv, Think
  PROVE  HeapInv'
<1>1. CASE InitFailed \/ InitDone \/ TooLong \/ PowerOff
  <2>1. UNCHANGED heapVars /\ place \in {"initFailed", "initDone", "url", "powerOff"}
    BY <1>1 DEF InitFailed, InitDone, TooLong, PowerOff, Works
  <2>2. \/ place # "url" /\ place' \in {"at", "cpof", "cclk", "jwt", "done"}
        \/ place = "url" /\ place' = "postFailed"
    BY <1>1 DEF InitFailed, InitDone, TooLong, PowerOff, Works, Go, Fails
  <2>3. Held(place') = Held(place)
    BY <2>1, <2>2, HeldFacts
  <2>4. QED
    BY <2>1, <2>3, HeapStays
<1>2. CASE Jwt
  <2>1. place = "jwt" /\ Step({}, {"jwt"}, "payload", {}, "cpof")
    BY <1>2 DEF Jwt, Works
  <2>2. Held(place) = {} /\ Held("payload") = {"jwt"} /\ Held("cpof") = {}
    BY <2>1, HeldFacts
  <2>3. QED
    BY <2>1, <2>2, StepHeap
<1>3. CASE Payload
  <2>1. place = "payload" /\ Step({}, {"payload"}, "sign", {"jwt"}, "cpof")
    BY <1>3 DEF Payload, Works
  <2>2. Held(place) = {"jwt"} /\ Held("sign") = {"jwt", "payload"} /\ Held("cpof") = {}
    BY <2>1, HeldFacts
  <2>3. QED
    BY <2>1, <2>2, StepHeap
<1>4. CASE Sign
  <2>1. place = "sign" /\ Step({"payload"}, {}, "assertion", {"payload", "jwt"}, "cpof")
    BY <1>4 DEF Sign, Works
  <2>2. Held(place) = {"jwt", "payload"} /\ Held("assertion") = {"jwt"} /\ Held("cpof") = {}
    BY <2>1, HeldFacts
  <2>3. QED
    BY <2>1, <2>2, StepHeap
<1>5. CASE Assertion
  <2>1. place = "assertion" /\ Step({"jwt"}, {"body"}, "httpInit", {"jwt"}, "cpof")
    BY <1>5 DEF Assertion, Works
  <2>2. Held(place) = {"jwt"} /\ Held("httpInit") = {"body"} /\ Held("cpof") = {}
    BY <2>1, HeldFacts
  <2>3. QED
    BY <2>1, <2>2, StepHeap
<1>6. CASE StartFailed \/ PostFailed
  <2>1. place \in {"startFailed", "postFailed"} /\ place' \in {"cpof", "httpTerm"} /\ UNCHANGED token
        /\ Memory({"body"}, {})
    BY <1>6 DEF StartFailed, PostFailed, Works, Fails, Go
  <2>2. Held(place) = {"body"} /\ Held(place') = {}
    BY <2>1, HeldFacts
  <2>3. QED
    BY <2>1, <2>2, HeapStep
<1>7. CASE Posted
  <2>1. place = "posted" /\ Held(place) = {"body"}
    BY <1>7, HeldFacts DEF Posted, Works
  <2>2. CASE Memory({"body"}, {}) /\ UNCHANGED token /\ place' = "httpTerm"
    <3>1. Held(place') = {}
      BY <2>2, HeldFacts
    <3>2. QED
      BY <2>1, <2>2, <3>1, HeapStep
  <2>3. CASE Memory({"body"}, {"token"}) /\ token' = TRUE /\ place' = "buffer"
    <3>1. ~token
      BY <2>1, PlaceFacts, <1>7 DEF CallInv, TokenInv, PlaceInv, Roles, Jobs, BootPlaces, SendPlaces,
                                    EarlyPlaces, OffPlaces, NoToken
    <3>2. heap = Counts({"body"})
      BY <2>1, <3>1 DEF HeapInv, TokenBlock
    <3>3. heap' = Counts({"token"})
      BY <2>3, <3>2, MemoryStep
    <3>4. Held(place') = {} /\ TokenBlock' = {"token"}
      BY <2>3, HeldFacts DEF TokenBlock
    <3>5. QED
      BY <3>3, <3>4 DEF HeapInv
  <2>4. QED
    BY <1>7, <2>2, <2>3 DEF Posted, Fails, Go
<1>8. CASE Buffer
  <2>1. place = "buffer" /\ Held(place) = {} /\ UNCHANGED token
    BY <1>8, HeldFacts DEF Buffer, Works
  <2>2. CASE Memory({}, {"full"}) /\ place' = "readAsk"
    <3>1. Held(place') = {"full"}
      BY <2>2, HeldFacts
    <3>2. QED
      BY <2>1, <2>2, <3>1, HeapStep
  <2>3. CASE UNCHANGED heap /\ place' = "httpTerm"
    <3>1. Held(place') = {}
      BY <2>3, HeldFacts
    <3>2. QED
      BY <2>1, <2>3, <3>1, HeapStays DEF heapVars
  <2>4. QED
    BY <1>8, <2>2, <2>3 DEF Buffer, Fails, Go
<1>9. CASE ReadFailed \/ Parse
  <2>1. place \in {"readFailed", "parse"} /\ Held(place) = {"full"} /\ UNCHANGED token
    BY <1>9, HeldFacts DEF ReadFailed, Parse, Works
  <2>2. CASE Memory({"full"}, {}) /\ place' = "httpTerm"
    <3>1. Held(place') = {}
      BY <2>2, HeldFacts
    <3>2. QED
      BY <2>1, <2>2, <3>1, HeapStep
  <2>3. CASE Memory({"full"}, {"json"}) /\ place' = "readToken"
    <3>1. Held(place') = {"json"}
      BY <2>3, HeldFacts
    <3>2. QED
      BY <2>1, <2>3, <3>1, HeapStep
  <2>4. QED
    BY <1>9, <2>2, <2>3 DEF ReadFailed, Parse, Fails, Go
<1>10. CASE ReadToken
  <2>1. place = "readToken" /\ place' = "httpTerm" /\ Memory({"json"}, {}) /\ UNCHANGED token
    BY <1>10 DEF ReadToken, Works, Fails, Go
  <2>2. Held(place) = {"json"} /\ Held(place') = {}
    BY <2>1, HeldFacts
  <2>3. QED
    BY <2>1, <2>2, HeapStep
<1>11. CASE Fetched
  <2>1. place = "fetched" /\ place' \in {"done", "cpof"}
    BY <1>11 DEF Fetched, Works, Go
  <2>2. Held(place) = {} /\ Held(place') = {}
    BY <2>1, HeldFacts
  <2>3. CASE UNCHANGED heapVars
    BY <2>2, <2>3, HeapStays
  <2>4. CASE Memory(TokenBlock, {}) /\ token' = FALSE
    <3>1. heap' = Counts({})
      BY <2>2, <2>4, MemoryStep DEF HeapInv
    <3>2. TokenBlock' = {}
      BY <2>4 DEF TokenBlock
    <3>3. QED
      BY <2>2, <3>1, <3>2 DEF HeapInv
  <2>5. QED
    BY <1>11, <2>3, <2>4 DEF Fetched, TokenBlock
<1>12. CASE Request
  <2>1. place = "request" /\ Step({}, {"encoded", "body"}, "form", {}, "done")
    BY <1>12 DEF Request, Works
  <2>2. Held(place) = {} /\ Held("form") = {"encoded", "body"} /\ Held("done") = {}
    BY <2>1, HeldFacts
  <2>3. QED
    BY <2>1, <2>2, StepHeap
<1>13. CASE Form
  <2>1. place = "form" /\ Step({"body"}, {}, "netAsk", {"encoded", "body"}, "done")
    BY <1>13 DEF Form, Works
  <2>2. Held(place) = {"encoded", "body"} /\ Held("netAsk") = {"encoded"} /\ Held("done") = {}
    BY <2>1, HeldFacts DEF Requesting, SendPlaces, EarlyPlaces
  <2>3. QED
    BY <2>1, <2>2, StepHeap
<1>14. CASE OpenFailed \/ Sent
  <2>1. place \in {"openFailed", "sent"} /\ place' = "done" /\ UNCHANGED token /\ Memory({"encoded"}, {})
    BY <1>14 DEF OpenFailed, Sent, Works, Fails, Go
  <2>2. Held(place) = {"encoded"} /\ Held(place') = {}
    BY <2>1, HeldFacts DEF Requesting, SendPlaces, EarlyPlaces
  <2>3. QED
    BY <2>1, <2>2, HeapStep
<1>15. CASE ChunkDone
  <2>1. place = "chunkDone" /\ place' \in {"cchSend", "cchClose"} /\ UNCHANGED heapVars
    BY <1>15 DEF ChunkDone, Works, Go
  <2>2. Held(place) = {"encoded"} /\ Held(place') = {"encoded"}
    BY <2>1, HeldFacts DEF Requesting, SendPlaces, EarlyPlaces
  <2>3. QED
    BY <2>1, <2>2, HeapStays
<1>16. QED
  BY <1>1, <1>2, <1>3, <1>4, <1>5, <1>6, <1>7, <1>8, <1>9, <1>10, <1>11, <1>12, <1>13, <1>14, <1>15 DEF Think

------------------------------------------------------------------------------
(* The steps of the others *)

\* The start of the node, and what comes in, let a call be.
LEMMA StartStep ==
  ASSUME CallInv, UNCHANGED <<callVars, heapVars, powered, taken, sendVars, build>>,
         timeSet' \in {timeSet, TRUE},
         "CLOCK" \in events' => "CLOCK" \in events \/ build = "lora",
         main' = "setup" <=> main = "setup",
         main \in {"boot", "pause"} => main' \in {"boot", "pause"},
         \/ UNCHANGED cloud
         \/ cloud = "boot" /\ cloud' = "booted"
         \/ cloud = "booted" /\ cloud' = "clock"
         \/ cloud \in {"booted", "clock"} /\ cloud' = "rest" /\ ("CLOCK" \in events \/ build = "lora")
  PROVE  CallInv'
<1>1. UNCHANGED <<job, place, written, rc, chunk, token, call, attempt, result, batch, air>>
  BY DEF callVars, heapVars, sendVars
<1>2. cloud' # cloud => cloud \notin Busy \cup {"rest"} /\ cloud' \notin Busy /\ call = "idle"
  BY DEF CallInv, Calls, Busy
<1>3. Roles' /\ Calls'
  BY <1>1, <1>2 DEF CallInv, Roles, Calls, Busy
<1>4. ClockInv'
  BY <1>1, <1>2 DEF CallInv, ClockInv
<1>5. PlaceInv' /\ TokenInv' /\ ChunkInv'
  BY <1>1, <1>2 DEF CallInv, PlaceInv, TokenInv, ChunkInv
<1>6. PowerInv'
  BY <1>1, <1>2 DEF CallInv, PowerInv, RestInv, Busy
<1>7. AirInv'
  BY <1>1, <1>2 DEF CallInv, AirInv, Undelivered, Busy
<1>8. QED
  BY <1>3, <1>4, <1>5, <1>6, <1>7 DEF CallInv

LEMMA CommandStep ==
  ASSUME CallInv, Stop \/ Continue \/ Look \/ Tick \/ LoRa \/ CloudBooted \/ Modem
  PROVE  CallInv' /\ UNCHANGED <<heapVars, place>>
<1>1. CASE Stop \/ Continue
  BY <1>1, StartStep DEF Stop, Continue, Post, MainWakes, transportVars, callVars, modemVars
<1>2. CASE Look \/ Tick
  BY <1>2, StartStep DEF Look, Tick, startVars, transportVars, callVars, modemVars, CallInv, ClockInv
<1>3. CASE LoRaInit
  BY <1>3, StartStep DEF LoRaInit, callVars, modemVars, CallInv, ClockInv
<1>4. CASE LoRaClock
  BY <1>4, StartStep DEF LoRaClock, Post, MainWakes, transportVars, callVars, modemVars
<1>5. CASE CloudBooted
  BY <1>5, StartStep DEF CloudBooted, transportVars, callVars, modemVars, CallInv, ClockInv
<1>6. CASE Modem
  BY <1>6, StartStep
  DEF Modem, ComesIn, Lost, Heal, Unasked, startVars, callVars, CallInv, ClockInv
<1>7. QED
  BY <1>1, <1>2, <1>3, <1>4, <1>5, <1>6 DEF LoRa

LEMMA MainStep ==
  ASSUME CallInv, UNCHANGED sendVars,
         \/ ~healthy /\ Main("boot", "pause") /\ UNCHANGED <<transportVars, build, events, lora, cloud, timeSet>>
         \/ BootAgain \/ Prompt \/ PromptTimeout \/ Halt \/ BootContinue \/ Adc
  PROVE  CallInv' /\ UNCHANGED <<heapVars, place>>
<1>1. UNCHANGED <<callVars, heapVars, powered, taken, build, timeSet>>
  BY DEF BootAgain, Prompt, PromptTimeout, Halt, BootContinue, Adc, transportVars, modemVars
<1>2. "CLOCK" \in events' => "CLOCK" \in events
  BY DEF BootAgain, Prompt, PromptTimeout, Halt, BootContinue, Adc, Post
<1>3. /\ main' = "setup" <=> main = "setup"
      /\ main \in {"boot", "pause"} => main' \in {"boot", "pause"}
  BY DEF Main, BootAgain, Prompt, PromptTimeout, Halt, BootContinue, Adc
<1>4. UNCHANGED cloud \/ (cloud = "boot" /\ cloud' = "booted")
  BY DEF BootAgain, Prompt, PromptTimeout, Halt, BootContinue, Adc, Post
<1>5. CallInv'
  BY <1>1, <1>2, <1>3, <1>4, StartStep DEF CallInv, ClockInv
<1>6. QED
  BY <1>1, <1>5 DEF callVars

LEMMA SetClockStep ==
  ASSUME CallInv, UNCHANGED sendVars, SetClock
  PROVE  CallInv' /\ UNCHANGED heapVars /\ place = "setClock" /\ place' = "cpof" /\ ~Delivers
<1>1. /\ place = "setClock" /\ place' = "cpof" /\ written' = FALSE
      /\ UNCHANGED <<job, rc, chunk, heapVars, token, powered, taken, build>>
  BY DEF SetClock, Go, heapVars, modemVars
<1>2. job = "boot" /\ main = "setup" /\ UNCHANGED main
  BY <1>1, PlaceFacts DEF CallInv, Roles, SetClock, MainWakes
<1>3. \/ timeSet' = TRUE /\ events' = events \cup {"CLOCK"}
         /\ (UNCHANGED cloud \/ (cloud = "clock" /\ cloud' = "rest"))
      \/ UNCHANGED <<timeSet, events, cloud>>
  BY DEF SetClock, Post
<1>4. cloud' # cloud => cloud \notin Busy \cup {"rest"} /\ cloud' \notin Busy /\ call = "idle"
  BY <1>3 DEF CallInv, Calls, Busy
<1>5. UNCHANGED <<call, attempt, result, batch, air>>
  BY DEF sendVars
<1>6. Roles' /\ Calls'
  BY <1>1, <1>2, <1>4, <1>5 DEF CallInv, Roles, Calls, Busy
<1>7. ClockInv'
  BY <1>1, <1>3 DEF CallInv, ClockInv
<1>8. PlaceInv' /\ TokenInv' /\ PowerInv'
  BY <1>1, <1>2, <1>4 DEF CallInv, PlaceInv, TokenInv, PowerInv, RestInv, BootPlaces
<1>9. ChunkInv' /\ ~Delivers
  BY <1>1, <1>2, ModemAssumption DEF CallInv, ChunkInv, Delivers
<1>10. AirInv'
  BY <1>2, <1>4, <1>5, <1>6 DEF CallInv, AirInv, Undelivered, Roles, Busy
<1>11. QED
  BY <1>1, <1>6, <1>7, <1>8, <1>9, <1>10 DEF CallInv

\* A call begins.
Begins(j, p) ==
  /\ job = "none" /\ job' = j /\ place' = p /\ written' = FALSE /\ rc' = "ok"
  /\ UNCHANGED <<chunk, taken>>

LEMMA AtRest ==
  ASSUME CallInv, job = "none"
  PROVE  /\ place = "done" /\ chunk = 0 /\ chunk \in 0..(Chunks - 1) /\ taken \in Nat
         /\ main # "setup" /\ cloud \notin {"connecting", "sending", "disconnecting"}
BY DEF CallInv, PlaceInv, ChunkInv, Roles

LEMMA BeginBootStep ==
  ASSUME CallInv, UNCHANGED sendVars, Main("boot", "setup"), BeginBoot,
         UNCHANGED <<build, events, lora, cloud, timeSet>>
  PROVE  CallInv' /\ UNCHANGED heapVars /\ place = "done" /\ place' = "at"
<1>1. Begins("boot", "at") /\ UNCHANGED <<heapVars, token>> /\ powered' = TRUE
  BY DEF BeginBoot, Free, Begin, Go, Begins, heapVars
<1>2. main = "boot" /\ main' = "setup" /\ UNCHANGED <<call, attempt, result, batch, air>>
  BY DEF Main, sendVars
<1>3. place = "done" /\ cloud \notin {"connecting", "sending", "disconnecting"} /\ chunk = 0
  BY <1>1, AtRest DEF Begins
<1>4. Roles' /\ Calls'
  BY <1>1, <1>2, <1>3 DEF CallInv, Roles, Calls, Begins, Jobs
<1>5. ClockInv' /\ PlaceInv' /\ TokenInv'
  BY <1>1, <1>2, <1>3 DEF CallInv, ClockInv, PlaceInv, TokenInv, Begins, BootPlaces
<1>6. PowerInv' /\ ChunkInv'
  BY <1>1, <1>2, <1>3 DEF CallInv, PowerInv, RestInv, ChunkInv, Begins
<1>7. AirInv'
  BY <1>1, <1>2, <1>3 DEF CallInv, AirInv, Undelivered, Begins
<1>8. QED
  BY <1>1, <1>3, <1>4, <1>5, <1>6, <1>7 DEF CallInv, Begins

LEMMA BootSetupReturnsStep ==
  ASSUME CallInv, UNCHANGED sendVars, BootSetupReturns
  PROVE  CallInv' /\ UNCHANGED <<heapVars, place>>
<1>1. /\ place = "done" /\ job' = "none"
      /\ UNCHANGED <<place, written, rc, chunk, taken, heapVars, token, powered>>
  BY DEF BootSetupReturns, End, heapVars, modemVars
<1>2. main = "setup" /\ main' \in {"toPrompt", "pause"} /\ UNCHANGED <<build, events, cloud, timeSet>>
  BY DEF BootSetupReturns, Main
<1>3. job = "boot" /\ ~powered
  BY <1>1, <1>2 DEF CallInv, Roles, PowerInv
<1>4. UNCHANGED <<call, attempt, result, batch, air>>
  BY DEF sendVars
<1>5. Roles' /\ Calls' /\ ClockInv' /\ PlaceInv'
  BY <1>1, <1>2, <1>3, <1>4 DEF CallInv, Roles, Calls, ClockInv, PlaceInv
<1>6. TokenInv' /\ PowerInv' /\ ChunkInv'
  BY <1>1, <1>2, <1>3 DEF CallInv, TokenInv, PowerInv, RestInv, ChunkInv
<1>7. AirInv'
  BY <1>1, <1>2, <1>3, <1>4 DEF CallInv, AirInv, Undelivered, Roles
<1>8. QED
  BY <1>1, <1>5, <1>6, <1>7 DEF CallInv

LEMMA BootCall ==
  ASSUME CallInv, Boot
  PROVE  CallInv'
BY MainStep, SetClockStep, BeginBootStep, BootSetupReturnsStep DEF Boot, BootSetup

\* The calls of cloud_send that leave the transport alone.
LEMMA AskStep ==
  ASSUME CallInv, AskMaxPayload \/ MaxPayload \/ SendLog
  PROVE  CallInv' /\ UNCHANGED <<heapVars, place>>
<1>1. /\ UNCHANGED <<transportVars, build, events, main, timeSet, cloud>> /\ cloud = "rest"
      /\ \/ call' \in {"len", "lenOk"} /\ UNCHANGED <<attempt, result, batch, air>>
         \/ call' = "err" /\ attempt' = SendRetryCount /\ batch' = batch + 1 /\ UNCHANGED <<result, air>>
  BY DEF AskMaxPayload, MaxPayload, SendLog, Cloud
<1>2. UNCHANGED <<job, place, written, rc, chunk, taken, heapVars, token, powered>>
  BY <1>1 DEF transportVars, callVars, heapVars, modemVars
<1>3. Roles' /\ ClockInv' /\ PlaceInv' /\ TokenInv' /\ ChunkInv'
  BY <1>1, <1>2 DEF CallInv, Roles, ClockInv, PlaceInv, TokenInv, ChunkInv
<1>4. PowerInv'
  BY <1>1, <1>2 DEF CallInv, PowerInv, RestInv
<1>5. Calls'
  BY <1>1, <1>2, NodeAssumption DEF CallInv, Calls, Busy
<1>6. AirInv'
  <2>1. air \in Nat /\ batch \in Nat
    BY DEF CallInv, Calls
  <2>2. ~Undelivered'
    BY <1>1, NodeAssumption DEF Undelivered
  <2>3. QED
    BY <1>1, <2>1, <2>2 DEF CallInv, AirInv
<1>7. QED
  BY <1>2, <1>3, <1>4, <1>5, <1>6 DEF CallInv

LEMMA ConnectStep ==
  ASSUME CallInv, ConnectNew \/ ConnectAgain
  PROVE  CallInv' /\ UNCHANGED heapVars /\ place = "done" /\ place' = "at"
<1>1. Begins("connect", "at") /\ UNCHANGED <<heapVars, token>> /\ powered' = TRUE
  BY DEF ConnectNew, ConnectAgain, Connect, BeginConnect, Free, Begin, Go, Begins, heapVars
<1>2. /\ cloud = "rest" /\ cloud' = "connecting" /\ call' = "send"
      /\ UNCHANGED <<build, events, main, timeSet, result, air>>
  BY DEF ConnectNew, ConnectAgain, Connect, Cloud
<1>3. batch' \in Nat /\ attempt' \in Nat /\ air <= batch' /\ air # batch'
  <2>1. batch \in Nat /\ attempt \in Nat /\ air \in Nat /\ air <= batch
    BY DEF CallInv, Calls, AirInv
  <2>2. CASE ConnectNew
    BY <2>1, <2>2 DEF ConnectNew
  <2>3. CASE ConnectAgain
    BY <1>2, <2>1, <2>3 DEF ConnectAgain, CallInv, AirInv, Undelivered
  <2>4. QED
    BY <2>2, <2>3
<1>4. place = "done" /\ main # "setup" /\ chunk = 0
  BY <1>1, AtRest DEF Begins
<1>5. Roles' /\ Calls'
  BY <1>1, <1>2, <1>3, <1>4 DEF CallInv, Roles, Calls, Busy, Begins, Jobs
<1>6. ClockInv' /\ PlaceInv' /\ TokenInv'
  BY <1>1, <1>2, <1>4 DEF CallInv, ClockInv, PlaceInv, TokenInv, Begins, ConnectPlaces, NoToken, Busy
<1>7. PowerInv' /\ ChunkInv'
  BY <1>1, <1>2, <1>4 DEF CallInv, PowerInv, RestInv, ChunkInv, Begins
<1>8. AirInv'
  BY <1>2, <1>3 DEF AirInv
<1>9. QED
  BY <1>1, <1>4, <1>5, <1>6, <1>7, <1>8 DEF CallInv, Begins

LEMMA SendStarts ==
  ASSUME CallInv, Send
  PROVE  CallInv' /\ UNCHANGED heapVars /\ place = "done" /\ place' = "request"
<1>1. Begins("send", "request") /\ UNCHANGED <<heapVars, token, powered>>
  BY DEF Send, BeginSend, Free, Begin, Go, Begins, heapVars, modemVars
<1>2. /\ cloud = "connected" /\ cloud' = "sending"
      /\ UNCHANGED <<build, events, main, timeSet, call, attempt, result, batch, air>>
  BY DEF Send, Cloud, sendVars
<1>3. place = "done" /\ main # "setup" /\ chunk = 0
  BY <1>1, AtRest DEF Begins
<1>4. Roles' /\ Calls'
  BY <1>1, <1>2, <1>3 DEF CallInv, Roles, Calls, Busy, Begins, Jobs
<1>5. ClockInv' /\ PlaceInv' /\ TokenInv'
  BY <1>1, <1>2, <1>3 DEF CallInv, ClockInv, PlaceInv, TokenInv, Begins, SendPlaces, EarlyPlaces, Busy
<1>6. PowerInv' /\ ChunkInv'
  BY <1>1, <1>2, <1>3 DEF CallInv, PowerInv, RestInv, ChunkInv, Begins
<1>7. AirInv'
  BY <1>2 DEF CallInv, AirInv, Undelivered
<1>8. QED
  BY <1>1, <1>3, <1>4, <1>5, <1>6, <1>7 DEF CallInv, Begins

LEMMA DisconnectStep ==
  ASSUME CallInv, Disconnect
  PROVE  CallInv' /\ place = "done" /\ place' = "cpof" /\ Memory(TokenBlock, {}) /\ token' = FALSE
<1>1. Begins("disconnect", "cpof") /\ Memory(TokenBlock, {}) /\ token' = FALSE /\ UNCHANGED powered
  BY DEF Disconnect, BeginDisconnect, Free, Begin, Go, Begins, modemVars, TokenBlock
<1>2. /\ cloud = "sent" /\ cloud' = "disconnecting"
      /\ UNCHANGED <<build, events, main, timeSet, call, attempt, result, batch, air>>
  BY DEF Disconnect, Cloud, sendVars
<1>3. place = "done" /\ main # "setup" /\ chunk = 0
  BY <1>1, AtRest DEF Begins
<1>4. Roles' /\ Calls'
  BY <1>1, <1>2, <1>3 DEF CallInv, Roles, Calls, Busy, Begins, Jobs
<1>5. token' \in BOOLEAN /\ ~token'
  BY <1>1
<1>6. ClockInv' /\ PlaceInv' /\ TokenInv'
  BY <1>1, <1>2, <1>3, <1>5 DEF CallInv, ClockInv, PlaceInv, TokenInv, Begins, OffPlaces, Busy
<1>7. PowerInv' /\ ChunkInv'
  BY <1>1, <1>2, <1>3 DEF CallInv, PowerInv, RestInv, ChunkInv, Begins
<1>8. AirInv'
  BY <1>2 DEF CallInv, AirInv, Undelivered
<1>9. QED
  BY <1>1, <1>3, <1>4, <1>6, <1>7, <1>8 DEF CallInv, Begins

LEMMA ReturnStep ==
  ASSUME CallInv, ConnectReturns \/ SendReturns \/ DisconnectReturns
  PROVE  CallInv' /\ UNCHANGED <<heapVars, place>>
<1>1. /\ place = "done" /\ job' = "none"
      /\ UNCHANGED <<place, written, rc, chunk, taken, heapVars, token, powered>>
  BY DEF ConnectReturns, SendReturns, DisconnectReturns, End, heapVars, modemVars
<1>2. UNCHANGED <<build, events, main, timeSet, attempt, batch, air>>
  BY DEF ConnectReturns, SendReturns, DisconnectReturns, Cloud
<1>3. rc \in {"ok", "err"} /\ result \in {"ok", "err"} /\ token \in BOOLEAN
  BY DEF CallInv, Calls, TokenInv
<1>4. \/ /\ job = "connect" /\ cloud = "connecting" /\ rc = "ok"
         /\ cloud' = "connected" /\ UNCHANGED <<call, result>>
      \/ /\ job = "connect" /\ cloud = "connecting" /\ rc = "err" /\ ~token /\ ~powered
         /\ cloud' = "rest" /\ call' = "err" /\ UNCHANGED result
      \/ /\ job = "send" /\ cloud = "sending"
         /\ cloud' = "sent" /\ result' = rc /\ UNCHANGED call
      \/ /\ job = "disconnect" /\ cloud = "disconnecting" /\ ~token /\ ~powered
         /\ cloud' = "rest" /\ call' = result /\ result' = "ok"
  <2>1. CASE ConnectReturns
    BY <1>1, <1>3, <2>1 DEF ConnectReturns, Cloud, CallInv, Roles, TokenInv, PowerInv
  <2>2. CASE SendReturns
    BY <2>2 DEF SendReturns, Cloud, CallInv, Roles
  <2>3. CASE DisconnectReturns
    BY <1>1, <2>3 DEF DisconnectReturns, Cloud, CallInv, Roles, TokenInv, PowerInv
  <2>4. QED
    BY <2>1, <2>2, <2>3
<1>5. main # "setup"
  BY <1>4 DEF CallInv, Roles
<1>6. Roles' /\ Calls'
  BY <1>1, <1>2, <1>3, <1>4, <1>5 DEF CallInv, Roles, Calls, Busy
<1>7. ClockInv' /\ PlaceInv' /\ TokenInv'
  BY <1>1, <1>2, <1>4 DEF CallInv, ClockInv, PlaceInv, TokenInv, Busy
<1>8. PowerInv' /\ ChunkInv'
  BY <1>1, <1>2, <1>4 DEF CallInv, PowerInv, RestInv, ChunkInv
<1>9. Undelivered' => Undelivered
  BY <1>1, <1>2, <1>3, <1>4 DEF Undelivered
<1>10. AirInv'
  BY <1>2, <1>9 DEF CallInv, AirInv
<1>11. QED
  BY <1>1, <1>6, <1>7, <1>8, <1>10 DEF CallInv

LEMMA CloudCall ==
  ASSUME CallInv, CloudSend
  PROVE  CallInv'
BY CommandStep, AskStep, ConnectStep, SendStarts, DisconnectStep, ReturnStep DEF CloudSend

LEMMA TransportFrame ==
  ASSUME Transport
  PROVE  (Talk \/ Think) /\ Frame
BY DEF Transport, Frame, startVars

LEMMA CallStep ==
  ASSUME CallInv, [Next]_vars
  PROVE  CallInv'
<1>1. CASE Transport
  BY <1>1, TransportFrame, TalkCall, ThinkCall
<1>2. CASE UNCHANGED vars
  BY <1>2, StartStep
  DEF vars, transportVars, callVars, modemVars, startVars, CallInv, ClockInv
<1>3. QED
  BY <1>1, <1>2, CommandStep, BootCall, CloudCall DEF Next

LEMMA HeapNext ==
  ASSUME CallInv, HeapInv, [Next]_vars
  PROVE  HeapInv'
<1>1. CASE Transport
  BY <1>1, TransportFrame, TalkHeap, ThinkHeap
<1>2. CASE UNCHANGED <<heapVars, place>>
  BY <1>2, HeapStays
<1>3. CASE UNCHANGED heapVars /\ place \in {"done", "setClock"} /\ place' \in {"at", "request", "cpof"}
  BY <1>3, HeapStays, HeldFacts
<1>4. CASE Disconnect
  <2>1. place = "done" /\ place' = "cpof" /\ Memory(TokenBlock, {}) /\ token' = FALSE
    BY <1>4, DisconnectStep
  <2>2. Held(place) = {} /\ Held(place') = {}
    BY <2>1, HeldFacts
  <2>3. heap' = Counts({})
    BY <2>1, <2>2, MemoryStep DEF HeapInv
  <2>4. TokenBlock' = {}
    BY <2>1 DEF TokenBlock
  <2>5. QED
    BY <2>2, <2>3, <2>4 DEF HeapInv
<1>5. CASE Boot
  BY <1>2, <1>3, <1>5, MainStep, SetClockStep, BeginBootStep, BootSetupReturnsStep DEF Boot, BootSetup
<1>6. CASE CloudSend
  BY <1>2, <1>3, <1>4, <1>6, CommandStep, AskStep, ConnectStep, SendStarts, ReturnStep DEF CloudSend
<1>7. CASE UNCHANGED vars
  BY <1>2, <1>7 DEF vars, transportVars, callVars
<1>8. QED
  BY <1>1, <1>2, <1>5, <1>6, <1>7, CommandStep DEF Next

LEMMA CallInit ==
  ASSUME Init
  PROVE  CallInv /\ HeapInv
<1>1. /\ job = "none" /\ place = "done" /\ written = FALSE /\ rc = "ok" /\ chunk = 0 /\ token = FALSE
      /\ heap = [b \in Blocks |-> 0] /\ powered = TRUE /\ taken = 0
      /\ events = {} /\ cloud = "boot" /\ main = (IF build = "4g" THEN "boot" ELSE "toPrompt")
      /\ timeSet = FALSE /\ call = "idle" /\ attempt = 0 /\ result = "ok" /\ batch = 0 /\ air = 0
  BY DEF Init, TransportInit
<1>2. Roles /\ Calls /\ ClockInv
  BY <1>1 DEF Roles, Calls, ClockInv, Busy
<1>3. PlaceInv /\ TokenInv
  BY <1>1 DEF PlaceInv, TokenInv, Busy
<1>4. PowerInv
  BY <1>1 DEF PowerInv, RestInv
<1>5. ChunkInv /\ AirInv
  BY <1>1, ModemAssumption DEF ChunkInv, AirInv, Undelivered
<1>6. HeapInv
  <2>1. Held(place) = {} /\ TokenBlock = {}
    BY <1>1, HeldFacts DEF TokenBlock
  <2>2. QED
    BY <1>1, <2>1 DEF HeapInv, Counts
<1>7. QED
  BY <1>2, <1>3, <1>4, <1>5, <1>6 DEF CallInv

------------------------------------------------------------------------------
(* The theorems *)

\* Whatever fails in connect, send or boot_setup (the error paths of jwt_builder.cpp and
\* of fetch_access_token, modem_transport.cpp:314-366), between two calls no block is
\* held but the token, and none was freed twice.
THEOREM MemoryIsFreed == Spec => []HeapBalanced
<1>1. Init => CallInv /\ HeapInv
  BY CallInit
<1>2. CallInv /\ HeapInv /\ [Next]_vars => (CallInv /\ HeapInv)'
  BY CallStep, HeapNext
<1>3. CallInv /\ HeapInv => HeapBalanced
  <2>1. SUFFICES ASSUME CallInv, HeapInv, job = "none"
                 PROVE  heap = [b \in Blocks |-> IF b = "token" /\ token THEN 1 ELSE 0]
    BY DEF HeapBalanced
  <2>2. Held(place) = {}
    BY <2>1, HeldFacts DEF CallInv, PlaceInv
  <2>3. heap = Counts(TokenBlock)
    BY <2>1, <2>2 DEF HeapInv
  <2>4. ASSUME NEW b \in Blocks
        PROVE  (b \in TokenBlock) <=> (b = "token" /\ token)
    BY DEF TokenBlock
  <2>5. QED
    BY <2>3, <2>4 DEF Counts
<1>4. QED
  BY <1>1, <1>2, <1>3, PTL DEF Spec

\* However boot_setup (modem_transport.cpp:155-188) ends once its UART is set up, and however
\* disconnect or a connect that fails does (modem_transport.cpp:190-226), the modem is off;
\* no other call leaves it on but a connect that succeeds and the send that follows.
THEOREM OffBetweenCalls == Spec => []OffAtRest
<1>1. Init => CallInv
  BY CallInit
<1>2. CallInv /\ [Next]_vars => CallInv'
  BY CallStep
<1>3. CallInv => OffAtRest
  <2> SUFFICES ASSUME CallInv, powered PROVE OffAtRest
    BY DEF OffAtRest
  <2>1. job \in {"none", "boot", "connect", "send", "disconnect"} /\ rc \in {"ok", "err"}
    BY DEF CallInv, Roles, Calls, Jobs
  <2>2. place = "done" => job \notin {"boot", "disconnect"} /\ (job = "connect" => rc = "ok")
    BY <2>1 DEF CallInv, PowerInv
  <2>3. QED
    BY <2>1, <2>2 DEF CallInv, PowerInv, RestInv, OffAtRest
<1>4. QED
  BY <1>1, <1>2, <1>3, PTL DEF Spec

\* No batch is delivered twice, though send is called again for the one that failed.
THEOREM NoDuplicates == Spec => DeliveredOnce
<1>1. Init => CallInv
  BY CallInit
<1>2. CallInv /\ [Next]_vars => CallInv'
  BY CallStep
<1>3. CallInv /\ [Next]_vars => [Transport /\ Delivers => air # batch]_vars
  BY TransportFrame, TalkCall, ThinkCall
<1>4. QED
  BY <1>1, <1>2, <1>3, PTL DEF Spec, DeliveredOnce

LEMMA ServiceSteps ==
  ASSUME CallInv, [Next]_vars
  PROVE  [Service!ServiceNext]_(Service!serviceVars)
<1> USE DEF Service!serviceVars, Service!ServiceNext, Service!ServiceStep
<1>1. CASE Transport
  <2>1. Frame /\ (Delivers => air # batch)
    BY <1>1, TransportFrame, TalkCall, ThinkCall
  <2>2. air \in Nat /\ batch \in Nat /\ air <= batch
    BY DEF CallInv, Calls, AirInv
  <2>3. CASE UNCHANGED air
    BY <2>1, <2>3 DEF Frame
  <2>4. CASE air' # air
    <3>1. air' = batch /\ air # batch /\ UNCHANGED <<call, batch, timeSet>>
      BY <2>1, <2>4 DEF Frame
    <3>2. air' \in (air + 1)..batch
      BY <2>2, <3>1
    <3>3. Service!Deliver
      BY <3>1, <3>2 DEF Service!Deliver
    <3>4. QED
      BY <3>3
  <2>5. QED
    BY <2>3, <2>4
<1>2. CASE /\ UNCHANGED <<call, batch, air>>
           /\ UNCHANGED timeSet \/ timeSet' = TRUE
  <2>1. CASE UNCHANGED timeSet
    BY <1>2, <2>1
  <2>2. CASE timeSet' = TRUE
    BY <1>2, <2>2 DEF Service!ClockEvent
  <2>3. QED
    BY <1>2, <2>1, <2>2
<1>3. CASE Boot
  BY <1>2, <1>3 DEF Boot, BootSetup, SetClock, BootSetupReturns, BootAgain, Prompt, PromptTimeout, Halt,
                    BootContinue, Adc, sendVars
<1>4. CASE Stop \/ Continue \/ Look \/ Tick \/ LoRa \/ Modem \/ UNCHANGED vars
  BY <1>2, <1>4 DEF Stop, Continue, Look, Tick, LoRa, LoRaInit, LoRaClock, Modem, vars, startVars, sendVars
<1>5. CASE CloudSend
  <2>1. /\ call \in {"idle", "len", "lenOk", "send", "ok", "err"}
        /\ cloud = "rest" => call # "send"
        /\ build = "4g" /\ cloud = "rest" => timeSet
        /\ result \in {"ok", "err"} /\ (cloud \in Busy => call = "send")
    BY DEF CallInv, Calls, ClockInv, Busy
  <2>2. CASE CloudBooted \/ Send \/ SendReturns \/ Disconnect
    BY <1>2, <2>2 DEF CloudBooted, Send, SendReturns, Disconnect, Cloud, sendVars
  <2>3. CASE AskMaxPayload
    <3>1. Service!AskMaxPayload
      BY <2>1, <2>3
      DEF AskMaxPayload, Cloud, IsDone, Service!AskMaxPayload, Service!MayCall, Service!Returned,
          Service!LenResults, Service!SendResults
    <3>2. QED
      BY <3>1
  <2>4. CASE MaxPayload
    <3>1. Service!MaxPayloadReturns
      BY <2>4 DEF MaxPayload, Cloud, Service!MaxPayloadReturns, Service!LenResults
    <3>2. QED
      BY <3>1
  <2>5. CASE ConnectNew
    <3>1. Service!HandOverNew
      BY <2>1, <2>5
      DEF ConnectNew, Connect, Cloud, Service!HandOverNew, Service!HandOver, Service!MayCall,
          Service!Returned, Service!LenResults
    <3>2. QED
      BY <3>1
  <2>6. CASE ConnectAgain
    <3>1. Service!HandOverAgain
      BY <2>1, <2>6
      DEF ConnectAgain, Connect, Cloud, Service!HandOverAgain, Service!HandOver, Service!MayCall,
          Service!Returned, Service!SendResults
    <3>2. QED
      BY <3>1
  <2>7. CASE SendLog
    <3>1. Service!HandOverNew
      BY <2>1, <2>7
      DEF SendLog, Cloud, Service!HandOverNew, Service!HandOver, Service!MayCall, Service!Returned,
          Service!SendResults
    <3>2. QED
      BY <3>1
  <2>8. CASE ConnectReturns \/ DisconnectReturns
    <3>1. call = "send" /\ UNCHANGED <<batch, air, timeSet>>
      BY <2>1, <2>8 DEF ConnectReturns, DisconnectReturns, Cloud, Busy
    <3>2. UNCHANGED call \/ call' \in {"ok", "err"}
      BY <2>1, <2>8 DEF ConnectReturns, DisconnectReturns
    <3>3. CASE UNCHANGED call
      BY <1>2, <3>1, <3>3
    <3>4. CASE call' \in {"ok", "err"}
      <4>1. Service!SendReturns
        BY <3>1, <3>4 DEF Service!SendReturns, Service!SendResults
      <4>2. QED
        BY <4>1
    <3>5. QED
      BY <3>2, <3>3, <3>4
  <2>9. QED
    BY <1>5, <2>2, <2>3, <2>4, <2>5, <2>6, <2>7, <2>8 DEF CloudSend
<1>6. QED
  BY <1>1, <1>3, <1>4, <1>5 DEF Next

\* The 4G transport keeps the promises of UplinkService (itransport.hpp, as cloud_sender.cpp
\* uses it): a batch reaches the server after those handed over before it, and only once
\* it has been handed over.
THEOREM ImplementsUplink == Spec => ImplementsService
<1>1. Init => CallInv /\ Service!ServiceInit
  BY CallInit DEF Init, Service!ServiceInit
<1>2. CallInv /\ [Next]_vars => CallInv'
  BY CallStep
<1>3. CallInv /\ [Next]_vars => [Service!ServiceNext]_(Service!serviceVars)
  BY ServiceSteps
<1>4. QED
  BY <1>1, <1>2, <1>3, PTL DEF Spec, ImplementsService, Service!ServiceSpec
==============================================================================
