------------------------- MODULE NodeDelivery_proofs --------------------------
(***************************************************************************)
(* Theorems about Node: the types of all its variables, and that an        *)
(* attempt of cloud_send that begins with everything in order delivers     *)
(* its batch, whatever was left in the receive pipe.                       *)
(*                                                                         *)
(* The second follows what a healthy modem has said through the pipe: of   *)
(* what is unread nothing is an ERROR (NoError), and what the command just *)
(* written waits for will be read (Due), if only as the OK another command *)
(* has left behind.  It holds from the first command on because the modem  *)
(* was off (SilentInv), the interrupt is that of this transport (DeafInv), *)
(* and modem_init tries again when it reads what was left in the pipe      *)
(* (FirstAt, TryInv).                                                      *)
(***************************************************************************)
EXTENDS Node_proofs, WellFoundedInduction

------------------------------------------------------------------------------
(* Types: the pipe and what is on its way *)

PipeTypes == UartTypeOK /\ coming \in Seq(Piece)

LEMMA PieceIn ==
  /\ Noise \in Piece
  /\ \A t \in Texts : Say(t) \in Piece
  /\ \A t \in Texts, e \in BOOLEAN : [txt |-> {t}, nl |-> e] \in Piece
  /\ \A p \in Piece : [p EXCEPT !.nl = FALSE] \in Piece /\ p.txt \subseteq Texts
BY DEF Noise, Say, Piece

LEMMA OneTwoIn ==
  ASSUME NEW S, NEW a \in S, NEW b \in S
  PROVE  <<a>> \in Seq(S) /\ <<a, b>> \in Seq(S) /\ <<>> \in Seq(S)
OBVIOUS

\* What a modem can answer is one piece or two.
LEMMA AnswerShape ==
  ASSUME NEW p, NEW r \in Answers(p)
  PROVE  (\E a \in Piece : r = <<a>>) \/ (\E a \in Piece, b \in Piece : r = <<a, b>>)
<1>1. /\ Noise \in Piece /\ Say("OK") \in Piece /\ Say("SimPin") \in Piece /\ Say("Time") \in Piece
      /\ Say("Download") \in Piece /\ Say("Status200") \in Piece /\ Say("Token") \in Piece
      /\ Say("NetOpen") \in Piece
      /\ \A e \in BOOLEAN : [txt |-> {"Prompt"}, nl |-> e] \in Piece
  BY PieceIn DEF Texts
<1>2. \/ r \in {<<Noise, Say("OK")>>, <<Say("SimPin"), Say("OK")>>, <<Say("Time"), Say("OK")>>,
                <<Say("OK"), Say("Status200")>>, <<Say("OK"), Say("Token")>>, <<Say("NetOpen"), Say("OK")>>}
      \/ r \in {<<Say("Download")>>, <<Say("OK")>>}
      \/ \E e \in BOOLEAN : r = <<[txt |-> {"Prompt"}, nl |-> e]>>
  BY ZenonT(30) DEF Answers
<1>3. QED
  BY <1>1, <1>2

LEMMA HeardIn ==
  ASSUME NEW r \in Answers(place) \cup {<<Say("ERROR")>>, <<>>}
  PROVE  r \in Seq(Piece)
<1>1. CASE r \in Answers(place)
  <2>1. CASE \E a \in Piece : r = <<a>>
    BY <2>1, OneTwoIn
  <2>2. CASE \E a \in Piece, b \in Piece : r = <<a, b>>
    BY <2>2, OneTwoIn
  <2>3. QED
    BY <1>1, <2>1, <2>2, AnswerShape
<1>2. CASE r = <<Say("ERROR")>>
  <2>1. Say("ERROR") \in Piece
    BY PieceIn DEF Texts
  <2>2. QED
    BY <1>2, <2>1, OneTwoIn
<1>3. CASE r = <<>>
  BY <1>3
<1>4. QED
  BY <1>1, <1>2, <1>3

\* What becomes of the pieces on their way.
LEMMA ComingSteps ==
  ASSUME [Next]_vars
  PROVE  \/ UNCHANGED coming
         \/ coming' = <<>>
         \/ \E r \in Answers(place) \cup {<<Say("ERROR")>>, <<>>} :
              coming' = coming \o r /\ (~powered => r = <<>>)
         \/ coming # <<>> /\ coming' \in {Tail(coming), <<Noise>> \o Tail(coming)}
         \/ powered /\ \E p \in {Noise, Say("OK"), Say("ERROR")} : coming' = <<p>>
<1>1. CASE Stop \/ Continue \/ Look \/ Tick
  BY <1>1 DEF Stop, Continue, Look, Tick, transportVars, modemVars
<1>2. CASE Boot
  BY <1>2 DEF Boot, BootSetup, BeginBoot, SetClock, BootSetupReturns, End, BootAgain, Prompt, PromptTimeout,
              Halt, BootContinue, Adc, transportVars, modemVars
<1>3. CASE LoRa
  BY <1>3 DEF LoRa, LoRaInit, LoRaClock, transportVars, modemVars
<1>4. CASE CloudSend
  BY <1>4 DEF CloudSend, CloudBooted, AskMaxPayload, MaxPayload, Connect, ConnectNew, ConnectAgain,
              ConnectReturns, Send, SendReturns, Disconnect, DisconnectReturns, SendLog, BeginConnect,
              BeginSend, BeginDisconnect, End, transportVars, modemVars
<1>5. CASE Talk
  <2>1. CASE Write
    <3>1. Hear
      BY <2>1 DEF Write
    <3>2. QED
      BY <3>1 DEF Hear
  <2>2. QED
    BY <1>5, <2>1 DEF Talk, Notice, GetPart, AtLine, AtTimeout, TimeLine, TimeTimeout, TokenLine, TokenTimeout,
                      modemVars
<1>6. CASE Think
  BY <1>6 DEF Think, Works, InitFailed, InitDone, Jwt, Payload, Sign, Assertion, StartFailed, TooLong,
              Posted, PostFailed, Buffer, ReadFailed, Parse, ReadToken, Fetched, Request, Form, OpenFailed,
              ChunkDone, Sent, PowerOff, modemVars
<1>7. CASE Modem
  BY <1>7 DEF Modem, ComesIn, Lost, Heal, Unasked
<1>8. CASE UNCHANGED vars
  BY <1>8 DEF vars, transportVars, modemVars
<1>9. QED
  BY <1>1, <1>2, <1>3, <1>4, <1>5, <1>6, <1>7, <1>8 DEF Next, Transport

LEMMA TextsToIn ==
  ASSUME UartTypeOK
  PROVE  TextsTo(Len(pipe)) \subseteq Texts
<1>1. \A i \in 1..Len(pipe) : pipe[i] \in Piece
  BY DEF UartTypeOK
<1>2. \A i \in 1..Len(pipe) : pipe[i].txt \subseteq Texts
  BY <1>1, PieceIn
<1>3. QED
  BY <1>2 DEF TextsTo, UartTypeOK

LEMMA PipeTypesKept ==
  ASSUME PipeTypes, [Next]_vars
  PROVE  PipeTypes'
<1>1. coming' \in Seq(Piece)
  <2>1. coming \in Seq(Piece)
    BY DEF PipeTypes
  <2>2. Noise \in Piece /\ Say("OK") \in Piece /\ Say("ERROR") \in Piece
    BY PieceIn DEF Texts
  <2>3. ASSUME NEW r \in Answers(place) \cup {<<Say("ERROR")>>, <<>>}, coming' = coming \o r
        PROVE  coming' \in Seq(Piece)
    <3>1. r \in Seq(Piece)
      BY HeardIn
    <3>2. QED
      BY <2>1, <2>3, <3>1
  <2>4. CASE coming # <<>> /\ coming' \in {Tail(coming), <<Noise>> \o Tail(coming)}
    <3>1. Tail(coming) \in Seq(Piece) /\ <<Noise>> \in Seq(Piece)
      BY <2>1, <2>2, <2>4
    <3>2. <<Noise>> \o Tail(coming) \in Seq(Piece)
      BY <3>1
    <3>3. QED
      BY <2>4, <3>1, <3>2
  <2>5. ASSUME NEW p \in {Noise, Say("OK"), Say("ERROR")}, coming' = <<p>>
        PROVE  coming' \in Seq(Piece)
    BY <2>2, <2>5
  <2>6. CASE UNCHANGED coming \/ coming' = <<>>
    <3>1. <<>> \in Seq(Piece)
      OBVIOUS
    <3>2. coming' = coming \/ coming' = <<>>
      BY <2>6
    <3>3. QED
      BY <2>1, <3>1, <3>2, Zenon
  <2>7. QED
    BY <2>3, <2>4, <2>5, <2>6, ComingSteps
<1>2. UartTypeOK'
  <2>1. UartTypeOK
    BY DEF PipeTypes
  <2>2. pipe \in Seq(Piece) /\ rcvEvt \in BOOLEAN /\ reading \in BOOLEAN /\ attached \in BOOLEAN /\ out \subseteq Texts
    BY <2>1 DEF UartTypeOK
  <2>3. CASE UNCHANGED uartVars \/ UartSetup \/ Detach \/ ClearRcvEvt \/ ReadPart \/ ReadLine \/ ReadTimeout
    <3>1. /\ rcvEvt' \in {rcvEvt, TRUE, FALSE} /\ reading' \in {reading, TRUE, FALSE}
          /\ attached' \in {attached, TRUE, FALSE}
          /\ pipe' = pipe \/ pipe' = <<>>
          /\ out' = out \/ out' = {} \/ out' = TextsTo(Len(pipe))
      BY <2>3 DEF uartVars, UartSetup, Detach, ClearRcvEvt, ReadPart, ReadLine, ReadTimeout
    <3>2. pipe' \in Seq(Piece) /\ out' \subseteq Texts
      <4>1. <<>> \in Seq(Piece)
        OBVIOUS
      <4>2. QED
        BY <2>1, <2>2, <3>1, <4>1, TextsToIn, Zenon
    <3>3. rcvEvt' \in BOOLEAN /\ reading' \in BOOLEAN /\ attached' \in BOOLEAN
      BY <2>2, <3>1, Zenon
    <3>4. QED
      BY <3>2, <3>3 DEF UartTypeOK
  <2>4. ASSUME NEW p \in {Head(coming), [Head(coming) EXCEPT !.nl = FALSE]}, OnRx(p), coming # <<>>
        PROVE  UartTypeOK'
    <3>1. Head(coming) \in Piece
      BY <2>4 DEF PipeTypes
    <3>2. p \in Piece
      BY <3>1, PieceIn
    <3>3. Append(pipe, p) \in Seq(Piece)
      BY <2>1, <3>2 DEF UartTypeOK
    <3>4. pipe' = Append(pipe, p) /\ rcvEvt' = TRUE /\ UNCHANGED <<reading, out, attached>>
      BY <2>4 DEF OnRx
    <3>5. QED
      BY <2>2, <3>3, <3>4 DEF UartTypeOK
  <2>5. QED
    BY <2>3, <2>4, UartSteps
<1>3. QED
  BY <1>1, <1>2 DEF PipeTypes
------------------------------------------------------------------------------
(* Types: the locals of a call and the modem *)

LocalTypes ==
  /\ written \in BOOLEAN /\ timeOk \in BOOLEAN /\ tries \in 0..MaxInitTries
  /\ full \in {"", "token", "other"}
  /\ wantsData \in BOOLEAN /\ open \in BOOLEAN /\ healthy \in BOOLEAN
  /\ taken <= Chunks

LocalStep ==
  /\ written' = written \/ written' = TRUE \/ written' = FALSE
  /\ timeOk' = timeOk \/ timeOk' = FALSE \/ timeOk' = (timeOk \/ "Time" \in FirstLine)
  /\ tries' \in {tries, 0} \/ (tries < MaxInitTries /\ tries' = tries + 1)
  /\ full' \in {full, "", "token", "other"}

FlagStep ==
  /\ wantsData' = wantsData \/ wantsData' = FALSE \/ \E r, good : wantsData' = (place = "cchSend" /\ r \in good)
  /\ open' = open \/ open' = FALSE \/ open' = TRUE \/ (\E r, good : open' = (open /\ r \notin good))
  /\ healthy' = healthy \/ healthy' = TRUE

LEMMA GoWrites ==
  ASSUME NEW p, Go(p)
  PROVE  written' = TRUE \/ written' = FALSE
BY DEF Go

LEMMA TalkTypes ==
  ASSUME Talk
  PROVE  LocalStep /\ FlagStep
<1>1. CASE Write
  <2>1. Hear /\ written' = TRUE /\ UNCHANGED <<tries, timeOk, full>>
    BY <1>1 DEF Write
  <2>2. PICK r, good :
          /\ wantsData' = (place = "cchSend" /\ r \in good)
          /\ open' = CASE place = "cchOpen"  -> r \in good
                     [] place = "cchClose" -> open /\ r \notin good
                     [] OTHER              -> open
          /\ UNCHANGED healthy
    BY <2>1 DEF Hear
  <2>3. open' = open \/ open' = TRUE \/ open' = FALSE \/ open' = (open /\ r \notin good)
    BY <2>2
  <2>4. QED
    BY <2>1, <2>2, <2>3 DEF LocalStep, FlagStep
<1>2. CASE Notice \/ GetPart
  BY <1>2 DEF Notice, GetPart, callVars, modemVars, LocalStep, FlagStep
<1>3. CASE AtLine \/ AtTimeout
  <2>1. UNCHANGED <<tries, timeOk, full, modemVars>>
    BY <1>3 DEF AtLine, AtTimeout
  <2>2. UNCHANGED written \/ \E p : Go(p)
    BY <1>3 DEF AtLine, AtTimeout
  <2>3. QED
    BY <2>1, <2>2, GoWrites DEF LocalStep, FlagStep, modemVars
<1>4. CASE TimeLine \/ TimeTimeout
  <2>1. UNCHANGED <<tries, full, modemVars>>
    BY <1>4 DEF TimeLine, TimeTimeout
  <2>2. UNCHANGED written \/ \E p : Go(p)
    BY <1>4 DEF TimeLine, TimeTimeout, Fails
  <2>3. timeOk' = FALSE \/ timeOk' = (timeOk \/ "Time" \in FirstLine)
    BY <1>4 DEF TimeLine, TimeTimeout
  <2>4. QED
    BY <2>1, <2>2, <2>3, GoWrites DEF LocalStep, FlagStep, modemVars
<1>5. CASE TokenLine \/ TokenTimeout
  <2>1. UNCHANGED <<tries, timeOk, modemVars>>
    BY <1>5 DEF TokenLine, TokenTimeout
  <2>2. UNCHANGED written \/ \E p : Go(p)
    BY <1>5 DEF TokenLine, TokenTimeout
  <2>3. full' \in {full, "token", "other"}
    BY <1>5 DEF TokenLine, TokenTimeout
  <2>4. QED
    BY <2>1, <2>2, <2>3, GoWrites DEF LocalStep, FlagStep, modemVars
<1>6. QED
  BY <1>1, <1>2, <1>3, <1>4, <1>5 DEF Talk

LEMMA ThinkTypes ==
  ASSUME Think
  PROVE  LocalStep /\ FlagStep
<1>1. \E p : Go(p)
  BY DEF Think, InitFailed, InitDone, Jwt, Payload, Sign, Assertion, StartFailed, TooLong, Posted, PostFailed,
         Buffer, ReadFailed, Parse, ReadToken, Fetched, Request, Form, OpenFailed, ChunkDone, Sent, PowerOff,
         Step, Fails
<1>2. UNCHANGED timeOk
  BY DEF Think, InitFailed, InitDone, Jwt, Payload, Sign, Assertion, StartFailed, TooLong, Posted, PostFailed,
         Buffer, ReadFailed, Parse, ReadToken, Fetched, Request, Form, OpenFailed, ChunkDone, Sent, PowerOff,
         Works
<1>3. tries' \in {tries, 0} \/ (tries < MaxInitTries /\ tries' = tries + 1)
  BY DEF Think, InitFailed, InitDone, Jwt, Payload, Sign, Assertion, StartFailed, TooLong, Posted, PostFailed,
         Buffer, ReadFailed, Parse, ReadToken, Fetched, Request, Form, OpenFailed, ChunkDone, Sent, PowerOff,
         Step
<1>4. full' \in {full, ""}
  BY DEF Think, InitFailed, InitDone, Jwt, Payload, Sign, Assertion, StartFailed, TooLong, Posted, PostFailed,
         Buffer, ReadFailed, Parse, ReadToken, Fetched, Request, Form, OpenFailed, ChunkDone, Sent, PowerOff,
         Step
<1>5. UNCHANGED modemVars \/ (wantsData' = FALSE /\ open' = FALSE /\ UNCHANGED healthy)
  BY DEF Think, InitFailed, InitDone, Jwt, Payload, Sign, Assertion, StartFailed, TooLong, Posted, PostFailed,
         Buffer, ReadFailed, Parse, ReadToken, Fetched, Request, Form, OpenFailed, ChunkDone, Sent, PowerOff,
         Works
<1>6. QED
  BY <1>1, <1>2, <1>3, <1>4, <1>5, GoWrites DEF LocalStep, FlagStep, modemVars

LEMMA OtherTypes ==
  ASSUME [Next]_vars, ~Transport
  PROVE  LocalStep /\ FlagStep /\ UNCHANGED taken
<1>1. \/ UNCHANGED callVars
      \/ UNCHANGED <<tries, timeOk, full>> /\ (UNCHANGED written \/ \E p : Go(p))
  <2>1. CASE Stop \/ Continue \/ Look \/ Tick \/ LoRa \/ Modem \/ UNCHANGED vars
    BY <2>1 DEF Stop, Continue, Look, Tick, LoRa, LoRaInit, LoRaClock, Modem, ComesIn, Lost, Heal, Unasked, vars,
                transportVars
  <2>2. CASE Boot
    BY <2>2 DEF Boot, BootSetup, BeginBoot, Begin, SetClock, BootSetupReturns, End, BootAgain, Prompt,
                PromptTimeout, Halt, BootContinue, Adc, transportVars
  <2>3. CASE CloudSend
    BY <2>3 DEF CloudSend, CloudBooted, AskMaxPayload, MaxPayload, Connect, ConnectNew, ConnectAgain,
                ConnectReturns, Send, SendReturns, Disconnect, DisconnectReturns, SendLog, BeginConnect,
                BeginSend, BeginDisconnect, Begin, End, transportVars
  <2>4. QED
    BY <2>1, <2>2, <2>3 DEF Next
<1>2. UNCHANGED <<wantsData, open, taken>> /\ (UNCHANGED healthy \/ healthy' = TRUE)
  <2>1. CASE Stop \/ Continue \/ Look \/ Tick \/ LoRa \/ Modem \/ UNCHANGED vars
    BY <2>1 DEF Stop, Continue, Look, Tick, LoRa, LoRaInit, LoRaClock, Modem, ComesIn, Lost, Heal, Unasked, vars,
                transportVars, modemVars
  <2>2. CASE Boot
    BY <2>2 DEF Boot, BootSetup, BeginBoot, Begin, SetClock, BootSetupReturns, End, BootAgain, Prompt,
                PromptTimeout, Halt, BootContinue, Adc, transportVars, modemVars
  <2>3. CASE CloudSend
    BY <2>3 DEF CloudSend, CloudBooted, AskMaxPayload, MaxPayload, Connect, ConnectNew, ConnectAgain,
                ConnectReturns, Send, SendReturns, Disconnect, DisconnectReturns, SendLog, BeginConnect,
                BeginSend, BeginDisconnect, Begin, End, transportVars, modemVars
  <2>4. QED
    BY <2>1, <2>2, <2>3 DEF Next
<1>3. QED
  BY <1>1, <1>2, GoWrites DEF LocalStep, FlagStep, callVars

LEMMA TakenKept ==
  ASSUME CallInv, taken <= Chunks, Talk \/ Think
  PROVE  taken' <= Chunks
<1>1. taken \in Nat /\ chunk \in 0..(Chunks - 1) /\ Chunks \in Nat \ {0}
  BY ModemAssumption DEF CallInv, ChunkInv
<1>2. CASE Talk
  <2>1. WriteShape \/ UNCHANGED taken
    BY <1>1, <1>2, TalkShape DEF PassShape, RowStep, LoopShape
  <2>2. place = "cchData" /\ ~written => taken <= chunk
    BY DEF CallInv, ChunkInv
  <2>3. QED
    BY <1>1, <2>1, <2>2 DEF WriteShape
<1>3. CASE Think
  <2>1. UNCHANGED taken \/ taken' = 0
    BY <1>3, NoTokenShape, TokenShape, SendShape DEF Think, NoTokenStep, TokenStep, SendStep, PowerOff
  <2>2. QED
    BY <1>1, <2>1
<1>4. QED
  BY <1>2, <1>3

LEMMA LocalTypesKept ==
  ASSUME CallInv, LocalTypes, [Next]_vars
  PROVE  LocalTypes'
<1>1. LocalStep /\ FlagStep
  BY TalkTypes, ThinkTypes, OtherTypes DEF Transport
<1>2. taken' <= Chunks
  BY TakenKept, OtherTypes DEF Transport, LocalTypes
<1>3. written' \in BOOLEAN /\ timeOk' \in BOOLEAN
  BY <1>1, Zenon DEF LocalStep, LocalTypes
<1>4. wantsData' \in BOOLEAN /\ open' \in BOOLEAN /\ healthy' \in BOOLEAN
  <2>1. wantsData' \in BOOLEAN
    BY <1>1, Zenon DEF FlagStep, LocalTypes
  <2>2. open' \in BOOLEAN
    <3>1. CASE \E r, good : open' = (open /\ r \notin good)
      BY <3>1, Zenon
    <3>2. CASE open' = open \/ open' = FALSE \/ open' = TRUE
      BY <3>2, Zenon DEF LocalTypes
    <3>3. QED
      BY <1>1, <3>1, <3>2, Zenon DEF FlagStep
  <2>3. healthy' \in BOOLEAN
    BY <1>1, Zenon DEF FlagStep, LocalTypes
  <2>4. QED
    BY <2>1, <2>2, <2>3
<1>5. tries' \in 0..MaxInitTries
  <2>1. MaxInitTries \in Nat /\ tries \in 0..MaxInitTries
    BY ModemAssumption DEF LocalTypes
  <2>2. tries' \in {tries, 0} \/ (tries < MaxInitTries /\ tries' = tries + 1)
    BY <1>1 DEF LocalStep
  <2>3. QED
    BY <2>1, <2>2
<1>6. full' \in {"", "token", "other"}
  BY <1>1 DEF LocalStep, LocalTypes
<1>7. QED
  BY <1>2, <1>3, <1>4, <1>5, <1>6 DEF LocalTypes
------------------------------------------------------------------------------
(* Types: the threads *)

ThreadTypes ==
  /\ build \in {"lora", "4g"} /\ events \subseteq {"HALT", "CONTINUE", "CLOCK"}
  /\ main \in {"boot", "setup", "pause", "toPrompt", "prompt", "stopping", "halted", "go", "adc",
               "ended", "clock", "loop"}
  /\ lora \in {"start", "boot", "runs", "gone"}
  /\ cloud \in {"boot", "booted", "clock", "rest", "connecting", "connected", "sending", "sent",
                "disconnecting"}

SendTypes ==
  /\ attempt <= SendRetryCount /\ batch <= MaxBatch + 1 /\ sound \in BOOLEAN
  /\ sleep <= Cycle - Early + AdcTime

LEMMA PostTypes ==
  ASSUME ThreadTypes, NEW bits \in SUBSET {"HALT", "CONTINUE", "CLOCK"}, Post(bits)
  PROVE  /\ events' \subseteq {"HALT", "CONTINUE", "CLOCK"}
         /\ lora' \in {"start", "boot", "runs", "gone"}
         /\ cloud' \in {"boot", "booted", "clock", "rest", "connecting", "connected", "sending", "sent",
                        "disconnecting"}
BY DEF Post, ThreadTypes

LEMMA WakesTypes ==
  ASSUME NEW bits, MainWakes(bits)
  PROVE  main' \in {main, "stopping", "go", "loop"}
BY DEF MainWakes

LEMMA ThreadTypesKept ==
  ASSUME ThreadTypes, [Next]_vars
  PROVE  ThreadTypes'
<1> {"HALT"} \in SUBSET {"HALT", "CONTINUE", "CLOCK"} /\ {"CONTINUE"} \in SUBSET {"HALT", "CONTINUE", "CLOCK"}
      /\ {"CLOCK"} \in SUBSET {"HALT", "CONTINUE", "CLOCK"}
  OBVIOUS
<1>1. CASE Stop \/ Continue
  BY <1>1, PostTypes, WakesTypes DEF Stop, Continue, ThreadTypes
<1>2. CASE Boot
  <2>1. CASE SetClock
    BY <2>1, PostTypes, WakesTypes DEF SetClock, ThreadTypes
  <2>2. CASE BootContinue
    BY <2>2, PostTypes DEF BootContinue, Main, ThreadTypes
  <2>3. CASE BootSetup \/ BootSetupReturns \/ BootAgain \/ PromptTimeout \/ Halt \/ Adc \/ Prompt
    BY <2>3 DEF BootSetup, BootSetupReturns, BootAgain, PromptTimeout, Halt, Adc, Prompt, Main, ThreadTypes
  <2>4. QED
    BY <1>2, <2>1, <2>2, <2>3 DEF Boot
<1>3. CASE LoRa
  <2>1. CASE LoRaInit
    BY <2>1 DEF LoRaInit, ThreadTypes
  <2>2. CASE LoRaClock
    BY <2>2, PostTypes, WakesTypes DEF LoRaClock, ThreadTypes
  <2>3. QED
    BY <1>3, <2>1, <2>2 DEF LoRa
<1>4. CASE CloudSend
  BY <1>4 DEF CloudSend, CloudBooted, Cloud, AskMaxPayload, MaxPayload, Connect, ConnectNew, ConnectAgain,
              ConnectReturns, Send, SendReturns, Disconnect, DisconnectReturns, SendLog, ThreadTypes
<1>5. CASE Look \/ Tick \/ Transport \/ Modem \/ UNCHANGED vars
  BY <1>5 DEF Look, Tick, Transport, Modem, vars, startVars, ThreadTypes
<1>6. QED
  BY <1>1, <1>2, <1>3, <1>4, <1>5 DEF Next

LEMMA SleepKept ==
  ASSUME SlotInv, sleep <= Cycle - Early + AdcTime, [Next]_vars
  PROVE  sleep' <= Cycle - Early + AdcTime
<1>1. sleep \in Nat /\ Cycle \in Nat /\ Early \in Nat /\ AdcTime \in Nat /\ Minute \in Nat /\ Minute > 0
      /\ Minute + Early < Cycle
  BY NodeAssumption DEF SlotInv
<1>2. CASE Look
  <2>1. sleep' = 1 \/ \E d \in 0..AdcTime : sleep' = d + Cycle - Early
    BY <1>2 DEF Look
  <2>2. QED
    BY <1>1, <2>1
<1>3. CASE Tick
  BY <1>1, <1>3 DEF Tick
<1>4. CASE ~Look /\ ~Tick
  BY <1>4, LoopSteps DEF loopVars
<1>5. QED
  BY <1>2, <1>3, <1>4

LEMMA SendTypesKept ==
  ASSUME CallInv, SlotInv, SendTypes, [Next]_vars
  PROVE  SendTypes'
<1>1. /\ attempt \in Nat /\ batch \in Nat /\ SendRetryCount \in Nat \ {0} /\ MaxBatch \in Nat
      /\ attempt <= SendRetryCount /\ batch <= MaxBatch + 1 /\ sound \in BOOLEAN
  BY NodeAssumption DEF CallInv, Calls, SendTypes
<1>2. \/ UNCHANGED <<attempt, batch, sound>>
      \/ batch < MaxBatch /\ batch' = batch + 1 /\ attempt' = 1 /\ sound' = (healthy /\ lora = "gone")
      \/ UNCHANGED batch /\ attempt < SendRetryCount /\ attempt' = attempt + 1 /\ sound' = (healthy /\ lora = "gone")
      \/ batch <= MaxBatch /\ batch' = batch + 1 /\ attempt' = SendRetryCount /\ sound' = FALSE
  <2>1. CASE Stop \/ Continue \/ Look \/ Tick \/ LoRa \/ Boot \/ Transport \/ Modem \/ UNCHANGED vars
    BY <2>1 DEF Stop, Continue, Look, Tick, LoRa, LoRaInit, LoRaClock, Boot, Transport, Modem, vars, sendVars
  <2>2. CASE CloudSend
    BY <2>2 DEF CloudSend, CloudBooted, AskMaxPayload, MaxPayload, Connect, ConnectNew, ConnectAgain,
                ConnectReturns, Send, SendReturns, Disconnect, DisconnectReturns, SendLog, sendVars
  <2>3. QED
    BY <2>1, <2>2 DEF Next
<1>3. attempt' <= SendRetryCount /\ batch' <= MaxBatch + 1
  BY <1>1, <1>2
<1>4. sound' = sound \/ sound' = FALSE \/ sound' = (healthy /\ lora = "gone")
  BY <1>2
<1>5. sound' \in BOOLEAN
  BY <1>1, <1>4, Zenon
<1>6. sleep' <= Cycle - Early + AdcTime
  BY SleepKept DEF SendTypes
<1>7. QED
  BY <1>3, <1>5, <1>6 DEF SendTypes

TypeInv == CallInv /\ HeapInv /\ SlotInv /\ PipeTypes /\ LocalTypes /\ ThreadTypes /\ SendTypes

LEMMA TypeInit ==
  ASSUME Init
  PROVE  TypeInv
<1>1. CallInv /\ HeapInv /\ SlotInv
  BY CallInit, SlotInit
<1>2. PipeTypes
  <2>1. <<>> \in Seq(Piece) /\ FALSE \in BOOLEAN /\ {} \subseteq Texts
    OBVIOUS
  <2>2. QED
    BY <2>1, Zenon DEF Init, TransportInit, UartInit, PipeTypes, UartTypeOK
<1>3. LocalTypes
  <2>1. 0 \in 0..MaxInitTries /\ 0 <= Chunks /\ "" \in {"", "token", "other"} /\ FALSE \in BOOLEAN
    BY ModemAssumption
  <2>2. QED
    BY <2>1, Zenon DEF Init, TransportInit, LocalTypes
<1>4. ThreadTypes
  BY DEF Init, ThreadTypes
<1>5. SendTypes
  <2>1. 0 <= SendRetryCount /\ 0 <= MaxBatch + 1 /\ 0 <= Cycle - Early + AdcTime /\ FALSE \in BOOLEAN
    BY NodeAssumption
  <2>2. QED
    BY <2>1, Zenon DEF Init, SendTypes
<1>6. QED
  BY <1>1, <1>2, <1>3, <1>4, <1>5 DEF TypeInv

LEMMA TypeNext ==
  ASSUME TypeInv, [Next]_vars
  PROVE  TypeInv'
BY CallStep, HeapNext, SlotNext, PipeTypesKept, LocalTypesKept, ThreadTypesKept, SendTypesKept DEF TypeInv

\* Every variable of the node keeps to its type, the blocks of memory among them: none is
\* held twice or freed when it is not held (jwt_builder.cpp, modem_transport.cpp:314-430).
THEOREM TypesHold == Spec => []TypeOK
<1>1. Init => TypeInv
  BY TypeInit
<1>2. TypeInv /\ [Next]_vars => TypeInv'
  BY TypeNext
<1>3. TypeInv => TypeOK
  <2>1. SUFFICES ASSUME TypeInv PROVE TypeOK
    OBVIOUS
  <2>2. /\ job \in Jobs \cup {"none"} /\ rc \in {"ok", "err"} /\ chunk \in 0..(Chunks - 1)
        /\ token \in BOOLEAN /\ powered \in BOOLEAN /\ taken \in Nat /\ timeSet \in BOOLEAN
        /\ call \in {"idle", "len", "lenOk", "send", "ok", "err"} /\ result \in {"ok", "err"}
        /\ attempt \in Nat /\ batch \in Nat /\ air \in Nat
    BY <2>1 DEF TypeInv, CallInv, Roles, Calls, ClockInv, TokenInv, PowerInv, ChunkInv
  <2>3. place \in Places
    <3>1. BootPlaces \cup ConnectPlaces \cup SendPlaces \cup OffPlaces \subseteq Places
      BY DEF BootPlaces, ConnectPlaces, NoToken, SendPlaces, EarlyPlaces, OffPlaces, Places, Commands, Loops, Work,
             Dialogue, ModemInit, HttpStart, HttpPost, HttpRead, HttpStop, TcpOpen, TcpSendChunked, TcpClose,
             PowerDown, Row
    <3>2. place \in BootPlaces \cup ConnectPlaces \cup SendPlaces \cup OffPlaces
      BY <2>1, <2>2 DEF TypeInv, CallInv, PlaceInv, Jobs, OffPlaces
    <3>3. QED
      BY <3>1, <3>2
  <2>4. heap \in [Blocks -> {0, 1}]
    BY <2>1 DEF TypeInv, HeapInv, Counts
  <2>5. TransportTypeOK
    <3>1. taken \in 0..Chunks
      <4>1. taken <= Chunks /\ Chunks \in Nat
        BY <2>1, ModemAssumption DEF TypeInv, LocalTypes
      <4>2. QED
        BY <2>2, <4>1
    <3>2. QED
      BY <2>1, <2>2, <2>3, <2>4, <3>1, Zenon DEF TransportTypeOK, TypeInv, PipeTypes, LocalTypes
  <2>6. /\ attempt \in 0..SendRetryCount /\ batch \in 0..(MaxBatch + 1)
        /\ now \in 0..(Cycle - 1) /\ sleep \in 0..(Cycle - Early + AdcTime) /\ took \in Nat
    <3>1. sleep \in Nat /\ took \in Nat /\ now \in 0..(Cycle - 1)
      BY <2>1 DEF TypeInv, SlotInv
    <3>2. attempt <= SendRetryCount /\ batch <= MaxBatch + 1 /\ sleep <= Cycle - Early + AdcTime
      BY <2>1 DEF TypeInv, SendTypes
    <3>3. QED
      BY <2>2, <3>1, <3>2, NodeAssumption
  <2>7. whole \in BOOLEAN /\ sound \in BOOLEAN
    BY <2>1 DEF TypeInv, SlotInv, SendTypes
  <2>8. QED
    BY <2>1, <2>2, <2>5, <2>6, <2>7, Zenon DEF TypeOK, TypeInv, ThreadTypes
<1>4. QED
  BY <1>1, <1>2, <1>3, PTL DEF Spec
------------------------------------------------------------------------------
(* What is in the pipe and on its way *)

TextsOf(s) == UNION {s[n].txt : n \in DOMAIN s}

\* What read_line has of the modem, and what it may still get.
Heard  == out \cup TextsOf(pipe)
Unread == Heard \cup TextsOf(coming)

\* A line with the text t will still be read.
LastEnds(s) == s # <<>> /\ s[Len(s)].nl
Due(t) == t \in Unread /\ LastEnds(IF coming = <<>> THEN pipe ELSE coming)

LEMMA TextsFew ==
  /\ TextsOf(<<>>) = {}
  /\ \A a : TextsOf(<<a>>) = a.txt
  /\ \A a, b : TextsOf(<<a, b>>) = a.txt \cup b.txt
BY DEF TextsOf

LEMMA TextsCat ==
  ASSUME NEW S, NEW s \in Seq(S), NEW r \in Seq(S)
  PROVE  TextsOf(s \o r) = TextsOf(s) \cup TextsOf(r)
<1>1. DOMAIN s = 1..Len(s) /\ DOMAIN r = 1..Len(r) /\ DOMAIN (s \o r) = 1..(Len(s) + Len(r))
      /\ Len(s) \in Nat /\ Len(r) \in Nat
  OBVIOUS
<1>2. \A n \in 1..Len(s) : (s \o r)[n] = s[n] /\ n \in 1..(Len(s) + Len(r))
  BY <1>1
<1>3. \A n \in 1..Len(r) : (s \o r)[Len(s) + n] = r[n] /\ Len(s) + n \in 1..(Len(s) + Len(r))
  BY <1>1
<1>4. \A n \in 1..(Len(s) + Len(r)) : n \in 1..Len(s) \/ \E k \in 1..Len(r) : n = Len(s) + k
  <2>1. ASSUME NEW n \in 1..(Len(s) + Len(r)), n \notin 1..Len(s)
        PROVE  n - Len(s) \in 1..Len(r) /\ n = Len(s) + (n - Len(s))
    BY <1>1, <2>1
  <2>2. QED
    BY <2>1
<1>5. TextsOf(s \o r) \subseteq TextsOf(s) \cup TextsOf(r)
  <2>1. SUFFICES ASSUME NEW n \in 1..(Len(s) + Len(r))
                 PROVE  (s \o r)[n].txt \subseteq TextsOf(s) \cup TextsOf(r)
    BY <1>1 DEF TextsOf
  <2>2. CASE n \in 1..Len(s)
    BY <1>1, <1>2, <2>2 DEF TextsOf
  <2>3. CASE n \notin 1..Len(s)
    <3>1. PICK k \in 1..Len(r) : n = Len(s) + k
      BY <1>4, <2>3
    <3>2. (s \o r)[n].txt = r[k].txt
      BY <1>3, <3>1
    <3>3. QED
      BY <1>1, <3>2 DEF TextsOf
  <2>4. QED
    BY <2>2, <2>3
<1>6. TextsOf(s) \cup TextsOf(r) \subseteq TextsOf(s \o r)
  BY <1>1, <1>2, <1>3 DEF TextsOf
<1>7. QED
  BY <1>5, <1>6

LEMMA TextsPrepend ==
  ASSUME NEW S, NEW s \in Seq(S), NEW a \in S
  PROVE  TextsOf(<<a>> \o s) = a.txt \cup TextsOf(s)
<1> DEFINE r == <<a>>
<1>1. r \in Seq(S) /\ TextsOf(r) = a.txt
  BY TextsFew
<1> HIDE DEF r
<1>2. TextsOf(r \o s) = a.txt \cup TextsOf(s)
  BY <1>1, TextsCat
<1>3. QED
  BY <1>1, <1>2, Zenon DEF r

LEMMA TextsAppend ==
  \A s \in Seq(Piece), a \in Piece : TextsOf(Append(s, a)) = TextsOf(s) \cup a.txt
<1>1. SUFFICES ASSUME NEW s \in Seq(Piece), NEW a \in Piece
               PROVE  TextsOf(Append(s, a)) = TextsOf(s) \cup a.txt
  OBVIOUS
<1> DEFINE r == <<a>>
<1>2. r \in Seq(Piece) /\ TextsOf(r) = a.txt /\ Append(s, a) = s \o r
  BY TextsFew
<1> HIDE DEF r
<1>3. TextsOf(s \o r) = TextsOf(s) \cup a.txt
  BY <1>2, TextsCat
<1>4. QED
  BY <1>2, <1>3, Zenon

LEMMA TextsTail ==
  ASSUME NEW S, NEW s \in Seq(S), s # <<>>
  PROVE  TextsOf(s) = Head(s).txt \cup TextsOf(Tail(s))
<1>1. s = <<Head(s)>> \o Tail(s) /\ Tail(s) \in Seq(S) /\ <<Head(s)>> \in Seq(S)
  OBVIOUS
<1>2. TextsOf(s) = TextsOf(<<Head(s)>>) \cup TextsOf(Tail(s))
  BY <1>1, TextsCat
<1>3. QED
  BY <1>2, TextsFew

LEMMA EndsFew ==
  /\ ~LastEnds(<<>>)
  /\ \A a : LastEnds(<<a>>) <=> a.nl
  /\ \A a, b : LastEnds(<<a, b>>) <=> b.nl
BY DEF LastEnds

LEMMA EndsCat ==
  ASSUME NEW S, NEW s \in Seq(S), NEW r \in Seq(S), r # <<>>
  PROVE  s \o r # <<>> /\ (LastEnds(s \o r) <=> LastEnds(r))
<1>1. Len(s) \in Nat /\ Len(r) \in Nat /\ Len(r) > 0 /\ Len(s \o r) = Len(s) + Len(r)
  OBVIOUS
<1>2. (s \o r)[Len(s) + Len(r)] = r[Len(r)]
  BY <1>1
<1>3. s \o r # <<>>
  BY <1>1
<1>4. QED
  BY <1>1, <1>2, <1>3 DEF LastEnds

LEMMA EndsTail ==
  ASSUME NEW S, NEW s \in Seq(S), s # <<>>
  PROVE  IF Tail(s) = <<>> THEN s = <<Head(s)>> ELSE LastEnds(Tail(s)) <=> LastEnds(s)
<1>1. s = <<Head(s)>> \o Tail(s) /\ Tail(s) \in Seq(S) /\ <<Head(s)>> \in Seq(S)
  OBVIOUS
<1>2. ASSUME Tail(s) = <<>> PROVE s = <<Head(s)>>
  <2>1. <<Head(s)>> \o <<>> = <<Head(s)>>
    BY <1>1
  <2>2. QED
    BY <1>1, <1>2, <2>1
<1>3. CASE Tail(s) # <<>>
  BY <1>1, <1>3, EndsCat
<1>4. QED
  BY <1>2, <1>3

\* The pipe holds a line if its last piece ends one.
LEMMA EndIsLine ==
  ASSUME UartTypeOK, LineEnds = {}
  PROVE  ~LastEnds(pipe)
<1>1. SUFFICES ASSUME pipe # <<>> PROVE ~pipe[Len(pipe)].nl
  BY DEF LastEnds
<1>2. Len(pipe) \in 1..Len(pipe)
  BY <1>1 DEF UartTypeOK
<1>3. QED
  BY <1>2 DEF LineEnds

LEMMA HeardIsTextsTo ==
  ASSUME UartTypeOK
  PROVE  TextsTo(Len(pipe)) = Heard
<1>1. DOMAIN pipe = 1..Len(pipe)
  BY DEF UartTypeOK
<1>2. QED
  BY <1>1 DEF TextsTo, Heard, TextsOf

\* "Less than" is well founded on the numbers, as a set of pairs.
LEMMA LessIsWellFounded == IsWellFoundedOn({ss \in Nat \X Nat : ss[1] < ss[2]}, Nat)
  BY NatLessThanWellFounded DEF OpToRel

\* A set of numbers that is not empty has a least one.
LEMMA LeastOf ==
  ASSUME NEW K, K # {}, K \subseteq Nat
  PROVE  \E n \in K : \A j \in K : n <= j
<1> DEFINE R == {ss \in Nat \X Nat : ss[1] < ss[2]}
<1>1. IsWellFoundedOn(R, Nat)
  BY LessIsWellFounded
<1>2. \A j, n \in Nat : j < n => <<j, n>> \in R
  OBVIOUS
<1> HIDE DEF R
<1>3. PICK n \in K : \A j \in K : ~(<<j, n>> \in R)
  BY <1>1, WFMin
<1>4. \A j \in K : n <= j
  <2> SUFFICES ASSUME NEW j \in K PROVE n <= j
    OBVIOUS
  <2>1. j \in Nat /\ n \in Nat
    OBVIOUS
  <2>2. ~(j < n)
    BY <1>2, <1>3, <2>1, Zenon
  <2>3. QED
    BY <2>1, <2>2
<1>5. QED
  BY <1>4

LEMMA FirstLineIsHeard ==
  ASSUME UartTypeOK, LineEnds # {}
  PROVE  /\ pipe # <<>> /\ FirstLine \subseteq Heard
         /\ Len(pipe) <= 1 => FirstLine = Heard
<1>1. DOMAIN pipe = 1..Len(pipe) /\ Len(pipe) \in Nat
  BY DEF UartTypeOK
<1> DEFINE First(n) == n \in LineEnds /\ \A i \in LineEnds : n <= i
<1>2. LineEnds \subseteq 1..Len(pipe)
  BY DEF LineEnds
<1>3. \E n : First(n)
  <2>1. LineEnds \subseteq Nat
    BY <1>1, <1>2
  <2>2. QED
    BY <2>1, LeastOf
<1>4. PICK n : First(n) /\ n = (CHOOSE m \in LineEnds : \A i \in LineEnds : m <= i)
  BY <1>3
<1>5. n \in 1..Len(pipe) /\ FirstLine = TextsTo(n)
  BY <1>2, <1>4 DEF FirstLine
<1>6. FirstLine \subseteq Heard
  BY <1>1, <1>5 DEF TextsTo, Heard, TextsOf
<1>7. ASSUME Len(pipe) <= 1 PROVE FirstLine = Heard
  <2>1. n = Len(pipe)
    <3>1. \A l \in Nat : l <= 1 => \A m \in 1..l : m = l
      OBVIOUS
    <3>2. QED
      BY <1>1, <1>5, <1>7, <3>1
  <2>2. QED
    BY <1>5, <2>1, HeardIsTextsTo
<1>8. QED
  BY <1>1, <1>5, <1>6, <1>7
------------------------------------------------------------------------------
(* The steps of read_line, and of the modem, on what is heard *)

LEMMA ComesInKeeps ==
  ASSUME PipeTypes, attached, healthy, ComesIn
  PROVE  /\ pipe = <<>> /\ coming # <<>> /\ UNCHANGED out
         /\ Len(pipe') <= 1 /\ Unread' = Unread /\ TextsOf(coming') \subseteq TextsOf(coming)
         /\ \A t : Due(t) => Due(t)'
<1> DEFINE p == Head(coming)
<1>1. pipe = <<>> /\ coming # <<>> /\ coming \in Seq(Piece)
  BY DEF ComesIn, PipeTypes
<1>2. CASE OnRx(p) /\ coming' = Tail(coming)
  <2>1. pipe' = <<p>> /\ UNCHANGED out
    BY <1>1, <1>2 DEF OnRx
  <2>2. TextsOf(coming) = p.txt \cup TextsOf(coming')
    BY <1>1, <1>2, TextsTail
  <2>3. Unread' = Unread
    BY <1>1, <2>1, <2>2, TextsFew DEF Unread, Heard
  <2>4. LastEnds(coming) => LastEnds(IF coming' = <<>> THEN pipe' ELSE coming')
    <3>1. IF Tail(coming) = <<>> THEN coming = <<p>> ELSE LastEnds(Tail(coming)) <=> LastEnds(coming)
      BY <1>1, EndsTail
    <3>2. QED
      BY <1>2, <2>1, <3>1
  <2>5. \A t : Due(t) => Due(t)'
    BY <1>1, <2>3, <2>4 DEF Due
  <2>6. Len(pipe') <= 1
    BY <2>1
  <2>7. QED
    BY <1>1, <2>1, <2>2, <2>3, <2>5, <2>6
<1>3. CASE /\ coming = <<p>> /\ p = Say("OK")
           /\ OnRx([p EXCEPT !.nl = FALSE])
           /\ coming' = <<Noise>> \o Tail(coming)
  <2>1. pipe' = <<[p EXCEPT !.nl = FALSE]>> /\ UNCHANGED out
    BY <1>1, <1>3 DEF OnRx
  <2>2. [p EXCEPT !.nl = FALSE].txt = p.txt
    BY <1>3 DEF Say
  <2>3. \A a : Tail(<<a>>) = <<>> /\ <<a>> \o <<>> = <<a>>
    OBVIOUS
  <2>4. coming' = <<Noise>>
    <3> HIDE DEF p
    <3>1. Tail(coming) = <<>>
      BY <1>3, <2>3, Zenon
    <3>2. QED
      BY <1>3, <2>3, <3>1, Zenon
  <2>5. TextsOf(coming') = {} /\ TextsOf(pipe') = p.txt /\ TextsOf(coming) = p.txt /\ TextsOf(pipe) = {}
    <3>1. TextsOf(coming') = Noise.txt
      BY <2>4, TextsFew
    <3>2. TextsOf(coming) = p.txt
      BY <1>3, TextsFew, Zenon
    <3>3. QED
      BY <1>1, <2>1, <2>2, <3>1, <3>2, TextsFew DEF Noise
  <2>6. Unread' = Unread
    BY <2>1, <2>5 DEF Unread, Heard
  <2>7. LastEnds(coming') /\ coming' # <<>>
    BY <2>4, EndsFew DEF Noise
  <2>8. Len(pipe') <= 1
    BY <2>1
  <2>9. QED
    BY <1>1, <2>1, <2>5, <2>6, <2>7, <2>8 DEF Due
<1>4. QED
  BY <1>2, <1>3 DEF ComesIn

LEMMA PartKeeps ==
  ASSUME UartTypeOK, ReadPart, UNCHANGED coming
  PROVE  /\ pipe' = <<>> /\ Heard' = Heard /\ Unread' = Unread
         /\ \A t : Due(t) => Due(t)'
<1>1. pipe' = <<>> /\ out' = Heard /\ LineEnds = {}
  BY HeardIsTextsTo DEF ReadPart
<1>2. Heard' = Heard
  BY <1>1, TextsFew DEF Heard
<1>3. Unread' = Unread
  BY <1>2 DEF Unread
<1>4. ~LastEnds(pipe)
  BY <1>1, EndIsLine
<1>5. \A t : Due(t) => Due(t)'
  BY <1>3, <1>4 DEF Due
<1>6. QED
  BY <1>1, <1>2, <1>3, <1>5

LEMMA LineTakes ==
  ASSUME UartTypeOK, ReadLine, UNCHANGED coming
  PROVE  /\ pipe # <<>> /\ pipe' = <<>> /\ out' = {} /\ Heard' = {} /\ Unread' = TextsOf(coming)
         /\ FirstLine \subseteq Heard
         /\ Len(pipe) <= 1 => FirstLine = Heard
         /\ \A t : Due(t) /\ Len(pipe) <= 1 /\ t \notin FirstLine => Due(t)'
<1>1. LineEnds # {} /\ pipe' = <<>> /\ out' = {}
  BY DEF ReadLine
<1>2. Heard' = {} /\ Unread' = TextsOf(coming)
  BY <1>1, TextsFew DEF Heard, Unread
<1>3. pipe # <<>> /\ FirstLine \subseteq Heard /\ (Len(pipe) <= 1 => FirstLine = Heard)
  BY <1>1, FirstLineIsHeard
<1>4. ASSUME NEW t, Due(t), Len(pipe) <= 1, t \notin FirstLine
      PROVE  Due(t)'
  <2>1. t \in TextsOf(coming)
    BY <1>3, <1>4 DEF Due, Unread
  <2>2. coming # <<>>
    BY <2>1, TextsFew
  <2>3. QED
    BY <1>2, <1>4, <2>1, <2>2 DEF Due
<1>5. QED
  BY <1>1, <1>2, <1>3, <1>4

LEMMA TimeoutTakes ==
  ASSUME PendingIsSignalled, Expired, healthy, UNCHANGED coming
  PROVE  /\ pipe = <<>> /\ coming = <<>> /\ UNCHANGED pipe /\ out' = {} /\ Unread' = {}
         /\ \A t : ~Due(t)
<1>1. pipe = <<>> /\ coming = <<>> /\ UNCHANGED pipe /\ out' = {}
  BY DEF Expired, ReadTimeout, PendingIsSignalled
<1>2. Unread' = {}
  BY <1>1, TextsFew DEF Unread, Heard
<1>3. \A t : ~Due(t)
  BY <1>1, EndsFew DEF Due
<1>4. QED
  BY <1>1, <1>2, <1>3

\* Only what comes in is heard anew.
LEMMA HeardDrops ==
  ASSUME UartTypeOK,
         \/ UNCHANGED uartVars
         \/ UartSetup \/ Detach \/ ClearRcvEvt \/ ReadPart \/ ReadLine \/ ReadTimeout
  PROVE  Heard' \subseteq Heard
<1>1. CASE ReadPart
  BY <1>1, HeardIsTextsTo, TextsFew DEF ReadPart, Heard
<1>2. CASE UNCHANGED uartVars \/ Detach \/ ClearRcvEvt
  BY <1>2 DEF uartVars, Detach, ClearRcvEvt, Heard
<1>3. CASE UartSetup \/ ReadLine
  BY <1>3, TextsFew DEF UartSetup, ReadLine, Heard
<1>4. CASE ReadTimeout
  BY <1>4 DEF ReadTimeout, Heard
<1>5. QED
  BY <1>1, <1>2, <1>3, <1>4

------------------------------------------------------------------------------
(* What the modem says *)

OkPlaces == {"at", "cpin", "httpInit", "url", "content", "body", "netOpen", "sslVersion", "authMode",
             "cchSet", "cchStart", "cchSsl", "cchOpen", "cchOpenAsk"}

LEMMA SayFacts ==
  /\ \A t : Say(t).txt = {t} /\ Say(t).nl
  /\ Noise.txt = {} /\ Noise.nl
  /\ \A t : Say(t) # Noise
  /\ \A s, t : Say(s) = Say(t) => s = t
BY DEF Say, Noise

LEMMA AnswerSays ==
  ASSUME NEW p, NEW r \in Answers(p)
  PROVE  /\ r # <<>> /\ r \in Seq(Piece) /\ "ERROR" \notin TextsOf(r)
         /\ p \in OkPlaces => "OK" \in TextsOf(r) /\ LastEnds(r) /\ r = <<Say("OK")>>
         /\ p = "data" => "Download" \in TextsOf(r) /\ LastEnds(r)
         /\ p = "action" => "Status200" \in TextsOf(r) /\ LastEnds(r)
         /\ p = "httpRead" => r = <<Say("OK"), Say("Token")>>
<1>1. \/ r \in {<<Noise, Say("OK")>>, <<Say("SimPin"), Say("OK")>>, <<Say("Time"), Say("OK")>>,
                <<Say("OK"), Say("Status200")>>, <<Say("OK"), Say("Token")>>, <<Say("NetOpen"), Say("OK")>>}
      \/ r \in {<<Say("Download")>>, <<Say("OK")>>}
      \/ \E e \in BOOLEAN : r = <<[txt |-> {"Prompt"}, nl |-> e]>>
  BY ZenonT(30) DEF Answers
<1>2. r # <<>> /\ r \in Seq(Piece)
  <2>1. CASE \E a \in Piece : r = <<a>>
    BY <2>1, OneTwoIn
  <2>2. CASE \E a \in Piece, b \in Piece : r = <<a, b>>
    BY <2>2, OneTwoIn
  <2>3. QED
    BY <2>1, <2>2, AnswerShape
<1>3. "ERROR" \notin TextsOf(r)
  <2>1. CASE r \in {<<Noise, Say("OK")>>, <<Say("SimPin"), Say("OK")>>, <<Say("Time"), Say("OK")>>,
                <<Say("OK"), Say("Status200")>>, <<Say("OK"), Say("Token")>>, <<Say("NetOpen"), Say("OK")>>}
    BY <2>1, TextsFew, SayFacts
  <2>2. CASE r \in {<<Say("Download")>>, <<Say("OK")>>}
    BY <2>2, TextsFew, SayFacts
  <2>3. CASE \E e \in BOOLEAN : r = <<[txt |-> {"Prompt"}, nl |-> e]>>
    BY <2>3, TextsFew
  <2>4. QED
    BY <1>1, <2>1, <2>2, <2>3
<1>4. p \in OkPlaces => r = <<Say("OK")>>
  BY DEF Answers, OkPlaces
<1>5. p \in OkPlaces => "OK" \in TextsOf(r) /\ LastEnds(r)
  BY <1>4, TextsFew, EndsFew, SayFacts
<1>6. ASSUME p = "data" PROVE "Download" \in TextsOf(r) /\ LastEnds(r)
  <2>1. r = <<Say("Download")>>
    BY <1>6 DEF Answers
  <2>2. QED
    BY <2>1, TextsFew, EndsFew, SayFacts
<1>7. ASSUME p = "action" PROVE "Status200" \in TextsOf(r) /\ LastEnds(r)
  <2>1. r = <<Say("OK"), Say("Status200")>>
    BY <1>7 DEF Answers
  <2>2. QED
    BY <2>1, TextsFew, EndsFew, SayFacts
<1>8. p = "httpRead" => r = <<Say("OK"), Say("Token")>>
  BY DEF Answers
<1>9. QED
  BY <1>2, <1>3, <1>4, <1>5, <1>6, <1>7, <1>8

LEMMA AnswersExist ==
  ASSUME NEW p, p = "cchSend" => open, p = "cchData" => wantsData
  PROVE  Answers(p) # {}
<1>1. CASE p = "cchSend"
  <2>1. Answers(p) = {<<[txt |-> {"Prompt"}, nl |-> eol]>> : eol \in BOOLEAN}
    BY <1>1 DEF Answers
  <2>2. <<[txt |-> {"Prompt"}, nl |-> TRUE]>> \in Answers(p)
    BY <2>1
  <2>3. QED
    BY <2>2
<1>2. CASE p # "cchSend"
  <2>1. \/ <<Noise, Say("OK")>> \in Answers(p) \/ <<Say("Time"), Say("OK")>> \in Answers(p)
        \/ <<Say("Download")>> \in Answers(p) \/ <<Say("OK"), Say("Status200")>> \in Answers(p)
        \/ <<Say("OK"), Say("Token")>> \in Answers(p) \/ <<Say("NetOpen"), Say("OK")>> \in Answers(p)
        \/ <<Say("OK")>> \in Answers(p)
    BY <1>2 DEF Answers
  <2>2. QED
    BY <2>1
<1>3. QED
  BY <1>1, <1>2

\* A modem that is healthy and has power answers.
LEMMA HearGood ==
  ASSUME Hear, healthy, powered, Answers(place) # {}
  PROVE  \E r \in Answers(place) :
           /\ coming' = coming \o r
           /\ place = "cchSend" => wantsData'
           /\ place = "cchOpen" => open'
           /\ place \notin {"cchOpen", "cchClose"} => UNCHANGED open
           /\ place = "cchData" => taken' = taken + 1
           /\ UNCHANGED <<powered, healthy>>
BY DEF Hear

LEMMA WriteSays ==
  ASSUME PipeTypes, NEW r \in Answers(place), coming' = coming \o r, UNCHANGED uartVars
  PROVE  /\ Unread' = Unread \cup TextsOf(r) /\ UNCHANGED pipe
         /\ coming' # <<>>
         /\ LastEnds(r) => \A t \in TextsOf(r) : Due(t)'
<1>1. r # <<>> /\ r \in Seq(Piece) /\ coming \in Seq(Piece)
  BY AnswerSays DEF PipeTypes
<1>2. TextsOf(coming') = TextsOf(coming) \cup TextsOf(r)
  BY <1>1, TextsCat
<1>3. coming' # <<>> /\ (LastEnds(coming') <=> LastEnds(r))
  BY <1>1, EndsCat
<1>4. Heard' = Heard /\ UNCHANGED pipe
  BY DEF uartVars, Heard
<1>5. Unread' = Unread \cup TextsOf(r)
  BY <1>2, <1>4 DEF Unread
<1>6. QED
  BY <1>3, <1>4, <1>5 DEF Due
------------------------------------------------------------------------------
(* Between the calls *)

\* The modem is silent without power.
SilentInv == ~powered => coming = <<>>

LEMMA PowerSteps ==
  ASSUME [Next]_vars
  PROVE  UNCHANGED powered \/ powered' = TRUE \/ (powered' = FALSE /\ coming' = <<>>)
<1>1. CASE Stop \/ Continue \/ Look \/ Tick \/ LoRa \/ Modem \/ UNCHANGED vars
  BY <1>1 DEF Stop, Continue, Look, Tick, LoRa, LoRaInit, LoRaClock, Modem, ComesIn, Lost, Heal, Unasked, vars,
              transportVars, modemVars
<1>2. CASE Boot
  BY <1>2 DEF Boot, BootSetup, BeginBoot, SetClock, BootSetupReturns, End, BootAgain, Prompt, PromptTimeout,
              Halt, BootContinue, Adc, transportVars, modemVars
<1>3. CASE CloudSend
  BY <1>3 DEF CloudSend, CloudBooted, AskMaxPayload, MaxPayload, Connect, ConnectNew, ConnectAgain,
              ConnectReturns, Send, SendReturns, Disconnect, DisconnectReturns, SendLog, BeginConnect,
              BeginSend, BeginDisconnect, End, transportVars, modemVars
<1>4. CASE Talk
  BY <1>4 DEF Talk, Write, Hear, Notice, GetPart, AtLine, AtTimeout, TimeLine, TimeTimeout, TokenLine,
              TokenTimeout, modemVars
<1>5. CASE Think
  BY <1>5 DEF Think, Works, InitFailed, InitDone, Jwt, Payload, Sign, Assertion, StartFailed, TooLong,
              Posted, PostFailed, Buffer, ReadFailed, Parse, ReadToken, Fetched, Request, Form, OpenFailed,
              ChunkDone, Sent, PowerOff, modemVars
<1>6. QED
  BY <1>1, <1>2, <1>3, <1>4, <1>5 DEF Next, Transport

LEMMA SilentKept ==
  ASSUME SilentInv, [Next]_vars
  PROVE  SilentInv'
<1>1. SUFFICES ASSUME ~powered' PROVE coming' = <<>>
  BY DEF SilentInv
<1>2. CASE UNCHANGED powered
  <2>1. coming = <<>> /\ ~powered
    BY <1>1, <1>2 DEF SilentInv
  <2>2. <<>> \o <<>> = <<>>
    OBVIOUS
  <2>3. QED
    BY <2>1, <2>2, ComingSteps
<1>3. CASE ~UNCHANGED powered
  BY <1>1, <1>3, PowerSteps
<1>4. QED
  BY <1>2, <1>3

\* The repetitions of modem_init are counted anew in every call.
InitPlaces == {"at", "cpinAsk", "cpin", "initFailed", "initDone"}

TryInv == place \notin InitPlaces => tries = 0

\* The rows of modem_init are the ways between its places.
LEMMA InitRows ==
  ASSUME NEW row \in Dialogue, NEW q \in {row.yes, row.no}
  PROVE  row.cmd \in InitPlaces <=> q \in InitPlaces
<1>1. CASE row \in ModemInit
  BY <1>1 DEF ModemInit, Row, InitPlaces
<1>2. CASE row \notin ModemInit
  BY <1>2 DEF Dialogue, HttpStart, HttpPost, HttpRead, HttpStop, TcpOpen, TcpSendChunked, TcpClose,
              PowerDown, Row, InitPlaces
<1>3. QED
  BY <1>1, <1>2

LEMMA TryKept ==
  ASSUME CallInv, TryInv, [Next]_vars
  PROVE  TryInv'
<1>1. CASE Talk
  <2>1. UNCHANGED tries /\ (WriteShape \/ PassShape \/ RowStep \/ LoopShape)
    BY <1>1, TalkShape DEF CallInv, ChunkInv
  <2>2. place' \notin InitPlaces => place \notin InitPlaces
    BY <2>1, InitRows DEF WriteShape, PassShape, RowStep, LoopShape, InitPlaces
  <2>3. QED
    BY <2>1, <2>2 DEF TryInv
<1>2. CASE Think
  <2>1. CASE InitFailed \/ InitDone
    BY <2>1 DEF InitFailed, InitDone, Go, Fails, TryInv, InitPlaces
  <2>2. CASE ~InitFailed /\ ~InitDone
    <3>1. place \notin InitPlaces
      BY <1>2, <2>2 DEF Think, Works, Jwt, Payload, Sign, Assertion, StartFailed, TooLong, Posted, PostFailed,
                        Buffer, ReadFailed, Parse, ReadToken, Fetched, Request, Form, OpenFailed, ChunkDone,
                        Sent, PowerOff, InitPlaces
    <3>2. UNCHANGED tries
      BY <1>2, <2>2 DEF Think, Step, Jwt, Payload, Sign, Assertion, StartFailed, TooLong, Posted, PostFailed,
                        Buffer, ReadFailed, Parse, ReadToken, Fetched, Request, Form, OpenFailed, ChunkDone,
                        Sent, PowerOff
    <3>3. QED
      BY <3>1, <3>2 DEF TryInv
  <2>3. QED
    BY <2>1, <2>2
<1>3. CASE UNCHANGED <<place, tries>>
  BY <1>3 DEF TryInv
<1>4. CASE place \in {"done", "setClock"} /\ UNCHANGED tries
  BY <1>4 DEF TryInv, InitPlaces
<1>5. CASE Stop \/ Continue \/ Look \/ Tick \/ LoRa \/ Modem \/ UNCHANGED vars
  BY <1>3, <1>5 DEF Stop, Continue, Look, Tick, LoRa, LoRaInit, LoRaClock, Modem, ComesIn, Lost, Heal, Unasked,
                    vars, transportVars, callVars
<1>6. CASE Boot
  <2>1. CASE BeginBoot
    BY <1>4, <2>1, AtRest DEF BeginBoot, Free, Begin
  <2>2. CASE SetClock
    BY <1>4, <2>2 DEF SetClock
  <2>3. CASE ~BeginBoot /\ ~SetClock
    BY <1>3, <1>6, <2>3 DEF Boot, BootSetup, BootSetupReturns, End, BootAgain, Prompt, PromptTimeout, Halt,
                            BootContinue, Adc, transportVars, callVars
  <2>4. QED
    BY <2>1, <2>2, <2>3
<1>7. CASE CloudSend
  <2>1. CASE ConnectNew \/ ConnectAgain \/ Send \/ Disconnect
    BY <1>4, <2>1, AtRest DEF ConnectNew, ConnectAgain, Connect, Send, Disconnect, BeginConnect, BeginSend,
                              BeginDisconnect, Free, Begin
  <2>2. CASE CloudBooted \/ AskMaxPayload \/ MaxPayload \/ ConnectReturns \/ SendReturns \/ DisconnectReturns
             \/ SendLog
    BY <1>3, <2>2 DEF CloudBooted, AskMaxPayload, MaxPayload, ConnectReturns, SendReturns, DisconnectReturns,
                      SendLog, End, transportVars, callVars
  <2>3. QED
    BY <1>7, <2>1, <2>2 DEF CloudSend
<1>8. QED
  BY <1>1, <1>2, <1>5, <1>6, <1>7 DEF Next, Transport

\* Who hands a batch over does so after boot_setup.
PastInv == build = "4g" /\ call \in {"send", "ok", "err"} => main \notin {"boot", "setup", "pause"}

LEMMA MainPast ==
  ASSUME [Next]_vars, main' \in {"boot", "setup", "pause"}
  PROVE  main \in {"boot", "setup", "pause"}
<1>1. CASE Stop \/ Continue \/ LoRa \/ SetClock
  BY <1>1, WakesTypes DEF Stop, Continue, LoRa, LoRaInit, LoRaClock, SetClock
<1>2. CASE Boot /\ ~SetClock
  BY <1>2 DEF Boot, BootSetup, BootSetupReturns, BootAgain, Prompt, PromptTimeout, Halt, BootContinue, Adc, Main
<1>3. CASE Look \/ Tick \/ Transport \/ Modem \/ UNCHANGED vars
  BY <1>3 DEF Look, Tick, Transport, Modem, vars, startVars
<1>4. CASE CloudSend
  BY <1>4 DEF CloudSend, CloudBooted, Cloud, AskMaxPayload, MaxPayload, Connect, ConnectNew, ConnectAgain,
              ConnectReturns, Send, SendReturns, Disconnect, DisconnectReturns, SendLog
<1>5. QED
  BY <1>1, <1>2, <1>3, <1>4 DEF Next

LEMMA PastKept ==
  ASSUME CallInv, PastInv, [Next]_vars
  PROVE  PastInv'
<1>1. SUFFICES ASSUME build' = "4g", call' \in {"send", "ok", "err"}, main' \in {"boot", "setup", "pause"}
               PROVE  FALSE
  BY DEF PastInv
<1>2. main \in {"boot", "setup", "pause"}
  BY <1>1, MainPast
<1>3. UNCHANGED build
  BY DEF Next, Stop, Continue, Look, Tick, LoRa, LoRaInit, LoRaClock, Modem, Transport, vars, startVars, Boot, BootSetup,
         SetClock, BootSetupReturns, BootAgain, Prompt, PromptTimeout, Halt, BootContinue, Adc, CloudSend,
         CloudBooted, Cloud, AskMaxPayload, MaxPayload, Connect, ConnectNew, ConnectAgain, ConnectReturns, Send,
         SendReturns, Disconnect, DisconnectReturns, SendLog
<1>4. call \notin {"send", "ok", "err"}
  BY <1>1, <1>2, <1>3 DEF PastInv
<1>5. CASE CloudSend
  <2>1. CASE ConnectReturns \/ DisconnectReturns
    BY <1>4, <2>1 DEF ConnectReturns, DisconnectReturns, Cloud, CallInv, Calls, Busy
  <2>2. CASE ConnectNew \/ ConnectAgain \/ SendLog
    BY <1>2, <1>4, <2>2 DEF ConnectNew, ConnectAgain, SendLog, MayCall
  <2>3. CASE CloudBooted \/ AskMaxPayload \/ MaxPayload \/ Send \/ SendReturns \/ Disconnect
    BY <1>1, <1>4, <2>3 DEF CloudBooted, AskMaxPayload, MaxPayload, Send, SendReturns, Disconnect, sendVars
  <2>4. QED
    BY <1>5, <2>1, <2>2, <2>3 DEF CloudSend
<1>6. CASE ~CloudSend
  BY <1>1, <1>4, <1>6 DEF Next, Stop, Continue, Look, Tick, LoRa, LoRaInit, LoRaClock, Modem, Transport, vars,
                          sendVars, Boot
<1>7. QED
  BY <1>5, <1>6
------------------------------------------------------------------------------
(* A transport without the interrupt *)

\* lora_sm has taken the interrupt, or may still take it.
Deaf == build = "4g" /\ (lora = "start" \/ ~attached)

DeafMain == main \in {"boot", "setup", "pause"} /\ "CLOCK" \notin events /\ cloud \notin Busy \cup {"rest"}

\* It hears no time.
DeafTime == ~timeOk /\ "Time" \notin Heard /\ place # "setClock"

DeafCall == job = "boot" /\ place \in OffPlaces => rc = "err"

DeafStart == lora = "start" => /\ ~written /\ "Time" \notin TextsOf(coming)
                               /\ job = "boot" => place = "at"

\* A transport without the interrupt does not set the clock, and boot_setup fails.
DeafInv == Deaf => DeafMain /\ DeafTime /\ DeafCall /\ DeafStart

LEMMA DeafBefore ==
  ASSUME [Next]_vars, Deaf'
  PROVE  Deaf /\ (lora' = "start" => lora = "start")
<1>1. CASE Stop \/ Continue \/ LoRaClock
  <2>1. UNCHANGED <<build, attached>>
    BY <1>1 DEF Stop, Continue, LoRaClock, transportVars, uartVars
  <2>2. \E bits : Post(bits)
    BY <1>1 DEF Stop, Continue, LoRaClock
  <2>3. lora' = "start" => lora = "start"
    BY <2>2 DEF Post
  <2>4. QED
    BY <2>1, <2>3 DEF Deaf
<1>2. CASE LoRaInit
  BY <1>2 DEF LoRaInit, Deaf
<1>3. CASE Boot
  <2>1. CASE SetClock \/ BootContinue
    BY <2>1 DEF SetClock, BootContinue, Post, transportVars, uartVars, Deaf
  <2>2. CASE BootSetup \/ BootSetupReturns \/ BootAgain \/ Prompt \/ PromptTimeout \/ Halt \/ Adc
    BY <2>2 DEF BootSetup, BeginBoot, UartSetup, BootSetupReturns, End, BootAgain, Prompt, PromptTimeout, Halt, Adc,
                transportVars, uartVars, Deaf
  <2>3. QED
    BY <1>3, <2>1, <2>2 DEF Boot
<1>4. CASE CloudSend
  <2>1. UNCHANGED <<build, lora>>
    BY <1>4 DEF CloudSend, CloudBooted, Cloud, AskMaxPayload, MaxPayload, Connect, ConnectNew, ConnectAgain,
                ConnectReturns, Send, SendReturns, Disconnect, DisconnectReturns, SendLog
  <2>2. UNCHANGED attached
    BY <1>4 DEF CloudSend, CloudBooted, AskMaxPayload, MaxPayload, Connect, ConnectNew, ConnectAgain,
                ConnectReturns, Send, SendReturns, Disconnect, DisconnectReturns, SendLog, BeginConnect,
                BeginSend, BeginDisconnect, End, transportVars, uartVars
  <2>3. QED
    BY <2>1, <2>2 DEF Deaf
<1>5. CASE Look \/ Tick \/ Transport \/ Modem \/ UNCHANGED vars
  <2>1. UNCHANGED <<build, lora>>
    BY <1>5 DEF Look, Tick, Transport, Modem, vars, startVars
  <2>2. CASE Talk
    <3>1. UNCHANGED uartVars \/ ClearRcvEvt \/ ReadPart \/ ReadLine \/ ReadTimeout
      BY <2>2 DEF Talk, Write, Notice, GetPart, AtLine, AtTimeout, TimeLine, TimeTimeout, TokenLine,
                  TokenTimeout, Expired
    <3>2. UNCHANGED attached
      BY <3>1 DEF ClearRcvEvt, ReadPart, ReadLine, ReadTimeout, uartVars
    <3>3. QED
      BY <2>1, <3>2 DEF Deaf
  <2>3. CASE Think
    <3>1. UNCHANGED attached
      BY <2>3 DEF Think, Works, InitFailed, InitDone, Jwt, Payload, Sign, Assertion, StartFailed, TooLong,
                  Posted, PostFailed, Buffer, ReadFailed, Parse, ReadToken, Fetched, Request, Form, OpenFailed,
                  ChunkDone, Sent, PowerOff, uartVars
    <3>2. QED
      BY <2>1, <3>1 DEF Deaf
  <2>4. CASE Look \/ Tick \/ Modem \/ UNCHANGED vars
    BY <2>1, <2>4 DEF Look, Tick, Modem, ComesIn, OnRx, Lost, Heal, Unasked, vars, transportVars, uartVars, Deaf
  <2>5. QED
    BY <1>5, <2>2, <2>3, <2>4 DEF Transport
<1>6. QED
  BY <1>1, <1>2, <1>3, <1>4, <1>5 DEF Next, LoRa

\* Who is at work then.
LEMMA DeafJob ==
  ASSUME CallInv, DeafMain
  PROVE  /\ job \in {"none", "boot"} /\ place \in BootPlaces
         /\ place # "done" => job = "boot"
BY DEF CallInv, Roles, PlaceInv, DeafMain, Busy, Jobs, BootPlaces

LEMMA OffRows ==
  ASSUME NEW row \in Dialogue, NEW q \in {row.yes, row.no}
  PROVE  q # "setClock" /\ (q \in OffPlaces => row.cmd \in OffPlaces)
BY DEF Dialogue, ModemInit, HttpStart, HttpPost, HttpRead, HttpStop, TcpOpen, TcpSendChunked, TcpClose,
       PowerDown, Row, OffPlaces

LEMMA DeafTalk ==
  ASSUME CallInv, PipeTypes, DeafMain, DeafTime, DeafCall, Talk
  PROVE  DeafTime' /\ DeafCall'
<1>1. job \in {"none", "boot"} /\ place \in BootPlaces /\ UNCHANGED job
  BY DeafJob, TalkShape DEF CallInv, ChunkInv
<1>2. Heard' \subseteq Heard
  BY HeardDrops DEF PipeTypes, Talk, Write, Notice, GetPart, AtLine, AtTimeout, TimeLine, TimeTimeout, TokenLine,
                    TokenTimeout, Expired
<1>3. "Time" \notin Heard'
  BY <1>2 DEF DeafTime
<1>4. CASE Write \/ Notice \/ GetPart
  BY <1>1, <1>3, <1>4 DEF Write, Notice, GetPart, callVars, DeafTime, DeafCall
<1>5. CASE AtLine \/ AtTimeout
  <2>1. UNCHANGED place \/ \E row \in Dialogue : row.cmd = place /\ place' \in {row.yes, row.no}
    BY <1>5 DEF AtLine, AtTimeout, Go
  <2>2. UNCHANGED <<rc, timeOk>>
    BY <1>5 DEF AtLine, AtTimeout
  <2>3. place' # "setClock" /\ (place' \in OffPlaces => place \in OffPlaces)
    BY <2>1, OffRows DEF DeafTime
  <2>4. QED
    BY <1>1, <1>3, <2>2, <2>3 DEF DeafTime, DeafCall
<1>6. CASE TimeLine
  <2>1. FirstLine \subseteq Heard
    BY <1>6, FirstLineIsHeard DEF TimeLine, ReadLine, PipeTypes
  <2>2. ~(timeOk \/ "Time" \in FirstLine)
    BY <2>1 DEF DeafTime
  <2>3. ~timeOk' /\ place' # "setClock" /\ (place' = "cpof" => rc' = "err") /\ place' \in {"cclk", "cpof"}
    BY <1>6, <2>2 DEF TimeLine, Waiting, Fails, Go
  <2>4. QED
    BY <1>3, <2>3 DEF DeafTime, DeafCall, OffPlaces
<1>7. CASE TimeTimeout
  BY <1>3, <1>7 DEF TimeTimeout, Fails, Go, DeafTime, DeafCall
<1>8. CASE TokenLine \/ TokenTimeout
  BY <1>1, <1>8 DEF TokenLine, TokenTimeout, Waiting, BootPlaces
<1>9. QED
  BY <1>4, <1>5, <1>6, <1>7, <1>8 DEF Talk

LEMMA DeafThink ==
  ASSUME CallInv, DeafMain, DeafTime, DeafCall, Think
  PROVE  DeafTime' /\ DeafCall'
<1>1. job \in {"none", "boot"} /\ place \in BootPlaces /\ (place # "done" => job = "boot")
  BY DeafJob
<1>2. InitFailed \/ InitDone \/ PowerOff
  BY <1>1 DEF Think, Works, InitFailed, InitDone, Jwt, Payload, Sign, Assertion, StartFailed, TooLong, Posted,
              PostFailed, Buffer, ReadFailed, Parse, ReadToken, Fetched, Request, Form, OpenFailed, ChunkDone,
              Sent, PowerOff, BootPlaces
<1>3. UNCHANGED <<timeOk, pipe, out, job>>
  BY <1>2 DEF InitFailed, InitDone, PowerOff, Works, uartVars
<1>4. \/ place' \in {"at", "cclk", "jwt"}
      \/ place' = "cpof" /\ rc' = "err"
      \/ place = "powerOff" /\ place' = "done" /\ UNCHANGED rc
  BY <1>2 DEF InitFailed, InitDone, PowerOff, Fails, Go
<1>5. QED
  BY <1>3, <1>4 DEF DeafTime, DeafCall, Heard, OffPlaces

LEMMA DeafModem ==
  ASSUME PipeTypes, Deaf, DeafTime, DeafCall, DeafStart, Modem
  PROVE  DeafTime' /\ DeafCall' /\ DeafStart'
<1>1. UNCHANGED <<job, place, written, rc, timeOk, lora>>
  BY DEF Modem, ComesIn, Lost, Heal, Unasked, callVars, startVars
<1>2. coming \in Seq(Piece)
  BY DEF PipeTypes
<1>3. CASE ComesIn /\ attached
  <2>1. lora = "start" /\ "Time" \notin TextsOf(coming) /\ coming # <<>>
    BY <1>3 DEF Deaf, DeafStart, ComesIn
  <2>2. TextsOf(coming) = Head(coming).txt \cup TextsOf(Tail(coming)) /\ Tail(coming) \in Seq(Piece)
    BY <1>2, <2>1, TextsTail
  <2>3. PICK p : /\ pipe' = Append(pipe, p) /\ UNCHANGED out /\ p \in {Head(coming), [Head(coming) EXCEPT !.nl = FALSE]}
                 /\ coming' \in {Tail(coming), <<Noise>> \o Tail(coming)}
    BY <1>3 DEF ComesIn, OnRx
  <2>4. Head(coming) \in Piece
    BY <1>2, <2>1
  <2>5. p \in Piece /\ p.txt = Head(coming).txt
    BY <2>3, <2>4 DEF Piece
  <2>6. TextsOf(pipe') = TextsOf(pipe) \cup p.txt
    <3>1. pipe \in Seq(Piece)
      BY DEF PipeTypes, UartTypeOK
    <3>2. TextsOf(Append(pipe, p)) = TextsOf(pipe) \cup p.txt
      BY <2>5, <3>1, TextsAppend, Zenon
    <3>3. QED
      BY <2>3, <3>2
  <2>7. "Time" \notin Heard'
    BY <2>1, <2>2, <2>3, <2>5, <2>6 DEF Heard, DeafTime
  <2>8. "Time" \notin TextsOf(coming')
    <3>1. Noise \in Piece /\ Noise.txt = {}
      BY PieceIn, SayFacts
    <3>2. TextsOf(<<Noise>> \o Tail(coming)) = TextsOf(Tail(coming))
      <4>1. TextsOf(<<Noise>> \o Tail(coming)) = Noise.txt \cup TextsOf(Tail(coming))
        BY <2>2, <3>1, TextsPrepend, Zenon
      <4>2. QED
        BY <3>1, <4>1
    <3>3. QED
      BY <2>1, <2>2, <2>3, <3>2
  <2>9. QED
    BY <1>1, <2>7, <2>8 DEF DeafTime, DeafCall, DeafStart
<1>4. CASE ~(ComesIn /\ attached)
  <2>1. UNCHANGED <<pipe, out>>
    BY <1>4 DEF Modem, ComesIn, Lost, Heal, Unasked, uartVars
  <2>2. "Time" \notin TextsOf(coming) => "Time" \notin TextsOf(coming')
    <3>1. \/ UNCHANGED coming
          \/ coming # <<>> /\ coming' = Tail(coming)
          \/ \E p \in {Noise, Say("OK"), Say("ERROR")} : coming' = <<p>>
      BY <1>4 DEF Modem, ComesIn, Lost, Heal, Unasked
    <3>2. CASE coming # <<>> /\ coming' = Tail(coming)
      BY <1>2, <3>2, TextsTail
    <3>3. ASSUME NEW p \in {Noise, Say("OK"), Say("ERROR")}, coming' = <<p>>
          PROVE  "Time" \notin TextsOf(coming')
      BY <3>3, TextsFew, SayFacts
    <3>4. QED
      BY <3>1, <3>2, <3>3
  <2>3. QED
    BY <1>1, <2>1, <2>2 DEF DeafTime, DeafCall, DeafStart, Heard
<1>5. QED
  BY <1>3, <1>4

LEMMA DeafBoot ==
  ASSUME CallInv, Deaf, DeafMain, DeafTime, DeafCall, DeafStart, Boot
  PROVE  DeafMain' /\ DeafTime' /\ DeafCall' /\ DeafStart'
<1>1. CASE BeginBoot /\ Main("boot", "setup") /\ UNCHANGED <<build, events, lora, cloud, timeSet>>
  <2>1. pipe' = <<>> /\ UNCHANGED <<out, coming, timeOk>> /\ job' = "boot" /\ place' = "at" /\ written' = FALSE
    BY <1>1 DEF BeginBoot, UartSetup, Begin, Go
  <2>2. "Time" \notin Heard'
    BY <2>1, TextsFew DEF Heard, DeafTime
  <2>3. DeafTime' /\ DeafCall' /\ DeafStart'
    BY <1>1, <2>1, <2>2 DEF DeafTime, DeafCall, DeafStart, OffPlaces
  <2>4. QED
    BY <1>1, <2>3 DEF Main, DeafMain
<1>2. CASE BootSetupReturns
  <2>1. place = "done" /\ main = "setup" /\ job' = "none" /\ UNCHANGED <<uartVars, place, written, timeOk, coming>>
        /\ UNCHANGED <<build, events, lora, cloud>> /\ main' = (IF rc = "ok" THEN "toPrompt" ELSE "pause")
    BY <1>2 DEF BootSetupReturns, End, Main, modemVars
  <2>2. job = "boot" /\ rc = "err"
    BY <2>1 DEF CallInv, Roles, DeafCall, OffPlaces
  <2>3. QED
    BY <2>1, <2>2 DEF DeafMain, DeafTime, DeafCall, DeafStart, Heard, uartVars
<1>3. CASE /\ Main("boot", "pause") \/ Main("pause", "boot")
           /\ UNCHANGED <<transportVars, build, events, lora, cloud, timeSet>>
  <2>1. UNCHANGED <<pipe, out, timeOk, place, written, job, rc, coming, lora>>
    BY <1>3 DEF transportVars, uartVars, callVars, modemVars
  <2>2. QED
    BY <1>3, <2>1 DEF Main, DeafMain, DeafTime, DeafCall, DeafStart, Heard
<1>4. ~SetClock /\ ~Prompt /\ ~PromptTimeout /\ ~Halt /\ ~BootContinue /\ ~Adc
  BY DEF SetClock, Prompt, PromptTimeout, Halt, BootContinue, Adc, Main, DeafMain, DeafTime
<1>5. QED
  BY <1>1, <1>2, <1>3, <1>4 DEF Boot, BootSetup, BootAgain

LEMMA DeafKept ==
  ASSUME CallInv, PipeTypes, DeafInv, [Next]_vars
  PROVE  DeafInv'
<1>1. SUFFICES ASSUME Deaf' PROVE DeafMain' /\ DeafTime' /\ DeafCall' /\ DeafStart'
  BY DEF DeafInv
<1>2. Deaf /\ (lora' = "start" => lora = "start") /\ DeafMain /\ DeafTime /\ DeafCall /\ DeafStart
  BY <1>1, DeafBefore DEF DeafInv
<1>3. CASE Transport
  <2>1. DeafTime' /\ DeafCall'
    BY <1>2, <1>3, DeafTalk, DeafThink DEF Transport
  <2>2. lora' # "start" /\ DeafMain'
    BY <1>2, <1>3 DEF Transport, startVars, DeafMain
  <2>3. QED
    BY <2>1, <2>2 DEF DeafStart
<1>4. CASE Modem
  BY <1>2, <1>4, DeafModem DEF Modem, startVars, DeafMain
<1>5. CASE Boot
  BY <1>2, <1>5, DeafBoot
<1>6. CASE Stop \/ Continue \/ LoRaInit \/ CloudBooted \/ UNCHANGED vars
  <2>1. UNCHANGED <<pipe, out, timeOk, place, written, job, rc, coming>>
    BY <1>6 DEF Stop, Continue, LoRaInit, Detach, CloudBooted, vars, transportVars, uartVars, callVars, modemVars
  <2>2. DeafMain'
    BY <1>2, <1>6 DEF Stop, Continue, Post, MainWakes, LoRaInit, CloudBooted, vars, startVars, DeafMain, Busy
  <2>3. DeafTime' /\ DeafCall' /\ DeafStart'
    BY <1>2, <2>1 DEF DeafTime, DeafCall, DeafStart, Heard
  <2>4. QED
    BY <2>2, <2>3
<1>7. CASE LoRaClock \/ Look \/ Tick \/ (CloudSend /\ ~CloudBooted)
  BY <1>2, <1>7 DEF LoRaClock, Look, Tick, CloudSend, Cloud, AskMaxPayload, MaxPayload, Connect, ConnectNew,
              ConnectAgain, ConnectReturns, Send, SendReturns, Disconnect, DisconnectReturns, SendLog, Deaf,
              DeafMain, Busy
<1>8. QED
  BY <1>3, <1>4, <1>5, <1>6, <1>7 DEF Next, LoRa
------------------------------------------------------------------------------
(* A call in order *)

NoError == "ERROR" \notin Unread /\ Len(pipe) <= 1

\* What the command just written waits for will be read.
DueInv ==
  written =>
    /\ place \in OkPlaces => Due("OK")
    /\ place = "data" => Due("Download")
    /\ place = "action" => Due("Status200")

ConnectFails == {"startFailed", "postFailed", "readFailed", "cpof", "powerOff"}

\* First the modem is asked for its attention, whatever is left in the pipe from before.
FirstAt ==
  IF written THEN /\ "ERROR" \notin TextsOf(coming)
                  /\ Len(pipe) <= 1 \/ coming = <<Say("OK")>>
             ELSE coming = <<>>

\* http_read_access_token: the token is the first line behind the OK of AT+HTTPREAD.
ReadsToken ==
  /\ ~written => pipe = <<>> /\ coming = <<>> /\ out = {}
  /\ written => out = {} /\ (\/ pipe = <<>> /\ coming = <<Say("OK"), Say("Token")>>
                             \/ pipe = <<Say("OK")>> /\ coming = <<Say("Token")>>)

Collects ==
  /\ out = {}
  /\ \/ full = "" /\ pipe = <<>> /\ coming = <<Say("Token")>>
     \/ full = "" /\ pipe = <<Say("Token")>> /\ coming = <<>>
     \/ full = "token" /\ pipe = <<>> /\ coming = <<>>

TokenRead ==
  /\ place \in {"readAsk", "httpRead"} => full = ""
  /\ place = "httpRead" => ReadsToken
  /\ place = "collect" => Collects
  /\ place \in {"parse", "readToken"} => full = "token"

ConnectAt ==
  /\ powered /\ rc = "ok" /\ place \in ConnectPlaces \ ConnectFails
  /\ place = "initFailed" => tries = 0

ConnectHears == IF place = "at" /\ tries = 0 THEN FirstAt ELSE NoError

ConnectGood == ConnectAt /\ ConnectHears /\ DueInv /\ TokenRead

SentPlaces == {"cchClose", "cchStop", "netClose", "sent", "done"}

SendAt ==
  /\ powered /\ rc = "ok" /\ place \in SendPlaces \ {"openFailed"}

\* Every chunk is taken, and with the last one the batch is delivered.
SendTakes ==
  /\ place \in {"cchOpenAsk", "cchSend", "cchData", "chunkDone"} \/ (place = "cchOpen" /\ written) => open
  /\ (place = "cchSend" /\ written) \/ (place = "cchData" /\ ~written) => wantsData
  /\ place = "cchSend" \/ (place = "cchData" /\ ~written) => taken = chunk
  /\ (place = "cchData" /\ written) \/ place = "chunkDone" =>
       taken = chunk + 1 /\ (taken = Chunks => air = batch)
  /\ place \in SentPlaces => air = batch

SendGood == SendAt /\ NoError /\ DueInv /\ SendTakes

Sound == healthy /\ lora = "gone" /\ attached /\ build = "4g"

\* Where cloud_send is with it.
SoundAt ==
  /\ cloud = "connecting" => ConnectGood
  /\ cloud = "connected" => powered /\ NoError
  /\ cloud = "sending" => SendGood
  /\ cloud \in {"sent", "disconnecting"} => result = "ok" /\ air = batch
  /\ cloud = "rest" /\ call \in {"ok", "err"} => call = "ok" /\ air = batch

SoundInv == sound => Sound /\ SoundAt

------------------------------------------------------------------------------
(* The rows of a call in order *)

LEMMA ConnectRows ==
  ASSUME NEW row \in Dialogue, row.cmd \in ConnectPlaces \ ConnectFails
  PROVE  /\ row.yes \in ConnectPlaces \ ConnectFails
         /\ row.yes \notin {"initFailed", "at", "httpRead", "readAsk", "parse", "readToken"}
         /\ row.yes = "collect" <=> row.cmd = "httpRead"
         /\ row.cmd \in OkPlaces \cup {"httpRead"} => row.expect = "OK"
         /\ row.cmd = "data" => row.expect = "Download"
         /\ row.cmd = "action" => row.expect = "Status200"
         /\ row.cmd = "at" => row.no = "initFailed"
         /\ row.cmd \notin OkPlaces \cup {"data", "action", "httpRead"} => row.no \in {"initDone", "fetched"}
<1>1. row \in ModemInit \cup HttpStart \cup HttpPost \cup HttpRead \cup HttpStop
  BY DEF Dialogue, TcpOpen, TcpSendChunked, TcpClose, PowerDown, Row, ConnectPlaces, NoToken, ConnectFails
<1>2. CASE row \in ModemInit \cup HttpStart \cup HttpStop
  BY <1>2 DEF ModemInit, HttpStart, HttpStop, Row, ConnectPlaces, NoToken, ConnectFails, OkPlaces
<1>3. CASE row \in HttpPost \cup HttpRead
  BY <1>3 DEF HttpPost, HttpRead, Row, ConnectPlaces, NoToken, ConnectFails, OkPlaces
<1>4. QED
  BY <1>1, <1>2, <1>3

LEMMA SendRows ==
  ASSUME NEW row \in Dialogue, row.cmd \in SendPlaces
  PROVE  /\ row.yes \in SendPlaces \ {"openFailed"}
         /\ row.cmd \in OkPlaces => row.expect = "OK"
         /\ row.cmd \notin OkPlaces => row.no \in SendPlaces \ {"openFailed"}
         /\ row.cmd \notin {"data", "action"}
         /\ \A q \in {row.yes, row.no} :
              /\ q \notin {"collect", "done"}
              /\ q = "cchOpenAsk" => row.cmd = "cchOpen"
              /\ q = "cchSend" => row.cmd = "cchOpenAsk"
              /\ q = "cchData" => row.cmd = "cchSend"
              /\ q = "chunkDone" => row.cmd = "cchData"
              /\ q \in SentPlaces => row.cmd \in SentPlaces
<1>1. row \in TcpOpen \cup TcpSendChunked \cup TcpClose
  BY DEF Dialogue, ModemInit, HttpStart, HttpPost, HttpRead, HttpStop, PowerDown, Row, SendPlaces, EarlyPlaces
<1>2. CASE row \in TcpOpen
  BY <1>2 DEF TcpOpen, Row, SendPlaces, EarlyPlaces, OkPlaces, SentPlaces
<1>3. CASE row \in TcpSendChunked \cup TcpClose
  BY <1>3 DEF TcpSendChunked, TcpClose, Row, SendPlaces, EarlyPlaces, OkPlaces, SentPlaces
<1>4. QED
  BY <1>1, <1>2, <1>3

------------------------------------------------------------------------------
(* connect in order *)

\* The pieces come in one by one.
LEMMA ComesInFirst ==
  ASSUME ComesIn, attached, healthy
  PROVE  /\ \A a, b : coming = <<a, b>> => pipe' = <<a>> /\ coming' = <<b>>
         /\ \A a : coming = <<a>> /\ a # Say("OK") => pipe' = <<a>> /\ coming' = <<>>
<1>1. pipe = <<>>
  BY DEF ComesIn
<1>2. ASSUME NEW a, NEW b, coming = <<a, b>>
      PROVE  pipe' = <<a>> /\ coming' = <<b>>
  <2>1. \A c, d : Head(<<c, d>>) = c /\ Tail(<<c, d>>) = <<d>> /\ (\A e : <<c, d>> # <<e>>) /\ Append(<<>>, c) = <<c>>
    OBVIOUS
  <2>2. Head(coming) = a /\ Tail(coming) = <<b>> /\ \A e : coming # <<e>>
    BY <1>2, <2>1, Zenon
  <2>3. OnRx(a) /\ coming' = <<b>>
    BY <2>2 DEF ComesIn
  <2>4. QED
    BY <1>1, <2>1, <2>3 DEF OnRx
<1>3. ASSUME NEW a, coming = <<a>>, a # Say("OK")
      PROVE  pipe' = <<a>> /\ coming' = <<>>
  <2>1. \A c : Head(<<c>>) = c /\ Tail(<<c>>) = <<>> /\ Append(<<>>, c) = <<c>>
    OBVIOUS
  <2>2. Head(coming) = a /\ Tail(coming) = <<>>
    BY <1>3, <2>1, Zenon
  <2>3. OnRx(a) /\ coming' = <<>>
    BY <1>3, <2>2 DEF ComesIn
  <2>4. QED
    BY <1>1, <2>1, <2>3 DEF OnRx
<1>4. QED
  BY <1>2, <1>3

LEMMA FewDiffer ==
  /\ \A a : <<a>> # <<>>
  /\ \A a, b : <<a, b>> # <<>>
  /\ Say("Token") # Say("OK")
BY SayFacts

LEMMA ConnectComesIn ==
  ASSUME PipeTypes, attached, healthy, ComesIn, ConnectGood
  PROVE  ConnectGood'
<1>1. UNCHANGED <<place, written, rc, tries, full, powered>>
  BY DEF ComesIn, callVars
<1>2. /\ pipe = <<>> /\ coming # <<>> /\ UNCHANGED out
      /\ Len(pipe') <= 1 /\ Unread' = Unread /\ TextsOf(coming') \subseteq TextsOf(coming)
      /\ \A t : Due(t) => Due(t)'
  BY ComesInKeeps
<1>3. ConnectAt' /\ DueInv'
  BY <1>1, <1>2 DEF ConnectGood, ConnectAt, DueInv
<1>4. ConnectHears'
  BY <1>1, <1>2 DEF ConnectGood, ConnectHears, FirstAt, NoError
<1>5. ASSUME place = "httpRead" PROVE ReadsToken'
  <2>1. written /\ out = {} /\ coming = <<Say("OK"), Say("Token")>>
    BY <1>2, <1>5, FewDiffer DEF ConnectGood, TokenRead, ReadsToken
  <2>2. pipe' = <<Say("OK")>> /\ coming' = <<Say("Token")>>
    BY <2>1, ComesInFirst, Zenon
  <2>3. QED
    BY <1>1, <1>2, <2>1, <2>2 DEF ReadsToken
<1>6. ASSUME place = "collect" PROVE Collects'
  <2>1. out = {} /\ full = "" /\ coming = <<Say("Token")>>
    BY <1>2, <1>6, FewDiffer DEF ConnectGood, TokenRead, Collects
  <2>2. pipe' = <<Say("Token")>> /\ coming' = <<>>
    BY <2>1, ComesInFirst, FewDiffer, Zenon
  <2>3. QED
    BY <1>1, <1>2, <2>1, <2>2 DEF Collects
<1>7. TokenRead'
  BY <1>1, <1>5, <1>6 DEF ConnectGood, TokenRead
<1>8. QED
  BY <1>3, <1>4, <1>7 DEF ConnectGood

LEMMA ConnectNotice ==
  ASSUME Notice, ConnectGood
  PROVE  ConnectGood'
<1>1. UNCHANGED <<place, written, rc, tries, full, powered, coming, pipe, out>>
  BY DEF Notice, callVars, modemVars, ClearRcvEvt
<1>2. UNCHANGED Unread /\ \A t : Due(t) => Due(t)'
  BY <1>1 DEF Unread, Heard, Due
<1>3. ConnectAt' /\ DueInv' /\ ConnectHears'
  BY <1>1, <1>2 DEF ConnectGood, ConnectAt, DueInv, ConnectHears, FirstAt, NoError
<1>4. TokenRead'
  BY <1>1 DEF ConnectGood, TokenRead, ReadsToken, Collects
<1>5. QED
  BY <1>3, <1>4 DEF ConnectGood

LEMMA ConnectPart ==
  ASSUME PipeTypes, GetPart, ConnectGood
  PROVE  ConnectGood'
<1>1. UNCHANGED <<place, written, rc, tries, full, powered, coming>> /\ written /\ ReadPart /\ LineEnds = {}
  BY DEF GetPart, callVars, modemVars, ReadPart
<1>2. pipe' = <<>> /\ out' = Heard /\ Unread' = Unread /\ \A t : Due(t) => Due(t)'
  BY <1>1, PartKeeps, HeardIsTextsTo DEF PipeTypes, ReadPart
<1>3. ConnectAt' /\ DueInv'
  BY <1>1, <1>2 DEF ConnectGood, ConnectAt, DueInv
<1>4. ConnectHears'
  BY <1>1, <1>2 DEF ConnectGood, ConnectHears, FirstAt, NoError
<1>5. ASSUME place \in {"httpRead", "collect"} PROVE pipe = <<>> /\ out = {} /\ out' = {}
  <2>1. ~LastEnds(pipe)
    BY <1>1, EndIsLine DEF PipeTypes
  <2>2. out = {} /\ (pipe = <<>> \/ \E t : pipe = <<Say(t)>>)
    BY <1>1, <1>5 DEF ConnectGood, TokenRead, ReadsToken, Collects
  <2>3. pipe = <<>>
    BY <2>1, <2>2, EndsFew, SayFacts
  <2>4. QED
    BY <1>2, <2>2, <2>3, TextsFew DEF Heard
<1>6. TokenRead'
  BY <1>1, <1>2, <1>5, FewDiffer DEF ConnectGood, TokenRead, ReadsToken, Collects
<1>7. QED
  BY <1>3, <1>4, <1>6 DEF ConnectGood

LEMMA ConnectWrite ==
  ASSUME CallInv, PipeTypes, healthy, Write, ConnectGood, job = "connect"
  PROVE  ConnectGood'
<1>1. /\ ~written /\ written' = TRUE /\ Hear
      /\ UNCHANGED <<uartVars, job, place, rc, tries, timeOk, full, chunk, heapVars>>
  BY DEF Write
<1>2. place # "cchSend" /\ place # "cchData" /\ place \in ConnectPlaces \ ConnectFails /\ powered
  BY DEF ConnectGood, ConnectAt, ConnectPlaces, NoToken
<1>3. PICK r \in Answers(place) : coming' = coming \o r /\ UNCHANGED powered
  BY <1>1, <1>2, HearGood, AnswersExist
<1>4. /\ Unread' = Unread \cup TextsOf(r) /\ UNCHANGED pipe /\ UNCHANGED out
      /\ LastEnds(r) => \A t \in TextsOf(r) : Due(t)'
  BY <1>1, <1>3, WriteSays DEF uartVars
<1>5. /\ "ERROR" \notin TextsOf(r)
      /\ place \in OkPlaces => "OK" \in TextsOf(r) /\ LastEnds(r) /\ r = <<Say("OK")>>
      /\ place = "data" => "Download" \in TextsOf(r) /\ LastEnds(r)
      /\ place = "action" => "Status200" \in TextsOf(r) /\ LastEnds(r)
      /\ place = "httpRead" => r = <<Say("OK"), Say("Token")>>
  BY AnswerSays
<1>6. DueInv'
  BY <1>1, <1>4, <1>5 DEF DueInv
<1>7. ConnectAt'
  BY <1>1, <1>3 DEF ConnectGood, ConnectAt
<1>8. \A a, b : <<>> \o <<a>> = <<a>> /\ <<>> \o <<a, b>> = <<a, b>>
  OBVIOUS
<1>9. ConnectHears'
  <2>1. CASE place = "at" /\ tries = 0
    <3>1. coming = <<>>
      BY <1>1, <2>1 DEF ConnectGood, ConnectHears, FirstAt
    <3>2. coming' = <<Say("OK")>>
      BY <1>3, <1>5, <1>8, <2>1, <3>1, Zenon DEF OkPlaces
    <3>3. "ERROR" \notin TextsOf(coming')
      BY <3>2, TextsFew, SayFacts
    <3>4. QED
      BY <1>1, <2>1, <3>2, <3>3 DEF ConnectHears, FirstAt
  <2>2. CASE ~(place = "at" /\ tries = 0)
    BY <1>1, <1>4, <1>5, <2>2 DEF ConnectGood, ConnectHears, NoError
  <2>3. QED
    BY <2>1, <2>2
<1>10. ASSUME place = "httpRead" PROVE ReadsToken'
  <2>1. pipe = <<>> /\ coming = <<>> /\ out = {}
    BY <1>1, <1>10 DEF ConnectGood, TokenRead, ReadsToken
  <2>2. coming' = <<Say("OK"), Say("Token")>>
    BY <1>3, <1>5, <1>8, <1>10, <2>1, Zenon
  <2>3. QED
    BY <1>1, <1>4, <2>1, <2>2 DEF ReadsToken
<1>11. place # "collect"
  BY DEF Write, Commands, Dialogue, ModemInit, HttpStart, HttpPost, HttpRead, HttpStop, TcpOpen,
         TcpSendChunked, TcpClose, PowerDown, Row
<1>12. TokenRead'
  BY <1>1, <1>10, <1>11 DEF ConnectGood, TokenRead
<1>13. QED
  BY <1>6, <1>7, <1>9, <1>12 DEF ConnectGood
\* At a place of the dialogue that has written its command, what it expects is due.
LEMMA ConnectDue ==
  ASSUME ConnectGood, written, NEW row \in Dialogue, row.cmd = place, place # "httpRead"
  PROVE  \/ Due(row.expect)
         \/ row.no \in {"initDone", "fetched"} /\ place \notin OkPlaces
<1>1. place \in ConnectPlaces \ ConnectFails
  BY DEF ConnectGood, ConnectAt
<1>2. DueInv
  BY DEF ConnectGood
<1>3. QED
  BY <1>1, <1>2, ConnectRows DEF DueInv

LEMMA ConnectGoes ==
  ASSUME ConnectGood, NEW row \in Dialogue, row.cmd = place, NEW q, Go(q), UNCHANGED <<rc, tries, full, powered>>,
         \/ q = row.yes
         \/ q = row.no /\ (q \in {"initDone", "fetched"} \/ (place = "at" /\ tries = 0)),
         NoError', q = "collect" => Collects'
  PROVE  ConnectGood'
<1>1. place' = q /\ written' = (q = "collect")
  BY DEF Go
<1>2. place \in ConnectPlaces \ ConnectFails
  BY DEF ConnectGood, ConnectAt
<1>3. /\ row.yes \in ConnectPlaces \ ConnectFails
      /\ row.yes \notin {"initFailed", "at", "httpRead", "readAsk", "parse", "readToken"}
      /\ row.cmd = "at" => row.no = "initFailed"
  BY <1>2, ConnectRows
<1>4. /\ place' \in ConnectPlaces \ ConnectFails
      /\ place' \notin {"at", "httpRead", "readAsk", "parse", "readToken"}
      /\ place' = "initFailed" => tries = 0
  BY <1>1, <1>3 DEF ConnectPlaces, NoToken, ConnectFails
<1>5. ConnectAt'
  BY <1>4 DEF ConnectGood, ConnectAt
<1>6. ConnectHears'
  BY <1>4 DEF ConnectHears
<1>7. DueInv'
  BY <1>1 DEF DueInv, OkPlaces
<1>8. TokenRead'
  BY <1>1, <1>4 DEF TokenRead
<1>9. QED
  BY <1>5, <1>6, <1>7, <1>8 DEF ConnectGood

LEMMA ConnectLine ==
  ASSUME PipeTypes, AtLine, ConnectGood
  PROVE  ConnectGood'
<1>1. ReadLine /\ written /\ UNCHANGED <<rc, tries, full, powered, coming>>
  BY DEF AtLine, modemVars
<1>2. PICK row \in Dialogue :
        /\ row.cmd = place
        /\ IF row.expect \in FirstLine THEN Go(row.yes)
           ELSE IF "ERROR" \in FirstLine THEN Go(row.no)
           ELSE UNCHANGED <<place, written>>
  BY DEF AtLine
<1>3. /\ pipe # <<>> /\ pipe' = <<>> /\ out' = {} /\ Heard' = {} /\ Unread' = TextsOf(coming)
      /\ FirstLine \subseteq Heard
      /\ Len(pipe) <= 1 => FirstLine = Heard
      /\ \A t : Due(t) /\ Len(pipe) <= 1 /\ t \notin FirstLine => Due(t)'
  BY <1>1, LineTakes DEF PipeTypes
<1>4. place \in ConnectPlaces \ ConnectFails
  BY DEF ConnectGood, ConnectAt
<1>5. "ERROR" \notin TextsOf(coming)
  <2>1. CASE place = "at" /\ tries = 0
    BY <1>1, <2>1 DEF ConnectGood, ConnectHears, FirstAt
  <2>2. CASE ~(place = "at" /\ tries = 0)
    BY <2>2 DEF ConnectGood, ConnectHears, NoError, Unread
  <2>3. QED
    BY <2>1, <2>2
<1>6. NoError'
  BY <1>3, <1>5 DEF NoError
<1>7. ~(place = "at" /\ tries = 0) => "ERROR" \notin FirstLine /\ Len(pipe) <= 1
  BY <1>3 DEF ConnectGood, ConnectHears, NoError, Unread
<1>8. CASE place = "httpRead"
  <2>1. out = {} /\ full = "" /\ pipe = <<Say("OK")>> /\ coming = <<Say("Token")>>
    BY <1>1, <1>3, <1>8 DEF ConnectGood, TokenRead, ReadsToken
  <2>2. Heard = {"OK"}
    <3>1. TextsOf(pipe) = {"OK"}
      BY <2>1, TextsFew, SayFacts, Zenon
    <3>2. QED
      BY <2>1, <3>1 DEF Heard
  <2>3. Len(pipe) <= 1
    BY <1>1, <1>3, <1>8 DEF ConnectGood, ConnectHears, NoError
  <2>4. row.expect = "OK" /\ row.yes = "collect" /\ Go(row.yes)
    BY <1>2, <1>3, <1>4, <1>8, <2>2, <2>3, ConnectRows
  <2>5. Collects'
    BY <1>1, <1>3, <2>1 DEF Collects
  <2>6. QED
    BY <1>1, <1>2, <1>6, <2>4, <2>5, ConnectGoes
<1>9. CASE place # "httpRead" /\ row.expect \in FirstLine
  <2>1. row.yes # "collect"
    BY <1>2, <1>4, <1>9, ConnectRows
  <2>2. QED
    BY <1>1, <1>2, <1>6, <1>9, <2>1, ConnectGoes
<1>10. CASE place # "httpRead" /\ row.expect \notin FirstLine /\ "ERROR" \in FirstLine
  <2>1. place = "at" /\ tries = 0 /\ Go(row.no)
    BY <1>2, <1>7, <1>10
  <2>2. row.no = "initFailed"
    BY <1>2, <1>4, <2>1, ConnectRows
  <2>3. QED
    BY <1>1, <1>2, <1>6, <2>1, <2>2, ConnectGoes
<1>11. CASE place # "httpRead" /\ row.expect \notin FirstLine /\ "ERROR" \notin FirstLine
  <2>1. UNCHANGED <<place, written>>
    BY <1>2, <1>11
  <2>2. place \in OkPlaces => row.expect = "OK"
    BY <1>2, <1>4, ConnectRows
  <2>3. DueInv'
    <3>1. CASE Len(pipe) <= 1
      <4>1. /\ place = "data" => row.expect = "Download"
            /\ place = "action" => row.expect = "Status200"
        BY <1>2, <1>4, ConnectRows
      <4>2. \A t : Due(t) /\ t = row.expect => Due(t)'
        BY <1>3, <1>11, <3>1
      <4>3. DueInv
        BY DEF ConnectGood
      <4>4. QED
        BY <2>1, <2>2, <4>1, <4>2, <4>3 DEF DueInv
    <3>2. CASE ~(Len(pipe) <= 1)
      <4>1. place = "at" /\ coming = <<Say("OK")>>
        BY <1>1, <1>7, <3>2 DEF ConnectGood, ConnectHears, FirstAt
      <4>2. "OK" \in Unread' /\ LastEnds(coming)
        BY <1>3, <4>1, TextsFew, EndsFew, SayFacts
      <4>3. Due("OK")'
        BY <1>1, <4>1, <4>2, FewDiffer DEF Due
      <4>4. QED
        BY <2>1, <4>1, <4>3 DEF DueInv
    <3>3. QED
      BY <3>1, <3>2
  <2>4. ConnectAt'
    BY <1>1, <2>1 DEF ConnectGood, ConnectAt
  <2>5. ConnectHears'
    BY <1>1, <1>5, <1>6, <2>1, <1>3 DEF ConnectHears, FirstAt, NoError
  <2>6. TokenRead'
    <3>1. place # "collect" /\ place # "httpRead"
      BY <1>2, <1>11 DEF Dialogue, ModemInit, HttpStart, HttpPost, HttpRead, HttpStop, TcpOpen,
                         TcpSendChunked, TcpClose, PowerDown, Row
    <3>2. QED
      BY <1>1, <2>1, <3>1 DEF ConnectGood, TokenRead
  <2>7. QED
    BY <2>3, <2>4, <2>5, <2>6 DEF ConnectGood
<1>12. QED
  BY <1>8, <1>9, <1>10, <1>11

LEMMA ConnectTimeout ==
  ASSUME PendingIsSignalled, healthy, AtTimeout, ConnectGood
  PROVE  ConnectGood'
<1>1. Expired /\ written /\ UNCHANGED <<rc, tries, full, powered, coming>>
  BY DEF AtTimeout, modemVars
<1>2. PICK row \in Dialogue : row.cmd = place /\ Go(row.no)
  BY DEF AtTimeout
<1>3. pipe = <<>> /\ coming = <<>> /\ UNCHANGED pipe /\ out' = {} /\ Unread' = {} /\ \A t : ~Due(t)
  BY <1>1, TimeoutTakes
<1>4. place # "httpRead"
  BY <1>1, <1>3, FewDiffer DEF ConnectGood, TokenRead, ReadsToken
<1>5. row.no \in {"initDone", "fetched"}
  BY <1>1, <1>2, <1>3, <1>4, ConnectDue
<1>6. NoError'
  BY <1>3 DEF NoError
<1>7. QED
  BY <1>1, <1>2, <1>5, <1>6, ConnectGoes

LEMMA ConnectTokenLine ==
  ASSUME PipeTypes, TokenLine, ConnectGood
  PROVE  ConnectGood'
<1>1. ReadLine /\ written /\ place \in {"readAsk", "collect"} /\ UNCHANGED <<rc, tries, powered, coming>>
  BY DEF TokenLine, Waiting, modemVars
<1>2. /\ pipe # <<>> /\ pipe' = <<>> /\ out' = {} /\ Unread' = TextsOf(coming)
      /\ Len(pipe) <= 1 => FirstLine = Heard
  BY <1>1, LineTakes DEF PipeTypes
<1>3. NoError
  BY <1>1 DEF ConnectGood, ConnectHears
<1>4. FirstLine = Heard /\ "ERROR" \notin FirstLine /\ NoError'
  BY <1>2, <1>3 DEF NoError, Unread
<1>5. /\ full' = (IF place = "collect" /\ full = ""
                 THEN IF "Token" \in FirstLine THEN "token" ELSE "other"
                 ELSE full)
      /\ UNCHANGED <<place, written>>
  BY <1>4 DEF TokenLine
<1>6. ConnectAt' /\ ConnectHears' /\ DueInv'
  BY <1>1, <1>4, <1>5 DEF ConnectGood, ConnectAt, ConnectHears, DueInv, OkPlaces
<1>7. CASE place = "collect"
  <2>1. full = "" /\ pipe = <<Say("Token")>> /\ coming = <<>>
    BY <1>2, <1>7 DEF ConnectGood, TokenRead, Collects
  <2>2. "Token" \in Heard
    <3>1. TextsOf(pipe) = {"Token"}
      BY <2>1, TextsFew, SayFacts, Zenon
    <3>2. QED
      BY <3>1 DEF Heard
  <2>3. Collects'
    BY <1>1, <1>2, <1>4, <1>5, <1>7, <2>1, <2>2 DEF Collects
  <2>4. QED
    BY <1>5, <1>6, <1>7, <2>3 DEF ConnectGood, TokenRead
<1>8. CASE place = "readAsk"
  BY <1>5, <1>6, <1>8 DEF ConnectGood, TokenRead
<1>9. QED
  BY <1>1, <1>7, <1>8

LEMMA ConnectTokenTimeout ==
  ASSUME PendingIsSignalled, healthy, TokenTimeout, ConnectGood
  PROVE  ConnectGood'
<1>1. /\ Expired /\ written /\ place \in {"readAsk", "collect"} /\ UNCHANGED <<rc, tries, powered, coming, full>>
      /\ place' = (IF place = "readAsk" THEN "httpRead" ELSE "parse") /\ written' = FALSE
  BY DEF TokenTimeout, Waiting, modemVars, Go
<1>2. pipe = <<>> /\ coming = <<>> /\ UNCHANGED pipe /\ out' = {} /\ Unread' = {}
  BY <1>1, TimeoutTakes
<1>3. NoError'
  BY <1>2 DEF NoError
<1>4. ConnectAt' /\ ConnectHears' /\ DueInv'
  BY <1>1, <1>3 DEF ConnectGood, ConnectAt, ConnectHears, DueInv, ConnectPlaces, ConnectFails
<1>5. CASE place = "readAsk"
  <2>1. full = ""
    BY <1>5 DEF ConnectGood, TokenRead
  <2>2. QED
    BY <1>1, <1>2, <1>4, <1>5, <2>1 DEF ConnectGood, TokenRead, ReadsToken
<1>6. CASE place = "collect"
  <2>1. full = "token"
    BY <1>2, <1>6, FewDiffer DEF ConnectGood, TokenRead, Collects
  <2>2. QED
    BY <1>1, <1>4, <1>6, <2>1 DEF ConnectGood, TokenRead
<1>7. QED
  BY <1>1, <1>5, <1>6

\* The work of connect in order.
LEMMA ConnectThink ==
  ASSUME healthy, job = "connect", Think, ConnectGood
  PROVE  ConnectGood'
<1>1. /\ place \in ConnectPlaces \ ConnectFails /\ rc = "ok" /\ (place = "initFailed" => tries = 0)
      /\ place = "parse" => full = "token"
      /\ place = "readToken" => full = "token"
      /\ powered
  BY DEF ConnectGood, ConnectAt, TokenRead
<1>2. InitFailed \/ InitDone \/ Jwt \/ Payload \/ Sign \/ Assertion \/ Posted \/ Buffer \/ Parse \/ ReadToken
      \/ Fetched
  BY <1>1 DEF Think, Works, StartFailed, TooLong, PostFailed, ReadFailed, Request, Form, OpenFailed, ChunkDone, Sent,
              PowerOff, ConnectPlaces, NoToken, ConnectFails
<1>3. UNCHANGED <<uartVars, powered, coming>>
  BY <1>2 DEF Works, InitFailed, InitDone, Jwt, Payload, Sign, Assertion, Posted, Buffer, Parse, ReadToken,
              Fetched, modemVars
<1>4. ~written' /\ rc' = "ok" /\ place' \in ConnectPlaces \ ConnectFails /\ place' # "initFailed"
      /\ place' \notin {"httpRead", "collect", "parse"} /\ (place' = "at" => tries' = 1)
      /\ (place' = "readAsk" => full' = "") /\ (place' = "readToken" => full' = "token")
  <2>1. CASE InitFailed
    <3>1. place = "initFailed" /\ tries = 0 /\ 0 < MaxInitTries
      BY <1>1, <2>1, ModemAssumption DEF InitFailed, Works
    <3>2. tries' = tries + 1 /\ Go("at") /\ UNCHANGED rc
      BY <2>1, <3>1, Zenon DEF InitFailed
    <3>3. place' = "at" /\ written' = ("at" = "collect")
      BY <3>2, Zenon DEF Go
    <3>4. tries' = 1
      BY <3>1, <3>2
    <3>5. QED
      BY <1>1, <3>2, <3>3, <3>4 DEF ConnectPlaces, NoToken, ConnectFails
  <2>2. CASE InitDone
    BY <1>1, <2>2 DEF InitDone, Go, ConnectPlaces, NoToken, ConnectFails
  <2>3. CASE Jwt \/ Payload \/ Sign \/ Assertion
    BY <1>1, <2>3 DEF Jwt, Payload, Sign, Assertion, Step, Go, ConnectPlaces, NoToken, ConnectFails
  <2>4. CASE Posted \/ Buffer
    BY <1>1, <2>4 DEF Posted, Buffer, Go, ConnectPlaces, NoToken, ConnectFails
  <2>5. CASE Parse
    BY <1>1, <2>5 DEF Parse, Works, Go, ConnectPlaces, NoToken, ConnectFails
  <2>6. CASE ReadToken \/ Fetched
    BY <1>1, <2>6 DEF ReadToken, Fetched, Works, Go, ConnectPlaces, NoToken, ConnectFails
  <2>7. QED
    BY <1>2, <2>1, <2>2, <2>3, <2>4, <2>5, <2>6
<1>5. NoError
  BY <1>2 DEF ConnectGood, ConnectHears, Works, InitFailed, InitDone, Jwt, Payload, Sign, Assertion, Posted, Buffer,
              Parse, ReadToken, Fetched
<1>6. NoError'
  BY <1>3, <1>5 DEF NoError, Unread, Heard, uartVars
<1>7. ConnectAt'
  BY <1>1, <1>3, <1>4 DEF ConnectAt
<1>8. ConnectHears'
  <2>1. 0 # 1
    OBVIOUS
  <2>2. ~(place' = "at" /\ tries' = 0)
    BY <1>4, <2>1, Zenon
  <2>3. QED
    BY <1>6, <2>2 DEF ConnectHears
<1>9. DueInv' /\ TokenRead'
  BY <1>4 DEF DueInv, TokenRead
<1>10. QED
  BY <1>7, <1>8, <1>9 DEF ConnectGood

LEMMA ConnectTalk ==
  ASSUME CallInv, PipeTypes, PendingIsSignalled, healthy, job = "connect", Talk, ConnectGood
  PROVE  ConnectGood'
<1>1. ~TimeLine /\ ~TimeTimeout
  BY DEF TimeLine, TimeTimeout, Waiting, ConnectGood, ConnectAt, ConnectPlaces, NoToken
<1>2. QED
  BY <1>1, ConnectWrite, ConnectNotice, ConnectPart, ConnectLine, ConnectTimeout, ConnectTokenLine,
     ConnectTokenTimeout DEF Talk
------------------------------------------------------------------------------
(* send in order *)

\* What a step that delivers nothing leaves as it was.
Undisturbed == /\ UNCHANGED <<rc, powered, open, wantsData, taken, chunk, batch>>
               /\ air' \in {air, batch}

LEMMA SendStays ==
  ASSUME SendGood, Undisturbed, UNCHANGED <<place, written>>, NoError', \A t : Due(t) => Due(t)'
  PROVE  SendGood'
<1>1. SendAt' /\ DueInv'
  BY DEF SendGood, SendAt, DueInv, Undisturbed
<1>2. SendTakes'
  BY DEF SendGood, SendTakes, Undisturbed
<1>3. QED
  BY <1>1, <1>2 DEF SendGood

LEMMA SendComesIn ==
  ASSUME PipeTypes, attached, healthy, ComesIn, SendGood, UNCHANGED <<air, batch>>
  PROVE  SendGood'
<1>1. UNCHANGED <<place, written>> /\ Undisturbed
  BY DEF ComesIn, callVars, Undisturbed
<1>2. Len(pipe') <= 1 /\ Unread' = Unread /\ \A t : Due(t) => Due(t)'
  BY ComesInKeeps
<1>3. NoError'
  BY <1>2 DEF SendGood, NoError
<1>4. QED
  BY <1>1, <1>2, <1>3, SendStays

LEMMA SendNotice ==
  ASSUME Notice, SendGood, UNCHANGED batch, air' \in {air, batch}
  PROVE  SendGood'
<1>1. UNCHANGED <<place, written, coming, pipe, out>> /\ Undisturbed
  BY DEF Notice, callVars, modemVars, ClearRcvEvt, Undisturbed
<1>2. UNCHANGED Unread /\ \A t : Due(t) => Due(t)'
  BY <1>1 DEF Unread, Heard, Due
<1>3. NoError'
  BY <1>1, <1>2 DEF SendGood, NoError
<1>4. QED
  BY <1>1, <1>2, <1>3, SendStays

LEMMA SendPart ==
  ASSUME PipeTypes, GetPart, SendGood, UNCHANGED batch, air' \in {air, batch}
  PROVE  SendGood'
<1>1. UNCHANGED <<place, written, coming>> /\ Undisturbed /\ ReadPart
  BY DEF GetPart, callVars, modemVars, Undisturbed
<1>2. pipe' = <<>> /\ Unread' = Unread /\ \A t : Due(t) => Due(t)'
  BY <1>1, PartKeeps DEF PipeTypes
<1>3. NoError'
  BY <1>2 DEF SendGood, NoError
<1>4. QED
  BY <1>1, <1>2, <1>3, SendStays

LEMMA SendGoes ==
  ASSUME CallInv, SendGood, written, NEW row \in Dialogue, row.cmd = place, NEW q \in {row.yes, row.no}, Go(q),
         q \in SendPlaces \ {"openFailed"}, Undisturbed, NoError'
  PROVE  SendGood'
<1>1. place \in SendPlaces /\ place' = q /\ written' = (q = "collect")
  BY DEF SendGood, SendAt, Go
<1>2. /\ q \notin {"collect", "done"}
      /\ q = "cchOpenAsk" => place = "cchOpen"
      /\ q = "cchSend" => place = "cchOpenAsk"
      /\ q = "cchData" => place = "cchSend"
      /\ q = "chunkDone" => place = "cchData"
      /\ q \in SentPlaces => place \in SentPlaces
  BY <1>1, SendRows
<1>3. ~written'
  BY <1>1, <1>2
<1>4. SendAt' /\ DueInv'
  BY <1>1, <1>3 DEF SendGood, SendAt, DueInv, Undisturbed
<1>5. place = "cchOpenAsk" => taken = 0 /\ chunk = 0
  BY DEF CallInv, ChunkInv
<1>6. SendTakes'
  <2>1. SendTakes
    BY DEF SendGood
  <2>2. place' \in {"cchOpenAsk", "cchSend", "cchData", "chunkDone"} => open'
    BY <1>1, <1>2, <2>1 DEF SendTakes, Undisturbed
  <2>3. place' = "cchSend" \/ place' = "cchData" => taken' = chunk'
    BY <1>1, <1>2, <1>5, <2>1 DEF SendTakes, Undisturbed
  <2>4. place' = "cchData" => wantsData'
    BY <1>1, <1>2, <2>1 DEF SendTakes, Undisturbed
  <2>5. place' = "chunkDone" => taken' = chunk' + 1 /\ (taken' = Chunks => air' = batch')
    BY <1>1, <1>2, <2>1 DEF SendTakes, Undisturbed
  <2>6. place' \in SentPlaces => air' = batch'
    BY <1>1, <1>2, <2>1 DEF SendTakes, Undisturbed
  <2>7. QED
    BY <1>3, <2>2, <2>3, <2>4, <2>5, <2>6 DEF SendTakes
<1>7. QED
  BY <1>4, <1>6 DEF SendGood

LEMMA SendLine ==
  ASSUME CallInv, PipeTypes, AtLine, SendGood, UNCHANGED batch, air' \in {air, batch}
  PROVE  SendGood'
<1>1. ReadLine /\ written /\ UNCHANGED coming /\ Undisturbed
  BY DEF AtLine, modemVars, Undisturbed
<1>2. PICK row \in Dialogue :
        /\ row.cmd = place
        /\ IF row.expect \in FirstLine THEN Go(row.yes)
           ELSE IF "ERROR" \in FirstLine THEN Go(row.no)
           ELSE UNCHANGED <<place, written>>
  BY DEF AtLine
<1>3. /\ pipe' = <<>> /\ Unread' = TextsOf(coming) /\ FirstLine \subseteq Heard
      /\ \A t : Due(t) /\ Len(pipe) <= 1 /\ t \notin FirstLine => Due(t)'
  BY <1>1, LineTakes DEF PipeTypes
<1>4. "ERROR" \notin FirstLine /\ Len(pipe) <= 1 /\ NoError'
  BY <1>3 DEF SendGood, NoError, Unread
<1>5. place \in SendPlaces \ {"openFailed"}
  BY DEF SendGood, SendAt
<1>6. /\ row.yes \in SendPlaces \ {"openFailed"}
      /\ place \in OkPlaces => row.expect = "OK"
      /\ place \notin {"data", "action"}
  BY <1>2, <1>5, SendRows
<1>7. CASE row.expect \in FirstLine
  BY <1>1, <1>2, <1>4, <1>6, <1>7, SendGoes
<1>8. CASE row.expect \notin FirstLine
  <2>1. UNCHANGED <<place, written>>
    BY <1>2, <1>4, <1>8
  <2>2. SendAt' /\ SendTakes'
    BY <1>1, <2>1 DEF SendGood, SendAt, SendTakes, Undisturbed
  <2>3. DueInv'
    BY <1>3, <1>4, <1>6, <1>8, <2>1 DEF SendGood, DueInv
  <2>4. QED
    BY <1>4, <2>2, <2>3 DEF SendGood
<1>9. QED
  BY <1>7, <1>8

LEMMA SendTimeout ==
  ASSUME CallInv, PendingIsSignalled, healthy, AtTimeout, SendGood, UNCHANGED batch, air' \in {air, batch}
  PROVE  SendGood'
<1>1. Expired /\ written /\ UNCHANGED coming /\ Undisturbed
  BY DEF AtTimeout, modemVars, Undisturbed
<1>2. PICK row \in Dialogue : row.cmd = place /\ Go(row.no)
  BY DEF AtTimeout
<1>3. pipe = <<>> /\ UNCHANGED pipe /\ Unread' = {} /\ \A t : ~Due(t)
  BY <1>1, TimeoutTakes
<1>4. NoError'
  BY <1>3 DEF NoError
<1>5. place \in SendPlaces /\ place \notin OkPlaces
  BY <1>1, <1>3 DEF SendGood, SendAt, DueInv
<1>6. row.no \in SendPlaces \ {"openFailed"}
  BY <1>2, <1>5, SendRows
<1>7. QED
  BY <1>1, <1>2, <1>4, <1>6, SendGoes

LEMMA SendWrite ==
  ASSUME CallInv, PipeTypes, healthy, Write, SendGood,
         UNCHANGED batch, air' \in {air, batch}, Delivers => air' = batch
  PROVE  SendGood'
<1>1. /\ ~written /\ written' = TRUE /\ Hear /\ place \in Commands \cup {"cclk", "readAsk"}
      /\ UNCHANGED <<uartVars, job, place, rc, tries, timeOk, full, chunk, heapVars>>
  BY DEF Write
<1>2. powered /\ place \in SendPlaces \ {"openFailed"} /\ SendTakes
  BY DEF SendGood, SendAt
<1>3. Answers(place) # {}
  <2>1. place = "cchSend" => open
    BY <1>2 DEF SendTakes
  <2>2. place = "cchData" => wantsData
    BY <1>1, <1>2 DEF SendTakes
  <2>3. QED
    BY <2>1, <2>2, AnswersExist
<1>4. PICK r \in Answers(place) :
        /\ coming' = coming \o r
        /\ place = "cchSend" => wantsData'
        /\ place = "cchOpen" => open'
        /\ place \notin {"cchOpen", "cchClose"} => UNCHANGED open
        /\ place = "cchData" => taken' = taken + 1
        /\ UNCHANGED <<powered, healthy>>
  BY <1>1, <1>2, <1>3, HearGood
<1>5. /\ Unread' = Unread \cup TextsOf(r) /\ UNCHANGED pipe
      /\ LastEnds(r) => \A t \in TextsOf(r) : Due(t)'
  BY <1>1, <1>4, WriteSays
<1>6. /\ "ERROR" \notin TextsOf(r)
      /\ place \in OkPlaces => "OK" \in TextsOf(r) /\ LastEnds(r)
      /\ place = "data" => "Download" \in TextsOf(r) /\ LastEnds(r)
      /\ place = "action" => "Status200" \in TextsOf(r) /\ LastEnds(r)
  BY AnswerSays
<1>7. DueInv'
  BY <1>1, <1>5, <1>6 DEF DueInv
<1>8. SendAt' /\ NoError'
  BY <1>1, <1>4, <1>5, <1>6 DEF SendGood, SendAt, NoError
<1>9. taken \in Nat /\ Chunks \in Nat
  BY ModemAssumption DEF CallInv, ChunkInv
<1>10. SendTakes'
  <2>1. place \notin {"chunkDone", "sent", "done"}
    BY <1>1 DEF Commands, Dialogue, ModemInit, HttpStart, HttpPost, HttpRead, HttpStop, TcpOpen,
                TcpSendChunked, TcpClose, PowerDown, Row
  <2>2. place \in {"cchOpen", "cchOpenAsk", "cchSend", "cchData"} => open'
    BY <1>1, <1>2, <1>4 DEF SendTakes
  <2>3. place = "cchSend" => taken' = chunk
    BY <1>1, <1>2, <1>9, HearTaken DEF SendTakes
  <2>4. place = "cchData" => taken' = chunk + 1 /\ (taken' = Chunks => air' = batch)
    <3>1. SUFFICES ASSUME place = "cchData" PROVE taken' = chunk + 1 /\ (taken' = Chunks => air' = batch)
      OBVIOUS
    <3>2. taken' = taken + 1 /\ taken = chunk
      BY <1>1, <1>2, <1>4, <3>1 DEF SendTakes
    <3>3. taken' = Chunks => Delivers
      BY <1>9, <3>2 DEF Delivers
    <3>4. QED
      BY <3>2, <3>3
  <2>5. place \in SentPlaces => air' = batch
    BY <1>2 DEF SendTakes
  <2>6. place' = place /\ chunk' = chunk /\ batch' = batch /\ written'
    BY <1>1
  <2>7. QED
    BY <1>4, <2>1, <2>2, <2>3, <2>4, <2>5, <2>6 DEF SendTakes
<1>11. QED
  BY <1>7, <1>8, <1>10 DEF SendGood

LEMMA SendTalk ==
  ASSUME CallInv, PipeTypes, PendingIsSignalled, healthy, Talk, SendGood,
         UNCHANGED batch, air' \in {air, batch}, Delivers => air' = batch
  PROVE  SendGood'
<1>1. ~TimeLine /\ ~TimeTimeout /\ ~TokenLine /\ ~TokenTimeout
  BY DEF TimeLine, TimeTimeout, TokenLine, TokenTimeout, Waiting, SendGood, SendAt, SendPlaces, EarlyPlaces
<1>2. QED
  BY <1>1, SendWrite, SendNotice, SendPart, SendLine, SendTimeout DEF Talk

\* The work of send in order: with the last chunk the batch has been delivered.
LEMMA SendThink ==
  ASSUME CallInv, healthy, job = "send", Think, SendGood, UNCHANGED batch, air' \in {air, batch}
  PROVE  SendGood'
<1>1. place \in SendPlaces \ {"openFailed"} /\ rc = "ok" /\ powered /\ SendTakes
  BY DEF SendGood, SendAt
<1>2. Request \/ Form \/ ChunkDone \/ Sent
  BY <1>1 DEF Think, Works, InitFailed, InitDone, Jwt, Payload, Sign, Assertion, StartFailed, TooLong, Posted,
              PostFailed, Buffer, ReadFailed, Parse, ReadToken, Fetched, OpenFailed, PowerOff, SendPlaces, EarlyPlaces
<1>3. UNCHANGED <<pipe, out, coming, powered, open, wantsData, taken>>
  BY <1>2 DEF Request, Form, ChunkDone, Sent, Works, uartVars, modemVars
<1>4. NoError'
  BY <1>3 DEF SendGood, NoError, Unread, Heard
<1>5. taken \in Nat /\ chunk \in 0..(Chunks - 1) /\ Chunks \in Nat \ {0}
  BY ModemAssumption DEF CallInv, ChunkInv
<1>6. CASE Request \/ Form \/ Sent
  <2>1. rc' = "ok" /\ \/ place = "request" /\ Go("form")
                      \/ place = "form" /\ Go("netAsk")
                      \/ place = "sent" /\ Go("done")
    BY <1>1, <1>6 DEF Request, Form, Sent, Step, Works
  <2>2. ~written' /\ \/ place = "request" /\ place' = "form"
                     \/ place = "form" /\ place' = "netAsk"
                     \/ place = "sent" /\ place' = "done"
    BY <2>1 DEF Go
  <2>3. SendAt'
    BY <1>1, <1>3, <2>1, <2>2 DEF SendAt, SendPlaces, EarlyPlaces
  <2>4. SendTakes'
    BY <1>1, <2>2 DEF SendTakes, SentPlaces
  <2>5. DueInv'
    BY <2>2 DEF DueInv
  <2>6. QED
    BY <1>4, <2>3, <2>4, <2>5 DEF SendGood
<1>7. CASE ChunkDone
  <2>1. place = "chunkDone" /\ UNCHANGED rc
    BY <1>7 DEF ChunkDone, Works
  <2>2. open /\ taken = chunk + 1 /\ (taken = Chunks => air = batch)
    BY <1>1, <2>1 DEF SendTakes
  <2>3. CASE chunk + 1 < Chunks
    <3>1. chunk' = chunk + 1 /\ place' = "cchSend" /\ ~written'
      BY <1>7, <2>3 DEF ChunkDone, Go
    <3>2. SendAt' /\ SendTakes' /\ DueInv'
      BY <1>1, <1>3, <2>1, <2>2, <3>1 DEF SendAt, SendTakes, DueInv, SendPlaces, EarlyPlaces, SentPlaces
    <3>3. QED
      BY <1>4, <3>2 DEF SendGood
  <2>4. CASE ~(chunk + 1 < Chunks)
    <3>1. place' = "cchClose" /\ ~written'
      BY <1>7, <2>4 DEF ChunkDone, Go
    <3>2. chunk + 1 = Chunks
      BY <1>5, <2>4
    <3>3. SendAt' /\ SendTakes' /\ DueInv'
      BY <1>1, <1>3, <2>1, <2>2, <3>1, <3>2 DEF SendAt, SendTakes, DueInv, SendPlaces, EarlyPlaces, SentPlaces
    <3>4. QED
      BY <1>4, <3>3 DEF SendGood
  <2>5. QED
    BY <2>3, <2>4
<1>8. QED
  BY <1>2, <1>6, <1>7
------------------------------------------------------------------------------
(* An attempt in order *)

\* Nothing goes wrong from here on, and lora_sm does not come back.
LEMMA SoundStays ==
  ASSUME Sound, [Next]_vars
  PROVE  Sound'
<1>1. CASE Stop \/ Continue \/ LoRaClock
  <2>1. UNCHANGED <<build, attached, healthy>>
    BY <1>1 DEF Stop, Continue, LoRaClock, transportVars, uartVars, modemVars
  <2>2. \E bits : Post(bits)
    BY <1>1 DEF Stop, Continue, LoRaClock
  <2>3. QED
    BY <2>1, <2>2 DEF Post, Sound
<1>2. ~LoRaInit
  BY DEF LoRaInit, Sound
<1>3. CASE Boot
  <2>1. CASE SetClock \/ BootContinue
    BY <2>1 DEF SetClock, BootContinue, Post, transportVars, uartVars, modemVars, Sound
  <2>2. CASE BootSetup \/ BootSetupReturns \/ BootAgain \/ Prompt \/ PromptTimeout \/ Halt \/ Adc
    BY <2>2 DEF BootSetup, BeginBoot, UartSetup, BootSetupReturns, End, BootAgain, Prompt, PromptTimeout, Halt, Adc,
                transportVars, uartVars, modemVars, Sound
  <2>3. QED
    BY <1>3, <2>1, <2>2 DEF Boot
<1>4. CASE CloudSend
  <2>1. UNCHANGED <<build, lora>>
    BY <1>4 DEF CloudSend, CloudBooted, Cloud, AskMaxPayload, MaxPayload, Connect, ConnectNew, ConnectAgain,
                ConnectReturns, Send, SendReturns, Disconnect, DisconnectReturns, SendLog
  <2>2. UNCHANGED <<attached, healthy>>
    BY <1>4 DEF CloudSend, CloudBooted, AskMaxPayload, MaxPayload, Connect, ConnectNew, ConnectAgain,
                ConnectReturns, Send, SendReturns, Disconnect, DisconnectReturns, SendLog, BeginConnect,
                BeginSend, BeginDisconnect, End, transportVars, uartVars, modemVars
  <2>3. QED
    BY <2>1, <2>2 DEF Sound
<1>5. CASE Transport
  <2>1. UNCHANGED <<build, lora>>
    BY <1>5 DEF Transport, startVars
  <2>2. ASSUME Talk PROVE UNCHANGED <<attached, healthy>>
    <3>1. UNCHANGED uartVars \/ ClearRcvEvt \/ ReadPart \/ ReadLine \/ ReadTimeout
      BY <2>2 DEF Talk, Write, Notice, GetPart, AtLine, AtTimeout, TimeLine, TimeTimeout, TokenLine,
                  TokenTimeout, Expired
    <3>2. UNCHANGED attached
      BY <3>1 DEF ClearRcvEvt, ReadPart, ReadLine, ReadTimeout, uartVars
    <3>3. UNCHANGED healthy
      BY <2>2 DEF Talk, Write, Hear, Notice, GetPart, AtLine, AtTimeout, TimeLine, TimeTimeout, TokenLine,
                  TokenTimeout, modemVars
    <3>4. QED
      BY <3>2, <3>3
  <2>3. ASSUME Think PROVE UNCHANGED <<attached, healthy>>
    BY <2>3 DEF Think, Works, InitFailed, InitDone, Jwt, Payload, Sign, Assertion, StartFailed, TooLong,
                Posted, PostFailed, Buffer, ReadFailed, Parse, ReadToken, Fetched, Request, Form, OpenFailed,
                ChunkDone, Sent, PowerOff, uartVars, modemVars
  <2>4. QED
    BY <1>5, <2>1, <2>2, <2>3 DEF Transport, Sound
<1>6. CASE Look \/ Tick \/ Modem \/ UNCHANGED vars
  BY <1>6 DEF Look, Tick, Modem, ComesIn, OnRx, Lost, Heal, Unasked, vars, startVars, transportVars, uartVars,
              modemVars, Sound
<1>7. QED
  BY <1>1, <1>2, <1>3, <1>4, <1>5, <1>6 DEF Next, LoRa

\* The state of an attempt is that of the transport and of cloud_send.
LEMMA GoodStays ==
  ASSUME UNCHANGED <<uartVars, place, written, rc, tries, full, chunk, modemVars, batch, air>>
  PROVE  /\ ConnectGood => ConnectGood'
         /\ SendGood => SendGood'
         /\ NoError => NoError'
<1>1. /\ UNCHANGED <<pipe, out, powered, coming, wantsData, open, taken>>
      /\ UNCHANGED <<place, written, rc, tries, full, chunk, batch, air>>
  BY DEF uartVars, modemVars
<1>2. UNCHANGED Unread /\ \A t : Due(t) => Due(t)'
  BY <1>1 DEF Unread, Heard, Due
<1>3. NoError => NoError'
  BY <1>1, <1>2 DEF NoError
<1>4. DueInv => DueInv'
  BY <1>1, <1>2 DEF DueInv
<1>5. ASSUME ConnectGood PROVE ConnectGood'
  <2>1. ConnectAt' /\ ConnectHears'
    BY <1>1, <1>3, <1>5 DEF ConnectGood, ConnectAt, ConnectHears, FirstAt
  <2>2. TokenRead'
    <3>1. ReadsToken => ReadsToken'
      BY <1>1 DEF ReadsToken
    <3>2. Collects => Collects'
      BY <1>1 DEF Collects
    <3>3. QED
      BY <1>1, <1>5, <3>1, <3>2 DEF ConnectGood, TokenRead
  <2>3. QED
    BY <1>4, <1>5, <2>1, <2>2 DEF ConnectGood
<1>6. ASSUME SendGood PROVE SendGood'
  BY <1>1, <1>3, <1>4, <1>6 DEF SendGood, SendAt, SendTakes
<1>7. QED
  BY <1>3, <1>5, <1>6

\* Between connect and send the transport only reads what comes in.
LEMMA IdleTalk ==
  ASSUME PipeTypes, taken \in Nat, place = "done", Talk \/ Think, NoError
  PROVE  NoError' /\ UNCHANGED powered
<1>1. ~Think
  BY DEF Think, Works, InitFailed, InitDone, Jwt, Payload, Sign, Assertion, StartFailed, TooLong, Posted,
         PostFailed, Buffer, ReadFailed, Parse, ReadToken, Fetched, Request, Form, OpenFailed, ChunkDone, Sent,
         PowerOff
<1>2. \A row \in Dialogue : row.cmd # "done"
  BY DEF Dialogue, ModemInit, HttpStart, HttpPost, HttpRead, HttpStop, TcpOpen, TcpSendChunked, TcpClose,
         PowerDown, Row
<1>3. Notice \/ GetPart
  BY <1>1, <1>2 DEF Talk, Write, AtLine, AtTimeout, TimeLine, TimeTimeout, TokenLine, TokenTimeout, Waiting, Commands
<1>4. CASE Notice
  <2>1. UNCHANGED <<pipe, out, coming, powered>>
    BY <1>4 DEF Notice, modemVars, ClearRcvEvt
  <2>2. QED
    BY <2>1 DEF NoError, Unread, Heard
<1>5. CASE GetPart
  <2>1. UNCHANGED <<coming, powered>> /\ ReadPart
    BY <1>5 DEF GetPart, modemVars
  <2>2. pipe' = <<>> /\ Unread' = Unread
    BY <2>1, PartKeeps DEF PipeTypes
  <2>3. QED
    BY <2>1, <2>2 DEF NoError
<1>6. QED
  BY <1>3, <1>4, <1>5

\* The transport at work.
LEMMA SoundTransport ==
  ASSUME CallInv, PipeTypes, PendingIsSignalled, PastInv, Sound, SoundAt, Transport
  PROVE  SoundAt'
<1>1. /\ Talk \/ Think
      /\ UNCHANGED <<main, cloud, call, result, batch>>
      /\ air' \in {air, batch} /\ (Delivers => air' = batch)
  BY DEF Transport, startVars, Sound
<1>2. taken \in Nat
  BY DEF CallInv, ChunkInv
<1>3. CASE cloud = "connecting"
  <2>1. job = "connect"
    BY <1>3 DEF CallInv, Roles
  <2>2. ConnectGood'
    BY <1>1, <1>3, <2>1, ConnectTalk, ConnectThink DEF Sound, SoundAt
  <2>3. QED
    BY <1>1, <1>3, <2>2 DEF SoundAt
<1>4. CASE cloud = "connected"
  <2>1. main \notin {"boot", "setup", "pause"}
    BY <1>4 DEF PastInv, CallInv, Calls, Busy, Sound
  <2>2. place = "done"
    BY <1>4, <2>1 DEF CallInv, Roles, PlaceInv, Jobs
  <2>3. NoError' /\ powered'
    BY <1>1, <1>2, <1>4, <2>2, IdleTalk DEF SoundAt
  <2>4. QED
    BY <1>1, <1>4, <2>3 DEF SoundAt
<1>5. CASE cloud = "sending"
  <2>1. job = "send"
    BY <1>5 DEF CallInv, Roles
  <2>2. SendGood'
    BY <1>1, <1>5, <2>1, SendTalk, SendThink DEF Sound, SoundAt
  <2>3. QED
    BY <1>1, <1>5, <2>2 DEF SoundAt
<1>6. CASE cloud \notin {"connecting", "connected", "sending"}
  BY <1>1, <1>6 DEF SoundAt
<1>7. QED
  BY <1>3, <1>4, <1>5, <1>6

\* What the modem says comes in, and nothing else happens to it.
LEMMA SoundModem ==
  ASSUME PipeTypes, Sound, SoundAt, Modem
  PROVE  SoundAt'
<1>1. ComesIn /\ UNCHANGED <<cloud, call, result, batch, air>>
  BY DEF Modem, Lost, Heal, Unasked, Sound, startVars, sendVars
<1>2. healthy /\ attached
  BY DEF Sound
<1>3. cloud = "connecting" => ConnectGood'
  BY <1>1, <1>2, ConnectComesIn DEF SoundAt
<1>4. cloud = "connected" => powered' /\ NoError'
  <2>1. Len(pipe') <= 1 /\ Unread' = Unread
    BY <1>1, <1>2, ComesInKeeps
  <2>2. UNCHANGED powered
    BY <1>1 DEF ComesIn
  <2>3. QED
    BY <2>1, <2>2 DEF SoundAt, NoError
<1>5. cloud = "sending" => SendGood'
  BY <1>1, <1>2, SendComesIn DEF SoundAt
<1>6. QED
  BY <1>1, <1>3, <1>4, <1>5 DEF SoundAt

\* The beginning: the modem is off and silent, and the interrupt is that of this transport.
LEMMA SoundBegins ==
  ASSUME CallInv, SilentInv, TryInv, DeafInv, PastInv, ConnectNew \/ ConnectAgain, sound'
  PROVE  Sound' /\ SoundAt'
<1>1. /\ build = "4g" /\ cloud = "rest" /\ cloud' = "connecting" /\ BeginConnect
      /\ UNCHANGED <<build, main, lora>> /\ healthy /\ lora = "gone"
  BY DEF ConnectNew, ConnectAgain, Connect, Cloud
<1>2. job = "none" /\ place = "done"
  BY <1>1, AtRest DEF BeginConnect, Free
<1>3. main \notin {"boot", "pause"}
  BY <1>1 DEF ConnectNew, ConnectAgain, MayCall, PastInv
<1>4. ~powered /\ coming = <<>>
  BY <1>1, <1>2, <1>3 DEF CallInv, PowerInv, RestInv, SilentInv
<1>5. attached
  BY <1>1 DEF DeafInv, Deaf, DeafMain
<1>6. tries = 0
  BY <1>2 DEF TryInv, InitPlaces
<1>7. /\ place' = "at" /\ ~written' /\ rc' = "ok" /\ powered'
      /\ UNCHANGED <<tries, coming, attached, healthy>>
  BY <1>1 DEF BeginConnect, Begin, Go, uartVars
<1>8. Sound'
  BY <1>1, <1>5, <1>7 DEF Sound
<1>9. ConnectAt' /\ ConnectHears'
  BY <1>4, <1>6, <1>7 DEF ConnectAt, ConnectHears, FirstAt, ConnectPlaces, NoToken, ConnectFails
<1>10. DueInv' /\ TokenRead'
  BY <1>7 DEF DueInv, TokenRead
<1>11. QED
  BY <1>1, <1>8, <1>9, <1>10 DEF SoundAt, ConnectGood

\* From one call to the next.
LEMMA SoundCloud ==
  ASSUME CallInv, Sound, SoundAt, CloudSend, ~ConnectNew, ~ConnectAgain, ~SendLog
  PROVE  SoundAt'
<1>1. CASE CloudBooted \/ AskMaxPayload \/ MaxPayload
  <2>1. cloud' \in {"rest", "clock"} /\ call' \in {"idle", "len", "lenOk"}
    BY <1>1 DEF CloudBooted, AskMaxPayload, MaxPayload, Cloud, sendVars, CallInv, Calls
  <2>2. QED
    BY <2>1 DEF SoundAt
<1>2. CASE ConnectReturns
  <2>1. cloud = "connecting" /\ place = "done"
    BY <1>2 DEF ConnectReturns, Cloud, End
  <2>2. rc = "ok" /\ powered /\ NoError
    BY <2>1 DEF SoundAt, ConnectGood, ConnectAt, ConnectHears
  <2>3. /\ cloud' = "connected"
        /\ UNCHANGED <<uartVars, place, written, rc, tries, full, chunk, modemVars, batch, air>>
    BY <1>2, <2>2 DEF ConnectReturns, Cloud, End
  <2>4. NoError' /\ powered'
    BY <2>2, <2>3, GoodStays DEF modemVars
  <2>5. QED
    BY <2>3, <2>4 DEF SoundAt
<1>3. CASE Send
  <2>1. cloud = "connected" /\ cloud' = "sending" /\ UNCHANGED <<uartVars, modemVars>>
        /\ place' = "request" /\ ~written' /\ rc' = "ok"
    BY <1>3 DEF Send, Cloud, BeginSend, Begin, Go
  <2>2. powered /\ NoError
    BY <2>1 DEF SoundAt
  <2>3. powered' /\ NoError'
    BY <2>1, <2>2 DEF NoError, Unread, Heard, uartVars, modemVars
  <2>4. SendAt' /\ DueInv' /\ SendTakes'
    BY <2>1, <2>3 DEF SendAt, DueInv, SendTakes, SendPlaces, EarlyPlaces, SentPlaces
  <2>5. QED
    BY <2>1, <2>3, <2>4 DEF SoundAt, SendGood
<1>4. CASE SendReturns
  <2>1. cloud = "sending" /\ cloud' = "sent" /\ place = "done" /\ result' = rc /\ UNCHANGED <<batch, air>>
    BY <1>4 DEF SendReturns, Cloud, End
  <2>2. rc = "ok" /\ air = batch
    BY <2>1 DEF SoundAt, SendGood, SendAt, SendTakes, SentPlaces
  <2>3. QED
    BY <2>1, <2>2 DEF SoundAt
<1>5. CASE Disconnect \/ DisconnectReturns
  BY <1>5 DEF Disconnect, DisconnectReturns, Cloud, sendVars, SoundAt
<1>6. QED
  BY <1>1, <1>2, <1>3, <1>4, <1>5 DEF CloudSend

\* main and the shell do not disturb it.
LEMMA SoundOthers ==
  ASSUME CallInv, PastInv, Sound, SoundAt, Stop \/ Continue \/ Boot \/ Look \/ Tick \/ LoRaClock
  PROVE  SoundAt'
<1>1. UNCHANGED sendVars /\ (UNCHANGED cloud \/ \E bits : Post(bits))
  BY DEF Stop, Continue, Boot, BootSetup, SetClock, BootSetupReturns, BootAgain, Prompt, PromptTimeout, Halt,
         BootContinue, Adc, Look, Tick, LoRaClock, startVars
<1>2. UNCHANGED cloud \/ (cloud \in {"boot", "clock"} /\ cloud' \in {"booted", "rest"})
  BY <1>1 DEF Post
<1>3. CASE ~UNCHANGED cloud
  <2>1. call = "idle" /\ UNCHANGED call
    BY <1>1, <1>2, <1>3 DEF CallInv, Calls, sendVars
  <2>2. QED
    BY <1>2, <1>3, <2>1 DEF SoundAt
<1>4. CASE UNCHANGED cloud /\ UNCHANGED transportVars
  <2>1. UNCHANGED <<uartVars, place, written, rc, tries, full, chunk, modemVars, batch, air, powered, call, result>>
    BY <1>1, <1>4 DEF transportVars, callVars, modemVars, sendVars
  <2>2. QED
    BY <1>4, <2>1, GoodStays DEF SoundAt
<1>5. CASE UNCHANGED cloud /\ ~UNCHANGED transportVars
  <2>1. BootSetup \/ SetClock \/ BootSetupReturns
    BY <1>5 DEF Stop, Continue, Boot, BootAgain, Prompt, PromptTimeout, Halt, BootContinue, Adc, Look, Tick, LoRaClock
  <2>2. main \in {"boot", "setup"}
    BY <2>1, PlaceFacts DEF BootSetup, SetClock, BootSetupReturns, Main, CallInv, Roles
  <2>3. call \notin {"send", "ok", "err"}
    BY <2>2 DEF PastInv, Sound
  <2>4. cloud \notin Busy
    BY <2>3 DEF CallInv, Calls
  <2>5. QED
    BY <1>1, <1>5, <2>3, <2>4 DEF SoundAt, Busy, sendVars
<1>6. QED
  BY <1>3, <1>4, <1>5

LEMMA SoundKept ==
  ASSUME CallInv, PipeTypes, PendingIsSignalled, SilentInv, TryInv, DeafInv, PastInv, SoundInv, [Next]_vars
  PROVE  SoundInv'
<1>1. SUFFICES ASSUME sound' PROVE Sound' /\ SoundAt'
  BY DEF SoundInv
<1>2. CASE ConnectNew \/ ConnectAgain
  BY <1>1, <1>2, SoundBegins
<1>3. CASE ~ConnectNew /\ ~ConnectAgain
  <2>1. ~SendLog
    BY <1>1 DEF SendLog
  <2>2. UNCHANGED sound
    BY <1>3, <2>1 DEF Next, Stop, Continue, Boot, Look, Tick, LoRa, LoRaInit, LoRaClock, CloudSend, CloudBooted,
                      AskMaxPayload, MaxPayload, ConnectReturns, Send, SendReturns, Disconnect, DisconnectReturns,
                      Transport, Modem, vars, sendVars
  <2>3. Sound /\ SoundAt
    BY <1>1, <2>2 DEF SoundInv
  <2>4. Sound'
    BY <2>3, SoundStays
  <2>5. ~LoRaInit
    BY <2>3 DEF LoRaInit, Sound
  <2>6. CASE UNCHANGED vars
    <3>1. UNCHANGED <<uartVars, place, written, rc, tries, full, chunk, modemVars, batch, air, powered, call, result,
                      cloud>>
      BY <2>6 DEF vars, transportVars, callVars, modemVars, startVars, sendVars
    <3>2. QED
      BY <2>3, <2>4, <3>1, GoodStays DEF SoundAt
  <2>7. QED
    BY <1>3, <2>1, <2>3, <2>4, <2>5, <2>6, SoundTransport, SoundModem, SoundCloud, SoundOthers DEF Next, LoRa
<1>4. QED
  BY <1>2, <1>3

DeliveryInv ==
  CallInv /\ PipeTypes /\ PendingIsSignalled /\ SilentInv /\ TryInv /\ DeafInv /\ PastInv /\ SoundInv

\* The invariant of the calls in order.
THEOREM Inductive == Spec => []DeliveryInv
<1>1. Init => DeliveryInv
  <2>1. SUFFICES ASSUME Init PROVE DeliveryInv
    OBVIOUS
  <2>2. CallInv /\ PipeTypes
    BY <2>1, TypeInit DEF TypeInv
  <2>3. /\ pipe = <<>> /\ coming = <<>> /\ out = {} /\ place = "done" /\ tries = 0 /\ ~timeOk /\ job = "none" /\ ~written
        /\ call = "idle" /\ ~sound /\ events = {} /\ cloud = "boot"
        /\ main = (IF build = "4g" THEN "boot" ELSE "toPrompt")
    BY <2>1 DEF Init, TransportInit, UartInit
  <2>4. PendingIsSignalled /\ SilentInv /\ TryInv /\ PastInv /\ SoundInv
    BY <2>3 DEF PendingIsSignalled, SilentInv, TryInv, PastInv, SoundInv
  <2>5. DeafInv
    <3>1. "Time" \notin Heard /\ "Time" \notin TextsOf(coming)
      BY <2>3, TextsFew DEF Heard
    <3>2. QED
      BY <2>3, <3>1 DEF DeafInv, Deaf, DeafMain, DeafTime, DeafCall, DeafStart, Busy
  <2>6. QED
    BY <2>2, <2>4, <2>5 DEF DeliveryInv
<1>2. DeliveryInv /\ [Next]_vars => DeliveryInv'
  <2>1. SUFFICES ASSUME DeliveryInv, [Next]_vars PROVE DeliveryInv'
    OBVIOUS
  <2>2. CallInv' /\ PipeTypes'
    BY <2>1, CallStep, PipeTypesKept DEF DeliveryInv
  <2>3. PendingIsSignalled'
    BY <2>1, SignalKept DEF DeliveryInv
  <2>4. SilentInv' /\ TryInv' /\ PastInv' /\ DeafInv'
    BY <2>1, SilentKept, TryKept, PastKept, DeafKept DEF DeliveryInv
  <2>5. SoundInv'
    BY <2>1, SoundKept DEF DeliveryInv
  <2>6. QED
    BY <2>2, <2>3, <2>4, <2>5 DEF DeliveryInv
<1>3. QED
  BY <1>1, <1>2, PTL DEF Spec

\* Where the interrupt of the UART is not that of the 4G transport, because lora_sm was the
\* last to open it (lora_statemachine.cpp:12, modem_transport.cpp:150), nobody hears the time:
\* boot_setup fails, and main does not come out of its loop (main.cpp:97-104) without it.
THEOREM DeafStaysInBoot == Spec => [](build = "4g" /\ ~attached => DeafMain)
<1>1. DeliveryInv => (build = "4g" /\ ~attached => DeafMain)
  BY DEF DeliveryInv, DeafInv, Deaf
<1>2. QED
  BY <1>1, Inductive, PTL

\* However late the answers come and whatever the last attempt left in the pipe, an attempt
\* that begins with everything in order (cloud_sender.cpp:117-146) delivers its batch and
\* returns 0 (connect, send and disconnect of modem_transport.cpp).
THEOREM SoundCalls == Spec => []SoundCallDelivers
<1>1. DeliveryInv => SoundCallDelivers
  BY DEF DeliveryInv, SoundInv, SoundAt, SoundCallDelivers
<1>2. QED
  BY <1>1, Inductive, PTL
==============================================================================
