--------------------------- MODULE ModemTransport ----------------------------
(***************************************************************************)
(* The 4G transport (src/src/transport/modem_transport.cpp) with the token *)
(* it signs (jwt_builder.cpp): boot_setup, connect, send and disconnect,   *)
(* each a dialogue of AT commands with a modem that may answer late,       *)
(* wrongly or not at all.                                                  *)
(*                                                                         *)
(* A call walks through places.  At a place of the dialogue tables a       *)
(* command is written and lines are read until one holds the expected      *)
(* text, or ERROR, or none comes in time; at the others the code works on  *)
(* memory or decides.                                                      *)
(***************************************************************************)
EXTENDS UartPipe

CONSTANTS
  MaxInitTries,  \* MAX_INIT_TRIES
  Chunks,        \* chunks of 2048 bytes in a request
  MaxComing      \* bound: pieces from a modem that is not healthy, on their way and unread

ASSUME ModemAssumption == {MaxInitTries, Chunks, MaxComing} \subseteq Nat \ {0}

VARIABLES
  (* The transport *)
  job,       \* the call in progress, "none" between calls
  place,     \* where it is
  written,   \* the command of the place has been written
  rc,        \* what the call is going to return
  (* locals, cleared when their function returns *)
  tries,     \* repetitions of modem_init so far
  timeOk,    \* time_ok of modem_get_time
  full,      \* what the first line is that http_read_access_token collected
  chunk,     \* chunks sent so far
  heap,      \* how many blocks are held by each pointer
  token,     \* access_token_ is not null
  (* The modem: external *)
  powered,   \* the pin that switches it
  coming,    \* pieces it has sent that have not come in
  wantsData, \* it takes what is written next for data
  open,      \* it has a connection to the server
  taken,     \* chunks it took on it
  healthy    \* from here on nothing goes wrong

callVars  == <<job, place, written, rc, tries, timeOk, full, chunk>>
heapVars  == <<heap, token>>
modemVars == <<powered, coming, wantsData, open, taken, healthy>>
transportVars == <<uartVars, callVars, heapVars, modemVars>>

Jobs   == {"boot", "connect", "send", "disconnect"}
Blocks == {"jwt", "payload", "body", "token", "full", "json", "encoded"}

------------------------------------------------------------------------------
(* The dialogues: a command, the text it waits for, and where the code goes  *)
(* with it and without.                                                      *)
Row(cmd, expect, yes, no) == [cmd |-> cmd, expect |-> expect, yes |-> yes, no |-> no]

ModemInit ==
  {Row("at",      "OK",     "cpinAsk",  "initFailed"),
   Row("cpinAsk", "SimPin", "cpin",     "initDone"),
   Row("cpin",    "OK",     "initDone", "initFailed")}

HttpStart == {Row("httpInit", "OK", "url", "startFailed")}

HttpPost ==
  {Row("url",     "OK",        "content", "postFailed"),
   Row("content", "OK",        "data",    "postFailed"),
   Row("data",    "Download",  "body",    "postFailed"),
   Row("body",    "OK",        "action",  "postFailed"),
   Row("action",  "Status200", "posted",  "postFailed")}

HttpRead == {Row("httpRead", "OK", "collect", "readFailed")}

HttpStop == {Row("httpTerm", "OK", "fetched", "fetched")}

TcpOpen ==
  {Row("netAsk",     "NetOpen", "sslVersion", "netOpen"),
   Row("netOpen",    "OK",      "sslVersion", "openFailed"),
   Row("sslVersion", "OK",      "authMode",   "openFailed"),
   Row("authMode",   "OK",      "cchSet",     "openFailed"),
   Row("cchSet",     "OK",      "cchStart",   "openFailed"),
   Row("cchStart",   "OK",      "cchSsl",     "openFailed"),
   Row("cchSsl",     "OK",      "cchOpen",    "openFailed"),
   Row("cchOpen",    "OK",      "cchOpenAsk", "openFailed"),
   Row("cchOpenAsk", "OK",      "cchSend",    "openFailed")}

\* Mutant: send fails when the answer to the data is missed.
TcpSendChunkedStrict ==
  {Row("cchSend", "Prompt", "cchData",   "cchData"),
   Row("cchData", "OK",     "chunkDone", "openFailed")}

TcpSendChunked ==
  {Row("cchSend", "Prompt", "cchData",   "cchData"),
   Row("cchData", "OK",     "chunkDone", "chunkDone")}

TcpClose ==
  {Row("cchClose", "OK", "cchStop",  "cchStop"),
   Row("cchStop",  "OK", "netClose", "netClose"),
   Row("netClose", "OK", "sent",     "sent")}

PowerDown == {Row("cpof", "OK", "powerOff", "powerOff")}

Dialogue == ModemInit \cup HttpStart \cup HttpPost \cup HttpRead \cup HttpStop
              \cup TcpOpen \cup TcpSendChunked \cup TcpClose \cup PowerDown

Commands == {row.cmd : row \in Dialogue}

\* The loops that look at every line themselves; "collect" writes no command.
Loops == {"cclk", "readAsk", "collect"}

Work == {"initFailed", "initDone", "setClock", "jwt", "payload", "sign", "assertion", "startFailed",
         "posted", "postFailed", "buffer", "readFailed", "parse", "readToken", "fetched",
         "request", "form", "openFailed", "chunkDone", "sent", "powerOff", "done"}

Places == Commands \cup Loops \cup Work

------------------------------------------------------------------------------
(* The modem: external *)
Say(t) == [txt |-> {t}, nl |-> TRUE]
Noise  == [txt |-> {}, nl |-> TRUE]

\* What a modem that works says to the command of place p.  The prompt of
\* AT+CCHSEND need not end a line; a healthy modem has a SIM without a PIN.  The
\* headers of what AT+HTTPREAD answers are left out.
Answers(p) ==
  CASE p = "cpinAsk"  -> {<<Noise, Say("OK")>>}
                           \cup (IF healthy THEN {} ELSE {<<Say("SimPin"), Say("OK")>>})
    [] p = "cclk"     -> {<<Say("Time"), Say("OK")>>}
    [] p = "data"     -> {<<Say("Download")>>}
    [] p = "action"   -> {<<Say("OK"), Say("Status200")>>}
    [] p = "httpRead" -> {<<Say("OK"), Say("Token")>>}
    [] p = "netAsk"   -> {<<Say("NetOpen"), Say("OK")>>, <<Noise, Say("OK")>>}
    [] p = "cchSend"  -> IF open THEN {<<[txt |-> {"Prompt"}, nl |-> eol]>> : eol \in BOOLEAN} ELSE {}
    [] p = "cchData"  -> IF wantsData THEN {<<Say("OK")>>} ELSE {}
    [] OTHER          -> {<<Say("OK")>>}

\* What is said to the command just written: a modem that is not healthy may
\* refuse it or not hear it.
Hear ==
  LET good == Answers(place)
      bad  == {<<Say("ERROR")>>, <<>>}
      fits == {r \in good \cup bad : r = <<>> \/ Len(coming \o r) + Len(pipe) <= MaxComing}
      said == IF ~powered THEN {<<>>}
              ELSE IF ~healthy THEN fits
              ELSE IF good # {} THEN good ELSE bad
  IN  \E r \in said :
        /\ coming' = coming \o r
        /\ wantsData' = (place = "cchSend" /\ r \in good)
        /\ open' = CASE place = "cchOpen"  -> r \in good
                     [] place = "cchClose" -> open /\ r \notin good
                     [] OTHER              -> open
        /\ taken' = IF place = "cchOpen" THEN 0
                    ELSE IF place = "cchData" /\ r \in good THEN taken + 1
                    ELSE taken
        /\ UNCHANGED <<powered, healthy>>

\* A piece comes in, whole or its first part (bound: of an OK that is alone); with
\* a healthy modem not before the one before it has been read.
ComesIn ==
  /\ coming # <<>>
  /\ healthy => pipe = <<>>
  /\ LET p == Head(coming) IN
       \/ /\ IF attached THEN OnRx(p) ELSE UNCHANGED uartVars
          /\ coming' = Tail(coming)
       \/ /\ attached /\ pipe = <<>> /\ coming = <<p>> /\ p = Say("OK")
          /\ OnRx([p EXCEPT !.nl = FALSE])
          /\ coming' = <<Noise>> \o Tail(coming)
  /\ UNCHANGED <<callVars, heapVars, powered, wantsData, open, taken, healthy>>

\* A piece is lost.
Lost ==
  /\ ~healthy /\ coming # <<>>
  /\ coming' = Tail(coming)
  /\ UNCHANGED <<uartVars, callVars, heapVars, powered, wantsData, open, taken, healthy>>

\* The modem says something this transport has not asked for.
Unasked ==
  /\ powered /\ coming = <<>> /\ pipe = <<>>
  /\ \E p \in {Noise, Say("OK"), Say("ERROR")} : coming' = <<p>>
  /\ UNCHANGED <<uartVars, callVars, heapVars, powered, wantsData, open, taken, healthy>>

Heal ==
  /\ ~healthy
  /\ healthy' = TRUE
  /\ UNCHANGED <<uartVars, callVars, heapVars, powered, coming, wantsData, open, taken>>

------------------------------------------------------------------------------
(* at, at_len and the loops of lines *)

Go(p) == place' = p /\ written' = (p = "collect")

Waiting(ps) == place \in ps /\ written

\* uart_.write of the command of this place.
Write ==
  /\ place \in Commands \cup {"cclk", "readAsk"} /\ ~written
  /\ written' = TRUE
  /\ Hear
  /\ UNCHANGED <<uartVars, job, place, rc, tries, timeOk, full, chunk, heapVars>>

\* The event has come: read_line goes on.
Notice ==
  /\ written /\ ClearRcvEvt
  /\ UNCHANGED <<callVars, heapVars, modemVars>>

GetPart ==
  /\ written /\ ReadPart
  /\ UNCHANGED <<callVars, heapVars, modemVars>>

\* at_len compares a line: the expected text goes before an error.
AtLine ==
  /\ written
  /\ ReadLine
  /\ \E row \in Dialogue :
       /\ row.cmd = place
       /\ IF row.expect \in FirstLine THEN Go(row.yes)
          ELSE IF "ERROR" \in FirstLine THEN Go(row.no)
          ELSE UNCHANGED <<place, written>>
  /\ UNCHANGED <<job, rc, tries, timeOk, full, chunk, heapVars, modemVars>>

\* The deadline of read_line, which every line begins anew.
Expired == ReadTimeout /\ (healthy => coming = <<>>)

AtTimeout ==
  /\ written
  /\ Expired
  /\ \E row \in Dialogue : row.cmd = place /\ Go(row.no)
  /\ UNCHANGED <<job, rc, tries, timeOk, full, chunk, heapVars, modemVars>>

Fails(p) == rc' = "err" /\ Go(p)

\* modem_get_time: a line of the time, then OK.
TimeLine ==
  /\ Waiting({"cclk"})
  /\ ReadLine
  /\ IF "OK" \notin FirstLine /\ "ERROR" \notin FirstLine
     THEN timeOk' = (timeOk \/ "Time" \in FirstLine) /\ UNCHANGED <<place, written, rc>>
     ELSE /\ timeOk' = FALSE
          /\ IF "ERROR" \notin FirstLine /\ (timeOk \/ "Time" \in FirstLine)
             THEN Go("setClock") /\ UNCHANGED rc
             ELSE Fails("cpof")
  /\ UNCHANGED <<job, tries, full, chunk, heapVars, modemVars>>

TimeTimeout ==
  /\ Waiting({"cclk"})
  /\ Expired
  /\ Fails("cpof") /\ timeOk' = FALSE
  /\ UNCHANGED <<job, tries, full, chunk, heapVars, modemVars>>

\* http_read_access_token reads to the end of both answers, which is a timeout.
TokenLine ==
  /\ Waiting({"readAsk", "collect"})
  /\ ReadLine
  /\ IF "ERROR" \in FirstLine THEN Go("readFailed") /\ UNCHANGED full
     ELSE /\ full' = IF place = "collect" /\ full = ""
                     THEN IF "Token" \in FirstLine THEN "token" ELSE "other"
                     ELSE full
          /\ UNCHANGED <<place, written>>
  /\ UNCHANGED <<job, rc, tries, timeOk, chunk, heapVars, modemVars>>

TokenTimeout ==
  /\ Waiting({"readAsk", "collect"})
  /\ Expired
  /\ Go(IF place = "readAsk" THEN "httpRead" ELSE "parse")
  /\ UNCHANGED <<job, rc, tries, timeOk, full, chunk, heapVars, modemVars>>

Talk == \/ Write \/ Notice \/ GetPart \/ AtLine \/ AtTimeout \/ TimeLine \/ TimeTimeout
        \/ TokenLine \/ TokenTimeout
------------------------------------------------------------------------------
(* What the code does between the commands *)

\* k_free of some pointers, and allocations that succeed.
Memory(frees, takes) ==
  heap' = [b \in Blocks |-> heap[b] + (IF b \in takes THEN 1 ELSE 0) - (IF b \in frees THEN 1 ELSE 0)]

Works(p) == place = p /\ UNCHANGED <<uartVars, job, timeOk, modemVars>>

\* Mutant: the repetitions are not counted.
InitFailedEndless ==
  /\ Works("initFailed")
  /\ Go("at")
  /\ UNCHANGED <<rc, tries, full, chunk, heapVars>>

\* Mutant: boot_setup gives up and leaves the modem on.
InitFailedOn ==
  /\ Works("initFailed")
  /\ IF tries < MaxInitTries
     THEN tries' = tries + 1 /\ Go("at") /\ UNCHANGED rc
     ELSE Fails(IF job = "boot" THEN "done" ELSE "cpof") /\ tries' = 0
  /\ UNCHANGED <<full, chunk, heapVars>>

\* The repetitions of modem_init in boot_setup and connect.
InitFailed ==
  /\ Works("initFailed")
  /\ IF tries < MaxInitTries THEN tries' = tries + 1 /\ Go("at") /\ UNCHANGED rc
                             ELSE Fails("cpof") /\ tries' = 0
  /\ UNCHANGED <<full, chunk, heapVars>>

InitDone ==
  /\ Works("initDone")
  /\ Go(IF job = "boot" THEN "cclk" ELSE "jwt") /\ tries' = 0
  /\ UNCHANGED <<rc, full, chunk, heapVars>>

\* A step of the memory: it succeeds and goes on to p, or (no memory, no clock, a
\* signature that cannot be made) cleans up and fails.
Step(frees, takes, p, cleans, q) ==
  /\ \/ Memory(frees, takes) /\ Go(p) /\ UNCHANGED rc
     \/ ~healthy /\ Memory(cleans, {}) /\ Fails(q)
  /\ UNCHANGED <<tries, full, chunk, token>>

\* JwtBuilder::build: the clock, the buffer and the header.
Jwt == Works("jwt") /\ Step({}, {"jwt"}, "payload", {}, "cpof")

Payload == Works("payload") /\ Step({}, {"payload"}, "sign", {"jwt"}, "cpof")

Sign == Works("sign") /\ Step({"payload"}, {}, "assertion", {"payload", "jwt"}, "cpof")

\* fetch_access_token
Assertion == Works("assertion") /\ Step({"jwt"}, {"body"}, "httpInit", {"jwt"}, "cpof")

StartFailed ==
  /\ Works("startFailed")
  /\ Memory({"body"}, {}) /\ Fails("cpof")
  /\ UNCHANGED <<tries, full, chunk, token>>

\* http_post does not take a body that is longer than a command.
TooLong ==
  /\ Works("url") /\ ~written
  /\ ~healthy
  /\ Go("postFailed")
  /\ UNCHANGED <<rc, tries, full, chunk, heapVars>>

Posted ==
  /\ Works("posted")
  /\ \/ Memory({"body"}, {"token"}) /\ token' = TRUE /\ Go("buffer") /\ UNCHANGED rc
     \/ ~healthy /\ Memory({"body"}, {}) /\ UNCHANGED token /\ Fails("httpTerm")
  /\ UNCHANGED <<tries, full, chunk>>

PostFailed ==
  /\ Works("postFailed")
  /\ Memory({"body"}, {}) /\ Fails("httpTerm")
  /\ UNCHANGED <<tries, full, chunk, token>>

\* http_read_access_token
Buffer ==
  /\ Works("buffer")
  /\ \/ Memory({}, {"full"}) /\ full' = "" /\ Go("readAsk") /\ UNCHANGED rc
     \/ ~healthy /\ UNCHANGED <<heap, full>> /\ Fails("httpTerm")
  /\ UNCHANGED <<tries, chunk, token>>

\* Mutant: the buffer is not freed.
ReadFailedLeaks ==
  /\ Works("readFailed")
  /\ full' = "" /\ Fails("httpTerm")
  /\ UNCHANGED <<tries, chunk, heapVars>>

ReadFailed ==
  /\ Works("readFailed")
  /\ Memory({"full"}, {}) /\ full' = "" /\ Fails("httpTerm")
  /\ UNCHANGED <<tries, chunk, token>>

\* cJSON_Parse succeeds on what begins with the token; it may on other lines.
Parse ==
  /\ Works("parse")
  /\ \/ full # "" /\ Memory({"full"}, {"json"}) /\ Go("readToken") /\ UNCHANGED <<rc, full>>
     \/ ~(healthy /\ full = "token") /\ Memory({"full"}, {}) /\ full' = "" /\ Fails("httpTerm")
  /\ UNCHANGED <<tries, chunk, token>>

ReadToken ==
  /\ Works("readToken")
  /\ Memory({"json"}, {}) /\ full' = ""
  /\ IF full = "token" THEN Go("httpTerm") /\ UNCHANGED rc ELSE Fails("httpTerm")
  /\ UNCHANGED <<tries, chunk, token>>

\* Mutant: the token is freed though it was never made.
FetchedTwice ==
  /\ Works("fetched")
  /\ IF rc = "ok" THEN Go("done") /\ UNCHANGED heapVars
     ELSE Memory({"token"}, {}) /\ token' = FALSE /\ Go("cpof")
  /\ UNCHANGED <<rc, tries, full, chunk>>

\* The end of fetch_access_token and of connect.
Fetched ==
  /\ Works("fetched")
  /\ IF rc = "ok" THEN Go("done") /\ UNCHANGED heapVars
     ELSE /\ Memory(IF token THEN {"token"} ELSE {}, {}) /\ token' = FALSE
          /\ Go("cpof")
  /\ UNCHANGED <<rc, tries, full, chunk>>

\* send: the two buffers, the body, the request.
Request == Works("request") /\ Step({}, {"encoded", "body"}, "form", {}, "done")

Form == Works("form") /\ Step({"body"}, {}, "netAsk", {"encoded", "body"}, "done")

OpenFailed ==
  /\ Works("openFailed")
  /\ Memory({"encoded"}, {}) /\ chunk' = 0 /\ Fails("done")
  /\ UNCHANGED <<tries, full, token>>

\* Mutant: the last chunk is not sent.
ChunkDoneEarly ==
  /\ Works("chunkDone")
  /\ IF chunk + 2 < Chunks THEN chunk' = chunk + 1 /\ Go("cchSend")
                           ELSE chunk' = 0 /\ Go("cchClose")
  /\ UNCHANGED <<rc, tries, full, heapVars>>

ChunkDone ==
  /\ Works("chunkDone")
  /\ IF chunk + 1 < Chunks THEN chunk' = chunk + 1 /\ Go("cchSend")
                           ELSE chunk' = 0 /\ Go("cchClose")
  /\ UNCHANGED <<rc, tries, full, heapVars>>

Sent ==
  /\ Works("sent")
  /\ Memory({"encoded"}, {}) /\ Go("done")
  /\ UNCHANGED <<rc, tries, full, chunk, token>>

\* The end of power_off: without power the modem forgets what it was about to say.
PowerOff ==
  /\ place = "powerOff"
  /\ powered' = FALSE /\ coming' = <<>> /\ wantsData' = FALSE /\ open' = FALSE /\ taken' = 0
  /\ Go("done")
  /\ UNCHANGED <<uartVars, job, rc, tries, timeOk, full, chunk, heapVars, healthy>>

Think == \/ InitFailed \/ InitDone \/ Jwt \/ Payload \/ Sign \/ Assertion \/ StartFailed
         \/ TooLong \/ Posted \/ PostFailed \/ Buffer \/ ReadFailed \/ Parse \/ ReadToken \/ Fetched
         \/ Request \/ Form \/ OpenFailed \/ ChunkDone \/ Sent \/ PowerOff

------------------------------------------------------------------------------
(* How a call begins and ends *)

Free == job = "none"

Begin(j, p) == job' = j /\ Go(p) /\ rc' = "ok" /\ UNCHANGED <<tries, timeOk, full, chunk>>

\* boot_setup, unless the UART cannot be set up; connect.
BeginBoot ==
  /\ Free
  /\ UartSetup
  /\ Begin("boot", "at") /\ powered' = TRUE
  /\ UNCHANGED <<heapVars, coming, wantsData, open, taken, healthy>>

BeginConnect ==
  /\ Free
  /\ Begin("connect", "at") /\ powered' = TRUE
  /\ UNCHANGED <<uartVars, heapVars, coming, wantsData, open, taken, healthy>>

BeginSend ==
  /\ Free /\ token
  /\ Begin("send", "request")
  /\ UNCHANGED <<uartVars, heapVars, modemVars>>

BeginDisconnect ==
  /\ Free
  /\ Begin("disconnect", "cpof")
  /\ Memory(IF token THEN {"token"} ELSE {}, {}) /\ token' = FALSE
  /\ UNCHANGED <<uartVars, modemVars>>

End ==
  /\ place = "done"
  /\ job' = "none"
  /\ UNCHANGED <<uartVars, place, written, rc, tries, timeOk, full, chunk, heapVars, modemVars>>

TransportTypeOK ==
  /\ UartTypeOK
  /\ job \in Jobs \cup {"none"} /\ place \in Places /\ written \in BOOLEAN
  /\ rc \in {"ok", "err"} /\ tries \in 0..MaxInitTries /\ timeOk \in BOOLEAN
  /\ full \in {"", "token", "other"} /\ chunk \in 0..(Chunks - 1)
  /\ heap \in [Blocks -> {0, 1}] /\ token \in BOOLEAN
  /\ powered \in BOOLEAN /\ coming \in Seq(Piece) /\ wantsData \in BOOLEAN /\ open \in BOOLEAN
  /\ taken \in 0..Chunks /\ healthy \in BOOLEAN

TransportInit ==
  /\ UartInit
  /\ job = "none" /\ place = "done" /\ written = FALSE
  /\ rc = "ok" /\ tries = 0 /\ timeOk = FALSE /\ full = "" /\ chunk = 0
  /\ heap = [b \in Blocks |-> 0] /\ token = FALSE
  \* init() sets the pin.
  /\ powered = TRUE /\ coming = <<>> /\ wantsData = FALSE /\ open = FALSE /\ taken = 0 /\ healthy = FALSE
==============================================================================
