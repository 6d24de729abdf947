----------------------------- MODULE RuuviScanner -----------------------------
(***************************************************************************)
(* The thread ruuvi_scan and the Bluetooth callback                        *)
(* (src/src/sensor_scan/ruuvi_scan.cpp) on the list of tags of NvStorage.  *)
(* On a request the thread scans until every tag that was listed when it   *)
(* booted has been heard, or for five minutes, and then publishes what the *)
(* callback has queued.                                                    *)
(***************************************************************************)
EXTENDS NvStorage, Sequences

CONSTANT BtTries  \* bt_enable is called that often, once more after the first

ASSUME TriesAssumption == BtTries \in Nat

VARIABLES
  pc,            \* where run() is
  tries,         \* calls of bt_enable that have failed
  allTags,       \* all_tags
  scanEvent,     \* scan_event_
  ruuviQ,        \* ruuvi_q_: a reading is its tag and the bit it was credited to
  lastPressure,  \* the tag last_pressure_ is of, or NoTag
  scanning,      \* whether the stack calls ble_cb
  request,       \* AppEvents::RUUVI_READ
  asked,         \* a request no round has begun for, and the prompt did not wipe
  published,     \* what was published in this round, in order
  stable,        \* the list is as it was when the round began
  torn           \* once, the list was read at boot in the middle of a command

runVars   == <<pc, tries, allTags, scanEvent, ruuviQ, lastPressure, scanning, request>>
watchVars == <<asked, published, stable, torn>>
vars      == <<nvVars, runVars, watchVars>>

Reading == [tag : Tags, bit : Slots]

Init ==
  /\ NvInit
  /\ pc = "bt_enable" /\ tries = 0 /\ allTags = {} /\ scanEvent = {} /\ ruuviQ = <<>>
  /\ lastPressure = NoTag /\ scanning = FALSE /\ request = FALSE
  /\ asked = FALSE /\ published = <<>> /\ stable = TRUE /\ torn = FALSE

At(from, to) == pc = from /\ pc' = to

\* A round is on, or its readings are being published.
InRound == pc \in {"scan", "drain"}

-----------------------------------------------------------------------------
(* The thread. *)

BtEnabled ==
  /\ At("bt_enable", "boot")
  /\ UNCHANGED <<nvVars, tries, allTags, scanEvent, ruuviQ, lastPressure, scanning, request, watchVars>>

\* The thread sleeps and tries again, and in the end it returns.
BtFails ==
  /\ pc = "bt_enable"
  /\ tries' = tries + 1
  /\ pc' = IF tries < BtTries THEN pc ELSE "returned"
  /\ UNCHANGED <<nvVars, allTags, scanEvent, ruuviQ, lastPressure, scanning, request, watchVars>>

\* boot_wait and clock_wait are over: the list is read and the mask taken.
Boot ==
  /\ At("boot", "wait")
  /\ list' \in ReadResults
  /\ allTags' = TagMask'
  /\ torn' = (torn \/ shell # Idle)
  /\ UNCHANGED <<flash, shell, tries, scanEvent, ruuviQ, lastPressure, scanning, request,
                 asked, published, stable>>

WaitRequest ==
  /\ At("wait", "start")
  /\ request
  /\ UNCHANGED <<nvVars, tries, allTags, scanEvent, ruuviQ, lastPressure, scanning, request, watchVars>>

\* Mutant: the bits of the last round stay.
StartRoundUncleared ==
  /\ At("start", IF allTags = {} THEN "drain" ELSE "scan")
  /\ request' = FALSE
  /\ scanning' \in {FALSE, allTags # {}}
  /\ asked' = FALSE /\ published' = <<>> /\ stable' = TRUE
  /\ UNCHANGED <<nvVars, tries, allTags, scanEvent, ruuviQ, lastPressure, torn>>

\* The result of bt_le_scan_start is ignored.
StartRound ==
  /\ At("start", IF allTags = {} THEN "drain" ELSE "scan")
  /\ request' = FALSE
  /\ scanEvent' = scanEvent \ allTags
  /\ scanning' \in {FALSE, allTags # {}}
  /\ asked' = FALSE /\ published' = <<>> /\ stable' = TRUE
  /\ UNCHANGED <<nvVars, tries, allTags, ruuviQ, lastPressure, torn>>

\* Mutant: the scan waits for the tags forever.
EndScanComplete ==
  /\ At("scan", "drain")
  /\ allTags \subseteq scanEvent
  /\ scanning' = FALSE
  /\ UNCHANGED <<nvVars, tries, allTags, scanEvent, ruuviQ, lastPressure, request, watchVars>>

\* All bits of the mask are set, or time is up: either ends the scan.
EndScan ==
  /\ At("scan", "drain")
  /\ scanning' = FALSE
  /\ UNCHANGED <<nvVars, tries, allTags, scanEvent, ruuviQ, lastPressure, request, watchVars>>

Publish ==
  /\ pc = "drain" /\ ruuviQ # <<>>
  /\ published' = Append(published, Head(ruuviQ))
  /\ ruuviQ' = Tail(ruuviQ)
  /\ UNCHANGED <<nvVars, pc, tries, allTags, scanEvent, lastPressure, scanning, request,
                 asked, stable, torn>>

\* Mutant: one reading is published and the round is over.
EndRoundEarly ==
  /\ At("drain", "wait")
  /\ published # <<>> \/ ruuviQ = <<>>
  /\ UNCHANGED <<nvVars, tries, allTags, scanEvent, ruuviQ, lastPressure, scanning, request, watchVars>>

\* Mutant: the request is cleared when it has been served.
EndRoundCleared ==
  /\ At("drain", "wait")
  /\ ruuviQ = <<>>
  /\ request' = FALSE
  /\ UNCHANGED <<nvVars, tries, allTags, scanEvent, ruuviQ, lastPressure, scanning, watchVars>>

\* The queue is empty.
EndRound ==
  /\ At("drain", "wait")
  /\ ruuviQ = <<>>
  /\ UNCHANGED <<nvVars, tries, allTags, scanEvent, ruuviQ, lastPressure, scanning, request, watchVars>>

-----------------------------------------------------------------------------
(* The other threads. *)

\* Mutant: a tag is taken as often as it is heard.
HearAgain(t) ==
  LET bit == IsListed(t) IN
  /\ scanning
  /\ bit # {}
  /\ lastPressure' = t
  /\ IF Len(ruuviQ) < MaxTags
     THEN /\ \E b \in bit : ruuviQ' = Append(ruuviQ, [tag |-> t, bit |-> b])
          /\ scanEvent' = scanEvent \cup bit
     ELSE UNCHANGED <<ruuviQ, scanEvent>>
  /\ UNCHANGED <<nvVars, pc, tries, allTags, scanning, request, watchVars>>

\* on_ble_found: the tag is listed and its bit is not set yet.  An advertisement that
\* validate rejects leaves everything as it is.
Hear(t) ==
  LET bit == IsListed(t) IN
  /\ scanning
  /\ bit # {} /\ bit \cap scanEvent = {}
  /\ lastPressure' = t
  /\ IF Len(ruuviQ) < MaxTags
     THEN /\ \E b \in bit : ruuviQ' = Append(ruuviQ, [tag |-> t, bit |-> b])
          /\ scanEvent' = scanEvent \cup bit
     ELSE UNCHANGED <<ruuviQ, scanEvent>>
  /\ UNCHANGED <<nvVars, pc, tries, allTags, scanning, request, watchVars>>

\* take_sample_now, by main every ten minutes or by the shell.
Request ==
  /\ request' = TRUE
  /\ asked' = TRUE
  /\ UNCHANGED <<nvVars, pc, tries, allTags, scanEvent, ruuviQ, lastPressure, scanning,
                 published, stable, torn>>

\* main comes to the prompt, and its k_event_wait with reset wipes a request, unless the
\* thread waits for it and has been woken.  It comes there once after a boot; here it may
\* do so again.
Prompt ==
  /\ ~(pc = "wait" /\ request)
  /\ request' = FALSE
  /\ asked' = FALSE
  /\ UNCHANGED <<nvVars, pc, tries, allTags, scanEvent, ruuviQ, lastPressure, scanning,
                 published, stable, torn>>

ShellStep ==
  /\ NvShell
  /\ stable' = (stable /\ list' = list)
  /\ UNCHANGED <<runVars, asked, published, torn>>

\* Power is lost: what is left is the flash.
Reboot ==
  /\ list' = NoTags /\ shell' = Idle
  /\ pc' = "bt_enable" /\ tries' = 0 /\ allTags' = {} /\ scanEvent' = {} /\ ruuviQ' = <<>>
  /\ lastPressure' = NoTag /\ scanning' = FALSE /\ request' = FALSE
  /\ asked' = FALSE /\ published' = <<>> /\ stable' = TRUE
  /\ UNCHANGED <<flash, torn>>

Run == \/ BtEnabled \/ BtFails \/ Boot \/ WaitRequest \/ StartRound
       \/ EndScan \/ Publish \/ EndRound

Next ==
  \/ Run
  \/ \E t \in Tags : Hear(t)
  \/ Request
  \/ Prompt
  \/ ShellStep
  \/ Reboot

Spec == Init /\ [][Next]_vars

\* The thread runs, booting ends and so does the scan: by its bits or after five minutes.
FairSpec == Spec /\ WF_vars(Run)

-----------------------------------------------------------------------------
TypeOK ==
  /\ NvTypeOK
  /\ pc \in {"bt_enable", "returned", "boot", "wait", "start", "scan", "drain"}
  /\ tries \in Nat
  /\ allTags \subseteq Slots /\ scanEvent \subseteq Slots
  /\ ruuviQ \in Seq(Reading) /\ published \in Seq(Reading)
  /\ lastPressure \in Address
  /\ scanning \in BOOLEAN /\ request \in BOOLEAN
  /\ asked \in BOOLEAN /\ stable \in BOOLEAN /\ torn \in BOOLEAN

\* The readings of the round so far.
OfRound == published \o ruuviQ

\* The list has neither holes, which is_listed and add_tag would stop at, nor
\* duplicates, and neither has its copy in flash - unless the thread once read it at
\* boot while the shell was in the middle of a command (nv_storage.cpp:102-110).
ListWellFormed ==
  ~torn => /\ shell.at # "clear" => WellFormed(list)
           /\ flash # Nothing => WellFormed(flash)

\* k_msgq_put in on_ble_found never fails (ruuvi_scan.cpp:126): as long as a bit is not
\* set there is room, whatever happens to the list while the scan goes on.
QueueNeverFull == scanEvent # Slots => Len(ruuviQ) < MaxTags

\* A bit of the mask that is set stands for a reading of this round of the tag in its
\* slot: a scan that ends by its bits reports every tag it waited for
\* (ruuvi_scan.cpp:75-80).
RoundReports ==
  (InRound /\ stable) =>
    \A s \in scanEvent \cap allTags : \E k \in DOMAIN OfRound : OfRound[k].tag = list[s]

\* No tag is reported twice in a round (ruuvi_scan.cpp:115).
OncePerRound ==
  (InRound /\ stable) =>
    \A j, k \in DOMAIN OfRound : OfRound[j].tag = OfRound[k].tag => j = k

(* The inductive invariant behind the four. *)

\* What a command of the shell has found out still holds when it acts on it.
ShellInv ==
  /\ shell.at = "idle" => shell = Idle
  /\ ~torn =>
       /\ ListWellFormed
       /\ shell.at \in {"find", "store"} =>
            \A s \in Slots : list[s] = shell.tag => shell.tag = NoTag
       /\ shell.at = "store" => /\ list[shell.slot] = NoTag
                                /\ \A r \in 1..(shell.slot - 1) : list[r] # NoTag
       /\ shell.at = "clear" => \A r \in 1..(shell.slot - 1) : list[r] = NoTag

\* The bits that are set and the readings of the round go together.
BitsInv ==
  /\ \A k \in DOMAIN OfRound : OfRound[k].bit \in scanEvent
  /\ \A j, k \in DOMAIN OfRound : OfRound[j].bit = OfRound[k].bit => j = k
  /\ \A s \in scanEvent \cap allTags : \E k \in DOMAIN OfRound : OfRound[k].bit = s
  /\ stable => \A k \in DOMAIN OfRound : OfRound[k].bit \in IsListed(OfRound[k].tag)

IInv ==
  /\ TypeOK
  /\ ShellInv
  /\ scanning => pc = "scan"
  /\ ~InRound => ruuviQ = <<>>
  /\ InRound => BitsInv

\* A request for a measurement is followed by the start of a round, even one that comes
\* while another round is on (ruuvi_scan.cpp:71-72), unless main comes to its prompt first,
\* which wipes the request (main.cpp:112).
RequestIsServed == asked ~> (~asked \/ pc = "returned")

\* What was heard is published, even if the scan never hears all tags.
HeardIsPublished == ruuviQ # <<>> ~> ruuviQ = <<>>

\* "skip if already seen this tag in this scan round" (ruuvi_scan.cpp:114): a tag that is
\* skipped was seen.
SkipMeansSeen ==
  (scanning /\ stable) =>
    \A t \in Tags :
      (IsListed(t) # {} /\ IsListed(t) \subseteq scanEvent) =>
        \E k \in DOMAIN OfRound : OfRound[k].tag = t
=============================================================================
