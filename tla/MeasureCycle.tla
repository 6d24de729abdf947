----------------------------- MODULE MeasureCycle -----------------------------
(***************************************************************************)
(* From the boot to the samples of the SDI-12 sensors: the events of       *)
(* src/src/utils/app_events.cpp, main (src/src/main.cpp), which lets the   *)
(* threads go on and asks for a measurement from time to time, and the     *)
(* thread sdi12_scan (src/src/sensor_scan/sdi12_scan.cpp) on the bus of    *)
(* Sdi12Bus.                                                               *)
(***************************************************************************)
EXTENDS Sdi12Bus

CONSTANT MaxSensors  \* MAX_SENSORS

ASSUME SensorsAssumption == MaxSensors \in Nat \ {0}

VARIABLES
  events,      \* envisens_events_
  scannerAt,   \* where run() of SDI12Scanner is
  i,           \* its loop variable: an address, or a place in the table
  sensors,     \* the table: address and sensor
  asked,       \* a request no round has begun for, and the prompt did not wipe
  sent         \* the samples of the round: the sensor they are published for, and of

scannerVars == <<scannerAt, i, sensors, sent>>
vars        == <<busVars, events, asked, scannerVars>>

Init ==
  /\ BusInit
  /\ events = {} /\ asked = FALSE
  /\ scannerAt = "boot" /\ i = 0 /\ sensors = <<>> /\ sent = <<>>

-----------------------------------------------------------------------------
(* main and the other threads. *)

\* A post has woken the thread, which is as good as on its way: what becomes of the bit
\* no longer matters.
Woken ==
  \/ scannerAt = "boot" /\ "continue" \in events
  \/ scannerAt = "clock" /\ "clock" \in events
  \/ scannerAt = "wait" /\ "sdi12" \in events

\* main comes to the prompt, and its k_event_wait with reset wipes every bit: a request
\* nobody waits for yet is lost.  It comes there once, at any time, as in the build for 4G
\* boot_setup goes before; here it may do so again.
Prompt ==
  /\ ~Woken
  /\ events' = {} /\ asked' = FALSE
  /\ UNCHANGED <<busVars, scannerVars>>

\* The operator typed continue, before the prompt or at it, or nothing stopped the boot.
\* Bound, here and for the clock: while the thread has still to wait for it.
BootContinue ==
  /\ scannerAt = "boot" /\ "continue" \notin events
  /\ events' = events \cup {"continue"}
  /\ UNCHANGED <<busVars, asked, scannerVars>>

\* lora_sm, which has waited for the boot too, or boot_setup.
ClockEvent ==
  /\ scannerAt \in {"scan", "clock"} /\ "clock" \notin events
  /\ events' = events \cup {"clock"}
  /\ UNCHANGED <<busVars, asked, scannerVars>>

\* take_sample_now, by main when the first minute of ten has come, or by the shell.
TakeSampleNow ==
  /\ events' = events \cup {"sdi12"}
  /\ asked' = TRUE
  /\ UNCHANGED <<busVars, scannerVars>>

-----------------------------------------------------------------------------
(* sdi12_scan *)

ioFree == io' = [io EXCEPT !["scanner"] = Free]
Others == <<line, todo, shellAt, given, where>>

\* The round, or the scan, is disturbed by what is going on already.
Trouble == IF shellAt = "busy" \/ coming # <<>> THEN "shell" ELSE "none"

BootScan ==
  /\ scannerAt = "boot" /\ "continue" \in events
  /\ scannerAt' = "scan" /\ i' = 0
  /\ PowerOn
  /\ moved' = FALSE /\ trouble' = Trouble
  /\ UNCHANGED <<Others, coming, io, ready, leftOn, events, asked, sensors, sent>>

\* Mutant: the scan goes past the last address.
OneMoreAddress == i <= LastAddr + 1 /\ Len(sensors) < MaxSensors

MoreAddresses == i <= LastAddr /\ Len(sensors) < MaxSensors

Identify ==
  /\ scannerAt = "scan" /\ io["scanner"].at = "free" /\ MoreAddresses
  /\ Command("scanner", Ask(i, "I"))
  /\ UNCHANGED <<Others, power, coming, ready, leftOn, moved, trouble, events, asked, scannerVars>>

\* Mutant: the address is taken after it was counted up.
IdentifiedAfter ==
  /\ scannerAt = "scan" /\ Done("scanner")
  /\ LET lines == io["scanner"].buf IN
       IF io["scanner"].at = "got" /\ lines[1].cmd.ask = "I" /\ lines[1].of \in Known
       THEN sensors' = Append(sensors, [addr |-> (i + 1) % (LastAddr + 1), sensor |-> lines[1].of])
       ELSE UNCHANGED sensors
  /\ i' = i + 1
  /\ ioFree
  /\ UNCHANGED <<Others, power, coming, ready, leftOn, moved, trouble, events, asked,
                 scannerAt, sent>>

\* Only the first line counts, and what address it comes from is not looked at.
Identified ==
  /\ scannerAt = "scan" /\ Done("scanner")
  /\ LET lines == io["scanner"].buf IN
       IF io["scanner"].at = "got" /\ lines[1].cmd.ask = "I" /\ lines[1].of \in Known
       THEN sensors' = Append(sensors, [addr |-> i, sensor |-> lines[1].of])
       ELSE UNCHANGED sensors
  /\ i' = i + 1
  /\ ioFree
  /\ UNCHANGED <<Others, power, coming, ready, leftOn, moved, trouble, events, asked, scannerAt, sent>>

ScanEnds ==
  /\ scannerAt = "scan" /\ io["scanner"].at = "free" /\ ~MoreAddresses
  /\ PowerOff
  /\ scannerAt' = "clock"
  /\ UNCHANGED <<Others, io, moved, trouble, events, asked, i, sensors, sent>>

ClockWait ==
  /\ scannerAt = "clock" /\ "clock" \in events
  /\ scannerAt' = "wait"
  /\ UNCHANGED <<busVars, events, asked, i, sensors, sent>>

\* Mutant: the first sensor is left out.
StartRoundSecond ==
  /\ scannerAt = "wait" /\ "sdi12" \in events
  /\ events' = events \ {"sdi12"} /\ asked' = FALSE
  /\ PowerOn
  /\ scannerAt' = "round" /\ i' = 2 /\ sent' = <<>>
  /\ trouble' = Trouble
  /\ UNCHANGED <<Others, coming, io, ready, leftOn, moved, sensors>>

StartRound ==
  /\ scannerAt = "wait" /\ "sdi12" \in events
  /\ events' = events \ {"sdi12"} /\ asked' = FALSE
  /\ PowerOn
  /\ scannerAt' = "round" /\ i' = 1 /\ sent' = <<>>
  /\ trouble' = Trouble
  /\ UNCHANGED <<Others, coming, io, ready, leftOn, moved, sensors>>

\* read_teros12, read_solyx14 or read_solinst.
ReadSensor ==
  /\ scannerAt = "round" /\ io["scanner"].at = "free" /\ i <= Len(sensors)
  /\ Command("scanner", Ask(sensors[i].addr, IF sensors[i].sensor \in Direct THEN "R" ELSE "M"))
  /\ UNCHANGED <<Others, power, coming, ready, leftOn, moved, trouble, events, asked, scannerVars>>

\* The answer that is parsed: the one where "expect" is first.
Parsed ==
  LET b == io["scanner"].buf
      k == CHOOSE k \in Expected(io["scanner"].cmd, b) :
             \A j \in Expected(io["scanner"].cmd, b) : k <= j
  IN  b[k]

\* The sensor measures: the thread sleeps as long as the answer says.
Measuring ==
  /\ scannerAt = "round" /\ io["scanner"].at = "got" /\ io["scanner"].cmd.ask = "M"
  /\ scannerAt' = "measure"
  /\ ioFree
  /\ UNCHANGED <<Others, power, coming, ready, leftOn, moved, trouble, events, asked, i, sensors, sent>>

\* It has slept a second longer than that: the sensor has said what it had to say.
GetValues ==
  /\ scannerAt = "measure" /\ coming = <<>>
  /\ Command("scanner", Ask(sensors[i].addr, "D"))
  /\ scannerAt' = "round"
  /\ UNCHANGED <<Others, power, coming, ready, leftOn, moved, trouble, events, asked, i, sensors, sent>>

\* The values are published ...
PublishValues ==
  /\ scannerAt = "round" /\ io["scanner"].at = "got" /\ io["scanner"].cmd.ask \in {"R", "D"}
  /\ Parsed.values
  /\ sent' = Append(sent, [sensor |-> sensors[i].sensor, of |-> Parsed.of])
  /\ i' = i + 1
  /\ ioFree
  /\ UNCHANGED <<Others, power, coming, ready, leftOn, moved, trouble, events, asked, scannerAt, sensors>>

\* Mutant: a sensor that does not answer is asked again.
PassOverNever ==
  /\ scannerAt = "round"
  /\ \/ io["scanner"].at = "none"
     \/ io["scanner"].at = "got" /\ io["scanner"].cmd.ask = "D" /\ ~Parsed.values
  /\ ioFree
  /\ UNCHANGED <<Others, power, coming, ready, leftOn, moved, trouble, events, asked, scannerVars>>

\* ... or the sensor is passed over.
PassOver ==
  /\ scannerAt = "round"
  /\ \/ io["scanner"].at = "none"
     \/ io["scanner"].at = "got" /\ io["scanner"].cmd.ask = "D" /\ ~Parsed.values
  /\ i' = i + 1
  /\ ioFree
  /\ UNCHANGED <<Others, power, coming, ready, leftOn, moved, trouble, events, asked, scannerAt, sensors, sent>>

\* Mutant: the request is cleared when the round is over.
EndRoundCleared ==
  /\ scannerAt = "round" /\ io["scanner"].at = "free" /\ i > Len(sensors)
  /\ PowerOff
  /\ scannerAt' = "wait" /\ i' = 0 /\ sent' = <<>>
  /\ events' = events \ {"sdi12"}
  /\ UNCHANGED <<Others, io, moved, trouble, asked, sensors>>

EndRound ==
  /\ scannerAt = "round" /\ io["scanner"].at = "free" /\ i > Len(sensors)
  /\ PowerOff
  /\ scannerAt' = "wait" /\ i' = 0 /\ sent' = <<>>
  /\ UNCHANGED <<Others, io, moved, trouble, events, asked, sensors>>

Untouched == <<events, asked, scannerVars>>

Scanner ==
  \/ BootScan \/ Identify \/ Identified \/ ScanEnds
  \/ ClockWait \/ StartRound \/ ReadSensor \/ Measuring \/ GetValues
  \/ PublishValues \/ PassOver \/ EndRound
  \/ Driver("scanner") /\ UNCHANGED Untouched

Next ==
  \/ Prompt \/ BootContinue \/ ClockEvent \/ TakeSampleNow
  \/ Scanner
  \/ (Shell \/ Arrive \/ Garble) /\ UNCHANGED Untouched

Spec == Init /\ [][Next]_vars

\* The thread runs, a command of the shell goes on and what is on the line comes in.
FairSpec ==
  /\ Spec
  /\ WF_vars(Scanner)
  /\ WF_vars(ShellRuns /\ UNCHANGED Untouched)
  /\ WF_vars((Arrive \/ Garble) /\ UNCHANGED Untouched)

-----------------------------------------------------------------------------
TypeOK ==
  /\ BusTypeOK
  /\ events \subseteq {"continue", "clock", "sdi12"} /\ asked \in BOOLEAN
  /\ scannerAt \in {"boot", "scan", "clock", "wait", "round", "measure"}
  /\ i \in Nat
  /\ sensors \in Seq([addr : Addrs, sensor : Known]) /\ Len(sensors) <= MaxSensors
  /\ sent \in Seq([sensor : Known, of : Sensors]) /\ Len(sent) <= Len(sensors)

AtItsAddress(info) == where[info.sensor] = info.addr

\* The scan at boot looks at no address (sdi12_scan.cpp:118-130).  The table is right all
\* the same if the shell kept away from the bus, whatever was lost on it; and if nothing
\* was lost, and no two sensors share an address, it has every known sensor.
TableIsRight ==
  (scannerAt = "scan" /\ io["scanner"].at = "free") =>
    /\ trouble # "shell" => \A k \in DOMAIN sensors : AtItsAddress(sensors[k])
    /\ (trouble = "none" /\ ~MoreAddresses /\ Len(sensors) < MaxSensors /\ IsInjective(where)) =>
         \A s \in Known : \E k \in DOMAIN sensors : sensors[k].sensor = s

TableHolds == ~moved /\ IsInjective(where) /\ \A k \in DOMAIN sensors : AtItsAddress(sensors[k])

\* Whatever the shell sends on the bus and whatever is lost on it, no values are published
\* for another sensor than they come from (sdi12_scan.cpp:143-149) - as long as the table
\* says where the sensors are and no two share an address.
ValuesOfTheSensor == TableHolds => \A k \in DOMAIN sent : sent[k].sensor = sent[k].of

\* A round nothing disturbs has a sample of every sensor, in the order of the table
\* (sdi12_scan.cpp:77-91).
RoundIsComplete ==
  (scannerAt = "round" /\ i > Len(sensors) /\ trouble = "none" /\ TableHolds) =>
    [k \in DOMAIN sent |-> sent[k].sensor] = [k \in DOMAIN sensors |-> sensors[k].sensor]

\* The sensors have no power while nobody measures (sdi12_scan.cpp:92, shell.cpp:144),
\* although the scanner and the shell switch it without looking at each other.
PowerOffAtRest ==
  (scannerAt \in {"boot", "clock", "wait"} /\ shellAt = "idle" /\ ~leftOn) => ~power

\* A request for a measurement is followed by a round, even one that comes while another
\* round is on (sdi12_scan.cpp:72-73), once the thread has got the clock event - unless main
\* comes to its prompt first, which wipes the request (main.cpp:112).
RequestIsServed == (asked /\ scannerAt \in {"wait", "round", "measure"}) ~> ~asked

\* A round ends, whatever the sensors and the shell do.
RoundEnds == (scannerAt \in {"scan", "round", "measure"}) ~> (scannerAt \in {"clock", "wait"})
=============================================================================
