-------------------------- MODULE MeasureCycle_proofs ---------------------------
(***************************************************************************)
(* Theorems about MeasureCycle: the types, the power of the sensors, that  *)
(* values are published for the sensor they come from, and that a scan and *)
(* a round nothing disturbs miss no sensor, for any sensors, addresses and *)
(* commands of the shell.                                                  *)
(***************************************************************************)
EXTENDS MeasureCycle, TLAPS, WellFoundedInduction

USE DEF Masters

------------------------------------------------------------------------------
(* The power *)

\* The sensors have no power while neither master uses the bus (sdi12_scan.cpp:92,
\* shell.cpp:144), unless a command has been given up in the middle.
THEOREM PowerIsOff == Spec => []PowerOffAtRest
<1>1. Init => PowerOffAtRest
  BY DEF Init, BusInit, PowerOffAtRest
<1>2. PowerOffAtRest /\ [Next]_vars => PowerOffAtRest'
  <2> SUFFICES ASSUME PowerOffAtRest, [Next]_vars PROVE PowerOffAtRest'
    OBVIOUS
  <2>1. CASE Prompt \/ BootContinue \/ ClockEvent \/ TakeSampleNow \/ UNCHANGED vars
    BY <2>1 DEF Prompt, BootContinue, ClockEvent, TakeSampleNow, vars, scannerVars, busVars, PowerOffAtRest
  <2>2. ASSUME NEW m \in Masters, Driver(m), UNCHANGED Untouched
        PROVE  PowerOffAtRest'
    BY <2>2 DEF Driver, FlushAndWrite, Read, Timeout, Untouched, scannerVars, PowerOffAtRest
  <2>3. CASE BootScan \/ Identify \/ Identified \/ ScanEnds
    BY <2>3 DEF BootScan, Identify, Identified, ScanEnds, PowerOff, Others, scannerVars, PowerOffAtRest
  <2>4. CASE ClockWait \/ StartRound \/ ReadSensor \/ Measuring \/ GetValues
    BY <2>4 DEF ClockWait, StartRound, ReadSensor, Measuring, GetValues, Others, scannerVars, busVars,
                PowerOffAtRest
  <2>5. CASE PublishValues \/ PassOver \/ EndRound
    BY <2>5 DEF PublishValues, PassOver, EndRound, PowerOff, Others, PowerOffAtRest
  <2>6. CASE Shell /\ UNCHANGED Untouched
    BY <2>2, <2>6
    DEF Shell, ShellBegin, ShellAborted, ShellCommand, ShellEnd, PowerOff, Untouched, scannerVars,
        PowerOffAtRest
  <2>7. CASE (Arrive \/ Garble) /\ UNCHANGED Untouched
    BY <2>7 DEF Arrive, Garble, Untouched, scannerVars, PowerOffAtRest
  <2>8. QED
    BY <2>1, <2>2, <2>3, <2>4, <2>5, <2>6, <2>7 DEF Next, Scanner
<1>3. QED
  BY <1>1, <1>2, PTL DEF Spec

------------------------------------------------------------------------------
(* The types *)

LEMMA AskType == \A a \in Addrs, w \in {"I", "R", "M", "D", "A"} : Ask(a, w) \in Commands
BY DEF Ask, Commands

LEMMA ReplyType ==
  ASSUME BusTypeOK, NEW s \in Sensors, NEW c \in Commands
  PROVE  Reply(s, c) \in Replies /\ Request(s) \in Replies
<1>1. (c.ask = "R" \/ (c.ask = "D" /\ s \in ready)) \in BOOLEAN
  OBVIOUS
<1>2. Reply(s, c) \in Replies
  BY <1>1 DEF Reply, Replies
<1>3. where[s] \in Addrs
  BY DEF BusTypeOK
<1>4. Request(s) \in Replies
  BY <1>3, AskType DEF Request, Replies
<1>5. QED
  BY <1>2, <1>4

LEMMA WriteType ==
  ASSUME BusTypeOK, NEW m \in Masters, Write(m)
  PROVE  /\ coming' \in Seq(Replies) /\ ready' \subseteq TwoStep
         /\ where' \in [Sensors -> Addrs] /\ moved' \in BOOLEAN
<1> DEFINE c == io[m].cmd
<1>1. c \in Commands /\ coming \in Seq(Replies) /\ ready \subseteq TwoStep /\ moved \in BOOLEAN
      /\ where \in [Sensors -> Addrs]
  BY DEF BusTypeOK
<1>2. Measured(m) \subseteq SUBSET TwoStep
  BY <1>1 DEF Measured
<1>3. CASE Hearers(c) = {} /\ ready' \in Measured(m) /\ UNCHANGED <<coming, where, moved>>
  BY <1>1, <1>2, <1>3
<1>4. CASE \E s \in Hearers(c) :
             /\ \/ coming' = Append(coming, Reply(s, c))
                \/ c.ask = "M" /\ coming' = coming \o <<Reply(s, c), Request(s)>>
             /\ where' = [where EXCEPT ![s] = c.new]
             /\ \E r \in Measured(m) : ready' = IF c.ask = "M" THEN r \cup {s} ELSE r
             /\ moved' = (moved \/ c.new # c.to)
  <2>1. PICK s \in Hearers(c) :
             /\ \/ coming' = Append(coming, Reply(s, c))
                \/ c.ask = "M" /\ coming' = coming \o <<Reply(s, c), Request(s)>>
             /\ where' = [where EXCEPT ![s] = c.new]
             /\ \E r \in Measured(m) : ready' = IF c.ask = "M" THEN r \cup {s} ELSE r
             /\ moved' = (moved \/ c.new # c.to)
    BY <1>4
  <2>2. s \in Sensors /\ (c.ask = "M" => s \in TwoStep) /\ c.new \in Addrs
    BY <1>1 DEF Hearers, Commands
  <2>3. Reply(s, c) \in Replies /\ Request(s) \in Replies
    BY <1>1, <2>2, ReplyType
  <2>4. coming' \in Seq(Replies)
    <3>1. CASE coming' = Append(coming, Reply(s, c))
      BY <1>1, <2>3, <3>1
    <3>2. CASE coming' = coming \o <<Reply(s, c), Request(s)>>
      <4>1. <<Reply(s, c), Request(s)>> \in Seq(Replies)
        BY <2>3
      <4>2. QED
        BY <1>1, <3>2, <4>1
    <3>3. QED
      BY <2>1, <3>1, <3>2
  <2>5. ready' \subseteq TwoStep
    BY <1>2, <2>1, <2>2
  <2>6. where' \in [Sensors -> Addrs]
    BY <1>1, <2>1, <2>2
  <2>7. moved' \in BOOLEAN
    BY <2>1
  <2>8. QED
    BY <2>4, <2>5, <2>6, <2>7
<1>5. QED
  BY <1>3, <1>4 DEF Write

IoTypes == [at : {"free", "break", "wait", "got", "none"}, cmd : Commands, buf : Seq(Replies)]

LEMMA FreeType == Free \in IoTypes
<1>1. 0 \in Addrs
  BY BusAssumption DEF Addrs
<1>2. QED
  BY <1>1, AskType DEF Free, IoTypes

LEMMA CommandType ==
  ASSUME BusTypeOK, NEW m \in Masters, NEW c \in Commands, Command(m, c)
  PROVE  io' \in [Masters -> IoTypes]
<1>1. [at |-> "break", cmd |-> c, buf |-> <<>>] \in IoTypes
  BY DEF IoTypes
<1>2. io \in [Masters -> IoTypes]
  BY DEF BusTypeOK, IoTypes
<1>3. QED
  BY <1>1, <1>2 DEF Command

LEMMA ReturnType ==
  ASSUME BusTypeOK, NEW m \in Masters, NEW at \in {"got", "none"}, NEW b \in Seq(Replies), Return(m, at, b)
  PROVE  /\ io' \in [Masters -> IoTypes]
         /\ m = "shell" => io'["scanner"] = io["scanner"]
         /\ m = "scanner" => io'["scanner"] = [io["scanner"] EXCEPT !.at = at, !.buf = b]
<1>1. io \in [Masters -> IoTypes] /\ io[m] \in IoTypes
  BY DEF BusTypeOK, IoTypes
<1>2. [io[m] EXCEPT !.at = at, !.buf = b] \in IoTypes
  BY <1>1 DEF IoTypes
<1>3. io' = [io EXCEPT ![m] = IF m = "shell" THEN Free ELSE [io[m] EXCEPT !.at = at, !.buf = b]]
  BY DEF Return
<1>4. QED
  BY <1>1, <1>2, <1>3, FreeType

LEMMA PowerOffType ==
  ASSUME PowerOff
  PROVE  /\ power' \in BOOLEAN /\ leftOn' \in BOOLEAN /\ ready' \subseteq TwoStep
         /\ coming' = <<>> /\ coming' \in Seq(Replies)
<1>1. power' \in BOOLEAN /\ leftOn' \in BOOLEAN
  BY DEF PowerOff
<1>2. coming' = <<>> /\ ready' \subseteq TwoStep
  BY DEF PowerOff
<1>3. QED
  BY <1>1, <1>2

LEMMA DriverType ==
  ASSUME BusTypeOK, NEW m \in Masters, Driver(m)
  PROVE  BusTypeOK'
<1>1. io \in [Masters -> IoTypes] /\ io[m] \in IoTypes /\ line \in Seq(Replies)
  BY DEF BusTypeOK, IoTypes
<1>2. CASE FlushAndWrite(m)
  <2>1. [io[m] EXCEPT !.at = "wait"] \in IoTypes
    BY <1>1 DEF IoTypes
  <2>2. io' \in [Masters -> IoTypes]
    BY <1>1, <1>2, <2>1 DEF FlushAndWrite
  <2>3. line' \in Seq(Replies)
    BY <1>2 DEF FlushAndWrite
  <2>4. UNCHANGED <<power, todo, shellAt, given, leftOn, trouble>>
    BY <1>2 DEF FlushAndWrite
  <2>5. QED
    BY <1>2, <2>2, <2>3, <2>4, WriteType DEF FlushAndWrite, BusTypeOK, IoTypes
<1>3. CASE Read(m)
  <2>1. io[m].buf \o line \in Seq(Replies) /\ <<>> \in Seq(Replies)
    BY <1>1 DEF IoTypes
  <2>2. [io[m] EXCEPT !.buf = io[m].buf \o line] \in IoTypes
    BY <1>1, <2>1 DEF IoTypes
  <2>3. io' \in [Masters -> IoTypes]
    BY <1>1, <1>3, <2>1, <2>2, ReturnType DEF Read
  <2>4. line' = <<>>
    BY <1>3 DEF Read
  <2>5. QED
    BY <1>3, <2>3, <2>4 DEF Read, BusTypeOK, IoTypes
<1>4. CASE Timeout(m)
  <2>1. <<>> \in Seq(Replies) /\ Return(m, "none", <<>>)
    BY <1>4 DEF Timeout
  <2>2. io' \in [Masters -> IoTypes]
    BY <2>1, ReturnType
  <2>3. QED
    BY <1>4, <2>2 DEF Timeout, BusTypeOK, IoTypes
<1>5. QED
  BY <1>2, <1>3, <1>4 DEF Driver

LEMMA LineType ==
  ASSUME BusTypeOK, Arrive \/ Garble
  PROVE  BusTypeOK'
<1>1. coming \in Seq(Replies) /\ coming # <<>> /\ line \in Seq(Replies)
  BY DEF Arrive, Garble, BusTypeOK
<1>2. Head(coming) \in Replies /\ Tail(coming) \in Seq(Replies)
  BY <1>1
<1>3. [Head(coming) EXCEPT !.whole = FALSE] \in Replies
  BY <1>2 DEF Replies
<1>4. coming' \in Seq(Replies) /\ line' \in Seq(Replies)
  <2>1. coming' = Tail(coming)
    BY DEF Arrive, Garble
  <2>2. line' \in {line, Append(line, Head(coming)), Append(line, [Head(coming) EXCEPT !.whole = FALSE])}
    BY DEF Arrive, Garble
  <2>3. Append(line, Head(coming)) \in Seq(Replies)
    BY <1>1, <1>2
  <2>4. Append(line, [Head(coming) EXCEPT !.whole = FALSE]) \in Seq(Replies)
    BY <1>1, <1>3
  <2>5. QED
    BY <1>1, <1>2, <2>1, <2>2, <2>3, <2>4
<1>5. trouble' \in {"none", "noise", "shell"}
  BY DEF Arrive, Garble, BusTypeOK
<1>6. QED
  BY <1>4, <1>5 DEF Arrive, Garble, BusTypeOK

LEMMA ShellType ==
  ASSUME BusTypeOK, Shell
  PROVE  BusTypeOK'
<1>1. CASE ShellBegin
  <2>1. Scan \in Seq(Commands)
    <3>1. LastAddr \in Nat
      BY BusAssumption
    <3>2. ASSUME NEW k \in 1..(LastAddr + 1) PROVE Ask(k - 1, "I") \in Commands
      <4>1. k - 1 \in Addrs
        BY <3>1 DEF Addrs
      <4>2. QED
        BY <4>1, AskType
    <3>3. QED
      BY <3>1, <3>2 DEF Scan
  <2>2. ASSUME NEW d \in Commands PROVE <<d>> \in Seq(Commands)
    OBVIOUS
  <2>3. todo' \in Seq(Commands)
    BY <1>1, <2>1, <2>2 DEF ShellBegin
  <2>4. given' \in 0..MaxShell
    BY <1>1, BusAssumption DEF ShellBegin, BusTypeOK
  <2>5. QED
    BY <1>1, <2>3, <2>4 DEF ShellBegin, PowerOn, BusTypeOK
<1>2. CASE ShellAborted
  <2>1. given' \in 0..MaxShell
    BY <1>2, BusAssumption DEF ShellAborted, BusTypeOK
  <2>2. QED
    BY <1>2, <2>1 DEF ShellAborted, PowerOn, BusTypeOK
<1>3. CASE ShellCommand
  <2>1. Head(todo) \in Commands /\ Tail(todo) \in Seq(Commands)
    BY <1>3 DEF ShellCommand, BusTypeOK
  <2>2. io' \in [Masters -> IoTypes]
    BY <1>3, <2>1, CommandType DEF ShellCommand
  <2>3. QED
    BY <1>3, <2>1, <2>2 DEF ShellCommand, BusTypeOK, IoTypes
<1>4. CASE ShellEnd
  BY <1>4, PowerOffType DEF ShellEnd, BusTypeOK
<1>5. QED
  BY <1>1, <1>2, <1>3, <1>4, DriverType DEF Shell

------------------------------------------------------------------------------
(* The round of the scanner, and what it reads *)

Sc == io["scanner"]

\* Where the scanner is tells what it is doing on the bus, and for which sensor.
RoundInv ==
  /\ Sc.at \notin {"wait", "got"} => Sc.buf = <<>>
  /\ scannerAt \notin {"scan", "round"} => Sc.at = "free"
  /\ scannerAt \in {"boot", "scan", "clock", "wait"} => sent = <<>>
  /\ scannerAt = "scan" /\ Sc.at # "free" => MoreAddresses /\ Sc.cmd.ask = "I"
  /\ scannerAt \in {"round", "measure"} => 1 <= i /\ Len(sent) < i
  /\ scannerAt = "measure" => i <= Len(sensors)
  /\ scannerAt = "round" /\ Sc.at # "free" =>
       i <= Len(sensors) /\ Sc.cmd.to = sensors[i].addr /\ Sc.cmd.ask # "I"
  /\ Sc.at = "got" /\ Sc.cmd.ask # "I" => Expected(Sc.cmd, Sc.buf) # {}

\* What a sensor says in answer to a command with its address, or is spoilt.
Fresh == {l \in Replies : l.whole => where[l.of] = l.cmd.to}

\* Since the end of the scan, which switches the power off, everything on the line is
\* fresh unless an address was changed; and since the flush before the command, so is
\* what the scanner reads.
FreshInv ==
  scannerAt \in {"clock", "wait", "round", "measure"} /\ ~moved =>
    /\ coming \in Seq(Fresh) /\ Sc.buf \in Seq(Fresh)
    /\ Sc.at = "wait" => line \in Seq(Fresh)

IInv == TypeOK /\ RoundInv /\ FreshInv /\ ValuesOfTheSensor

LEMMA WriteFresh ==
  ASSUME BusTypeOK, NEW m \in Masters, Write(m), ~moved'
  PROVE  /\ ~moved /\ UNCHANGED where
         /\ coming \in Seq(Fresh) => coming' \in Seq(Fresh)
<1> DEFINE c == io[m].cmd
<1>1. c \in Commands /\ coming \in Seq(Replies) /\ where \in [Sensors -> Addrs]
  BY DEF BusTypeOK
<1>2. CASE UNCHANGED <<coming, where, moved>>
  BY <1>2
<1>3. CASE ~UNCHANGED <<coming, where, moved>>
  <2>1. PICK s \in Hearers(c) :
             /\ \/ coming' = Append(coming, Reply(s, c))
                \/ c.ask = "M" /\ coming' = coming \o <<Reply(s, c), Request(s)>>
             /\ where' = [where EXCEPT ![s] = c.new]
             /\ moved' = (moved \/ c.new # c.to)
    BY <1>3 DEF Write
  <2>2. s \in Sensors /\ where[s] = c.to /\ c.new = c.to /\ ~moved
    BY <2>1 DEF Hearers
  <2>3. UNCHANGED where
    BY <1>1, <2>1, <2>2
  <2>4. Reply(s, c) \in Fresh /\ Request(s) \in Fresh
    <3>1. Reply(s, c) \in Replies /\ Request(s) \in Replies
      BY <1>1, <2>2, ReplyType
    <3>2. Reply(s, c).of = s /\ Reply(s, c).cmd = c /\ ~Request(s).whole
      BY DEF Reply, Request
    <3>3. QED
      BY <2>2, <3>1, <3>2 DEF Fresh
  <2>5. ASSUME coming \in Seq(Fresh) PROVE coming' \in Seq(Fresh)
    <3>1. CASE coming' = Append(coming, Reply(s, c))
      BY <2>4, <2>5, <3>1
    <3>2. CASE coming' = coming \o <<Reply(s, c), Request(s)>>
      <4>1. <<Reply(s, c), Request(s)>> \in Seq(Fresh)
        BY <2>4
      <4>2. QED
        BY <2>5, <3>2, <4>1
    <3>3. QED
      BY <2>1, <3>1, <3>2
  <2>6. QED
    BY <2>2, <2>3, <2>5
<1>4. QED
  BY <1>2, <1>3

\* Steps that leave the scanner where it is.
LEMMA QuietStep ==
  ASSUME IInv, TypeOK', UNCHANGED <<scannerAt, i, sensors, sent>>, Sc' = Sc,
         ~moved' => /\ ~moved /\ UNCHANGED where
                    /\ coming \in Seq(Fresh) => coming' \in Seq(Fresh)
                    /\ coming \in Seq(Fresh) /\ line \in Seq(Fresh) => line' \in Seq(Fresh)
  PROVE  IInv'
<1>1. RoundInv'
  BY DEF IInv, RoundInv, MoreAddresses
<1>2. UNCHANGED where => UNCHANGED Fresh
  BY DEF Fresh
<1>3. FreshInv'
  BY <1>2 DEF IInv, FreshInv
<1>4. ValuesOfTheSensor'
  BY DEF IInv, ValuesOfTheSensor, TableHolds, AtItsAddress
<1>5. QED
  BY <1>1, <1>3, <1>4 DEF IInv

LEMMA EventStep ==
  ASSUME IInv, Prompt \/ BootContinue \/ ClockEvent \/ TakeSampleNow \/ UNCHANGED vars
  PROVE  IInv'
<1>1. UNCHANGED <<busVars, scannerVars>>
  BY DEF Prompt, BootContinue, ClockEvent, TakeSampleNow, vars
<1>2. TypeOK'
  <2>1. BusTypeOK'
    BY <1>1 DEF IInv, TypeOK, BusTypeOK, busVars
  <2>2. events' \subseteq {"continue", "clock", "sdi12"} /\ asked' \in BOOLEAN
    BY DEF IInv, TypeOK, Prompt, BootContinue, ClockEvent, TakeSampleNow, vars
  <2>3. QED
    BY <1>1, <2>1, <2>2 DEF IInv, TypeOK, scannerVars
<1>3. QED
  BY <1>1, <1>2, QuietStep DEF busVars, scannerVars, Sc

LEMMA RestTypes ==
  ASSUME TypeOK, BusTypeOK', UNCHANGED Untouched
  PROVE  TypeOK' /\ UNCHANGED <<scannerAt, i, sensors, sent>>
BY DEF TypeOK, Untouched, scannerVars

LEMMA LineStep ==
  ASSUME IInv, Arrive \/ Garble, UNCHANGED Untouched
  PROVE  IInv'
<1>1. TypeOK' /\ UNCHANGED <<scannerAt, i, sensors, sent>>
  BY LineType, RestTypes DEF IInv, TypeOK
<1>2. UNCHANGED <<io, where, moved>> /\ coming # <<>> /\ coming' = Tail(coming)
  BY DEF Arrive, Garble
<1>3. coming \in Seq(Fresh) => coming' \in Seq(Fresh) /\ Head(coming) \in Fresh
  BY <1>2
<1>4. ASSUME coming \in Seq(Fresh), line \in Seq(Fresh) PROVE line' \in Seq(Fresh)
  <2>1. Head(coming) \in Fresh
    BY <1>3, <1>4
  <2>2. [Head(coming) EXCEPT !.whole = FALSE] \in Fresh
    BY <2>1 DEF Fresh, Replies
  <2>3. line' \in {line, Append(line, Head(coming)), Append(line, [Head(coming) EXCEPT !.whole = FALSE])}
    BY DEF Arrive, Garble
  <2>4. Append(line, Head(coming)) \in Seq(Fresh)
    BY <1>4, <2>1
  <2>5. Append(line, [Head(coming) EXCEPT !.whole = FALSE]) \in Seq(Fresh)
    BY <1>4, <2>2
  <2>6. QED
    BY <1>4, <2>3, <2>4, <2>5
<1>5. QED
  BY <1>1, <1>2, <1>3, <1>4, QuietStep DEF Sc

LEMMA ShellStep ==
  ASSUME IInv, Shell, UNCHANGED Untouched
  PROVE  IInv'
<1>1. TypeOK' /\ UNCHANGED <<scannerAt, i, sensors, sent>> /\ BusTypeOK
  BY ShellType, RestTypes DEF IInv, TypeOK
<1>2. <<>> \in Seq(Fresh)
  OBVIOUS
<1>3. CASE ShellBegin \/ ShellAborted
  BY <1>1, <1>3, QuietStep DEF ShellBegin, ShellAborted, Sc
<1>4. CASE ShellCommand
  <2>1. Sc' = Sc
    BY <1>1, <1>4 DEF ShellCommand, Command, Sc, BusTypeOK
  <2>2. QED
    BY <1>1, <1>4, <2>1, QuietStep DEF ShellCommand
<1>5. CASE ShellEnd
  BY <1>1, <1>2, <1>5, QuietStep DEF ShellEnd, PowerOff, Sc
<1>6. CASE FlushAndWrite("shell")
  <2>1. Sc' = Sc /\ line' = <<>> /\ Write("shell")
    BY <1>1, <1>6 DEF FlushAndWrite, Sc, BusTypeOK
  <2>2. QED
    BY <1>1, <1>2, <2>1, WriteFresh, QuietStep
<1>7. CASE Read("shell") \/ Timeout("shell")
  <2>1. Sc' = Sc
    BY <1>1, <1>7 DEF Read, Timeout, Return, Sc, BusTypeOK
  <2>2. UNCHANGED <<coming, where, moved>> /\ line' \in {line, <<>>}
    BY <1>7 DEF Read, Timeout
  <2>3. QED
    BY <1>1, <1>2, <2>1, <2>2, QuietStep
<1>8. QED
  BY <1>3, <1>4, <1>5, <1>6, <1>7 DEF Shell, Driver

\* The driver at work for the scanner.
LEMMA DriverStep ==
  ASSUME IInv, Driver("scanner"), UNCHANGED Untouched
  PROVE  IInv'
<1>1. TypeOK' /\ UNCHANGED <<scannerAt, i, sensors, sent>> /\ BusTypeOK
  BY DriverType, RestTypes DEF IInv, TypeOK
<1>2. <<>> \in Seq(Fresh) /\ Sc \in IoTypes /\ line \in Seq(Replies)
  BY <1>1 DEF BusTypeOK, IoTypes, Sc
<1>3. CASE FlushAndWrite("scanner")
  <2>1. Sc.at = "break" /\ Sc' = [Sc EXCEPT !.at = "wait"] /\ line' = <<>> /\ Write("scanner")
    BY <1>1, <1>3 DEF FlushAndWrite, Sc, BusTypeOK
  <2>2. Sc'.at = "wait" /\ Sc'.cmd = Sc.cmd /\ Sc'.buf = <<>>
    BY <1>2, <2>1 DEF IInv, RoundInv, IoTypes
  <2>3. RoundInv'
    BY <1>1, <2>1, <2>2 DEF IInv, RoundInv, MoreAddresses
  <2>4. ~moved' => ~moved /\ UNCHANGED where /\ (coming \in Seq(Fresh) => coming' \in Seq(Fresh))
    BY <1>1, <2>1, WriteFresh
  <2>5. UNCHANGED where => UNCHANGED Fresh
    BY DEF Fresh
  <2>6. FreshInv'
    BY <1>1, <1>2, <2>1, <2>2, <2>4, <2>5 DEF IInv, FreshInv
  <2>7. ValuesOfTheSensor'
    BY <1>1, <2>4 DEF IInv, ValuesOfTheSensor, TableHolds, AtItsAddress
  <2>8. QED
    BY <1>1, <2>3, <2>6, <2>7 DEF IInv
<1>4. CASE Read("scanner") \/ Timeout("scanner")
  <2>1. /\ UNCHANGED <<coming, where, moved>> /\ line' \in {line, <<>>}
        /\ UNCHANGED Fresh /\ Sc.at = "wait"
    BY <1>4 DEF Read, Timeout, Fresh, Sc
  <2>2. Sc.buf \o line \in Seq(Replies)
    BY <1>2 DEF IoTypes
  <2>3. \/ /\ Sc' = [Sc EXCEPT !.at = "got", !.buf = Sc.buf \o line]
           /\ Matches("scanner", Sc.buf \o line)
        \/ Sc' = [Sc EXCEPT !.buf = Sc.buf \o line]
        \/ Sc' = [Sc EXCEPT !.at = "none", !.buf = <<>>]
    <3>1. CASE Read("scanner")
      BY <1>1, <3>1 DEF Read, Return, Sc, BusTypeOK
    <3>2. CASE Timeout("scanner")
      BY <1>1, <3>2 DEF Timeout, Return, Sc, BusTypeOK
    <3>3. QED
      BY <1>4, <3>1, <3>2
  <2>4. \/ /\ Sc'.at = "got" /\ Sc'.cmd = Sc.cmd /\ Sc'.buf = Sc.buf \o line
           /\ Sc.cmd.ask # "I" => Expected(Sc.cmd, Sc.buf \o line) # {}
        \/ Sc'.at = "wait" /\ Sc'.cmd = Sc.cmd /\ Sc'.buf = Sc.buf \o line
        \/ Sc'.at = "none" /\ Sc'.cmd = Sc.cmd /\ Sc'.buf = <<>>
    BY <1>2, <2>1, <2>3 DEF IoTypes, Matches, Sc
  <2>5. RoundInv'
    BY <1>1, <2>1, <2>4 DEF IInv, RoundInv, MoreAddresses
  <2>6. FreshInv'
    <3>1. SUFFICES ASSUME scannerAt \in {"clock", "wait", "round", "measure"}, ~moved
                   PROVE  coming' \in Seq(Fresh) /\ Sc'.buf \in Seq(Fresh) /\ line' \in Seq(Fresh)
      BY <1>1, <2>1 DEF FreshInv
    <3>2. coming \in Seq(Fresh) /\ Sc.buf \in Seq(Fresh) /\ line \in Seq(Fresh)
      BY <2>1, <3>1 DEF IInv, FreshInv
    <3>3. Sc.buf \o line \in Seq(Fresh)
      BY <3>2
    <3>4. QED
      BY <1>2, <2>1, <2>4, <3>2, <3>3
  <2>7. ValuesOfTheSensor'
    BY <1>1, <2>1 DEF IInv, ValuesOfTheSensor, TableHolds, AtItsAddress
  <2>8. QED
    BY <1>1, <2>5, <2>6, <2>7 DEF IInv
<1>5. QED
  BY <1>3, <1>4 DEF Driver

\* Before the first round nothing is published; a scan begins with an empty line for the
\* rounds that follow it.
LEMMA ScanStep ==
  ASSUME IInv, BootScan \/ Identify \/ Identified \/ ScanEnds \/ ClockWait \/ StartRound
  PROVE  IInv'
<1>1. BusTypeOK /\ TypeOK /\ RoundInv /\ Sc \in IoTypes /\ io \in [Masters -> IoTypes]
  BY DEF IInv, TypeOK, BusTypeOK, IoTypes, Sc
<1>2. CASE BootScan
  <2>1. TypeOK'
    BY <1>1, <1>2 DEF BootScan, PowerOn, Trouble, Others, TypeOK, BusTypeOK
  <2>2. scannerAt = "boot" /\ scannerAt' = "scan" /\ UNCHANGED <<io, sent>>
    BY <1>2 DEF BootScan
  <2>3. sent = <<>> /\ Sc.at = "free" /\ UNCHANGED Sc /\ Sc.buf = <<>>
    BY <1>1, <2>2 DEF RoundInv, Sc
  <2>4. RoundInv' /\ FreshInv' /\ ValuesOfTheSensor'
    BY <2>2, <2>3 DEF RoundInv, FreshInv, ValuesOfTheSensor
  <2>5. QED
    BY <2>1, <2>4 DEF IInv
<1>3. CASE Identify
  <2>1. /\ scannerAt = "scan" /\ MoreAddresses /\ Command("scanner", Ask(i, "I"))
        /\ UNCHANGED <<Others, power, coming, ready, leftOn, moved, trouble, events, asked, scannerVars>>
    BY <1>3 DEF Identify
  <2>2. i \in Addrs
    BY <1>1, <2>1, BusAssumption DEF TypeOK, MoreAddresses, Addrs
  <2>3. Ask(i, "I") \in Commands
    BY <2>2, AskType
  <2>4. io' \in [Masters -> IoTypes] /\ Sc' = [at |-> "break", cmd |-> Ask(i, "I"), buf |-> <<>>]
    BY <1>1, <2>1, <2>3, CommandType DEF Command, Sc
  <2>5. TypeOK'
    BY <1>1, <2>1, <2>4 DEF TypeOK, BusTypeOK, IoTypes, Others, scannerVars
  <2>6. sent' = <<>> /\ scannerAt' = "scan" /\ MoreAddresses'
    BY <1>1, <2>1 DEF RoundInv, scannerVars, MoreAddresses
  <2>7. RoundInv' /\ FreshInv' /\ ValuesOfTheSensor'
    BY <2>4, <2>6 DEF RoundInv, FreshInv, ValuesOfTheSensor, Ask
  <2>8. QED
    BY <2>5, <2>7 DEF IInv
<1>4. CASE Identified
  <2>1. /\ scannerAt = "scan" /\ Sc.at # "free" /\ i' = i + 1 /\ ioFree
        /\ UNCHANGED <<Others, power, coming, ready, leftOn, moved, trouble, events, asked, scannerAt, sent>>
    BY <1>4 DEF Identified, Done, Sc
  <2>2. MoreAddresses /\ i \in Addrs /\ Len(sensors) < MaxSensors
    BY <1>1, <2>1, BusAssumption DEF RoundInv, TypeOK, MoreAddresses, Addrs
  <2>3. \/ UNCHANGED sensors
        \/ \E s \in Known : sensors' = Append(sensors, [addr |-> i, sensor |-> s])
    BY <1>4 DEF Identified
  <2>4. sensors' \in Seq([addr : Addrs, sensor : Known]) /\ Len(sensors') <= MaxSensors
        /\ Len(sensors') \in Nat
    <3>1. sensors \in Seq([addr : Addrs, sensor : Known]) /\ Len(sensors) <= MaxSensors
          /\ MaxSensors \in Nat
      BY <1>1, SensorsAssumption DEF TypeOK
    <3>2. ASSUME NEW s \in Known, sensors' = Append(sensors, [addr |-> i, sensor |-> s])
          PROVE  sensors' \in Seq([addr : Addrs, sensor : Known]) /\ Len(sensors') = Len(sensors) + 1
      <4>1. [addr |-> i, sensor |-> s] \in [addr : Addrs, sensor : Known]
        BY <2>2
      <4>2. QED
        BY <3>1, <3>2, <4>1
    <3>3. CASE UNCHANGED sensors
      BY <3>1, <3>3
    <3>4. CASE \E s \in Known : sensors' = Append(sensors, [addr |-> i, sensor |-> s])
      <4>1. sensors' \in Seq([addr : Addrs, sensor : Known]) /\ Len(sensors') = Len(sensors) + 1
        BY <3>2, <3>4
      <4>2. Len(sensors) \in Nat
        BY <3>1
      <4>3. QED
        BY <2>2, <3>1, <4>1, <4>2
    <3>5. QED
      BY <2>3, <3>3, <3>4
  <2>5. io' \in [Masters -> IoTypes] /\ Sc' = Free
    BY <1>1, <2>1, FreeType DEF ioFree, Sc
  <2>6. sent = <<>> /\ sent' = <<>>
    BY <1>1, <2>1 DEF RoundInv
  <2>7. TypeOK'
    BY <1>1, <2>1, <2>4, <2>5, <2>6 DEF TypeOK, BusTypeOK, IoTypes, Others
  <2>8. RoundInv' /\ FreshInv' /\ ValuesOfTheSensor'
    BY <2>1, <2>5, <2>6 DEF RoundInv, FreshInv, ValuesOfTheSensor, Free
  <2>9. QED
    BY <2>7, <2>8 DEF IInv
<1>5. CASE ScanEnds
  <2>1. /\ scannerAt = "scan" /\ scannerAt' = "clock" /\ Sc.at = "free" /\ UNCHANGED Sc /\ PowerOff
        /\ UNCHANGED <<Others, io, moved, trouble, events, asked, i, sensors, sent>>
    BY <1>5 DEF ScanEnds, Sc
  <2>2. sent = <<>> /\ Sc.buf = <<>> /\ <<>> \in Seq(Fresh')
    BY <1>1, <2>1 DEF RoundInv
  <2>3. coming' = <<>>
    BY <2>1, PowerOffType
  <2>4. TypeOK'
    BY <1>1, <2>1, PowerOffType DEF TypeOK, BusTypeOK, Others
  <2>5. RoundInv' /\ FreshInv' /\ ValuesOfTheSensor'
    BY <2>1, <2>2, <2>3 DEF RoundInv, FreshInv, ValuesOfTheSensor
  <2>6. QED
    BY <2>4, <2>5 DEF IInv
<1>6. CASE ClockWait
  <2>1. /\ scannerAt = "clock" /\ scannerAt' = "wait"
        /\ UNCHANGED <<busVars, events, asked, i, sensors, sent>>
    BY <1>6 DEF ClockWait
  <2>2. UNCHANGED <<Sc, Fresh>> /\ Sc.at = "free"
    BY <1>1, <2>1 DEF busVars, Sc, Fresh, RoundInv
  <2>3. TypeOK'
    BY <1>1, <2>1 DEF TypeOK, BusTypeOK, busVars
  <2>4. RoundInv'
    BY <1>1, <2>1, <2>2 DEF RoundInv
  <2>5. FreshInv' /\ ValuesOfTheSensor'
    BY <2>1, <2>2 DEF IInv, FreshInv, ValuesOfTheSensor, TableHolds, AtItsAddress, busVars
  <2>6. QED
    BY <2>3, <2>4, <2>5 DEF IInv
<1>7. CASE StartRound
  <2>1. /\ scannerAt = "wait" /\ scannerAt' = "round" /\ i' = 1 /\ sent' = <<>> /\ power' = TRUE
        /\ events' = events \ {"sdi12"} /\ asked' = FALSE /\ trouble' = Trouble
        /\ UNCHANGED <<Others, coming, io, ready, leftOn, moved, sensors>>
    BY <1>7 DEF StartRound, PowerOn
  <2>2. UNCHANGED <<Sc, Fresh>> /\ Sc.at = "free"
    BY <1>1, <2>1 DEF Others, Sc, Fresh, RoundInv
  <2>3. TypeOK'
    <3>1. asked' \in BOOLEAN /\ power' \in BOOLEAN /\ trouble' \in {"none", "noise", "shell"}
      BY <2>1 DEF Trouble
    <3>2. sent' \in Seq([sensor : Known, of : Sensors]) /\ Len(sent') <= Len(sensors')
      BY <1>1, <2>1 DEF TypeOK
    <3>3. QED
      BY <1>1, <2>1, <3>1, <3>2 DEF TypeOK, BusTypeOK, Others
  <2>4. RoundInv'
    BY <1>1, <2>1, <2>2 DEF RoundInv
  <2>5. FreshInv' /\ ValuesOfTheSensor'
    BY <2>1, <2>2 DEF IInv, FreshInv, ValuesOfTheSensor, Others
  <2>6. QED
    BY <2>3, <2>4, <2>5 DEF IInv
<1>8. QED
  BY <1>2, <1>3, <1>4, <1>5, <1>6, <1>7

\* "Less than" is well founded on the numbers, as a set of pairs.
LEMMA LessIsWellFounded == IsWellFoundedOn({ss \in Nat \X Nat : ss[1] < ss[2]}, Nat)
  BY NatLessThanWellFounded DEF OpToRel

\* A set of numbers that is not empty has a least one.
LEMMA LeastOf ==
  ASSUME NEW K, K # {}, K \subseteq Nat
  PROVE  \E n \in K : \A j \in K : n <= j
<1> DEFINE R == {ss \in Nat \X Nat : ss[1] < ss[2]}
<1>1. IsWellFoundedOn(R, Nat)
  BY LessIsWellFounded
<1>2. \A j, n \in Nat : j < n => <<j, n>> \in R
  OBVIOUS
<1> HIDE DEF R
<1>3. PICK n \in K : \A j \in K : ~(<<j, n>> \in R)
  BY <1>1, WFMin
<1>4. \A j \in K : n <= j
  <2> SUFFICES ASSUME NEW j \in K PROVE n <= j
    OBVIOUS
  <2>1. j \in Nat /\ n \in Nat
    OBVIOUS
  <2>2. ~(j < n)
    BY <1>2, <1>3, <2>1, Zenon
  <2>3. QED
    BY <2>1, <2>2
<1>5. QED
  BY <1>4

\* An entry of a sequence is of the set the sequence is over.
LEMMA EntryIn ==
  ASSUME NEW S, NEW s \in Seq(S), NEW n \in 1..Len(s)
  PROVE  s[n] \in S
  OBVIOUS

\* The line that is parsed is one that was expected.
LEMMA ParsedLine ==
  ASSUME TypeOK, RoundInv, Sc.at = "got", Sc.cmd.ask # "I"
  PROVE  /\ Parsed \in Replies /\ Parsed.whole /\ Parsed.cmd = Sc.cmd
         /\ \A S : Sc.buf \in Seq(S) => Parsed \in S
<1> DEFINE K == Expected(Sc.cmd, Sc.buf)
<1>1. Sc.buf \in Seq(Replies)
  BY DEF TypeOK, BusTypeOK, Sc
<1>2. K # {} /\ K \subseteq Nat
  BY <1>1 DEF RoundInv, Expected
<1>3. PICK n \in K : \A j \in K : n <= j
  <2> HIDE DEF K
  <2>1. QED
    BY <1>2, LeastOf
<1> DEFINE k == CHOOSE k \in K : \A j \in K : k <= j
<1>4. k \in K
  BY <1>3
<1>5. Parsed = Sc.buf[k]
  BY DEF Parsed, Sc
<1> HIDE DEF k
<1>6. k \in DOMAIN Sc.buf /\ Parsed.whole /\ Parsed.cmd = Sc.cmd
  BY <1>4, <1>5 DEF Expected
<1>7. \A S : Sc.buf \in Seq(S) => Sc.buf[k] \in S
  BY <1>6
<1>8. QED
  BY <1>1, <1>5, <1>6, <1>7

LEMMA TableEntry ==
  ASSUME TypeOK, 1 <= i, i <= Len(sensors)
  PROVE  sensors[i] \in [addr : Addrs, sensor : Known] /\ sensors[i].addr \in Addrs /\ i \in DOMAIN sensors
<1>1. sensors \in Seq([addr : Addrs, sensor : Known]) /\ i \in Nat
  BY DEF TypeOK
<1>2. i \in 1..Len(sensors)
  BY <1>1
<1>3. sensors[i] \in [addr : Addrs, sensor : Known]
  BY <1>1, <1>2, EntryIn
<1>4. QED
  BY <1>1, <1>2, <1>3

LEMMA RoundStep ==
  ASSUME IInv, ReadSensor \/ Measuring \/ GetValues \/ PassOver \/ EndRound
  PROVE  IInv'
<1>1. BusTypeOK /\ TypeOK /\ RoundInv /\ Sc \in IoTypes /\ io \in [Masters -> IoTypes] /\ FreshInv
      /\ sensors \in Seq([addr : Addrs, sensor : Known]) /\ i \in Nat /\ Len(sensors) \in Nat
      /\ Len(sent) \in Nat
  BY DEF IInv, TypeOK, BusTypeOK, IoTypes, Sc
<1>2. <<>> \in Seq(Fresh) /\ <<>> \in Seq(Fresh')
  OBVIOUS
<1>3. CASE ReadSensor
  <2>1. /\ scannerAt = "round" /\ Sc.at = "free" /\ i <= Len(sensors)
        /\ UNCHANGED <<Others, power, coming, ready, leftOn, moved, trouble, events, asked, scannerVars>>
    BY <1>3 DEF ReadSensor, Sc
  <2>2. PICK w \in {"R", "M"} : Command("scanner", Ask(sensors[i].addr, w))
    BY <1>3 DEF ReadSensor
  <2>3. i >= 1 /\ sensors[i].addr \in Addrs
    BY <1>1, <2>1, TableEntry DEF RoundInv
  <2>4. Ask(sensors[i].addr, w) \in Commands
    BY <2>3, AskType
  <2>5. /\ io' \in [Masters -> IoTypes]
        /\ Sc' = [at |-> "break", cmd |-> Ask(sensors[i].addr, w), buf |-> <<>>]
    BY <1>1, <2>2, <2>4, CommandType DEF Command, Sc
  <2>6. TypeOK'
    BY <1>1, <2>1, <2>5 DEF TypeOK, BusTypeOK, IoTypes, Others, scannerVars
  <2>7. UNCHANGED <<scannerAt, i, sensors, sent, where, moved, Fresh>>
    BY <2>1 DEF scannerVars, Others, Fresh
  <2>8. RoundInv'
    BY <1>1, <2>1, <2>5, <2>7 DEF RoundInv, Ask
  <2>9. FreshInv' /\ ValuesOfTheSensor'
    BY <1>1, <1>2, <2>1, <2>5, <2>7 DEF IInv, FreshInv, ValuesOfTheSensor, TableHolds, AtItsAddress
  <2>10. QED
    BY <2>6, <2>8, <2>9 DEF IInv
<1>4. CASE Measuring
  <2>1. /\ scannerAt = "round" /\ scannerAt' = "measure" /\ Sc.at = "got" /\ ioFree
        /\ UNCHANGED <<Others, power, coming, ready, leftOn, moved, trouble, events, asked, i, sensors, sent>>
    BY <1>4 DEF Measuring, Sc
  <2>2. io' \in [Masters -> IoTypes] /\ Sc' = Free
    BY <1>1, <2>1, FreeType DEF ioFree, Sc
  <2>3. TypeOK'
    BY <1>1, <2>1, <2>2 DEF TypeOK, BusTypeOK, IoTypes, Others
  <2>4. UNCHANGED <<where, Fresh>>
    BY <2>1 DEF Others, Fresh
  <2>5. RoundInv'
    BY <1>1, <2>1, <2>2 DEF RoundInv, Free
  <2>6. FreshInv' /\ ValuesOfTheSensor'
    BY <1>1, <1>2, <2>1, <2>2, <2>4
    DEF IInv, FreshInv, ValuesOfTheSensor, TableHolds, AtItsAddress, Free
  <2>7. QED
    BY <2>3, <2>5, <2>6 DEF IInv
<1>5. CASE GetValues
  <2>1. /\ scannerAt = "measure" /\ scannerAt' = "round" /\ Command("scanner", Ask(sensors[i].addr, "D"))
        /\ UNCHANGED <<Others, power, coming, ready, leftOn, moved, trouble, events, asked, i, sensors, sent>>
    BY <1>5 DEF GetValues
  <2>2. i >= 1 /\ i <= Len(sensors) /\ sensors[i].addr \in Addrs
    BY <1>1, <2>1, TableEntry DEF RoundInv
  <2>3. Ask(sensors[i].addr, "D") \in Commands
    BY <2>2, AskType
  <2>4. /\ io' \in [Masters -> IoTypes]
        /\ Sc' = [at |-> "break", cmd |-> Ask(sensors[i].addr, "D"), buf |-> <<>>]
    BY <1>1, <2>1, <2>3, CommandType DEF Command, Sc
  <2>5. TypeOK'
    BY <1>1, <2>1, <2>4 DEF TypeOK, BusTypeOK, IoTypes, Others
  <2>6. UNCHANGED <<where, Fresh>>
    BY <2>1 DEF Others, Fresh
  <2>7. RoundInv'
    BY <1>1, <2>1, <2>2, <2>4 DEF RoundInv, Ask
  <2>8. FreshInv' /\ ValuesOfTheSensor'
    BY <1>1, <1>2, <2>1, <2>4, <2>6 DEF IInv, FreshInv, ValuesOfTheSensor, TableHolds, AtItsAddress
  <2>9. QED
    BY <2>5, <2>7, <2>8 DEF IInv
<1>6. CASE PassOver
  <2>1. /\ scannerAt = "round" /\ Sc.at # "free" /\ i' = i + 1 /\ ioFree
        /\ UNCHANGED <<Others, power, coming, ready, leftOn, moved, trouble, events, asked, scannerAt,
                       sensors, sent>>
    BY <1>6 DEF PassOver, Sc
  <2>2. io' \in [Masters -> IoTypes] /\ Sc' = Free
    BY <1>1, <2>1, FreeType DEF ioFree, Sc
  <2>3. TypeOK'
    BY <1>1, <2>1, <2>2 DEF TypeOK, BusTypeOK, IoTypes, Others
  <2>4. UNCHANGED <<where, Fresh>>
    BY <2>1 DEF Others, Fresh
  <2>5. RoundInv'
    BY <1>1, <2>1, <2>2 DEF RoundInv, Free
  <2>6. FreshInv' /\ ValuesOfTheSensor'
    BY <1>1, <1>2, <2>1, <2>2, <2>4
    DEF IInv, FreshInv, ValuesOfTheSensor, TableHolds, AtItsAddress, Free
  <2>7. QED
    BY <2>3, <2>5, <2>6 DEF IInv
<1>7. CASE EndRound
  <2>1. /\ scannerAt = "round" /\ scannerAt' = "wait" /\ Sc.at = "free" /\ UNCHANGED Sc /\ PowerOff
        /\ i' = 0 /\ sent' = <<>>
        /\ UNCHANGED <<Others, io, moved, trouble, events, asked, sensors>>
    BY <1>7 DEF EndRound, Sc
  <2>2. Sc.buf = <<>> /\ coming' = <<>>
    BY <1>1, <2>1, PowerOffType DEF RoundInv
  <2>3. TypeOK'
    BY <1>1, <2>1, PowerOffType DEF TypeOK, BusTypeOK, Others
  <2>4. RoundInv' /\ FreshInv' /\ ValuesOfTheSensor'
    BY <1>2, <2>1, <2>2 DEF RoundInv, FreshInv, ValuesOfTheSensor
  <2>5. QED
    BY <2>3, <2>4 DEF IInv
<1>8. QED
  BY <1>3, <1>4, <1>5, <1>6, <1>7

\* The values are those of the sensor that was asked: the line that is parsed answers the
\* command, and the address in the command is that of the sensor in the table.
LEMMA PublishStep ==
  ASSUME IInv, PublishValues
  PROVE  IInv'
<1>1. BusTypeOK /\ TypeOK /\ RoundInv /\ Sc \in IoTypes /\ io \in [Masters -> IoTypes] /\ FreshInv
      /\ sensors \in Seq([addr : Addrs, sensor : Known]) /\ i \in Nat /\ Len(sensors) \in Nat
      /\ sent \in Seq([sensor : Known, of : Sensors]) /\ Len(sent) \in Nat /\ where \in [Sensors -> Addrs]
  BY DEF IInv, TypeOK, BusTypeOK, IoTypes, Sc
<1>2. /\ scannerAt = "round" /\ Sc.at = "got" /\ Sc.cmd.ask # "I" /\ i' = i + 1 /\ ioFree
      /\ sent' = Append(sent, [sensor |-> sensors[i].sensor, of |-> Parsed.of])
      /\ UNCHANGED <<Others, power, coming, ready, leftOn, moved, trouble, events, asked, scannerAt, sensors>>
  BY DEF PublishValues, Sc
<1>3. 1 <= i /\ Len(sent) < i /\ i <= Len(sensors) /\ Sc.cmd.to = sensors[i].addr
  BY <1>1, <1>2 DEF RoundInv
<1>4. Parsed \in Replies /\ Parsed.whole /\ Parsed.cmd = Sc.cmd
      /\ (Sc.buf \in Seq(Fresh) => Parsed \in Fresh)
  BY <1>1, <1>2, ParsedLine
<1>5. sensors[i] \in [addr : Addrs, sensor : Known] /\ Parsed.of \in Sensors /\ i \in DOMAIN sensors
  <2>1. Parsed.of \in Sensors
    BY <1>4 DEF Replies
  <2>2. QED
    BY <1>1, <1>3, <2>1, TableEntry
<1>6. [sensor |-> sensors[i].sensor, of |-> Parsed.of] \in [sensor : Known, of : Sensors]
  BY <1>5
<1>7. sent' \in Seq([sensor : Known, of : Sensors]) /\ Len(sent') = Len(sent) + 1
  BY <1>1, <1>2, <1>6
<1>8. io' \in [Masters -> IoTypes] /\ Sc' = Free
  BY <1>1, <1>2, FreeType DEF ioFree, Sc
<1>9. TypeOK'
  BY <1>1, <1>2, <1>3, <1>7, <1>8 DEF TypeOK, BusTypeOK, IoTypes, Others
<1>10. RoundInv'
  BY <1>1, <1>2, <1>3, <1>7, <1>8 DEF RoundInv, Free
<1>11. UNCHANGED <<where, Fresh>>
  BY <1>2 DEF Others, Fresh
<1>12. FreshInv'
  BY <1>1, <1>2, <1>8, <1>11 DEF FreshInv, Free
<1>13. ValuesOfTheSensor'
  <2>1. SUFFICES ASSUME TableHolds', NEW k \in DOMAIN sent'
                 PROVE  sent'[k].sensor = sent'[k].of
    BY DEF ValuesOfTheSensor
  <2>2. TableHolds /\ ~moved
    BY <1>2, <1>11, <2>1 DEF TableHolds, AtItsAddress
  <2>3. CASE k \in DOMAIN sent
    <3>1. sent'[k] = sent[k]
      BY <1>1, <1>2, <2>3
    <3>2. QED
      BY <2>2, <2>3, <3>1 DEF IInv, ValuesOfTheSensor
  <2>4. CASE k \notin DOMAIN sent
    <3>1. sent'[k] = [sensor |-> sensors[i].sensor, of |-> Parsed.of]
      BY <1>1, <1>2, <1>6, <2>1, <2>4
    <3>2. Parsed \in Fresh
      BY <1>1, <1>2, <1>4, <2>2 DEF FreshInv
    <3>3. where[Parsed.of] = sensors[i].addr
      BY <1>3, <1>4, <3>2 DEF Fresh
    <3>4. where[sensors[i].sensor] = sensors[i].addr
      BY <1>5, <2>2 DEF TableHolds, AtItsAddress
    <3>5. sensors[i].sensor \in Sensors
      BY <1>5, BusAssumption DEF Known
    <3>6. sensors[i].sensor = Parsed.of
      BY <1>1, <1>5, <2>2, <3>3, <3>4, <3>5 DEF TableHolds, IsInjective
    <3>7. QED
      BY <3>1, <3>6
  <2>5. QED
    BY <2>3, <2>4
<1>14. QED
  BY <1>9, <1>10, <1>12, <1>13 DEF IInv

LEMMA InitStep ==
  ASSUME Init
  PROVE  IInv
<1>1. /\ power = FALSE /\ coming = <<>> /\ line = <<>> /\ io = [m \in Masters |-> Free]
      /\ todo = <<>> /\ shellAt = "idle" /\ given = 0 /\ where \in [Sensors -> Addrs] /\ ready = {}
      /\ leftOn = FALSE /\ moved = FALSE /\ trouble = "none"
  BY DEF Init, BusInit
<1>2. events = {} /\ asked = FALSE /\ scannerAt = "boot" /\ i = 0 /\ sensors = <<>> /\ sent = <<>>
  BY DEF Init
<1>3. io \in [Masters -> IoTypes] /\ Sc = Free
  BY <1>1, FreeType DEF Sc
<1>4. power \in BOOLEAN /\ leftOn \in BOOLEAN /\ moved \in BOOLEAN /\ asked \in BOOLEAN
  BY <1>1, <1>2
<1>5. BusTypeOK
  BY <1>1, <1>3, <1>4, BusAssumption DEF BusTypeOK, IoTypes
<1>6. Len(sensors) <= MaxSensors
  BY <1>2, SensorsAssumption
<1>7. TypeOK
  BY <1>2, <1>4, <1>5, <1>6 DEF TypeOK
<1>8. RoundInv /\ FreshInv /\ ValuesOfTheSensor
  BY <1>2, <1>3 DEF RoundInv, FreshInv, ValuesOfTheSensor, Free
<1>9. QED
  BY <1>7, <1>8 DEF IInv

LEMMA Inductive == Spec => []IInv
<1>1. Init => IInv
  BY InitStep
<1>2. IInv /\ [Next]_vars => IInv'
  BY EventStep, LineStep, ShellStep, DriverStep, ScanStep, RoundStep, PublishStep DEF Next, Scanner
<1>3. QED
  BY <1>1, <1>2, PTL DEF Spec

\* The tables, the buffers and the addresses have their types whatever the masters do.
THEOREM TypeCorrect == Spec => []TypeOK
<1>1. IInv => TypeOK
  BY DEF IInv
<1>2. QED
  BY <1>1, Inductive, PTL

\* No values are published for another sensor than they come from (sdi12_scan.cpp:143-149),
\* as long as the table says where the sensors are and no two share an address.
THEOREM ValuesAreItsOwn == Spec => []ValuesOfTheSensor
<1>1. IInv => ValuesOfTheSensor
  BY DEF IInv
<1>2. QED
  BY <1>1, Inductive, PTL

------------------------------------------------------------------------------
(* The table and the round, while the shell keeps away *)

\* While the scanner is at work and the shell has kept away, the shell is at rest and
\* nobody has switched the power off.  The scan begins with an empty table.
QuietInv ==
  /\ scannerAt = "boot" => sensors = <<>>
  /\ io["shell"].at \in {"free", "break", "wait"}
  /\ shellAt = "idle" => io["shell"].at = "free"
  /\ scannerAt \in {"scan", "round", "measure"} /\ trouble # "shell" => shellAt = "idle" /\ power

\* What a sensor at the address i says when it is asked for its identity.
Here == {l \in Replies : where[l.of] = i /\ l.cmd.ask = "I"}

\* The scan, with the shell away: one answer at most is on its way, from the address asked.
ScanInv ==
  scannerAt = "scan" /\ trouble # "shell" =>
    /\ Sc.at # "wait" => coming = <<>>
    /\ Sc.at # "free" => Sc.cmd = Ask(i, "I")
    /\ Sc.at = "wait" => /\ Sc.buf = <<>> /\ Len(coming) + Len(line) <= 1
                         /\ coming \in Seq(Here) /\ line \in Seq(Here)
    /\ Sc.at = "got" => Sc.buf \in Seq(Here) /\ Sc.buf # <<>>
    /\ \A k \in DOMAIN sensors : AtItsAddress(sensors[k])

Found(s) == \E k \in DOMAIN sensors : sensors[k].sensor = s

\* ... and nothing lost: who has been asked is in the table, and where nothing answers
\* nobody is.
FoundInv ==
  scannerAt = "scan" /\ trouble = "none" /\ IsInjective(where) =>
    /\ \A s \in Known : where[s] < i => Found(s)
    /\ Sc.at = "none" \/ (Sc.at = "wait" /\ coming = <<>> /\ line = <<>>) =>
         \A s \in Known : where[s] # i

\* What the scanner waits for in a round.
Wanted == {l \in Replies : l.whole /\ l.cmd = Sc.cmd /\ (Sc.cmd.ask # "M" => l.values)}

\* The sensor asked answers the command it is given.
SuitsSensor(c, s) ==
  /\ c.new = c.to /\ c.ask \in {"R", "M", "D"}
  /\ c.ask = "R" => s \in Direct
  /\ c.ask \in {"M", "D"} => s \in TwoStep

\* A round nothing disturbs: there is a sample of each sensor before the one at i, and
\* its answer is on its way or read.
SampleInv ==
  scannerAt \in {"round", "measure"} /\ trouble = "none" /\ TableHolds =>
    /\ Len(sent) = i - 1 /\ i <= Len(sensors) + 1
    /\ \A k \in DOMAIN sent : sent[k].sensor = sensors[k].sensor
    /\ scannerAt = "round" /\ Sc.at \in {"free", "break"} => coming = <<>>
    /\ Sc.at # "none"
    /\ scannerAt = "measure" => sensors[i].sensor \in ready
    /\ scannerAt = "round" /\ Sc.at # "free" =>
         /\ SuitsSensor(Sc.cmd, sensors[i].sensor)
         /\ Sc.cmd.ask = "D" \/ (Sc.cmd.ask = "M" /\ Sc.at # "break") => sensors[i].sensor \in ready
    /\ scannerAt = "round" /\ Sc.at = "wait" =>
         /\ Sc.buf = <<>>
         /\ \/ line # <<>> /\ line[1] \in Wanted
            \/ line = <<>> /\ coming # <<>> /\ coming[1] \in Wanted
         /\ Sc.cmd.ask # "M" => Len(line) + Len(coming) = 1
    /\ scannerAt = "round" /\ Sc.at = "got" /\ Sc.cmd.ask # "M" =>
         coming = <<>> /\ Sc.buf \in Seq(Wanted)

\* What the driver does for the scanner.
LEMMA ScannerDrives ==
  ASSUME BusTypeOK, Driver("scanner")
  PROVE  /\ UNCHANGED <<power, shellAt, trouble, io["shell"]>>
         /\ \/ /\ Sc.at = "break" /\ Sc' = [Sc EXCEPT !.at = "wait"]
               /\ line' = <<>> /\ Write("scanner")
            \/ /\ Sc.at = "wait" /\ line # <<>> /\ line' = <<>> /\ UNCHANGED <<coming, where, moved, ready>>
               /\ \/ /\ Matches("scanner", Sc.buf \o line)
                     /\ Sc' = [Sc EXCEPT !.at = "got", !.buf = Sc.buf \o line]
                  \/ /\ ~Matches("scanner", Sc.buf \o line)
                     /\ \/ Sc' = [Sc EXCEPT !.buf = Sc.buf \o line]
                        \/ Sc' = [Sc EXCEPT !.at = "none", !.buf = <<>>]
            \/ /\ Sc.at = "wait" /\ line = <<>> /\ coming = <<>> /\ Sc' = [Sc EXCEPT !.at = "none", !.buf = <<>>]
               /\ UNCHANGED <<coming, line, where, moved, ready>>
<1>1. io \in [Masters -> IoTypes]
  BY DEF BusTypeOK, IoTypes
<1>2. CASE FlushAndWrite("scanner")
  BY <1>1, <1>2 DEF FlushAndWrite, Sc
<1>3. CASE Read("scanner")
  BY <1>1, <1>3 DEF Read, Return, Sc
<1>4. CASE Timeout("scanner")
  BY <1>1, <1>4 DEF Timeout, Return, Sc
<1>5. QED
  BY <1>2, <1>3, <1>4 DEF Driver

\* A command that changes no address is answered by a sensor it is for, if there is one.
LEMMA WriteAnswered ==
  ASSUME BusTypeOK, power, Write("scanner"), Sc.cmd.new = Sc.cmd.to
  PROVE  /\ UNCHANGED <<where, moved>>
         /\ \/ Hearers(Sc.cmd) = {} /\ UNCHANGED <<coming, ready>>
            \/ \E s \in Hearers(Sc.cmd) :
                 /\ \/ coming' = Append(coming, Reply(s, Sc.cmd))
                    \/ Sc.cmd.ask = "M" /\ coming' = coming \o <<Reply(s, Sc.cmd), Request(s)>>
                 /\ ready' = IF Sc.cmd.ask = "M" THEN ready \cup {s} ELSE ready
<1>1. where \in [Sensors -> Addrs] /\ moved \in BOOLEAN
  BY DEF BusTypeOK
<1>2. Measured("scanner") = {ready}
  BY DEF Measured
<1>3. CASE Hearers(Sc.cmd) = {}
  BY <1>2, <1>3 DEF Write, Sc
<1>4. CASE Hearers(Sc.cmd) # {}
  <2>1. PICK s \in Hearers(Sc.cmd) :
          /\ \/ coming' = Append(coming, Reply(s, Sc.cmd))
             \/ Sc.cmd.ask = "M" /\ coming' = coming \o <<Reply(s, Sc.cmd), Request(s)>>
          /\ where' = [where EXCEPT ![s] = Sc.cmd.new]
          /\ ready' = IF Sc.cmd.ask = "M" THEN ready \cup {s} ELSE ready
          /\ moved' = (moved \/ Sc.cmd.new # Sc.cmd.to)
    BY <1>2, <1>4 DEF Write, Sc
  <2>2. s \in Sensors /\ where[s] = Sc.cmd.to
    BY DEF Hearers
  <2>3. UNCHANGED <<where, moved>>
    BY <1>1, <2>1, <2>2
  <2>4. QED
    BY <2>1, <2>3
<1>5. QED
  BY <1>3, <1>4

\* A step of the shell while the scanner is at work is trouble.
LEMMA ShellTroubles ==
  ASSUME BusTypeOK, QuietInv, Shell, scannerAt \in {"scan", "round", "measure"}
  PROVE  trouble' = "shell"
<1>1. CASE ShellBegin \/ ShellAborted
  BY <1>1 DEF ShellBegin, ShellAborted
<1>2. CASE ShellCommand \/ ShellEnd
  BY <1>2 DEF ShellCommand, ShellEnd, QuietInv
<1>3. CASE Driver("shell")
  BY <1>3 DEF Driver, FlushAndWrite, Read, Timeout, QuietInv
<1>4. QED
  BY <1>1, <1>2, <1>3 DEF Shell

\* The other threads touch nothing of the bus and the round.
LEMMA EventsTouchNothing ==
  ASSUME Prompt \/ BootContinue \/ ClockEvent \/ TakeSampleNow \/ UNCHANGED vars
  PROVE  UNCHANGED <<busVars, scannerVars>>
BY DEF Prompt, BootContinue, ClockEvent, TakeSampleNow, vars

\* The shell keeps away from the bus, or there is trouble.
LEMMA QuietKept ==
  ASSUME IInv, QuietInv, [Next]_vars
  PROVE  QuietInv'
<1>1. BusTypeOK /\ io \in [Masters -> IoTypes] /\ RoundInv
  BY DEF IInv, TypeOK, BusTypeOK, IoTypes
<1>2. CASE Prompt \/ BootContinue \/ ClockEvent \/ TakeSampleNow \/ UNCHANGED vars
  BY <1>2, EventsTouchNothing DEF busVars, scannerVars, QuietInv
<1>3. CASE Shell /\ UNCHANGED Untouched
  <2>1. io'["shell"].at \in {"free", "break", "wait"} /\ (shellAt' = "idle" => io'["shell"].at = "free")
    <3>1. CASE ShellBegin \/ ShellAborted
      BY <3>1 DEF QuietInv, ShellBegin, ShellAborted
    <3>2. CASE ShellCommand
      BY <1>1, <3>2 DEF QuietInv, ShellCommand, Command
    <3>3. CASE ShellEnd
      BY <3>3 DEF QuietInv, ShellEnd, Resting, Done
    <3>4. CASE FlushAndWrite("shell")
      BY <1>1, <3>4 DEF QuietInv, FlushAndWrite
    <3>5. CASE Read("shell") \/ Timeout("shell")
      <4>1. UNCHANGED shellAt /\ io["shell"].at = "wait"
        BY <3>5 DEF Read, Timeout
      <4>2. io'["shell"].at \in {"free", "wait"}
        BY <1>1, <3>5 DEF Read, Timeout, Return, Free, IoTypes
      <4>3. QED
        BY <4>1, <4>2 DEF QuietInv
    <3>6. QED
      BY <1>3, <3>1, <3>2, <3>3, <3>4, <3>5 DEF Shell, Driver
  <2>2. scannerAt' \in {"scan", "round", "measure"} => trouble' = "shell"
    BY <1>1, <1>3, ShellTroubles DEF Untouched, scannerVars
  <2>3. UNCHANGED <<scannerAt, sensors>>
    BY <1>3 DEF Untouched, scannerVars
  <2>4. QED
    BY <2>1, <2>2, <2>3 DEF QuietInv
<1>4. CASE (Arrive \/ Garble) /\ UNCHANGED Untouched
  BY <1>4 DEF QuietInv, Arrive, Garble, Untouched, scannerVars
<1>5. CASE Driver("scanner") /\ UNCHANGED Untouched
  BY <1>1, <1>5, ScannerDrives DEF QuietInv, Untouched, scannerVars
<1>6. CASE BootScan \/ StartRound
  BY <1>1, <1>6 DEF QuietInv, BusTypeOK, BootScan, StartRound, PowerOn, Trouble, Others
<1>7. CASE Identify \/ ReadSensor \/ GetValues
  BY <1>1, <1>7 DEF QuietInv, Identify, ReadSensor, GetValues, Command, Others, scannerVars
<1>8. CASE Identified \/ Measuring \/ PublishValues \/ PassOver
  BY <1>1, <1>8 DEF QuietInv, Identified, Measuring, PublishValues, PassOver, ioFree, Others
<1>9. CASE ScanEnds \/ ClockWait \/ EndRound
  BY <1>9 DEF QuietInv, ScanEnds, ClockWait, EndRound, PowerOff, Others, busVars
<1>10. QED
  BY <1>2, <1>3, <1>4, <1>5, <1>6, <1>7, <1>8, <1>9 DEF Next, Scanner

\* A table entry is right after a step that moves no sensor and adds none.
LEMMA SameTable ==
  ASSUME UNCHANGED <<where, sensors>>, \A k \in DOMAIN sensors : AtItsAddress(sensors[k])
  PROVE  (\A k \in DOMAIN sensors : AtItsAddress(sensors[k]))'
BY DEF AtItsAddress

\* What is read during the scan is read as one answer from the address asked.
LEMMA ScanDriven ==
  ASSUME IInv, QuietInv, ScanInv, Driver("scanner"), UNCHANGED Untouched
  PROVE  ScanInv'
<1> SUFFICES ASSUME scannerAt' = "scan", trouble' # "shell"
             PROVE  ScanInv'
  BY DEF ScanInv
<1>1. BusTypeOK /\ Sc \in IoTypes /\ line \in Seq(Replies) /\ coming \in Seq(Replies) /\ RoundInv
      /\ i \in Nat /\ where \in [Sensors -> Addrs]
  BY DEF IInv, TypeOK, BusTypeOK, IoTypes, Sc
<1>2. UNCHANGED <<scannerAt, i, sensors, trouble, power, shellAt>>
  BY <1>1, ScannerDrives DEF Untouched, scannerVars
<1>3. scannerAt = "scan" /\ trouble # "shell" /\ power
  BY <1>2 DEF QuietInv
<1>4. CASE Sc.at = "break" /\ Sc' = [Sc EXCEPT !.at = "wait"] /\ line' = <<>> /\ Write("scanner")
  <2>1. Sc.cmd = Ask(i, "I") /\ coming = <<>> /\ Sc.buf = <<>>
    BY <1>1, <1>3, <1>4 DEF ScanInv, RoundInv
  <2>2. Sc'.cmd = Ask(i, "I") /\ Sc'.buf = <<>> /\ Sc'.at = "wait"
    BY <1>1, <1>4, <2>1 DEF IoTypes
  <2>3. Sc.cmd.to = i /\ Sc.cmd.new = i /\ Sc.cmd.ask = "I"
    BY <2>1 DEF Ask
  <2>4. UNCHANGED where /\ UNCHANGED Here
    BY <1>1, <1>2, <1>3, <1>4, <2>3, WriteAnswered DEF Here
  <2>5. coming' = <<>> \/ \E s \in Hearers(Sc.cmd) : coming' = <<Reply(s, Sc.cmd)>>
    BY <1>1, <1>3, <1>4, <2>1, <2>3, WriteAnswered
  <2>6. ASSUME NEW s \in Hearers(Sc.cmd) PROVE Reply(s, Sc.cmd) \in Here
    <3>1. s \in Sensors /\ where[s] = i /\ Sc.cmd \in Commands
      BY <1>1, <2>3 DEF Hearers, IoTypes
    <3>2. Reply(s, Sc.cmd) \in Replies
      BY <1>1, <3>1, ReplyType
    <3>3. Reply(s, Sc.cmd).of = s /\ Reply(s, Sc.cmd).cmd = Sc.cmd
      BY DEF Reply
    <3>4. QED
      BY <2>3, <3>1, <3>2, <3>3 DEF Here
  <2>7. coming' \in Seq(Here') /\ Len(coming') <= 1
    <3>1. CASE coming' = <<>>
      BY <3>1
    <3>2. ASSUME NEW s \in Hearers(Sc.cmd), coming' = <<Reply(s, Sc.cmd)>>
          PROVE  coming' \in Seq(Here') /\ Len(coming') <= 1
      <4> DEFINE l == Reply(s, Sc.cmd)
      <4>1. l \in Here'
        BY <2>4, <2>6
      <4> HIDE DEF l, Here
      <4>2. <<l>> \in Seq(Here') /\ Len(<<l>>) = 1
        BY <4>1
      <4>3. QED
        BY <3>2, <4>2 DEF l
    <3>3. QED
      BY <2>5, <3>1, <3>2
  <2>8. line' \in Seq(Here') /\ Len(coming') + Len(line') <= 1
    BY <1>4, <2>7
  <2>9. QED
    BY <1>2, <1>3, <2>2, <2>4, <2>7, <2>8, SameTable DEF ScanInv
<1>5. CASE /\ Sc.at = "wait" /\ line # <<>> /\ line' = <<>> /\ UNCHANGED <<coming, where, moved, ready>>
           /\ \/ /\ Matches("scanner", Sc.buf \o line)
                 /\ Sc' = [Sc EXCEPT !.at = "got", !.buf = Sc.buf \o line]
              \/ /\ ~Matches("scanner", Sc.buf \o line)
                 /\ \/ Sc' = [Sc EXCEPT !.buf = Sc.buf \o line]
                    \/ Sc' = [Sc EXCEPT !.at = "none", !.buf = <<>>]
  <2>1. /\ Sc.cmd = Ask(i, "I") /\ Sc.buf = <<>> /\ Len(coming) + Len(line) <= 1
        /\ coming \in Seq(Here) /\ line \in Seq(Here)
    BY <1>3, <1>5 DEF ScanInv
  <2>2. Sc.buf \o line = line /\ Len(coming) = 0 /\ coming = <<>>
    BY <1>1, <1>5, <2>1
  <2>3. Matches("scanner", line)
    BY <1>5, <2>1 DEF Matches, Ask, Sc
  <2>4. Sc'.at = "got" /\ Sc'.buf = line /\ Sc'.cmd = Sc.cmd
    BY <1>1, <1>5, <2>2, <2>3 DEF IoTypes
  <2>5. UNCHANGED Here
    BY <1>2, <1>5 DEF Here
  <2>6. QED
    BY <1>2, <1>3, <1>5, <2>1, <2>2, <2>4, <2>5, SameTable DEF ScanInv
<1>6. CASE /\ Sc.at = "wait" /\ line = <<>> /\ coming = <<>> /\ Sc' = [Sc EXCEPT !.at = "none", !.buf = <<>>]
           /\ UNCHANGED <<coming, line, where, moved, ready>>
  <2>1. Sc'.at = "none" /\ Sc'.cmd = Sc.cmd
    BY <1>1, <1>6 DEF IoTypes
  <2>2. QED
    BY <1>2, <1>3, <1>6, <2>1, SameTable DEF ScanInv
<1>7. QED
  BY <1>1, <1>4, <1>5, <1>6, ScannerDrives

\* The scan at boot takes no answer for another address than the one asked.
LEMMA ScanKept ==
  ASSUME IInv, QuietInv, ScanInv, [Next]_vars
  PROVE  ScanInv'
<1> SUFFICES ASSUME scannerAt' = "scan", trouble' # "shell"
             PROVE  ScanInv'
  BY DEF ScanInv
<1>1. BusTypeOK /\ Sc \in IoTypes /\ io \in [Masters -> IoTypes] /\ line \in Seq(Replies)
      /\ coming \in Seq(Replies) /\ RoundInv /\ i \in Nat
      /\ sensors \in Seq([addr : Addrs, sensor : Known]) /\ where \in [Sensors -> Addrs]
  BY DEF IInv, TypeOK, BusTypeOK, IoTypes, Sc
<1>2. CASE Prompt \/ BootContinue \/ ClockEvent \/ TakeSampleNow \/ UNCHANGED vars
  <2>1. UNCHANGED <<scannerAt, i, sensors, trouble, Sc, coming, line, where, Here>>
    BY <1>2, EventsTouchNothing DEF busVars, scannerVars, Sc, Here
  <2>2. QED
    BY <2>1, SameTable DEF ScanInv
<1>3. CASE Shell /\ UNCHANGED Untouched
  BY <1>1, <1>3, ShellTroubles DEF Untouched, scannerVars
<1>4. CASE (Arrive \/ Garble) /\ UNCHANGED Untouched
  <2>1. /\ UNCHANGED <<scannerAt, i, sensors, Sc, where, Here>> /\ trouble # "shell"
        /\ coming # <<>> /\ coming' = Tail(coming)
        /\ line' \in {line, Append(line, Head(coming)), Append(line, [Head(coming) EXCEPT !.whole = FALSE])}
    BY <1>4 DEF Arrive, Garble, Untouched, scannerVars, Sc, Here
  <2>2. Sc.at = "wait" /\ Sc.buf = <<>> /\ Len(coming) + Len(line) <= 1 /\ coming \in Seq(Here)
        /\ line \in Seq(Here)
    BY <2>1 DEF ScanInv
  <2>3. Head(coming) \in Here /\ Tail(coming) \in Seq(Here)
    <3> HIDE DEF Here
    <3>1. QED
      BY <2>1, <2>2
  <2>4. [Head(coming) EXCEPT !.whole = FALSE] \in Here
    BY <2>3 DEF Here, Replies
  <2>5. line' \in Seq(Here) /\ Len(line') <= Len(line) + 1 /\ Len(coming') = Len(coming) - 1
    <3> HIDE DEF Here
    <3>1. \A l \in Here : Append(line, l) \in Seq(Here) /\ Len(Append(line, l)) = Len(line) + 1
      BY <2>2
    <3>2. QED
      BY <2>1, <2>2, <2>3, <2>4, <3>1
  <2>6. Len(coming') + Len(line') <= 1
    BY <2>2, <2>5
  <2>7. QED
    BY <2>1, <2>2, <2>3, <2>5, <2>6, SameTable DEF ScanInv
<1>5. CASE Driver("scanner") /\ UNCHANGED Untouched
  BY <1>5, ScanDriven
<1>6. CASE BootScan
  <2>1. coming = <<>> /\ coming' = <<>> /\ UNCHANGED <<io, sensors, where>> /\ scannerAt = "boot"
    BY <1>6 DEF BootScan, Trouble, Others
  <2>2. Sc'.at = "free" /\ sensors = <<>>
    BY <1>1, <2>1 DEF RoundInv, Sc, QuietInv
  <2>3. QED
    BY <2>1, <2>2 DEF ScanInv, AtItsAddress
<1>7. CASE Identify
  <2>1. /\ scannerAt = "scan" /\ Sc.at = "free" /\ Command("scanner", Ask(i, "I"))
        /\ UNCHANGED <<scannerAt, i, sensors, trouble, coming, where>>
    BY <1>7 DEF Identify, Others, scannerVars, Sc
  <2>2. Sc' = [at |-> "break", cmd |-> Ask(i, "I"), buf |-> <<>>]
    BY <1>1, <2>1 DEF Command, Sc
  <2>3. Sc'.at = "break" /\ Sc'.cmd = Ask(i, "I")
    BY <2>2
  <2>4. coming' = <<>>
    BY <2>1 DEF ScanInv
  <2>5. QED
    BY <2>1, <2>3, <2>4, SameTable DEF ScanInv
<1>8. CASE Identified
  <2>1. /\ scannerAt = "scan" /\ Sc.at \in {"got", "none"} /\ ioFree
        /\ UNCHANGED <<trouble, coming, where>>
        /\ \/ UNCHANGED sensors
           \/ Sc.at = "got" /\ sensors' = Append(sensors, [addr |-> i, sensor |-> Sc.buf[1].of])
    BY <1>8 DEF Identified, Done, Others, Sc
  <2>2. Sc'.at = "free" /\ coming' = <<>>
    BY <1>1, <2>1 DEF ioFree, Sc, Free, ScanInv
  <2>3. ASSUME Sc.at = "got" PROVE where[Sc.buf[1].of] = i
    <3>1. Sc.buf \in Seq(Here) /\ Sc.buf # <<>>
      BY <2>1, <2>3 DEF ScanInv
    <3>2. Sc.buf[1] \in Here
      <4> HIDE DEF Here
      <4>1. QED
        BY <3>1
    <3>3. QED
      BY <3>2 DEF Here
  <2>4. \A k \in DOMAIN sensors : where[sensors[k].sensor] = sensors[k].addr
    BY <2>1 DEF ScanInv, AtItsAddress
  <2>5. (\A k \in DOMAIN sensors : AtItsAddress(sensors[k]))'
    <3>1. CASE UNCHANGED sensors
      BY <2>1, <2>4, <3>1 DEF AtItsAddress
    <3>2. CASE Sc.at = "got" /\ sensors' = Append(sensors, [addr |-> i, sensor |-> Sc.buf[1].of])
      <4> SUFFICES ASSUME NEW k \in DOMAIN sensors' PROVE where[sensors'[k].sensor] = sensors'[k].addr
        BY <2>1 DEF AtItsAddress
      <4>1. CASE k \in DOMAIN sensors
        <5>1. sensors'[k] = sensors[k]
          BY <1>1, <3>2, <4>1
        <5>2. QED
          BY <2>4, <4>1, <5>1
      <4>2. CASE k \notin DOMAIN sensors
        <5>1. sensors'[k] = [addr |-> i, sensor |-> Sc.buf[1].of]
          BY <1>1, <3>2, <4>2
        <5>2. QED
          BY <2>3, <3>2, <5>1
      <4>3. QED
        BY <4>1, <4>2
    <3>3. QED
      BY <2>1, <3>1, <3>2
  <2>6. QED
    BY <2>2, <2>5 DEF ScanInv
<1>9. CASE ScanEnds \/ ClockWait \/ StartRound \/ ReadSensor \/ Measuring \/ GetValues
           \/ PublishValues \/ PassOver \/ EndRound
  BY <1>9 DEF ScanEnds, ClockWait, StartRound, ReadSensor, Measuring, GetValues, PublishValues, PassOver,
              EndRound, scannerVars
<1>10. QED
  BY <1>2, <1>3, <1>4, <1>5, <1>6, <1>7, <1>8, <1>9 DEF Next, Scanner

\* No sensor that answers is missed, if nothing is lost on the line.
LEMMA FoundKept ==
  ASSUME IInv, QuietInv, ScanInv, FoundInv, [Next]_vars
  PROVE  FoundInv'
<1> SUFFICES ASSUME scannerAt' = "scan", trouble' = "none", IsInjective(where')
             PROVE  FoundInv'
  BY DEF FoundInv
<1>1. BusTypeOK /\ Sc \in IoTypes /\ io \in [Masters -> IoTypes] /\ line \in Seq(Replies)
      /\ coming \in Seq(Replies) /\ RoundInv /\ i \in Nat /\ Known \subseteq Sensors
      /\ sensors \in Seq([addr : Addrs, sensor : Known]) /\ where \in [Sensors -> Addrs]
  BY BusAssumption DEF IInv, TypeOK, BusTypeOK, IoTypes, Sc, Known
<1>2. CASE Prompt \/ BootContinue \/ ClockEvent \/ TakeSampleNow \/ UNCHANGED vars
  <2>1. UNCHANGED <<scannerAt, i, sensors, trouble, Sc, coming, line, where>>
    BY <1>2, EventsTouchNothing DEF busVars, scannerVars, Sc
  <2>2. QED
    BY <2>1 DEF FoundInv, Found
<1>3. CASE Shell /\ UNCHANGED Untouched
  BY <1>1, <1>3, ShellTroubles DEF Untouched, scannerVars
<1>4. CASE (Arrive \/ Garble) /\ UNCHANGED Untouched
  <2>1. /\ UNCHANGED <<scannerAt, i, sensors, Sc, where>> /\ trouble = "none" /\ coming # <<>>
        /\ line' = Append(line, Head(coming))
    BY <1>1, <1>4 DEF Arrive, Garble, Untouched, scannerVars, Sc, BusTypeOK
  <2>2. line' # <<>>
    BY <1>1, <2>1
  <2>3. Sc.at = "wait"
    BY <2>1 DEF ScanInv
  <2>4. QED
    BY <2>1, <2>2, <2>3 DEF FoundInv, Found
<1>5. CASE Driver("scanner") /\ UNCHANGED Untouched
  <2>1. UNCHANGED <<scannerAt, i, sensors, trouble>> /\ scannerAt = "scan" /\ trouble = "none" /\ power
    BY <1>1, <1>5, ScannerDrives DEF Untouched, scannerVars, QuietInv
  <2>2. Sc.at # "free" /\ Sc.cmd = Ask(i, "I")
    BY <1>1, <1>5, <2>1, ScannerDrives DEF ScanInv
  <2>3. Sc.cmd.to = i /\ Sc.cmd.new = i /\ Sc.cmd.ask = "I"
    BY <2>2 DEF Ask
  <2>4. UNCHANGED where
    BY <1>1, <1>5, <2>1, <2>3, ScannerDrives, WriteAnswered
  <2>5. ASSUME Sc'.at = "none" \/ (Sc'.at = "wait" /\ coming' = <<>> /\ line' = <<>>)
        PROVE  \A s \in Known : where[s] # i
    <3>1. CASE Sc.at = "break" /\ Sc' = [Sc EXCEPT !.at = "wait"] /\ line' = <<>> /\ Write("scanner")
      <4>1. ASSUME NEW s \in Hearers(Sc.cmd), coming' = Append(coming, Reply(s, Sc.cmd)) PROVE FALSE
        <5>1. coming' # <<>>
          BY <1>1, <4>1
        <5>2. Sc'.at = "wait"
          BY <1>1, <3>1 DEF IoTypes
        <5>3. QED
          BY <2>5, <5>1, <5>2
      <4>2. Hearers(Sc.cmd) = {}
        BY <1>1, <2>1, <2>3, <3>1, <4>1, WriteAnswered
      <4>3. QED
        BY <1>1, <2>1, <2>3, <4>2 DEF Hearers
    <3>2. CASE /\ Sc.at = "wait" /\ line # <<>> /\ line' = <<>>
               /\ \/ /\ Matches("scanner", Sc.buf \o line)
                     /\ Sc' = [Sc EXCEPT !.at = "got", !.buf = Sc.buf \o line]
                  \/ ~Matches("scanner", Sc.buf \o line)
      <4>1. Sc.buf \o line = line
        BY <1>1, <2>1, <3>2 DEF ScanInv
      <4>2. Matches("scanner", line)
        BY <2>3, <3>2 DEF Matches, Sc
      <4>3. Sc'.at = "got"
        BY <1>1, <3>2, <4>1, <4>2 DEF IoTypes
      <4>4. QED
        BY <2>5, <4>3
    <3>3. CASE Sc.at = "wait" /\ line = <<>> /\ coming = <<>>
      BY <2>1, <2>4, <3>3 DEF FoundInv
    <3>4. QED
      BY <1>1, <1>5, <3>1, <3>2, <3>3, ScannerDrives
  <2>6. QED
    BY <2>1, <2>4, <2>5 DEF FoundInv, Found
<1>6. CASE BootScan
  <2>1. i' = 0 /\ Sc'.at = "free"
    BY <1>1, <1>6 DEF BootScan, RoundInv, Sc
  <2>2. \A s \in Known : ~(where'[s] < 0)
    BY <1>1, <1>6 DEF BootScan, Others, Addrs
  <2>3. QED
    BY <2>1, <2>2 DEF FoundInv
<1>7. CASE Identify
  <2>1. /\ scannerAt = "scan" /\ Command("scanner", Ask(i, "I"))
        /\ UNCHANGED <<scannerAt, i, sensors, trouble, where>>
    BY <1>7 DEF Identify, Others, scannerVars
  <2>2. Sc' = [at |-> "break", cmd |-> Ask(i, "I"), buf |-> <<>>]
    BY <1>1, <2>1 DEF Command, Sc
  <2>3. Sc'.at = "break"
    BY <2>2
  <2>4. QED
    BY <2>1, <2>3 DEF FoundInv, Found
<1>8. CASE Identified
  <2>1. /\ scannerAt = "scan" /\ trouble = "none" /\ Sc.at \in {"got", "none"} /\ ioFree /\ i' = i + 1
        /\ UNCHANGED <<where, trouble>>
    BY <1>8 DEF Identified, Done, Others, Sc
  <2>2. Sc'.at = "free"
    BY <1>1, <2>1 DEF ioFree, Sc, Free
  <2>3. Sc.cmd.ask = "I"
    BY <2>1 DEF ScanInv, Ask
  <2>4. ASSUME NEW s \in Known, Found(s) PROVE Found(s)'
    <3>1. PICK k \in DOMAIN sensors : sensors[k].sensor = s
      BY <2>4 DEF Found
    <3>2. k \in DOMAIN sensors' /\ sensors'[k] = sensors[k]
      <4>1. sensors' = sensors \/ sensors' = Append(sensors, [addr |-> i, sensor |-> Sc.buf[1].of])
        BY <1>8 DEF Identified, Sc
      <4>2. QED
        BY <1>1, <4>1
    <3>3. QED
      BY <3>1, <3>2 DEF Found
  <2>5. ASSUME NEW s \in Known, where[s] = i PROVE Found(s)'
    <3>1. Sc.at = "got"
      BY <2>1, <2>5 DEF FoundInv
    <3>2. Sc.buf \in Seq(Here) /\ Sc.buf # <<>>
      BY <2>1, <3>1 DEF ScanInv
    <3>3. Sc.buf[1] \in Here
      <4> HIDE DEF Here
      <4>1. QED
        BY <3>2
    <3>4. Sc.buf[1].of = s /\ Sc.buf[1].cmd.ask = "I"
      <4>1. Sc.buf[1].of \in Sensors /\ where[Sc.buf[1].of] = i /\ Sc.buf[1].cmd.ask = "I"
        BY <3>3 DEF Here, Replies
      <4>2. IsInjective(where)
        BY <2>1
      <4>3. QED
        BY <1>1, <2>5, <4>1, <4>2 DEF IsInjective
    <3>5. sensors' = Append(sensors, [addr |-> i, sensor |-> s])
      BY <1>8, <3>1, <3>4 DEF Identified, Sc
    <3>6. sensors'[Len(sensors) + 1] = [addr |-> i, sensor |-> s] /\ Len(sensors) + 1 \in DOMAIN sensors'
      <4>1. [addr |-> i, sensor |-> s] \in [addr : Addrs, sensor : Known]
        BY <1>1, <2>5
      <4>2. QED
        BY <1>1, <3>5, <4>1
    <3>7. QED
      BY <3>6 DEF Found
  <2>6. ASSUME NEW s \in Known, where[s] < i' PROVE Found(s)'
    <3>1. where[s] \in Nat
      BY <1>1, BusAssumption DEF Addrs
    <3>2. where[s] < i \/ where[s] = i
      BY <1>1, <2>1, <2>6, <3>1
    <3>3. QED
      BY <2>1, <2>4, <2>5, <3>2 DEF FoundInv
  <2>7. QED
    BY <2>1, <2>2, <2>6 DEF FoundInv
<1>9. CASE ScanEnds \/ ClockWait \/ StartRound \/ ReadSensor \/ Measuring \/ GetValues
           \/ PublishValues \/ PassOver \/ EndRound
  BY <1>9 DEF ScanEnds, ClockWait, StartRound, ReadSensor, Measuring, GetValues, PublishValues, PassOver,
              EndRound, scannerVars
<1>10. QED
  BY <1>2, <1>3, <1>4, <1>5, <1>6, <1>7, <1>8, <1>9 DEF Next, Scanner

\* Of two sequences with one entry between them the second is empty if the first is not.
LEMMA OnlyOne ==
  ASSUME NEW S, NEW s \in Seq(S), NEW t \in Seq(S), s # <<>>, Len(s) + Len(t) = 1
  PROVE  t = <<>> /\ \A T : s[1] \in T => s \in Seq(T)
<1>1. Len(s) \in Nat /\ Len(t) \in Nat /\ Len(s) # 0 /\ (Len(t) = 0 => t = <<>>)
  OBVIOUS
<1>2. Len(s) = 1 /\ Len(t) = 0
  <2>1. \A m, n \in Nat : m + n = 1 /\ m # 0 => m = 1 /\ n = 0
    OBVIOUS
  <2>2. QED
    BY <1>1, <2>1
<1>3. ASSUME NEW T, s[1] \in T PROVE s \in Seq(T)
  <2>1. s = [k \in 1..1 |-> s[k]]
    BY <1>2
  <2>2. [k \in 1..1 |-> s[k]] \in [1..1 -> T]
    BY <1>3
  <2>3. QED
    BY <2>1, <2>2
<1>4. QED
  BY <1>1, <1>2, <1>3

\* The command of a round reaches the sensor it is for, and what is read is its answer.
LEMMA SampleDriven ==
  ASSUME IInv, QuietInv, SampleInv, Driver("scanner"), UNCHANGED Untouched
  PROVE  SampleInv'
<1> SUFFICES ASSUME scannerAt' \in {"round", "measure"}, trouble' = "none", TableHolds'
             PROVE  SampleInv'
  BY DEF SampleInv
<1>1. BusTypeOK /\ TypeOK /\ Sc \in IoTypes /\ line \in Seq(Replies) /\ coming \in Seq(Replies) /\ RoundInv
      /\ i \in Nat /\ Len(sensors) \in Nat /\ Known \subseteq Sensors /\ where \in [Sensors -> Addrs]
  BY BusAssumption DEF IInv, TypeOK, BusTypeOK, IoTypes, Sc, Known
<1>2. UNCHANGED <<scannerAt, i, sensors, sent, trouble, power, shellAt>>
  BY <1>1, <1>1, ScannerDrives DEF Untouched, scannerVars
<1>3. trouble = "none" /\ power /\ scannerAt = "round" /\ Sc.at # "free" /\ ~moved' /\ IsInjective(where')
  BY <1>1, <1>2, ScannerDrives DEF QuietInv, RoundInv, TableHolds
<1>4. 1 <= i /\ i <= Len(sensors) /\ Sc.cmd.to = sensors[i].addr
      /\ sensors[i] \in [addr : Addrs, sensor : Known] /\ i \in DOMAIN sensors
  BY <1>1, <1>3, TableEntry DEF RoundInv
<1> DEFINE s == sensors[i].sensor
<1>5. s \in Known /\ s \in Sensors
  BY <1>1, <1>4
<1>6. CASE Sc.at = "break" /\ Sc' = [Sc EXCEPT !.at = "wait"] /\ line' = <<>> /\ Write("scanner")
  <2>1. ~moved /\ UNCHANGED where
    BY <1>1, <1>3, <1>6, WriteFresh
  <2>2. TableHolds /\ where[s] = Sc.cmd.to /\ IsInjective(where)
    BY <1>2, <1>4, <2>1 DEF TableHolds, AtItsAddress
  <2>3. /\ SuitsSensor(Sc.cmd, s) /\ coming = <<>> /\ (Sc.cmd.ask = "D" => s \in ready)
    BY <1>2, <1>3, <1>6, <2>2 DEF SampleInv
  <2>4. Sc.buf = <<>> /\ Sc'.buf = <<>> /\ Sc'.cmd = Sc.cmd /\ Sc'.at = "wait" /\ UNCHANGED Wanted
    BY <1>1, <1>6 DEF RoundInv, IoTypes, Wanted
  <2>5. s \in Hearers(Sc.cmd)
    BY <1>3, <1>5, <2>2, <2>3 DEF Hearers, SuitsSensor
  <2>6. \A r \in Hearers(Sc.cmd) : r = s
    BY <1>1, <1>5, <2>2 DEF Hearers, IsInjective
  <2>7. /\ \/ coming' = <<Reply(s, Sc.cmd)>>
           \/ Sc.cmd.ask = "M" /\ coming' = <<Reply(s, Sc.cmd), Request(s)>>
        /\ ready' = IF Sc.cmd.ask = "M" THEN ready \cup {s} ELSE ready
    BY <1>1, <1>3, <1>6, <2>3, <2>5, <2>6, WriteAnswered DEF SuitsSensor
  <2>8. Reply(s, Sc.cmd) \in Wanted
    <3>1. Reply(s, Sc.cmd) \in Replies
      BY <1>1, <1>5, ReplyType DEF IoTypes
    <3>2. Reply(s, Sc.cmd).whole /\ Reply(s, Sc.cmd).cmd = Sc.cmd
          /\ Reply(s, Sc.cmd).values = (Sc.cmd.ask = "R" \/ (Sc.cmd.ask = "D" /\ s \in ready))
      BY DEF Reply
    <3>3. QED
      BY <2>3, <3>1, <3>2 DEF Wanted, SuitsSensor
  <2>9. coming' # <<>> /\ coming'[1] \in Wanted /\ (Sc.cmd.ask # "M" => Len(line') + Len(coming') = 1)
    BY <1>6, <2>7, <2>8
  <2>10. Sc.cmd.ask \in {"M", "D"} => s \in ready'
    BY <2>3, <2>7
  <2>11. Len(sent) = i - 1 /\ \A k \in DOMAIN sent : sent[k].sensor = sensors[k].sensor
    BY <1>2, <1>3, <2>2 DEF SampleInv
  <2>12. QED
    BY <1>1, <1>2, <1>3, <1>4, <1>6, <2>3, <2>4, <2>9, <2>10, <2>11 DEF SampleInv
<1>7. CASE /\ Sc.at = "wait" /\ line # <<>> /\ line' = <<>> /\ UNCHANGED <<coming, where, moved, ready>>
           /\ \/ /\ Matches("scanner", Sc.buf \o line)
                 /\ Sc' = [Sc EXCEPT !.at = "got", !.buf = Sc.buf \o line]
              \/ ~Matches("scanner", Sc.buf \o line)
  <2>1. TableHolds
    BY <1>2, <1>7 DEF TableHolds, AtItsAddress
  <2>2. /\ Sc.buf = <<>> /\ line[1] \in Wanted /\ (Sc.cmd.ask # "M" => Len(line) + Len(coming) = 1)
        /\ SuitsSensor(Sc.cmd, s) /\ (Sc.cmd.ask \in {"M", "D"} => s \in ready)
    BY <1>2, <1>3, <1>7, <2>1 DEF SampleInv
  <2>3. Sc.buf \o line = line /\ 1 \in DOMAIN line
    BY <1>1, <1>7, <2>2
  <2>4. Matches("scanner", line)
    BY <2>2, <2>3 DEF Matches, Expected, Wanted, Sc
  <2>5. Sc'.at = "got" /\ Sc'.buf = line /\ Sc'.cmd = Sc.cmd /\ UNCHANGED Wanted
    BY <1>1, <1>7, <2>3, <2>4 DEF IoTypes, Wanted
  <2>6. ASSUME Sc.cmd.ask # "M" PROVE coming = <<>> /\ line \in Seq(Wanted)
    <3>1. Len(line) + Len(coming) = 1 /\ line[1] \in Wanted
      BY <2>2, <2>6
    <3>2. QED
      BY <1>1, <1>7, <3>1, OnlyOne
  <2>7. Len(sent) = i - 1 /\ \A k \in DOMAIN sent : sent[k].sensor = sensors[k].sensor
    BY <1>2, <1>3, <2>1 DEF SampleInv
  <2>8. QED
    BY <1>1, <1>2, <1>3, <1>4, <1>7, <2>2, <2>5, <2>6, <2>7 DEF SampleInv
<1>8. CASE Sc.at = "wait" /\ line = <<>> /\ coming = <<>> /\ UNCHANGED <<where, moved>>
  <2>1. TableHolds
    BY <1>2, <1>8 DEF TableHolds, AtItsAddress
  <2>2. QED
    BY <1>2, <1>3, <1>8, <2>1 DEF SampleInv
<1>9. QED
  BY <1>1, <1>6, <1>7, <1>8, ScannerDrives

\* A sample is published for the next sensor, and none is passed over.
LEMMA SamplePublished ==
  ASSUME IInv, SampleInv, PublishValues \/ PassOver
  PROVE  SampleInv'
<1> SUFFICES ASSUME trouble' = "none", TableHolds'
             PROVE  SampleInv'
  BY DEF SampleInv
<1>1. BusTypeOK /\ TypeOK /\ Sc \in IoTypes /\ RoundInv /\ io \in [Masters -> IoTypes]
      /\ i \in Nat /\ Len(sensors) \in Nat
      /\ sent \in Seq([sensor : Known, of : Sensors])
  BY DEF IInv, TypeOK, BusTypeOK, IoTypes, Sc
<1>2. /\ scannerAt = "round" /\ Sc.at \in {"got", "none"} /\ i' = i + 1 /\ ioFree
      /\ UNCHANGED <<scannerAt, sensors, where, moved, trouble, coming>>
  BY DEF PublishValues, PassOver, Others, Sc
<1>3. TableHolds
  BY <1>2 DEF TableHolds, AtItsAddress
<1>4. /\ Len(sent) = i - 1 /\ Sc.at = "got"
      /\ \A k \in DOMAIN sent : sent[k].sensor = sensors[k].sensor
      /\ Sc.cmd.ask # "M" => coming = <<>> /\ Sc.buf \in Seq(Wanted)
  BY <1>2, <1>3 DEF SampleInv
<1>5. 1 <= i /\ i <= Len(sensors) /\ Sc.cmd.ask # "I"
  BY <1>1, <1>2, <1>4 DEF RoundInv
<1>6. Sc.cmd.ask # "M" => Parsed \in Wanted
  BY <1>1, <1>4, <1>5, ParsedLine
<1>7. ~PassOver
  BY <1>4, <1>6 DEF PassOver, Wanted, Sc
<1>8. coming' = <<>> /\ sent' = Append(sent, [sensor |-> sensors[i].sensor, of |-> Parsed.of])
  BY <1>2, <1>4, <1>7 DEF PublishValues, Sc
<1>9. Sc'.at = "free"
  BY <1>1, <1>2 DEF ioFree, Sc, Free
<1>10. [sensor |-> sensors[i].sensor, of |-> Parsed.of] \in [sensor : Known, of : Sensors]
  <2>1. Parsed \in Replies
    BY <1>1, <1>4, <1>5, ParsedLine
  <2>2. QED
    BY <1>1, <1>5, <2>1, TableEntry DEF Replies
<1>11. Len(sent') = i' - 1 /\ i' <= Len(sensors') + 1
  BY <1>1, <1>2, <1>4, <1>5, <1>8, <1>10
<1>12. ASSUME NEW k \in DOMAIN sent' PROVE sent'[k].sensor = sensors'[k].sensor
  <2>1. CASE k \in DOMAIN sent
    <3>1. sent'[k] = sent[k]
      BY <1>1, <1>8, <1>10, <2>1
    <3>2. QED
      BY <1>2, <1>4, <2>1, <3>1
  <2>2. CASE k \notin DOMAIN sent
    <3>1. k = i /\ sent'[k] = [sensor |-> sensors[i].sensor, of |-> Parsed.of]
      BY <1>1, <1>4, <1>8, <1>10, <1>12, <2>2
    <3>2. QED
      BY <1>2, <3>1
  <2>3. QED
    BY <2>1, <2>2
<1>13. QED
  BY <1>2, <1>8, <1>9, <1>11, <1>12 DEF SampleInv

\* A round nothing disturbs takes the sensors one after the other.
LEMMA SampleKept ==
  ASSUME IInv, QuietInv, SampleInv, [Next]_vars
  PROVE  SampleInv'
<1> SUFFICES ASSUME scannerAt' \in {"round", "measure"}, trouble' = "none", TableHolds'
             PROVE  SampleInv'
  BY DEF SampleInv
<1>1. BusTypeOK /\ TypeOK /\ Sc \in IoTypes /\ line \in Seq(Replies) /\ coming \in Seq(Replies) /\ RoundInv
      /\ io \in [Masters -> IoTypes] /\ i \in Nat /\ Len(sensors) \in Nat
  BY DEF IInv, TypeOK, BusTypeOK, IoTypes, Sc
<1>2. CASE Prompt \/ BootContinue \/ ClockEvent \/ TakeSampleNow \/ UNCHANGED vars
  <2>1. UNCHANGED <<scannerAt, i, sensors, sent, trouble, Sc, coming, line, where, moved, ready, Wanted>>
    BY <1>2, EventsTouchNothing DEF busVars, scannerVars, Sc, Wanted
  <2>2. TableHolds
    BY <2>1 DEF TableHolds, AtItsAddress
  <2>3. QED
    BY <2>1, <2>2 DEF SampleInv
<1>3. CASE Shell /\ UNCHANGED Untouched
  BY <1>1, <1>3, ShellTroubles DEF Untouched, scannerVars
<1>4. CASE (Arrive \/ Garble) /\ UNCHANGED Untouched
  <2>1. /\ UNCHANGED <<scannerAt, i, sensors, sent, Sc, where, moved, ready, Wanted>> /\ trouble = "none"
        /\ coming # <<>> /\ coming' = Tail(coming) /\ line' = Append(line, Head(coming))
    BY <1>1, <1>4 DEF Arrive, Garble, Untouched, scannerVars, Sc, BusTypeOK, Wanted
  <2>2. TableHolds
    BY <2>1 DEF TableHolds, AtItsAddress
  <2>3. Len(line') = Len(line) + 1 /\ Len(coming') = Len(coming) - 1 /\ line' # <<>>
        /\ (line # <<>> => line'[1] = line[1]) /\ (line = <<>> => line'[1] = coming[1])
    BY <1>1, <2>1
  <2>4. Len(line) + Len(coming) = 1 => Len(line') + Len(coming') = 1
    BY <1>1, <2>3
  <2>5. CASE scannerAt = "round" /\ Sc.at = "wait"
    <3>1. line'[1] \in Wanted
      BY <2>1, <2>2, <2>3, <2>5 DEF SampleInv
    <3>2. QED
      BY <2>1, <2>2, <2>3, <2>4, <2>5, <3>1 DEF SampleInv
  <2>6. CASE ~(scannerAt = "round" /\ Sc.at = "wait")
    BY <2>1, <2>2, <2>6 DEF SampleInv
  <2>7. QED
    BY <2>5, <2>6
<1>5. CASE Driver("scanner") /\ UNCHANGED Untouched
  BY <1>5, SampleDriven
<1>6. CASE StartRound
  <2>1. i' = 1 /\ sent' = <<>> /\ coming' = <<>> /\ scannerAt' = "round" /\ UNCHANGED sensors
    BY <1>6 DEF StartRound, Trouble
  <2>2. Sc'.at = "free"
    BY <1>1, <1>6 DEF StartRound, RoundInv, Sc
  <2>3. QED
    BY <1>1, <2>1, <2>2 DEF SampleInv
<1>7. CASE ReadSensor
  <2>1. /\ scannerAt = "round" /\ Sc.at = "free" /\ i <= Len(sensors)
        /\ UNCHANGED <<scannerAt, i, sensors, sent, trouble, where, moved, coming, ready>>
    BY <1>7 DEF ReadSensor, Others, scannerVars, Sc
  <2>2. TableHolds
    BY <2>1 DEF TableHolds, AtItsAddress
  <2>3. sensors[i].sensor \in Known
    BY <1>1, <2>1, TableEntry DEF RoundInv
  <2>4. PICK w \in {"R", "M"} : /\ w = IF sensors[i].sensor \in Direct THEN "R" ELSE "M"
                                /\ Command("scanner", Ask(sensors[i].addr, w))
    BY <1>7 DEF ReadSensor
  <2>5. Sc' = [at |-> "break", cmd |-> Ask(sensors[i].addr, w), buf |-> <<>>]
    BY <1>1, <2>4 DEF Command, Sc
  <2>6. Sc'.at = "break" /\ Sc'.cmd.ask = w /\ SuitsSensor(Sc'.cmd, sensors[i].sensor)
    BY <2>3, <2>4, <2>5 DEF Ask, SuitsSensor, Known
  <2>7. QED
    BY <2>1, <2>2, <2>6 DEF SampleInv
<1>8. CASE Measuring
  <2>1. /\ scannerAt = "round" /\ scannerAt' = "measure" /\ Sc.at = "got" /\ Sc.cmd.ask = "M" /\ ioFree
        /\ UNCHANGED <<i, sensors, sent, trouble, where, moved, coming, ready>>
    BY <1>8 DEF Measuring, Others, Sc
  <2>2. TableHolds
    BY <2>1 DEF TableHolds, AtItsAddress
  <2>3. Sc'.at = "free"
    BY <1>1, <2>1 DEF ioFree, Sc, Free
  <2>4. QED
    BY <2>1, <2>2, <2>3 DEF SampleInv
<1>9. CASE GetValues
  <2>1. /\ scannerAt = "measure" /\ scannerAt' = "round" /\ Command("scanner", Ask(sensors[i].addr, "D"))
        /\ coming = <<>>
        /\ UNCHANGED <<i, sensors, sent, trouble, where, moved, coming, ready>>
    BY <1>9 DEF GetValues, Others
  <2>2. TableHolds
    BY <2>1 DEF TableHolds, AtItsAddress
  <2>3. sensors[i].sensor \in ready /\ sensors[i].sensor \in TwoStep
    BY <1>1, <2>1, <2>2 DEF SampleInv, BusTypeOK
  <2>4. Sc' = [at |-> "break", cmd |-> Ask(sensors[i].addr, "D"), buf |-> <<>>]
    BY <1>1, <2>1 DEF Command, Sc
  <2>5. Sc'.at = "break" /\ SuitsSensor(Sc'.cmd, sensors[i].sensor)
    BY <2>3, <2>4 DEF Ask, SuitsSensor
  <2>6. QED
    BY <2>1, <2>2, <2>3, <2>5 DEF SampleInv
<1>10. CASE PublishValues \/ PassOver
  BY <1>10, SamplePublished
<1>11. CASE BootScan \/ Identify \/ Identified \/ ScanEnds \/ ClockWait \/ EndRound
  BY <1>11 DEF BootScan, Identify, Identified, ScanEnds, ClockWait, EndRound, scannerVars
<1>12. QED
  BY <1>2, <1>3, <1>4, <1>5, <1>6, <1>7, <1>8, <1>9, <1>10, <1>11 DEF Next, Scanner

\* What holds of the scan and of a round while the shell keeps away (sdi12_scan.cpp:66-131).
THEOREM UndisturbedInductive == Spec => [](IInv /\ QuietInv /\ ScanInv /\ FoundInv /\ SampleInv)
<1>1. Init => QuietInv /\ ScanInv /\ FoundInv /\ SampleInv
  BY DEF Init, BusInit, Free, QuietInv, ScanInv, FoundInv, SampleInv
<1>2. IInv /\ QuietInv /\ ScanInv /\ FoundInv /\ SampleInv /\ [Next]_vars
        => (QuietInv /\ ScanInv /\ FoundInv /\ SampleInv)'
  BY QuietKept, ScanKept, FoundKept, SampleKept
<1>3. QED
  BY <1>1, <1>2, Inductive, PTL DEF Spec

\* The scan at boot looks at no address in an answer (sdi12_scan.cpp:118-130).  The table
\* is right all the same if the shell kept away, and complete if nothing was lost on the line
\* and no two sensors share an address.
THEOREM TablesAreRight == Spec => []TableIsRight
<1>1. IInv /\ ScanInv /\ FoundInv => TableIsRight
  <2> SUFFICES ASSUME IInv, ScanInv, FoundInv, scannerAt = "scan", Sc.at = "free"
               PROVE  TableIsRight
    BY DEF TableIsRight, Sc
  <2>1. i \in Nat /\ Len(sensors) \in Nat /\ where \in [Sensors -> Addrs] /\ Known \subseteq Sensors
    BY BusAssumption DEF IInv, TypeOK, BusTypeOK, Known
  <2>2. ASSUME trouble = "none", ~MoreAddresses, Len(sensors) < MaxSensors, IsInjective(where), NEW s \in Known
        PROVE  \E k \in DOMAIN sensors : sensors[k].sensor = s
    <3>1. LastAddr \in Nat /\ where[s] \in 0..LastAddr
      BY <2>1, BusAssumption DEF Addrs
    <3>2. ~(i <= LastAddr)
      BY <2>2 DEF MoreAddresses
    <3>3. where[s] < i
      BY <2>1, <3>1, <3>2
    <3>4. QED
      BY <2>2, <3>3 DEF FoundInv, Found
  <2>3. QED
    BY <2>2 DEF ScanInv, TableIsRight
<1>2. QED
  BY <1>1, UndisturbedInductive, PTL

\* A round nothing disturbs has a sample of every sensor, in the order of the table
\* (sdi12_scan.cpp:77-91).
THEOREM RoundsAreComplete == Spec => []RoundIsComplete
<1>1. IInv /\ SampleInv => RoundIsComplete
  <2> SUFFICES ASSUME IInv, SampleInv, scannerAt = "round", i > Len(sensors), trouble = "none", TableHolds
               PROVE  [k \in DOMAIN sent |-> sent[k].sensor] = [k \in DOMAIN sensors |-> sensors[k].sensor]
    BY DEF RoundIsComplete
  <2>1. i \in Nat /\ Len(sensors) \in Nat /\ DOMAIN sensors = 1..Len(sensors) /\ DOMAIN sent = 1..Len(sent)
    BY DEF IInv, TypeOK
  <2>2. Len(sent) = i - 1 /\ i <= Len(sensors) + 1 /\ \A k \in DOMAIN sent : sent[k].sensor = sensors[k].sensor
    BY DEF SampleInv
  <2>3. DOMAIN sent = DOMAIN sensors
    BY <2>1, <2>2
  <2>4. QED
    BY <2>2, <2>3
<1>2. QED
  BY <1>1, UndisturbedInductive, PTL
================================================================================
