------------------------------- MODULE Sdi12Bus -------------------------------
(***************************************************************************)
(* The SDI-12 bus: SDI12Bus (src/src/hardware/sdi12.cpp) with its UART,    *)
(* the sensors on it (external) and the commands of the shell.  The        *)
(* scanner and the shell use the bus, its power and its receive buffer     *)
(* without a lock.                                                         *)
(***************************************************************************)
EXTENDS Integers, Sequences, Functions

CONSTANTS
  Sensors,
  Direct,    \* sensors that answer aR0! or aXR0! with their values (Teros12, Solyx14)
  TwoStep,   \* sensors that measure on aM! and give the values on aD0! (Solinst)
  LastAddr,  \* the scans go from address 0 to this one
  ShellAsks, \* bound: what the shell asks a sensor
  MaxShell   \* bound: commands of the shell

ASSUME BusAssumption ==
  /\ Direct \cup TwoStep \subseteq Sensors /\ Direct \cap TwoStep = {}
  /\ {LastAddr, MaxShell} \subseteq Nat
  /\ ShellAsks \subseteq {"I", "R", "M", "D", "A"}

VARIABLES
  power,    \* pwr_ctrl_gpio_
  coming,   \* what is on the line and has not come in yet
  line,     \* the receive buffer of the UART; rcv_evt_ is set if there is something in it
  io,       \* of each master: where it is in cmd() and wait_for(), cmd_str and buffer
  todo,     \* the commands the shell has still to give
  shellAt,  \* the command of the shell
  given,    \* counts the commands of the shell
  where,    \* the addresses of the sensors
  ready,    \* sensors that hold the values of a measurement
  leftOn,   \* a command of the shell has ended without switching the power off
  moved,    \* an address has changed since the scan at boot
  trouble   \* what disturbs the round, or the scan at boot: the shell, or at least noise

busVars == <<power, coming, line, io, todo, shellAt, given, where, ready,
             leftOn, moved, trouble>>

Masters == {"scanner", "shell"}
Addrs   == 0..LastAddr
Known   == Direct \cup TwoStep

\* aI!, aR0! or aXR0!, aM!, aD0! and aAb!; "new" is the address an answer begins with.
\* ?!, which a sensor answers with its address, is an aAa!.
Commands == [to : Addrs, ask : {"I", "R", "M", "D", "A"}, new : Addrs]
Ask(a, what) == [to |-> a, ask |-> what, new |-> a]

\* What comes back: the echo of a command and the answer of a sensor to it.  A command that
\* is not answered has an echo too, without an end of line: nothing waits for that.
Reply(s, c) == [of |-> s, cmd |-> c, whole |-> TRUE,
                values |-> c.ask = "R" \/ (c.ask = "D" /\ s \in ready)]
\* A sensor that has measured says so with its address alone, as in an answer to ?!.
Request(s)  == [of |-> s, cmd |-> Ask(where[s], "A"), whole |-> FALSE, values |-> FALSE]
Replies     == [of : Sensors, cmd : Commands, whole : BOOLEAN, values : BOOLEAN]

Free == [at |-> "free", cmd |-> Ask(0, "I"), buf |-> <<>>]

BusInit ==
  /\ power = FALSE /\ coming = <<>> /\ line = <<>>
  /\ io = [m \in Masters |-> Free]
  /\ todo = <<>> /\ shellAt = "idle" /\ given = 0
  /\ where \in {w \in [Sensors -> Addrs] : \A s, r \in Sensors : w[s] = w[r] => s = r}
  /\ ready = {}
  /\ leftOn = FALSE /\ moved = FALSE /\ trouble = "none"

-----------------------------------------------------------------------------
(* The bus driver, called by a master m. *)

PowerOn == power' = TRUE

\* A sensor without power forgets its measurement and stops talking.
PowerOff ==
  /\ power' = FALSE /\ leftOn' = FALSE
  /\ ready' = {}
  /\ coming' = <<>>

Done(m)    == io[m].at \in {"got", "none"}
Resting(m) == io[m].at = "free" \/ Done(m)

\* cmd() begins with the break.
Command(m, c) ==
  /\ Resting(m)
  /\ io' = [io EXCEPT ![m] = [at |-> "break", cmd |-> c, buf |-> <<>>]]

\* The sensors that understand a command.
Hearers(c) ==
  {s \in Sensors : /\ power
                   /\ where[s] = c.to
                   /\ c.ask = "R" => s \in Direct
                   /\ c.ask \in {"M", "D"} => s \in TwoStep}

\* A break of the shell may end a measurement of the scanner, which waits for its own.
Measured(m) == IF m = "shell" THEN {ready, {}} ELSE {ready}

Write(m) ==
  LET c == io[m].cmd IN
  \/ /\ Hearers(c) = {}
     /\ ready' \in Measured(m)
     /\ UNCHANGED <<coming, where, moved>>
  \/ \E s \in Hearers(c) :
       /\ \/ coming' = Append(coming, Reply(s, c))
          \/ c.ask = "M" /\ coming' = coming \o <<Reply(s, c), Request(s)>>
       /\ where' = [where EXCEPT ![s] = c.new]
       /\ \E r \in Measured(m) : ready' = IF c.ask = "M" THEN r \cup {s} ELSE r
       /\ moved' = (moved \/ c.new # c.to)

\* Mutant: what is left in the receive buffer stays there.
Unflushed(m) ==
  /\ io[m].at = "break"
  /\ io' = [io EXCEPT ![m].at = "wait"]
  /\ Write(m)
  /\ UNCHANGED <<line, power, todo, shellAt, given, leftOn, trouble>>

\* The break is over: the receive buffer is flushed and the command written.  Neither waits.
FlushAndWrite(m) ==
  /\ io[m].at = "break"
  /\ io' = [io EXCEPT ![m].at = "wait"]
  /\ line' = <<>>
  /\ Write(m)
  /\ UNCHANGED <<power, todo, shellAt, given, leftOn, trouble>>

\* Mutant: any line with an echo will do.
ExpectedAny(c, b) == {k \in DOMAIN b : b[k].whole}

\* "expect" is the echo of the command and the address its answer begins with; only the
\* scanner that reads a sensor expects it, the others take any line.
Expected(c, b) == {k \in DOMAIN b : b[k].whole /\ b[k].cmd = c}

Matches(m, b) ==
  IF m = "scanner" /\ io[m].cmd.ask # "I" THEN Expected(io[m].cmd, b) # {} ELSE b # <<>>

\* What the shell read is printed and forgotten.
Return(m, at, b) ==
  io' = [io EXCEPT ![m] = IF m = "shell" THEN Free ELSE [@ EXCEPT !.at = at, !.buf = b]]

\* The event is cleared before the buffer is read: what comes in between the two is read at
\* once and costs another turn that reads nothing.
Read(m) ==
  LET b == io[m].buf \o line IN
  /\ io[m].at = "wait" /\ line # <<>>
  /\ line' = <<>>
  /\ \/ Matches(m, b) /\ Return(m, "got", b)
     \/ ~Matches(m, b) /\ io' = [io EXCEPT ![m].buf = b]
     \/ ~Matches(m, b) /\ Return(m, "none", <<>>)   \* the buffer is full
  /\ UNCHANGED <<power, coming, todo, shellAt, given, where, ready, leftOn, moved, trouble>>

\* A sensor answers at once or not at all: seconds pass when nothing is coming.
Timeout(m) ==
  /\ io[m].at = "wait" /\ line = <<>> /\ coming = <<>>
  /\ Return(m, "none", <<>>)
  /\ UNCHANGED <<power, coming, line, todo, shellAt, given, where, ready, leftOn,
                 moved, trouble>>

Driver(m) == FlushAndWrite(m) \/ Read(m) \/ Timeout(m)

-----------------------------------------------------------------------------
(* The line. *)

Arrive ==
  /\ coming # <<>>
  /\ coming' = Tail(coming)
  /\ line' = Append(line, Head(coming))
  /\ UNCHANGED <<power, io, todo, shellAt, given, where, ready, leftOn, moved, trouble>>

\* Noise, or two that speak at once: the echo is spoilt, or all of it.
Garble ==
  /\ coming # <<>>
  /\ coming' = Tail(coming)
  /\ line' \in {line, Append(line, [Head(coming) EXCEPT !.whole = FALSE])}
  /\ trouble' = IF trouble = "none" THEN "noise" ELSE trouble
  /\ UNCHANGED <<power, io, todo, shellAt, given, where, ready, leftOn, moved>>

-----------------------------------------------------------------------------
(* The commands of the shell. *)

\* sdi12 scan, or the one command of sdi12 query, addr and send.
Scan == [k \in 1..(LastAddr + 1) |-> Ask(k - 1, "I")]

ShellBegin ==
  /\ shellAt = "idle" /\ given < MaxShell
  /\ given' = given + 1
  /\ PowerOn
  /\ shellAt' = "busy"
  /\ todo' \in {Scan} \cup
       {<<c>> : c \in {d \in Commands : d.ask \in ShellAsks /\ (d.ask # "A" => d.new = d.to)}}
  /\ trouble' = "shell"
  /\ UNCHANGED <<coming, line, io, where, ready, leftOn, moved>>

\* sdi12 addr with an argument that is not a digit returns with the power on.
ShellAborted ==
  /\ shellAt = "idle" /\ given < MaxShell
  /\ given' = given + 1
  /\ PowerOn
  /\ leftOn' = TRUE
  /\ trouble' = "shell"
  /\ UNCHANGED <<coming, line, io, todo, shellAt, where, ready, moved>>

\* What was read is printed, and the next command given.
ShellCommand ==
  /\ shellAt = "busy" /\ todo # <<>>
  /\ Command("shell", Head(todo))
  /\ todo' = Tail(todo)
  /\ UNCHANGED <<power, coming, line, shellAt, given, where, ready, leftOn, moved, trouble>>

\* Mutant: only the scan switches the power off.
ShellEndPowered ==
  /\ shellAt = "busy" /\ todo = <<>> /\ Resting("shell")
  /\ shellAt' = "idle"
  /\ UNCHANGED <<power, leftOn, ready, coming, line, io, todo, given, where, moved, trouble>>

ShellEnd ==
  /\ shellAt = "busy" /\ todo = <<>> /\ Resting("shell")
  /\ shellAt' = "idle"
  /\ PowerOff
  /\ UNCHANGED <<line, io, todo, given, where, moved, trouble>>

Shell == ShellBegin \/ ShellAborted \/ ShellCommand \/ ShellEnd \/ Driver("shell")

\* A command the shell has begun goes on.
ShellRuns == ShellCommand \/ ShellEnd \/ Driver("shell")

-----------------------------------------------------------------------------
BusTypeOK ==
  /\ power \in BOOLEAN
  /\ coming \in Seq(Replies) /\ line \in Seq(Replies)
  /\ io \in [Masters -> [at : {"free", "break", "wait", "got", "none"},
                         cmd : Commands, buf : Seq(Replies)]]
  /\ todo \in Seq(Commands) /\ shellAt \in {"idle", "busy"} /\ given \in 0..MaxShell
  /\ where \in [Sensors -> Addrs] /\ ready \subseteq TwoStep
  /\ leftOn \in BOOLEAN /\ moved \in BOOLEAN /\ trouble \in {"none", "noise", "shell"}
=============================================================================
