SPECIFICATION FairSpec
CONSTANTS
  s1 = s1
  s2 = s2
  Sensors = {s1, s2}
  Direct = {s1}
  TwoStep = {s2}
  LastAddr = 1
  ShellAsks = {"R", "M", "D", "A"}
  MaxShell = 1
  MaxSensors = 3
INVARIANTS TypeOK TableIsRight ValuesOfTheSensor RoundIsComplete PowerOffAtRest
PROPERTIES RequestIsServed RoundEnds
