------------------------- MODULE RuuviScanner_proofs -------------------------
(***************************************************************************)
(* Theorems about RuuviScanner and the list of tags of NvStorage, for      *)
(* every number of tags and slots: the list stays well-formed, the queue   *)
(* of the readings never overflows, and a round reports every tag it has   *)
(* heard, once.                                                            *)
(***************************************************************************)
EXTENDS RuuviScanner, FiniteSetTheorems, SequenceTheorems, TLAPS

-----------------------------------------------------------------------------
(* The list of tags. *)

\* is_listed finds a tag at most once: its bit determines its slot.
LEMMA ListedOnce ==
  ASSUME NEW t, NEW r \in IsListed(t), NEW s \in IsListed(t)
  PROVE  r = s
BY TagsAssumption DEF IsListed, Prefix, Slots

\* In a well-formed list is_listed misses no tag.
LEMMA ListedFinds ==
  ASSUME WellFormed(list), list \in Lists, NEW t, t # NoTag, NEW s \in Slots, list[s] = t
  PROVE  s \in IsListed(t)
<1>1. \A r \in 1..s : r \in Slots /\ list[r] # NoTag
  BY TagsAssumption DEF WellFormed, Slots
<1>2. \A r \in 1..(s - 1) : list[r] # t
  BY TagsAssumption DEF WellFormed, Slots
<1>3. QED
  BY <1>1, <1>2 DEF IsListed, Prefix

LEMMA ReadKeepsType ==
  ASSUME NvTypeOK, NEW l \in ReadResults
  PROVE  l \in Lists
BY DEF NvTypeOK, ReadResults

LEMMA IdleType == Idle \in [at : Steps, tag : Address, slot : Slots]
BY TagsAssumption DEF Idle, Steps, Address, Slots

\* A shell command keeps the types.
LEMMA ShellType ==
  ASSUME NvTypeOK, NvShell
  PROVE  NvTypeOK'
<1> USE TagsAssumption, IdleType DEF NvTypeOK, Steps, Slots, Address
<1>1. CASE ReadTags
  BY <1>1, ReadKeepsType DEF ReadTags
<1>2. CASE WriteTags
  BY <1>2 DEF WriteTags
<1>3. CASE \E t \in Address : AddTag(t)
  BY <1>3 DEF AddTag, Idle
<1>4. CASE FindSlot
  <2>1. CASE shell' = Idle
    BY <1>4, <2>1 DEF FindSlot
  <2>2. ASSUME NEW s \in Slots, shell' = [shell EXCEPT !.at = "store", !.slot = s]
        PROVE  NvTypeOK'
    BY <1>4, <2>2 DEF FindSlot
  <2>3. QED
    BY <1>4, <2>1, <2>2 DEF FindSlot, FirstFree
<1>5. CASE StoreTag
  BY <1>5 DEF StoreTag, Lists
<1>6. CASE ClearTags
  BY <1>6 DEF ClearTags, Idle
<1>7. CASE ClearSlot
  <2>1. list' \in Lists /\ flash' = flash
    BY <1>7 DEF ClearSlot, Lists
  <2>2. CASE shell' = Idle
    BY <2>1, <2>2
  <2>3. CASE shell.slot < MaxTags /\ shell' = [shell EXCEPT !.slot = @ + 1]
    BY <2>1, <2>3
  <2>4. QED
    BY <1>7, <2>2, <2>3 DEF ClearSlot
<1>8. QED
  BY <1>1, <1>2, <1>3, <1>4, <1>5, <1>6, <1>7 DEF NvShell

\* A command finds the list as the steps before it left it, and leaves it well-formed.
LEMMA ShellKeepsInv ==
  ASSUME NvTypeOK, ShellInv, NvShell, UNCHANGED torn
  PROVE  ShellInv'
<1> USE TagsAssumption DEF NvTypeOK
<1>1. CASE ReadTags
  BY <1>1 DEF ReadTags, ReadResults, ShellInv, ListWellFormed, Idle, WellFormed
<1>2. CASE WriteTags
  BY <1>2 DEF WriteTags, ShellInv, ListWellFormed, Idle, WellFormed
<1>3. ASSUME NEW t \in Address, AddTag(t) PROVE ShellInv'
  <2>1. ~torn => \A s \in Slots : list[s] = t => t = NoTag
    BY <1>3, ListedFinds DEF AddTag, ShellInv, ListWellFormed, Idle
  <2>2. QED
    BY <1>3, <2>1 DEF AddTag, ShellInv, ListWellFormed, Idle, WellFormed
<1>4. CASE FindSlot
  <2>1. ASSUME NEW s \in FirstFree, shell' = [shell EXCEPT !.at = "store", !.slot = s]
        PROVE  ShellInv'
    <3>1. shell.at = "find" /\ shell'.at = "store" /\ shell'.slot = s /\ shell'.tag = shell.tag
      BY <1>4, <2>1 DEF FindSlot
    <3>2. UNCHANGED <<list, flash>> /\ list[s] = NoTag /\ \A r \in 1..(s - 1) : list[r] # NoTag
      BY <1>4, <2>1 DEF FindSlot, FirstFree
    <3>3. ~torn => (ListWellFormed)'
      BY <3>1, <3>2 DEF ShellInv, ListWellFormed, WellFormed
    <3>4. ~torn => \A r \in Slots : list'[r] = shell'.tag => shell'.tag = NoTag
      BY <3>1, <3>2 DEF ShellInv
    <3>5. QED
      BY <3>1, <3>2, <3>3, <3>4 DEF ShellInv
  <2>2. CASE shell' = Idle
    BY <1>4, <2>2 DEF FindSlot, ShellInv, ListWellFormed, WellFormed, Idle
  <2>3. QED
    BY <1>4, <2>1, <2>2 DEF FindSlot
<1>5. CASE StoreTag
  <2>1. SUFFICES ASSUME ~torn PROVE WellFormed(list')
    BY <1>5 DEF StoreTag, ShellInv, ListWellFormed, Idle, WellFormed
  <2>2. /\ WellFormed(list) /\ list[shell.slot] = NoTag /\ shell.slot \in Slots
        /\ \A r \in 1..(shell.slot - 1) : list[r] # NoTag
        /\ \A s \in Slots : list[s] = shell.tag => shell.tag = NoTag
    BY <1>5, <2>1 DEF StoreTag, ShellInv, ListWellFormed
  <2>3. \A s \in Slots : list'[s] = IF s = shell.slot THEN shell.tag ELSE list[s]
    BY <1>5 DEF StoreTag, Lists
  <2>4. ASSUME NEW r \in Slots, NEW s \in Slots, r < s, list'[s] # NoTag
        PROVE  list'[r] # NoTag /\ list'[r] # list'[s]
    <3>1. CASE s = shell.slot
      BY <2>2, <2>3, <2>4, <3>1 DEF Slots
    <3>2. CASE s # shell.slot
      <4>1. list[s] # NoTag /\ list[r] # NoTag /\ list[r] # list[s]
        BY <2>2, <2>3, <2>4, <3>2 DEF WellFormed
      <4>2. QED
        BY <2>2, <2>3, <4>1, <3>2
    <3>3. QED
      BY <3>1, <3>2
  <2>5. QED
    BY <2>4 DEF WellFormed
<1>6. CASE ClearTags
  BY <1>6 DEF ClearTags, ShellInv, ListWellFormed, Idle, WellFormed
<1>7. CASE ClearSlot
  <2>1. shell.slot \in Slots /\ flash' = flash
    BY <1>7 DEF ClearSlot
  <2>2. \A s \in Slots : list'[s] = IF s = shell.slot THEN NoTag ELSE list[s]
    BY <1>7 DEF ClearSlot, Lists
  <2>3. ~torn => \A r \in 1..shell.slot : list'[r] = NoTag
    BY <1>7, <2>1, <2>2 DEF ClearSlot, ShellInv, Slots
  <2>4. CASE shell.slot < MaxTags
    BY <1>7, <2>1, <2>3, <2>4 DEF ClearSlot, ShellInv, ListWellFormed, Idle, Slots, WellFormed
  <2>5. CASE ~(shell.slot < MaxTags)
    <3>1. shell' = Idle
      BY <1>7, <2>5 DEF ClearSlot
    <3>2. ~torn => WellFormed(list')
      BY <2>1, <2>3, <2>5 DEF WellFormed, Slots
    <3>3. QED
      BY <1>7, <2>1, <3>1, <3>2 DEF ClearSlot, ShellInv, ListWellFormed, Idle, WellFormed
  <2>6. QED
    BY <2>4, <2>5
<1>8. QED
  BY <1>1, <1>2, <1>3, <1>4, <1>5, <1>6, <1>7 DEF NvShell

-----------------------------------------------------------------------------
(* The rounds. *)

RoundInv ==
  /\ scanning => pc = "scan"
  /\ ~InRound => ruuviQ = <<>>
  /\ InRound => BitsInv

LEMMA EmptyType == <<>> \in Seq(Reading)
OBVIOUS

LEMMA InitInv == Init => IInv
<1> SUFFICES ASSUME Init PROVE IInv
  OBVIOUS
<1> USE TagsAssumption, TriesAssumption DEF Init, NvInit
<1>1. TypeOK
  <2>1. NvTypeOK
    BY IdleType DEF NvTypeOK, Lists, NoTags, Address
  <2>2. QED
    BY <2>1, EmptyType DEF TypeOK, Address
<1>2. ShellInv
  BY DEF ShellInv, ListWellFormed, WellFormed, NoTags, Idle, Nothing
<1>3. QED
  BY <1>1, <1>2 DEF IInv, InRound

\* The types.
LEMMA NextType ==
  ASSUME TypeOK, Next
  PROVE  TypeOK'
<1> USE TagsAssumption, TriesAssumption DEF TypeOK
<1> DEFINE Pcs == {"bt_enable", "returned", "boot", "wait", "start", "scan", "drain"}
<1>1. CASE BtEnabled
  BY <1>1 DEF BtEnabled, At, nvVars, watchVars, NvTypeOK
<1>2. CASE BtFails
  BY <1>2 DEF BtFails, nvVars, watchVars, NvTypeOK
<1>3. CASE Boot
  <2>1. NvTypeOK'
    BY <1>3, ReadKeepsType DEF Boot, NvTypeOK
  <2>2. QED
    BY <1>3, <2>1 DEF Boot, At, TagMask
<1>4. CASE WaitRequest
  BY <1>4 DEF WaitRequest, At, nvVars, watchVars, NvTypeOK
<1>5. CASE StartRound
  <2>1. NvTypeOK' /\ pc' \in Pcs /\ request' = FALSE
    BY <1>5 DEF StartRound, At, nvVars, NvTypeOK
  <2>2. scanning' \in BOOLEAN
    BY <1>5 DEF StartRound
  <2>3. /\ published' \in Seq(Reading) /\ UNCHANGED <<tries, allTags, ruuviQ, lastPressure, torn>>
        /\ asked' = FALSE /\ stable' = TRUE /\ scanEvent' \subseteq Slots
    BY <1>5, EmptyType DEF StartRound
  <2>4. QED
    BY <2>1, <2>2, <2>3
<1>6. CASE EndScan
  BY <1>6 DEF EndScan, At, nvVars, watchVars, NvTypeOK
<1>7. CASE Publish
  BY <1>7 DEF Publish, nvVars, NvTypeOK
<1>8. CASE EndRound
  BY <1>8 DEF EndRound, At, nvVars, watchVars, NvTypeOK
<1>9. ASSUME NEW t \in Tags, Hear(t) PROVE TypeOK'
  <2>1. IsListed(t) \subseteq Slots
    BY DEF IsListed, Prefix
  <2>2. ruuviQ' \in Seq(Reading) /\ scanEvent' \subseteq Slots
    <3>1. CASE UNCHANGED <<ruuviQ, scanEvent>>
      BY <3>1
    <3>2. ASSUME NEW b \in IsListed(t), ruuviQ' = Append(ruuviQ, [tag |-> t, bit |-> b])
          PROVE  ruuviQ' \in Seq(Reading)
      <4>1. [tag |-> t, bit |-> b] \in Reading
        BY <2>1 DEF Reading
      <4>2. QED
        BY <3>2, <4>1
    <3>3. QED
      BY <1>9, <2>1, <3>1, <3>2 DEF Hear
  <2>3. QED
    BY <1>9, <2>2 DEF Hear, nvVars, watchVars, NvTypeOK, Address
<1>10. CASE Request \/ Prompt
  BY <1>10 DEF Request, Prompt, nvVars, NvTypeOK
<1>11. CASE ShellStep
  BY <1>11, ShellType DEF ShellStep, runVars
<1>12. CASE Reboot
  <2>1. NvTypeOK'
    BY <1>12, IdleType DEF Reboot, NvTypeOK, Lists, NoTags, Address
  <2>2. QED
    BY <1>12, <2>1, EmptyType DEF Reboot, Address
<1>13. QED
  BY <1>1, <1>2, <1>3, <1>4, <1>5, <1>6, <1>7, <1>8, <1>9, <1>10, <1>11, <1>12 DEF Next, Run

\* Publishing the first reading of the queue leaves the readings of the round alone.
LEMMA PublishKeepsRound ==
  ASSUME NEW p \in Seq(Reading), NEW q \in Seq(Reading), q # <<>>
  PROVE  Append(p, Head(q)) \o Tail(q) = p \o q
<1>1. /\ Append(p, Head(q)) \o Tail(q) \in Seq(Reading) /\ p \o q \in Seq(Reading)
      /\ Len(Append(p, Head(q)) \o Tail(q)) = Len(p \o q)
  OBVIOUS
<1>2. \A k \in 1..Len(p \o q) : (Append(p, Head(q)) \o Tail(q))[k] = (p \o q)[k]
  OBVIOUS
<1>3. QED
  BY <1>1, <1>2, SeqEqual

\* A reading that is queued is the last one of the round.
LEMMA QueueExtendsRound ==
  ASSUME NEW p \in Seq(Reading), NEW q \in Seq(Reading), NEW r \in Reading
  PROVE  /\ Len(p \o Append(q, r)) = Len(p \o q) + 1
         /\ (p \o Append(q, r))[Len(p \o q) + 1] = r
         /\ \A k \in 1..Len(p \o q) : (p \o Append(q, r))[k] = (p \o q)[k]
OBVIOUS

\* What the thread and the callback do leaves the commands of the shell alone, but for
\* the reading of the list at boot.
LEMMA NextKeepsShellInv ==
  ASSUME TypeOK, ShellInv, Next
  PROVE  ShellInv'
<1>1. CASE UNCHANGED <<list, flash, shell, torn>>
  BY <1>1 DEF ShellInv, ListWellFormed, WellFormed
<1>2. CASE Boot
  <2>1. CASE torn'
    BY <1>2, <2>1 DEF Boot, ShellInv
  <2>2. CASE ~torn'
    <3>1. ~torn /\ shell = Idle /\ shell' = Idle /\ flash' = flash /\ list' \in ReadResults
      BY <1>2, <2>2 DEF Boot, TypeOK
    <3>2. Idle.at = "idle"
      BY DEF Idle
    <3>3. ListWellFormed
      BY <3>1 DEF ShellInv
    <3>4. ListWellFormed'
      BY <3>1, <3>2, <3>3 DEF ListWellFormed, ReadResults, WellFormed
    <3>5. QED
      BY <3>1, <3>2, <3>4 DEF ShellInv
  <2>3. QED
    BY <2>1, <2>2
<1>3. CASE ShellStep
  BY <1>3, ShellKeepsInv DEF ShellStep, TypeOK
<1>4. CASE Reboot
  BY <1>4 DEF Reboot, ShellInv, ListWellFormed, WellFormed, Idle, NoTags
<1>5. QED
  BY <1>1, <1>2, <1>3, <1>4 DEF Next, Run, BtEnabled, BtFails, WaitRequest, StartRound, EndScan,
     Publish, EndRound, Hear, Request, Prompt, nvVars, watchVars

LEMMA HearKeepsBits ==
  ASSUME TypeOK, InRound => BitsInv, scanning => pc = "scan", NEW t \in Tags, Hear(t)
  PROVE  BitsInv'
<1> DEFINE Old == published \o ruuviQ
           New == published' \o ruuviQ'
<1>1. BitsInv /\ OfRound = Old /\ OfRound' = New
  BY DEF Hear, InRound, OfRound
<1>2. CASE UNCHANGED <<ruuviQ, scanEvent>>
  BY <1>1, <1>2 DEF Hear, BitsInv, OfRound, watchVars, nvVars, IsListed, Prefix
<1>3. ASSUME NEW b \in IsListed(t), ruuviQ' = Append(ruuviQ, [tag |-> t, bit |-> b]),
             scanEvent' = scanEvent \cup IsListed(t)
      PROVE  BitsInv'
  <2> DEFINE r == [tag |-> t, bit |-> b]
  <2>1. r \in Reading /\ b \notin scanEvent /\ scanEvent' = scanEvent \cup {b}
    BY <1>3, ListedOnce DEF Hear, Reading, IsListed, Prefix
  <2>2. /\ Len(New) = Len(Old) + 1 /\ New[Len(Old) + 1] = r
        /\ \A k \in 1..Len(Old) : New[k] = Old[k]
        /\ Len(Old) \in Nat
    BY <1>3, <2>1, QueueExtendsRound DEF Hear, watchVars, TypeOK
  <2>3. DOMAIN New = 1..(Len(Old) + 1) /\ DOMAIN Old = 1..Len(Old)
    BY <1>3, <2>1, <2>2 DEF Hear, watchVars, TypeOK
  <2> HIDE DEF Old, New
  <2>4. \A k \in DOMAIN New : New[k].bit \in scanEvent'
    BY <1>1, <2>1, <2>2, <2>3 DEF BitsInv
  <2>5. \A j, k \in DOMAIN New : New[j].bit = New[k].bit => j = k
    BY <1>1, <2>1, <2>2, <2>3 DEF BitsInv
  <2>6. \A s \in scanEvent' \cap allTags : \E k \in DOMAIN New : New[k].bit = s
    BY <1>1, <2>1, <2>2, <2>3 DEF BitsInv
  <2>7. stable => \A k \in DOMAIN New : New[k].bit \in IsListed(New[k].tag)
    BY <1>1, <1>3, <2>1, <2>2, <2>3 DEF BitsInv
  <2>8. QED
    BY <1>1, <2>4, <2>5, <2>6, <2>7 DEF BitsInv, Hear, watchVars, nvVars, IsListed, Prefix
<1>4. QED
  BY <1>2, <1>3 DEF Hear

LEMMA NextKeepsRoundInv ==
  ASSUME TypeOK, RoundInv, Next
  PROVE  RoundInv'
<1> USE DEF RoundInv, InRound
<1>1. CASE BtEnabled \/ BtFails \/ Boot \/ WaitRequest \/ Reboot
  BY <1>1 DEF BtEnabled, BtFails, Boot, WaitRequest, Reboot, At, watchVars
<1>2. CASE StartRound
  <2>1. published' = <<>> /\ ruuviQ' = <<>> /\ UNCHANGED allTags
    BY <1>2 DEF StartRound, At
  <2>2. OfRound' = <<>>
    BY <2>1 DEF OfRound
  <2>3. scanEvent' \cap allTags' = {}
    BY <1>2 DEF StartRound
  <2>4. BitsInv'
    BY <2>2, <2>3 DEF BitsInv
  <2>5. QED
    BY <1>2, <2>1, <2>4 DEF StartRound, At
<1>3. CASE EndScan
  BY <1>3 DEF EndScan, At, watchVars, nvVars, BitsInv, OfRound, IsListed, Prefix
<1>4. CASE Publish
  <2>1. OfRound' = OfRound
    BY <1>4, PublishKeepsRound DEF Publish, OfRound, TypeOK
  <2>2. QED
    BY <1>4, <2>1 DEF Publish, nvVars, BitsInv, IsListed, Prefix
<1>5. CASE EndRound
  BY <1>5 DEF EndRound, At
<1>6. ASSUME NEW t \in Tags, Hear(t) PROVE RoundInv'
  <2>1. BitsInv'
    BY <1>6, HearKeepsBits
  <2>2. QED
    BY <1>6, <2>1 DEF Hear
<1>7. CASE Request \/ Prompt
  <2>1. UNCHANGED <<list, pc, scanEvent, allTags, scanning, ruuviQ, published, stable>>
    BY <1>7 DEF Request, Prompt, nvVars
  <2>2. QED
    BY <2>1 DEF BitsInv, OfRound, IsListed, Prefix
<1>8. CASE ShellStep
  <2>1. OfRound' = OfRound /\ UNCHANGED <<scanEvent, allTags, pc, ruuviQ, scanning>>
    BY <1>8 DEF ShellStep, runVars, OfRound
  <2>2. stable' => stable /\ list' = list
    BY <1>8 DEF ShellStep
  <2>3. list' = list => \A t : IsListed(t)' = IsListed(t)
    BY DEF IsListed, Prefix
  <2>4. BitsInv => BitsInv'
    BY <2>1, <2>2, <2>3 DEF BitsInv
  <2>5. QED
    BY <2>1, <2>4
<1>9. QED
  BY <1>1, <1>2, <1>3, <1>4, <1>5, <1>6, <1>7, <1>8 DEF Next, Run

\* The invariant of the list and of the round, for every number of tags and slots.
THEOREM Inductive == Spec => []IInv
<1>1. IInv /\ [Next]_vars => IInv'
  <2> SUFFICES ASSUME IInv, [Next]_vars PROVE IInv'
    OBVIOUS
  <2>1. CASE Next
    BY <2>1, NextType, NextKeepsShellInv, NextKeepsRoundInv DEF IInv, RoundInv
  <2>2. CASE UNCHANGED vars
    BY <2>2 DEF vars, nvVars, runVars, watchVars, IInv, TypeOK, NvTypeOK, ShellInv, ListWellFormed,
       WellFormed, InRound, BitsInv, OfRound, IsListed, Prefix
  <2>3. QED
    BY <2>1, <2>2
<1>2. QED
  BY InitInv, <1>1, PTL DEF Spec

\* Every variable has its type.
THEOREM TypeCorrect == Spec => []TypeOK
<1>1. IInv => TypeOK
  BY DEF IInv
<1>2. QED
  BY <1>1, Inductive, PTL

\* The list and its copy in flash have neither holes nor duplicates, whatever the shell
\* does to them, but for a boot in the middle of a command.
THEOREM TagListIsSound == Spec => []ListWellFormed
<1>1. IInv => ListWellFormed
  BY DEF IInv, ShellInv, ListWellFormed
<1>2. QED
  BY <1>1, Inductive, PTL

-----------------------------------------------------------------------------
(* The queue of the readings. *)

\* Distinct bits number the readings: there are no more of them than bits that are set.
LEMMA QueueBound ==
  ASSUME TypeOK, BitsInv
  PROVE  Len(OfRound) <= Cardinality(scanEvent)
<1> DEFINE N == Len(OfRound)
           f == [k \in 1..N |-> OfRound[k].bit]
<1>1. N \in Nat /\ DOMAIN OfRound = 1..N
  BY DEF TypeOK, OfRound
<1>2. IsFiniteSet(scanEvent)
  <2>1. IsFiniteSet(1..MaxTags)
    BY FS_Interval, TagsAssumption
  <2>2. QED
    BY <2>1, FS_Subset DEF TypeOK, Slots
<1>3. IsFiniteSet(1..N) /\ Cardinality(1..N) = N
  <2> HIDE DEF N
  <2>1. 1 \in Int /\ N \in Int /\ (1 > N => N = 0) /\ N - 1 + 1 = N
    BY <1>1
  <2>2. QED
    BY <2>1, FS_Interval
<1>4. f \in Injection(1..N, scanEvent)
  <2> HIDE DEF N
  <2>1. \A k \in 1..N : OfRound[k].bit \in scanEvent
    BY <1>1 DEF BitsInv
  <2>2. \A j, k \in 1..N : OfRound[j].bit = OfRound[k].bit => j = k
    BY <1>1 DEF BitsInv
  <2>3. QED
    BY <2>1, <2>2 DEF Injection, IsInjective
<1>5. QED
  BY <1>2, <1>3, <1>4, FS_Injection

\* As long as a bit is not set there is room in the queue: no reading is ever dropped.
THEOREM NothingIsDropped == Spec => []QueueNeverFull
<1>1. ASSUME IInv, scanEvent # Slots PROVE Len(ruuviQ) < MaxTags
  <2> USE <1>1 DEF IInv
  <2>1. IsFiniteSet(Slots) /\ Cardinality(Slots) = MaxTags
    <3>1. 1 \in Int /\ MaxTags \in Int /\ ~(1 > MaxTags) /\ MaxTags - 1 + 1 = MaxTags
      BY TagsAssumption
    <3>2. QED
      BY <3>1, FS_Interval DEF Slots
  <2>2. scanEvent \in SUBSET Slots
    BY DEF TypeOK
  <2>3. /\ Cardinality(scanEvent) <= MaxTags /\ Cardinality(scanEvent) # MaxTags
        /\ IsFiniteSet(scanEvent)
    BY <2>1, <2>2, FS_Subset
  <2>4. Cardinality(scanEvent) \in Nat
    BY <2>3, FS_CardinalityType
  <2>5. CASE InRound
    <3>1. Len(OfRound) <= Cardinality(scanEvent)
      BY <2>5, QueueBound
    <3>2. Len(OfRound) = Len(published) + Len(ruuviQ) /\ Len(published) \in Nat /\ Len(ruuviQ) \in Nat
      BY DEF OfRound, TypeOK
    <3>3. QED
      BY <2>3, <2>4, <3>1, <3>2, TagsAssumption
  <2>6. CASE ~InRound
    BY <2>6, TagsAssumption
  <2>7. QED
    BY <2>5, <2>6
<1>2. IInv => QueueNeverFull
  BY <1>1 DEF QueueNeverFull
<1>3. QED
  BY <1>2, Inductive, PTL

\* A bit that is set stands for a reading of this round, as long as the list stays as it is.
THEOREM RoundIsReported == Spec => []RoundReports
<1>1. IInv => RoundReports
  BY DEF IInv, BitsInv, RoundReports, IsListed
<1>2. QED
  BY <1>1, Inductive, PTL

\* No tag is reported twice in a round, as long as the list stays as it is.
THEOREM ReportedOnce == Spec => []OncePerRound
<1>1. ASSUME IInv, InRound, stable, NEW j \in DOMAIN OfRound, NEW k \in DOMAIN OfRound,
             OfRound[j].tag = OfRound[k].tag
      PROVE  j = k
  <2>1. OfRound[j].bit \in IsListed(OfRound[j].tag) /\ OfRound[k].bit \in IsListed(OfRound[j].tag)
    BY <1>1 DEF IInv, BitsInv
  <2>2. OfRound[j].bit = OfRound[k].bit
    BY <2>1, ListedOnce
  <2>3. QED
    BY <1>1, <2>2 DEF IInv, BitsInv
<1>2. IInv => OncePerRound
  BY <1>1 DEF OncePerRound
<1>3. QED
  BY <1>2, Inductive, PTL
=============================================================================
