------------------------------ MODULE NvStorage ------------------------------
(***************************************************************************)
(* The list of Ruuvi tags (src/src/storage/nv_storage.cpp) and its copy in *)
(* flash, with the commands of the shell on it.  The thread of the shell   *)
(* has the lowest priority and the list has no lock: the other threads may *)
(* look at it between any two of the steps of add_tag and clear_tags.      *)
(***************************************************************************)
EXTENDS Integers, FiniteSets

CONSTANTS
  Tags,    \* Bluetooth addresses
  NoTag,   \* null_bt_
  MaxTags  \* MAX_RUUVI_TAG

ASSUME TagsAssumption ==
  /\ NoTag \notin Tags
  /\ MaxTags \in Nat \ {0}

Slots == 1..MaxTags

VARIABLES
  list,    \* ruuvi_tags_
  flash,   \* what nvs_read finds, or Nothing
  shell    \* the command of the shell in progress: the step it is at, the tag it
           \* adds and the slot it is at

nvVars == <<list, flash, shell>>

Address == Tags \cup {NoTag}
Lists   == [Slots -> Address]
NoTags  == [s \in Slots |-> NoTag]

\* What nvs_read reports of an address nothing was written to.
Nothing == <<>>

Idle     == [at |-> "idle",  tag |-> NoTag, slot |-> 1]
Steps    == {"idle", "find", "store", "clear"}

NvTypeOK ==
  /\ list \in Lists
  /\ flash \in Lists \cup {Nothing}
  /\ shell \in [at : Steps, tag : Address, slot : Slots]

NvInit ==
  /\ list = NoTags
  /\ flash = Nothing
  /\ shell = Idle

-----------------------------------------------------------------------------
(* Bit 1 << i of the code is slot i + 1; a mask is a set of slots, 0 is {}. *)

\* The entries before the first null one: where the loops of the code end.
Prefix == {s \in Slots : \A r \in 1..s : list[r] # NoTag}

IsListed(t) == {s \in Prefix : list[s] = t /\ \A r \in 1..(s - 1) : list[r] # t}

TagMask == {s \in Slots : list[s] # NoTag}

FirstFree == {s \in Slots : list[s] = NoTag /\ \A r \in 1..(s - 1) : list[r] # NoTag}

-----------------------------------------------------------------------------
(* The commands of the shell. *)

\* The read leaves the list alone if there is nothing to read or if it fails.
ReadResults == {list, flash} \ {Nothing}

ReadTags ==
  /\ shell = Idle
  /\ list' \in ReadResults
  /\ UNCHANGED <<flash, shell>>

\* nvs_write, whose failure nobody reports.
WriteTags ==
  /\ shell = Idle
  /\ flash' \in {flash, list}
  /\ UNCHANGED <<list, shell>>

\* Mutant: a tag is added whether or not it is listed.
AddTagTwice(t) ==
  /\ shell = Idle
  /\ shell' = [Idle EXCEPT !.at = "find", !.tag = t]
  /\ UNCHANGED <<list, flash>>

\* The null address is a legal argument, never listed, and stored where it was.
AddTag(t) ==
  /\ shell = Idle
  /\ IsListed(t) = {}
  /\ shell' = [Idle EXCEPT !.at = "find", !.tag = t]
  /\ UNCHANGED <<list, flash>>

\* Mutant: a tag is stored beyond the end of a full list.
FindSlotPast ==
  /\ shell.at = "find"
  /\ \/ \E s \in FirstFree : shell' = [shell EXCEPT !.at = "store", !.slot = s]
     \/ FirstFree = {} /\ shell' = [shell EXCEPT !.at = "store", !.slot = MaxTags + 1]
  /\ UNCHANGED <<list, flash>>

FindSlot ==
  /\ shell.at = "find"
  /\ \/ \E s \in FirstFree : shell' = [shell EXCEPT !.at = "store", !.slot = s]
     \/ FirstFree = {} /\ shell' = Idle
  /\ UNCHANGED <<list, flash>>

StoreTag ==
  /\ shell.at = "store"
  /\ list' = [list EXCEPT ![shell.slot] = shell.tag]
  /\ shell' = Idle
  /\ UNCHANGED flash

ClearTags ==
  /\ shell = Idle
  /\ shell' = [Idle EXCEPT !.at = "clear"]
  /\ UNCHANGED <<list, flash>>

ClearSlot ==
  /\ shell.at = "clear"
  /\ list' = [list EXCEPT ![shell.slot] = NoTag]
  /\ shell' = IF shell.slot < MaxTags THEN [shell EXCEPT !.slot = @ + 1] ELSE Idle
  /\ UNCHANGED flash

NvShell ==
  \/ ReadTags
  \/ WriteTags
  \/ \E t \in Address : AddTag(t)
  \/ FindSlot
  \/ StoreTag
  \/ ClearTags
  \/ ClearSlot

-----------------------------------------------------------------------------
\* A list as the loops of the code presume it: without holes and duplicates.
WellFormed(l) ==
  \A r, s \in Slots : (r < s /\ l[s] # NoTag) => (l[r] # NoTag /\ l[r] # l[s])
=============================================================================
