---------------------------- MODULE SettingsStore ----------------------------
(***************************************************************************)
(* What config_flash_storage.h promises of the settings in flash, without  *)
(* blocks, checksums or erases: the sector stores one tree or none.  A     *)
(* save may first have to drop the old settings to make room, and then     *)
(* stores the new ones in one step.                                        *)
(***************************************************************************)
CONSTANTS Trees, NoTree
VARIABLES
  stored,   \* the tree the next boot loads, or NoTree
  pending   \* the tree being saved, or NoTree

sVars == <<stored, pending>>

Init == stored = NoTree /\ pending = NoTree

Begin(t) == pending = NoTree /\ pending' = t /\ UNCHANGED stored

MakeRoom == pending # NoTree /\ stored' = NoTree /\ UNCHANGED pending

Commit == pending # NoTree /\ stored' = pending /\ pending' = NoTree

Erase == pending = NoTree /\ stored' = NoTree /\ UNCHANGED pending

Next == (\E t \in Trees : Begin(t)) \/ MakeRoom \/ Commit \/ Erase

\* A save that started is carried out.
Spec == Init /\ [][Next]_sVars /\ WF_sVars(Commit)
==============================================================================
