------------------------------- MODULE MCFatFile -------------------------------
(***************************************************************************)
(* FatFs, in one run: the data of a file through every call that moves its *)
(* pointer (FatFile), and, in other behaviours, the structure of a volume  *)
(* of five clusters under calls and a power loss (FatVolume).              *)
(***************************************************************************)
EXTENDS FatFile

CONSTANTS Entries, PerFat, PerDir, Files, Dirs, MaxSize, MaxCalls, MaxCrash

VARIABLES part,
  card, win, filesys, file, todo, done, may, renaming, cut, broken, calls, crashes

volvars == <<card, win, filesys, file, todo, done, may, renaming, cut, broken, calls, crashes>>

Volume == INSTANCE FatVolume WITH
  n_fatent <- Entries, MaxOps <- MaxCalls, disk <- card, fs <- filesys, fp <- file, ops <- calls

ASSUME VolumeAssumption == Volume!ConstantsOK

\* A part that does not run starts in one state, whatever it could start in.
FatInit ==
  /\ part \in {"file", "volume"}
  /\ Init /\ Volume!Init
  /\ part # "file" => dir.size = 0 /\ ~ fp.write
  /\ part # "volume" => filesys.free # Volume!Unknown

FatNext ==
  \/ part = "file" /\ Next /\ UNCHANGED <<part, volvars>>
  \/ part = "volume" /\ Volume!Next /\ UNCHANGED <<part, vars>>

FatSpec == FatInit /\ [][FatNext]_<<part, vars, volvars>>

-----------------------------------------------------------------------------

\* What a power loss may leave of a name in the root directory (f_open, f_write, f_sync,
\* f_unlink, f_mkdir, f_rename and what they write in which order).
Found == part = "volume" => Volume!Found
\* A power loss costs lost clusters, and no chains that meet or end too early.
NoCrossLinks == part = "volume" => Volume!NoCrossLinks
\* f_getfree is exact until power fails (create_chain, remove_chain).
FreeExact == part = "volume" => Volume!FreeExact
================================================================================
