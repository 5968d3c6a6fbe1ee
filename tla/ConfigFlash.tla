----------------------------- MODULE ConfigFlash -----------------------------
(***************************************************************************)
(* Saving, loading and erasing the parameter tree in the config sector,    *)
(* one client at a time, with power losses at any point.                   *)
(*                                                                         *)
(* Every flash operation and every iteration of the two block-scanning     *)
(* loops is a step.  A client is the shell (cmd.c) or an Aseba native      *)
(* function (skel_user.c); after a save both read the settings back.  At   *)
(* boot main() loads the settings.                                         *)
(***************************************************************************)
EXTENDS ConfigBlock

CONSTANTS
  Trees,      \* values the whole parameter tree can have
  Enc,        \* Enc[t]: words of the MessagePack serialisation of t
  Default,    \* the tree as declared at boot, before config_load
  Corrupt,    \* a tree that parsing altered data may leave in RAM
  Callers,    \* who calls config_save
  DstLen,     \* DstLen[c]: the dst_len that caller c passes
  Mod,        \* 2^32: sizes are unsigned 32-bit integers
  MaxCrash,   \* bound: number of power losses
  EraseTears  \* bound: sets of cells an interrupted erase may have erased

ASSUME TreesAssumption ==
  /\ Default \in Trees /\ Corrupt \in Trees
  /\ DOMAIN Enc = Trees
  /\ \A t \in Trees : Len(Enc[t]) \in 1 .. SIZE
\* The serialisation is lossless.
ASSUME EncAssumption ==
  \A t, u \in Trees :
     /\ Len(Enc[t]) = Len(Enc[u]) /\ \A i \in 1 .. Len(Enc[t]) : Enc[t][i] = Enc[u][i]
     => t = u
ASSUME CallersAssumption ==
  /\ DOMAIN DstLen = Callers
  /\ \A c \in Callers : DstLen[c] \in HEADER .. SIZE
ASSUME BoundsAssumption ==
  /\ Mod \in Nat /\ Mod > 2 * SIZE
  /\ MaxCrash \in Nat
  /\ EraseTears \subseteq SUBSET Cells

VARIABLES
  flash,    \* contents of the config sector
  locked,   \* FLASH_CR_LOCK
  ram,      \* parameter_root
  op,       \* what is running; "check" is the read-back after a save
  caller,   \* the caller of the save
  pc,       \* control point, "idle" between operations
  block,    \* cursor of the scanning loops
  last,     \* last valid block seen by config_block_find_last_used
  blocks,   \* history: valid blocks config_block_find_first_free skipped
  dst,      \* where the new block goes
  size,     \* mem.size: room for the data
  index,    \* mem.index: data words written
  result,   \* answer to the last command: "ok", "failed", "none"
  crashes   \* power losses so far

vars == <<flash, locked, ram, op, caller, pc, block, last, blocks, dst, size,
          index, result, crashes>>

Ops == {"boot", "save", "check", "load", "erase"}
PCs == {"idle", "findLast", "eraseFirst", "findFree", "room", "eraseFull",
        "data", "undo", "again", "crcLen", "len", "crcData", "return", "wipe", "parse", "fault"}

\* Control points whose next step erases the sector.
Erasing == {"eraseFirst", "eraseFull", "undo", "wipe"}

-----------------------------------------------------------------------------
(* flash.c: with FLASH_CR_LOCK set neither programming nor erasing works.  *)

flash_write(a, w) ==
  flash' = IF locked THEN flash ELSE Programmed(flash, a, w)

flash_sector_erase ==
  flash' = IF locked THEN flash ELSE Erased

-----------------------------------------------------------------------------
(* Entry points.  They all end in a scan of the sector.                    *)

StartScan(at) == pc' = at /\ block' = 0

config_save(c) ==
  /\ pc = "idle"
  /\ op' = "save" /\ caller' = c /\ result' = "none"
  /\ locked' = FALSE
  /\ StartScan("findLast") /\ last' = NoBlock
  /\ UNCHANGED <<flash, ram, blocks, dst, size, index, crashes>>

\* cmd_config_load.
config_load ==
  /\ pc = "idle"
  /\ op' = "load" /\ result' = "none"
  /\ StartScan("findLast") /\ last' = NoBlock
  /\ UNCHANGED <<flash, locked, ram, caller, blocks, dst, size, index, crashes>>

config_erase ==
  /\ pc = "idle"
  /\ op' = "erase" /\ result' = "none"
  /\ locked' = FALSE
  /\ pc' = "wipe"
  /\ UNCHANGED <<flash, ram, caller, block, last, blocks, dst, size, index, crashes>>

Wipe ==
  /\ pc = "wipe"
  /\ flash_sector_erase
  /\ locked' = TRUE
  /\ pc' = "idle"
  /\ UNCHANGED <<ram, op, caller, block, last, blocks, dst, size, index, result, crashes>>

\* cmd_config_set, or any other way of changing parameters.
config_set(t) ==
  /\ pc = "idle"
  /\ ram' = t /\ result' = "none"
  /\ UNCHANGED <<flash, locked, op, caller, pc, block, last, blocks, dst, size,
                 index, crashes>>

-----------------------------------------------------------------------------
(* The scanning loops.                                                     *)

Fault ==
  /\ pc' = "fault"
  /\ UNCHANGED <<flash, locked, ram, op, caller, block, last, blocks, dst, size,
                 index, result, crashes>>

ScanFault == pc \in {"findLast", "findFree"} /\ Overruns(flash, block) /\ Fault

\* Mutant: the first valid block is taken for the last one.
MutFindLast ==
  /\ pc = "findLast" /\ config_block_is_valid(flash, block)
  /\ last' = (IF last = NoBlock THEN block ELSE last)
  /\ block' = NextBlock(flash, block)
  /\ UNCHANGED <<flash, locked, ram, op, caller, pc, blocks, dst, size, index, result, crashes>>

\* One iteration of config_block_find_last_used.
FindLast ==
  /\ pc = "findLast" /\ config_block_is_valid(flash, block)
  /\ last' = block /\ block' = NextBlock(flash, block)
  /\ UNCHANGED <<flash, locked, ram, op, caller, pc, blocks, dst, size, index, result, crashes>>

\* Its return: config_load goes on to parse the block; config_save erases the
\* sector if there is none and looks for free space.
LastFound ==
  /\ pc = "findLast" /\ ~ Overruns(flash, block)
  /\ ~ config_block_is_valid(flash, block)
  /\ \/ op # "save" /\ pc' = "parse" /\ UNCHANGED block
     \/ op = "save" /\ last = NoBlock /\ pc' = "eraseFirst" /\ UNCHANGED block
     \/ op = "save" /\ last # NoBlock /\ StartScan("findFree")
  /\ blocks' = {}
  /\ UNCHANGED <<flash, locked, ram, op, caller, last, dst, size, index, result, crashes>>

\* Mutant: the sector is not erased when it holds no valid block.
MutEraseFirst ==
  /\ pc = "eraseFirst"
  /\ StartScan("findFree")
  /\ UNCHANGED <<flash, locked, ram, op, caller, last, blocks, dst, size, index, result, crashes>>

EraseFirst ==
  /\ pc = "eraseFirst"
  /\ flash_sector_erase
  /\ StartScan("findFree")
  /\ UNCHANGED <<locked, ram, op, caller, last, blocks, dst, size, index, result, crashes>>

\* One iteration of config_block_find_first_free, and its return.
FindFree ==
  /\ pc = "findFree" /\ config_block_is_valid(flash, block)
  /\ blocks' = blocks \cup {block} /\ block' = NextBlock(flash, block)
  /\ UNCHANGED <<flash, locked, ram, op, caller, pc, last, dst, size, index, result, crashes>>

FreeFound ==
  /\ pc = "findFree" /\ ~ Overruns(flash, block)
  /\ ~ config_block_is_valid(flash, block)
  /\ pc' = "room" /\ dst' = block
  /\ UNCHANGED <<flash, locked, ram, op, caller, block, last, blocks, size, index, result, crashes>>

-----------------------------------------------------------------------------
(* Writing a block.                                                        *)

\* Mutant: the room left ignores where the block starts.
MutRoomAt(d) == DstLen[caller] % Mod

\* len = dst_len - (dst - orig_dst), on unsigned integers.
RoomAt(d) == (DstLen[caller] - d) % Mod

Room ==
  /\ pc = "room"
  /\ \/ RoomAt(dst) <= HEADER /\ pc' = "eraseFull" /\ UNCHANGED <<size, index>>
     \/ /\ RoomAt(dst) > HEADER
        /\ pc' = "data" /\ size' = RoomAt(dst) - HEADER /\ index' = 0
  /\ UNCHANGED <<flash, locked, ram, op, caller, block, last, blocks, dst, result, crashes>>

\* Mutant: the room is still that of the old destination.
MutEraseFull ==
  /\ pc = "eraseFull"
  /\ flash_sector_erase
  /\ blocks' = {} /\ dst' = 0 /\ size' = DstLen[caller] - dst - HEADER /\ index' = 0
  /\ pc' = "data"
  /\ UNCHANGED <<locked, ram, op, caller, block, last, result, crashes>>

EraseFull ==
  /\ pc = "eraseFull"
  /\ flash_sector_erase
  /\ blocks' = {} /\ dst' = 0 /\ size' = DstLen[caller] - HEADER /\ index' = 0
  /\ pc' = "data"
  /\ UNCHANGED <<locked, ram, op, caller, block, last, result, crashes>>

\* The bound check of cmp_flash_writer.
Fits(i) == i + 1 <= size

\* cmp_flash_writer, called for each word of the tree.
WriteData ==
  /\ pc = "data" /\ index < Len(Enc[ram]) /\ Fits(index)
  /\ dst + HEADER + index < SIZE
  /\ flash_write(dst + HEADER + index, DataWord(Enc[ram][index + 1]))
  /\ index' = index + 1
  /\ UNCHANGED <<locked, ram, op, caller, pc, block, last, blocks, dst, size, result, crashes>>

\* cmp_flash_writer returns 0 and err_mark_false clears success.
WriteRefused ==
  /\ pc = "data" /\ index < Len(Enc[ram]) /\ ~ Fits(index)
  /\ pc' = "undo"
  /\ UNCHANGED <<flash, locked, ram, op, caller, block, last, blocks, dst, size, index, result, crashes>>

\* Programming past the end of the chip.
WriteFault ==
  /\ pc = "data" /\ index < Len(Enc[ram])
  /\ Fits(index) /\ dst + HEADER + index >= SIZE
  /\ Fault

DataDone ==
  /\ pc = "data" /\ index = Len(Enc[ram])
  /\ pc' = "crcLen"
  /\ UNCHANGED <<flash, locked, ram, op, caller, block, last, blocks, dst, size, index, result, crashes>>

\* Mutant: the sector is not erased before config_save is called again.
MutUndo ==
  /\ pc = "undo"
  /\ locked' = TRUE /\ pc' = "again" /\ blocks' = {}
  /\ UNCHANGED <<flash, ram, op, caller, block, last, dst, size, index, result, crashes>>

\* The tree does not fit: erase everything and lock ...
Undo ==
  /\ pc = "undo"
  /\ flash_sector_erase
  /\ locked' = TRUE /\ pc' = "again" /\ blocks' = {}
  /\ UNCHANGED <<ram, op, caller, block, last, dst, size, index, result, crashes>>

\* ... and call config_save again, which unlocks.
SaveAgain ==
  /\ pc = "again"
  /\ locked' = FALSE
  /\ StartScan("findLast") /\ last' = NoBlock
  /\ UNCHANGED <<flash, ram, op, caller, blocks, dst, size, index, result, crashes>>

\* config_write_block_header: three writes.
WriteCrcLen ==
  /\ pc = "crcLen"
  /\ flash_write(dst, LenCrc(index))
  /\ pc' = "len"
  /\ UNCHANGED <<locked, ram, op, caller, block, last, blocks, dst, size, index, result, crashes>>

WriteLen ==
  /\ pc = "len"
  /\ flash_write(dst + 1, LenWord(index))
  /\ pc' = "crcData"
  /\ UNCHANGED <<locked, ram, op, caller, block, last, blocks, dst, size, index, result, crashes>>

\* The data checksum is computed over what the flash now holds.
WriteCrcData ==
  /\ pc = "crcData"
  /\ flash_write(dst + 2, DataCrc(DataAt(flash, dst, index)))
  /\ pc' = "return"
  /\ UNCHANGED <<locked, ram, op, caller, block, last, blocks, dst, size, index, result, crashes>>

\* Mutant: config_save does not lock the flash.
MutReadBack ==
  /\ pc = "return"
  /\ op' = "check"
  /\ StartScan("findLast") /\ last' = NoBlock
  /\ UNCHANGED <<flash, locked, ram, caller, blocks, dst, size, index, result, crashes>>

\* config_save locks the flash and returns; its caller reads the settings back.
ReadBack ==
  /\ pc = "return"
  /\ locked' = TRUE /\ op' = "check"
  /\ StartScan("findLast") /\ last' = NoBlock
  /\ UNCHANGED <<flash, ram, caller, blocks, dst, size, index, result, crashes>>

-----------------------------------------------------------------------------
(* parameter_msgpack_read on the data of the last block.  The parser is not *)
(* part of the repository: intact data gives back the tree; altered data    *)
(* is rejected or accepted, and may leave a corrupt tree.                   *)

Reading(f, p) == DataAt(f, p, config_block_get_length(f, p))
Stored(t) == [i \in 1 .. Len(Enc[t]) |-> {DataWord(Enc[t][i])}]

Parse ==
  /\ pc = "parse"
  /\ pc' = "idle"
  /\ \/ /\ last = NoBlock
        /\ result' = "failed" /\ UNCHANGED ram
     \/ /\ last # NoBlock
        /\ \E t \in Trees : /\ Reading(flash, last) = Stored(t)
                            /\ ram' = t /\ result' = "ok"
     \/ /\ last # NoBlock
        /\ \A t \in Trees : Reading(flash, last) # Stored(t)
        /\ ram' \in {ram, Corrupt} /\ result' \in {"ok", "failed"}
  /\ UNCHANGED <<flash, locked, op, caller, block, last, blocks, dst, size, index, crashes>>

-----------------------------------------------------------------------------
(* Power loss: RAM and the peripheral state are lost.  An erase under way  *)
(* may have erased only some cells.  The robot reboots, and main() loads   *)
(* the settings.                                                           *)

Crash ==
  /\ crashes < MaxCrash
  /\ crashes' = crashes + 1
  /\ \/ UNCHANGED flash
     \/ /\ pc \in Erasing
        /\ \E S \in EraseTears :
             flash' = [a \in Cells |-> IF a \in S THEN {} ELSE flash[a]]
  /\ ram' = Default /\ locked' = TRUE /\ op' = "boot" /\ result' = "none"
  /\ StartScan("findLast") /\ last' = NoBlock /\ blocks' = {}
  /\ dst' = 0 /\ size' = 0 /\ index' = 0
  /\ UNCHANGED caller

-----------------------------------------------------------------------------

\* The robot leaves the factory with an erased sector and boots.
Init ==
  /\ flash = Erased /\ locked = TRUE /\ ram = Default
  /\ op = "boot" /\ caller \in Callers
  /\ pc = "findLast" /\ block = 0 /\ last = NoBlock /\ blocks = {}
  /\ dst = 0 /\ size = 0 /\ index = 0
  /\ result = "none" /\ crashes = 0

\* What the running operation does next.
Step ==
  \/ ScanFault \/ FindLast \/ LastFound \/ EraseFirst \/ FindFree \/ FreeFound
  \/ Room \/ EraseFull \/ WriteData \/ WriteRefused \/ WriteFault \/ DataDone
  \/ Undo \/ SaveAgain
  \/ WriteCrcLen \/ WriteLen \/ WriteCrcData \/ ReadBack
  \/ Parse \/ Wipe

\* What the user does next.
Command ==
  \/ \E c \in Callers : config_save(c)
  \/ config_load
  \/ config_erase
  \/ \E t \in Trees \ {Corrupt} : config_set(t)

Next == Step \/ Command \/ Crash

\* Nothing a thread does here blocks: an operation that started goes on.
Fairness == WF_vars(Step)

Spec == Init /\ [][Next]_vars
FairSpec == Spec /\ Fairness

-----------------------------------------------------------------------------

TypeOK ==
  /\ flash = [a \in Cells |-> flash[a]]
  /\ locked \in BOOLEAN
  /\ ram \in Trees
  /\ op \in Ops
  /\ caller \in Callers
  /\ pc \in PCs
  /\ block \in Nat
  /\ last \in Nat \cup {NoBlock}
  /\ blocks \in SUBSET Nat
  /\ dst \in Nat /\ size \in Nat /\ index \in 0 .. size
  /\ result \in {"none", "ok", "failed"}
  /\ crashes \in 0 .. MaxCrash

-----------------------------------------------------------------------------
(* What the sector holds for the next config_load.                         *)

NoTree == "no tree"

\* The last block of the chain of valid blocks that starts at 0.
LastBlock(f) ==
  LET from[p \in Nat] ==
        IF config_block_is_valid(f, p)
        THEN LET later == from[NextBlock(f, p)]
             IN IF later = NoBlock THEN p ELSE later
        ELSE NoBlock
  IN from[0]

StoredTree(f) ==
  IF LastBlock(f) = NoBlock THEN NoTree
  ELSE IF \E t \in Trees : Reading(f, LastBlock(f)) = Stored(t)
       THEN CHOOSE t \in Trees : Reading(f, LastBlock(f)) = Stored(t)
       ELSE Corrupt

\* A save is under way: from the call of config_save to the last header write.
Saving == op = "save" /\ pc \notin {"idle", "return"}

\* The step at which parameter_msgpack_read returns (not a power loss).
ParseReturns == pc = "parse" /\ crashes' = crashes

(* Safety.                                                                 *)

\* Scans and writes leave the config sector, the last one of the chip, in two cases
\* only, whatever power losses left in it: the chain of blocks ends so close to the end of
\* the sector that a checksum and a length no longer fit, or a caller with a smaller
\* dst_len (the Aseba native) saves behind a chain that is longer than that, so that the
\* room wraps.  In particular a torn header never leads the scan astray, and a chain that
\* leaves room for these two words but not for a block is only followed by an erase.
FaultsAtTheEdge ==
  pc = "fault" =>
    \/ block + PREFIX > SIZE
    \/ op = "save" /\ dst > DstLen[caller]

\* Whatever power losses left in the sector, a save that starts by erasing it (no
\* valid block, no room, or a tree that did not fit) succeeds: it is answered
\* "OK." and the settings read back are the ones saved.
ErasedSaveSucceeds ==
  [][op = "check" /\ ParseReturns /\ dst = 0 => result' = "ok" /\ ram' = ram]_vars

\* A step that is no erase leaves every block that find_first_free skipped valid
\* and its data unchanged.
KeepsSkipped ==
  pc \notin Erasing =>
     \A q \in blocks \cap blocks' :
        /\ config_block_is_valid(flash', q)
        /\ Reading(flash', q) = Reading(flash, q)

\* Only an erase destroys saved settings: programming a new block never touches a
\* block saved before, so that losing power while writing keeps them.
AppendOnly == [][KeepsSkipped]_vars

\* A block that passes the checks of config_block_is_valid holds the settings of
\* one save: the checksums guard against anything else being loaded.
ValidIsIntact ==
  LastBlock(flash) # NoBlock =>
     \E t \in Trees : Reading(flash, LastBlock(flash)) = Stored(t)

(* Liveness.                                                               *)

\* A save whose tree fits in the sector is answered, however often the sector has
\* to be erased on the way, unless it faults: config_save does not call itself for ever.
SaveTerminates == Saving ~> pc \in {"idle", "fault"}

-----------------------------------------------------------------------------
(* The abstract store: what the sector holds, and the tree on its way there. *)

Store == INSTANCE SettingsStore WITH
           stored <- StoredTree(flash),
           pending <- IF Saving THEN ram ELSE NoTree

\* Without power losses the code implements the abstract store: an answered
\* save is what every later load returns, until the next save or erase, and every
\* save is eventually stored.
RefinesStore == Store!Spec
==============================================================================
