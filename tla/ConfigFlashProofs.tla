-------------------------- MODULE ConfigFlashProofs --------------------------
(***************************************************************************)
(* TLAPS proofs about ConfigFlash, for every sector size, every set of     *)
(* parameter trees, every dst_len and any number of power losses, and      *)
(* about the two callers of ConfigPreempt.                                 *)
(***************************************************************************)
EXTENDS ConfigPreempt, WellFoundedInduction, TLAPS

IsSector(f) == f = [a \in Cells |-> f[a]]

-----------------------------------------------------------------------------
(* The layout of a block.                                                  *)

\* The length checksum determines the length, and config_block_get_length reads it.
LEMMA LengthUnique ==
  ASSUME NEW f, NEW p, NEW n \in 0 .. SIZE, HasLength(f, p, n)
  PROVE  config_block_get_length(f, p) = n
<1>1. ASSUME NEW m \in 0 .. SIZE, HasLength(f, p, m)
      PROVE  m = n
  <2>1. {LenWord(m)} = {LenWord(n)}
    BY <1>1 DEF HasLength
  <2>2. LenWord(m) = LenWord(n)
    BY <2>1
  <2> QED
    BY <2>2 DEF LenWord
<1> QED
  BY <1>1 DEF config_block_get_length

\* A valid block has a length, lies in the sector, and a next block after it.
LEMMA ValidShape ==
  ASSUME NEW f, NEW p \in Nat, config_block_is_valid(f, p)
  PROVE  /\ config_block_get_length(f, p) \in 0 .. SIZE
         /\ HasLength(f, p, config_block_get_length(f, p))
         /\ f[p + 2] = {DataCrc(Reading(f, p))}
         /\ NextBlock(f, p) \in Nat
         /\ NextBlock(f, p) >= p + HEADER
         /\ NextBlock(f, p) <= SIZE
<1>1. PICK n \in 0 .. SIZE : /\ HasLength(f, p, n)
                             /\ f[p + 2] = {DataCrc(DataAt(f, p, n))}
  BY DEF config_block_is_valid
<1>2. config_block_get_length(f, p) = n
  BY <1>1, LengthUnique
<1>3. p + HEADER + n <= SIZE
  BY <1>1, SizeAssumption DEF config_block_is_valid, Overruns, HEADER, PREFIX
<1> QED
  BY <1>1, <1>2, <1>3, SizeAssumption DEF NextBlock, Reading, HEADER

\* A valid block stays valid, with the same data, when none of its cells changes.
LEMMA ValidStable ==
  ASSUME NEW f, NEW g, NEW p \in Nat,
         config_block_is_valid(f, p),
         \A a \in Cells : p <= a /\ a < NextBlock(f, p) => g[a] = f[a]
  PROVE  /\ config_block_is_valid(g, p)
         /\ NextBlock(g, p) = NextBlock(f, p)
         /\ Reading(g, p) = Reading(f, p)
<1> DEFINE n == config_block_get_length(f, p)
<1>1. /\ n \in 0 .. SIZE
      /\ HasLength(f, p, n)
      /\ f[p + 2] = {DataCrc(Reading(f, p))}
      /\ p + n + 3 <= SIZE
      /\ NextBlock(f, p) = p + n + 3
  BY ValidShape DEF NextBlock, HEADER
<1>2. /\ p \in Cells /\ p + 1 \in Cells /\ p + 2 \in Cells
      /\ \A i \in 1 .. n : p + HEADER + i - 1 \in Cells
  BY <1>1, SizeAssumption DEF Cells, HEADER
<1> HIDE DEF n
<1>3. g[p] = f[p] /\ g[p + 1] = f[p + 1] /\ g[p + 2] = f[p + 2]
  BY <1>1, <1>2, SizeAssumption
<1>4. ASSUME NEW i \in 1 .. n
      PROVE  g[p + HEADER + i - 1] = f[p + HEADER + i - 1]
  <2>1. /\ p + HEADER + i - 1 \in Cells /\ p <= p + HEADER + i - 1
        /\ p + HEADER + i - 1 < NextBlock(f, p)
    BY <1>1, <1>2, SizeAssumption DEF HEADER
  <2> QED
    BY <2>1
<1>5. DataAt(g, p, n) = DataAt(f, p, n)
  BY <1>4 DEF DataAt
<1>6. HasLength(g, p, n)
  BY <1>1, <1>3 DEF HasLength
<1>7. config_block_get_length(g, p) = n
  BY <1>1, <1>6, LengthUnique
<1>8. Reading(g, p) = Reading(f, p)
  BY <1>5, <1>7 DEF Reading, n
<1>9. ~ Overruns(g, p)
  <2>1. p + HEADER <= SIZE
    BY <1>1, SizeAssumption DEF HEADER
  <2>2. ASSUME NEW m \in 0 .. SIZE, HasLength(g, p, m)
        PROVE  p + HEADER + m <= SIZE
    BY <2>2, <1>1, <1>7, LengthUnique, SizeAssumption DEF HEADER
  <2> QED
    BY <2>1, <2>2, SizeAssumption DEF Overruns, HEADER, PREFIX
<1>10. g[p + 2] = {DataCrc(DataAt(g, p, n))}
  BY <1>1, <1>3, <1>7, <1>8 DEF Reading
<1>11. config_block_is_valid(g, p)
  BY <1>1, <1>6, <1>9, <1>10 DEF config_block_is_valid
<1> QED
  BY <1>1, <1>7, <1>8, <1>11 DEF NextBlock, HEADER

-----------------------------------------------------------------------------
(* Type correctness.                                                       *)

\* A transition of the specification, action by action, preserves the types.
LEMMA TypeStep == TypeOK /\ [Next]_vars => TypeOK'
<1> SUFFICES ASSUME TypeOK, [Next]_vars PROVE TypeOK'
  OBVIOUS
<1> USE DEF TypeOK, PCs, Ops
<1>1. CASE ScanFault
  BY <1>1 DEF ScanFault, Fault
<1>2. CASE FindLast
  <2>1. NextBlock(flash, block) \in Nat
    BY <1>2, ValidShape DEF FindLast
  <2> QED
    BY <1>2, <2>1 DEF FindLast
<1>3. CASE LastFound
  <2>1. /\ last' = last /\ blocks' = {}
        /\ pc' \in {"parse", "eraseFirst", "findFree"} /\ block' \in {0, block}
    BY <1>3 DEF LastFound, StartScan
  <2> QED
    BY <1>3, <2>1 DEF LastFound
<1>4. CASE EraseFirst
  BY <1>4 DEF EraseFirst, flash_sector_erase, Erased, StartScan
<1>5. CASE FindFree
  <2>1. NextBlock(flash, block) \in Nat
    BY <1>5, ValidShape DEF FindFree
  <2> QED
    BY <1>5, <2>1 DEF FindFree
<1>6. CASE FreeFound
  BY <1>6 DEF FreeFound
<1>7. CASE Room
  <2>1. RoomAt(dst) \in Nat
    <3>1. DstLen[caller] \in Int /\ dst \in Int /\ Mod \in Nat /\ Mod > 0
      BY CallersAssumption, BoundsAssumption, SizeAssumption DEF HEADER
    <3> QED
      BY <3>1 DEF RoomAt
  <2>2. size' \in Nat /\ index' \in 0 .. size' /\ pc' \in {"eraseFull", "data"}
    BY <1>7, <2>1 DEF Room, HEADER
  <2>3. UNCHANGED <<flash, locked, ram, op, caller, block, last, blocks, dst, result, crashes>>
    BY <1>7 DEF Room
  <2> QED
    BY <2>2, <2>3
<1>8. CASE EraseFull
  <2>1. DstLen[caller] - HEADER \in Nat
    BY CallersAssumption, SizeAssumption DEF HEADER
  <2> QED
    BY <1>8, <2>1, SizeAssumption DEF EraseFull, flash_sector_erase, Erased
<1>9. CASE WriteData
  <2>1. index' \in 0 .. size'
    BY <1>9 DEF WriteData, Fits
  <2> QED
    BY <1>9, <2>1 DEF WriteData, flash_write, Programmed
<1>10. CASE WriteRefused
  BY <1>10 DEF WriteRefused
<1>11. CASE WriteFault
  BY <1>11 DEF WriteFault, Fault
<1>12. CASE DataDone
  BY <1>12 DEF DataDone
<1>13. CASE Undo
  BY <1>13 DEF Undo, flash_sector_erase, Erased
<1>26. CASE SaveAgain
  BY <1>26 DEF SaveAgain, StartScan
<1>14. CASE WriteCrcLen
  BY <1>14 DEF WriteCrcLen, flash_write, Programmed
<1>15. CASE WriteLen
  BY <1>15 DEF WriteLen, flash_write, Programmed
<1>16. CASE WriteCrcData
  BY <1>16 DEF WriteCrcData, flash_write, Programmed
<1>17. CASE ReadBack
  BY <1>17 DEF ReadBack, StartScan
<1>18. CASE Parse
  <2>1. ram' \in Trees /\ result' \in {"none", "ok", "failed"}
    BY <1>18, TreesAssumption DEF Parse
  <2> QED
    BY <1>18, <2>1 DEF Parse
<1>19. CASE Wipe
  BY <1>19 DEF Wipe, flash_sector_erase, Erased
<1>20. ASSUME NEW c \in Callers, config_save(c) PROVE TypeOK'
  BY <1>20 DEF config_save, StartScan
<1>21. CASE config_load
  BY <1>21 DEF config_load, StartScan
<1>22. CASE config_erase
  BY <1>22 DEF config_erase
<1>23. ASSUME NEW t \in Trees, config_set(t) PROVE TypeOK'
  BY <1>23 DEF config_set
<1>24. CASE Crash
  BY <1>24, TreesAssumption, BoundsAssumption DEF Crash, StartScan
<1>25. CASE UNCHANGED vars
  BY <1>25 DEF vars
<1> QED
  BY <1>1, <1>2, <1>3, <1>4, <1>5, <1>6, <1>7, <1>8, <1>9, <1>10, <1>11, <1>12,
     <1>13, <1>14, <1>15, <1>16, <1>18, <1>19, <1>20, <1>21, <1>22, <1>23, <1>24, <1>25,
     <1>26, <1>17 DEF Next, Step, Command

\* Every variable of ConfigFlash keeps its type in every behaviour: in particular
\* the unsigned subtraction of config_save never gives a negative room.
THEOREM TypeCorrect == Spec => []TypeOK
<1>1. Init => TypeOK
  BY TreesAssumption, BoundsAssumption
     DEF Init, TypeOK, PCs, Ops, Erased
<1> QED
  BY <1>1, TypeStep, PTL DEF Spec

-----------------------------------------------------------------------------
(* Saved blocks survive the writing of a new one.                          *)

Writing == {"room", "eraseFull", "data", "undo", "crcLen", "len", "crcData"}

\* The blocks skipped so far are valid and end before the cursor of the scan,
\* later before the new block.
SkippedValid ==
  \A q \in blocks :
     /\ config_block_is_valid(flash, q)
     /\ pc = "findFree" => NextBlock(flash, q) <= block
     /\ pc \in Writing => NextBlock(flash, q) <= dst

\* No block is remembered when the whole sector may be about to go.
NoneSkipped == pc \in {"idle", "wipe", "eraseFirst", "parse"} => blocks = {}

AppendInv == TypeOK /\ SkippedValid /\ NoneSkipped

\* What a step does to the blocks that were skipped before it.
Kept == \A q \in blocks : /\ config_block_is_valid(flash', q)
                          /\ NextBlock(flash', q) = NextBlock(flash, q)
                          /\ Reading(flash', q) = Reading(flash, q)

\* Programming at or after the end of a valid block leaves it alone.
LEMMA WriteAbove ==
  ASSUME NEW f, IsSector(f), NEW q \in Nat, NEW d \in Nat, NEW a \in Nat, NEW w,
         config_block_is_valid(f, q), NextBlock(f, q) <= d, d <= a
  PROVE  /\ config_block_is_valid(Programmed(f, a, w), q)
         /\ NextBlock(Programmed(f, a, w), q) = NextBlock(f, q)
         /\ Reading(Programmed(f, a, w), q) = Reading(f, q)
<1> DEFINE g == Programmed(f, a, w)
<1>1. NextBlock(f, q) \in Nat
  BY ValidShape
<1>2. ASSUME NEW x \in Cells, x < NextBlock(f, q)
      PROVE  g[x] = f[x]
  <2>1. x # a /\ x \in DOMAIN f
    BY <1>1, <1>2, SizeAssumption DEF Cells, IsSector
  <2> QED
    BY <2>1 DEF Programmed
<1> QED
  BY <1>2, ValidStable

\* A write of config_save goes to an address at or after dst.
LEMMA WriteKeeps ==
  ASSUME AppendInv, pc \in Writing, NEW a \in Nat, dst <= a, NEW w, flash_write(a, w)
  PROVE  Kept
<1> SUFFICES ASSUME NEW q \in blocks
             PROVE  /\ config_block_is_valid(flash', q)
                    /\ NextBlock(flash', q) = NextBlock(flash, q)
                    /\ Reading(flash', q) = Reading(flash, q)
  BY DEF Kept
<1>1. /\ q \in Nat /\ dst \in Nat /\ IsSector(flash)
      /\ config_block_is_valid(flash, q) /\ NextBlock(flash, q) <= dst
  BY DEF AppendInv, TypeOK, SkippedValid, IsSector
<1>2. CASE locked
  BY <1>1, <1>2 DEF flash_write
<1>3. CASE ~ locked
  BY <1>1, <1>3, WriteAbove DEF flash_write
<1> QED
  BY <1>2, <1>3

\* Every step that is not an erase keeps the skipped blocks; an erase forgets them.
LEMMA StepKeeps ==
  ASSUME AppendInv, [Next]_vars
  PROVE  Kept \/ blocks' = {}
<1>1. (flash' = flash) => Kept
  BY DEF Kept, AppendInv, SkippedValid
<1>2. CASE WriteData
  <2>1. dst + HEADER + index \in Nat /\ dst <= dst + HEADER + index
    BY DEF AppendInv, TypeOK, HEADER
  <2>2. flash_write(dst + HEADER + index, DataWord(Enc[ram][index + 1]))
    BY <1>2 DEF WriteData
  <2>3. pc \in Writing
    BY <1>2 DEF WriteData, Writing
  <2> QED
    BY <2>1, <2>2, <2>3, WriteKeeps
<1>3. CASE WriteCrcLen
  <2>1. dst \in Nat /\ dst <= dst /\ pc \in Writing /\ flash_write(dst, LenCrc(index))
    BY <1>3 DEF AppendInv, TypeOK, WriteCrcLen, Writing
  <2> QED
    BY <2>1, WriteKeeps
<1>4. CASE WriteLen
  <2>1. dst + 1 \in Nat /\ dst <= dst + 1 /\ pc \in Writing /\ flash_write(dst + 1, LenWord(index))
    BY <1>4 DEF AppendInv, TypeOK, WriteLen, Writing
  <2> QED
    BY <2>1, WriteKeeps
<1>5. CASE WriteCrcData
  <2>1. /\ dst + 2 \in Nat /\ dst <= dst + 2 /\ pc \in Writing
        /\ flash_write(dst + 2, DataCrc(DataAt(flash, dst, index)))
    BY <1>5 DEF AppendInv, TypeOK, WriteCrcData, Writing
  <2> QED
    BY <2>1, WriteKeeps
<1>6. CASE EraseFirst \/ EraseFull \/ Undo \/ Wipe \/ Crash
  BY <1>6 DEF EraseFirst, EraseFull, Undo, Wipe, Crash, AppendInv, NoneSkipped
<1>7. CASE \/ ScanFault \/ WriteFault \/ FindLast \/ LastFound \/ FindFree \/ FreeFound
           \/ Room \/ WriteRefused \/ DataDone \/ SaveAgain \/ ReadBack \/ Parse
  BY <1>1, <1>7 DEF ScanFault, WriteFault, Fault, FindLast, LastFound, FindFree, FreeFound,
                    Room, WriteRefused, DataDone, SaveAgain, ReadBack, Parse
<1>8. CASE Command
  BY <1>1, <1>8 DEF Command, config_save, config_load, config_erase, config_set
<1>9. CASE UNCHANGED vars
  BY <1>1, <1>9 DEF vars
<1> QED
  BY <1>2, <1>3, <1>4, <1>5, <1>6, <1>7, <1>8, <1>9 DEF Next, Step

\* The invariant is inductive.
LEMMA AppendStep == AppendInv /\ [Next]_vars => AppendInv'
<1> SUFFICES ASSUME AppendInv, [Next]_vars PROVE AppendInv'
  OBVIOUS
<1>1. TypeOK'
  BY TypeStep DEF AppendInv
<1>2. Kept \/ blocks' = {}
  BY StepKeeps
<1>3. ASSUME blocks' = {} PROVE SkippedValid' /\ NoneSkipped'
  BY <1>3 DEF SkippedValid, NoneSkipped
<1>4. ASSUME Kept, blocks' = blocks, pc' # "findFree",
             pc' \in Writing => pc \in Writing /\ dst' = dst
      PROVE  SkippedValid'
  BY <1>4 DEF Kept, SkippedValid, AppendInv
<1>5. pc = "findFree" => \A q \in blocks : /\ config_block_is_valid(flash, q)
                                             /\ NextBlock(flash, q) \in Nat
                                             /\ NextBlock(flash, q) <= block
  BY ValidShape DEF AppendInv, TypeOK, SkippedValid
<1>6. CASE FindFree
  <2>1. /\ flash' = flash /\ block \in Nat /\ pc = "findFree" /\ pc' = pc
        /\ config_block_is_valid(flash, block)
        /\ blocks' = blocks \cup {block} /\ block' = NextBlock(flash, block)
    BY <1>6 DEF FindFree, AppendInv, TypeOK
  <2>2. NextBlock(flash, block) \in Nat /\ block <= NextBlock(flash, block)
    BY <2>1, ValidShape DEF HEADER
  <2>3. pc' \notin Writing
    BY <2>1 DEF Writing
  <2>4. ASSUME NEW q \in blocks'
        PROVE  config_block_is_valid(flash', q) /\ NextBlock(flash', q) <= block'
    BY <1>5, <2>1, <2>2
  <2> QED
    BY <1>1, <2>1, <2>3, <2>4 DEF AppendInv, SkippedValid, NoneSkipped
<1>7. CASE FreeFound
  <2>1. /\ flash' = flash /\ pc = "findFree"
        /\ blocks' = blocks /\ pc' = "room" /\ dst' = block
    BY <1>7 DEF FreeFound
  <2> QED
    BY <1>5, <1>1, <2>1 DEF AppendInv, SkippedValid, NoneSkipped, Writing
<1>8. CASE FindLast
  <2>1. blocks' = blocks /\ pc' = pc /\ pc = "findLast"
    BY <1>8 DEF FindLast
  <2> QED
    BY <1>1, <1>2, <1>3, <1>4, <2>1 DEF AppendInv, NoneSkipped, Writing
<1>9. CASE LastFound
  BY <1>1, <1>3, <1>9 DEF LastFound, AppendInv
<1>10. CASE EraseFirst \/ EraseFull \/ Undo \/ Wipe \/ Crash
  <2>1. blocks' = {}
    BY <1>10 DEF EraseFirst, EraseFull, Undo, Wipe, Crash, AppendInv, NoneSkipped
  <2> QED
    BY <1>1, <1>3, <2>1 DEF AppendInv
<1>11. CASE Room \/ WriteData \/ WriteRefused \/ DataDone \/ WriteCrcLen \/ WriteLen
  <2>1. /\ pc \in Writing /\ dst' = dst /\ blocks' = blocks
        /\ pc' \notin {"findFree", "idle", "wipe", "eraseFirst", "parse"}
    BY <1>11 DEF Room, WriteData, WriteRefused, DataDone, WriteCrcLen, WriteLen, Writing
  <2> QED
    BY <1>1, <1>2, <1>3, <1>4, <2>1 DEF AppendInv, NoneSkipped
<1>12. CASE WriteCrcData \/ SaveAgain \/ ReadBack \/ ScanFault \/ WriteFault
  <2>1. blocks' = blocks /\ pc' \in {"return", "findLast", "fault"}
    BY <1>12 DEF WriteCrcData, SaveAgain, ReadBack, ScanFault, WriteFault, Fault, StartScan
  <2>2. pc' \notin Writing
    BY <2>1 DEF Writing
  <2> QED
    BY <1>1, <1>2, <1>3, <1>4, <2>1, <2>2 DEF AppendInv, NoneSkipped
<1>13. CASE Parse \/ Command
  <2>1. blocks' = {}
    BY <1>13 DEF Parse, Command, config_save, config_load, config_erase, config_set,
                 AppendInv, NoneSkipped
  <2> QED
    BY <1>1, <1>3, <2>1 DEF AppendInv
<1>14. CASE UNCHANGED vars
  BY <1>14 DEF vars, AppendInv, TypeOK, SkippedValid, NoneSkipped
<1> QED
  BY <1>6, <1>7, <1>10, <1>11, <1>12, <1>13, <1>14, <1>8, <1>9
     DEF Next, Step

\* Only an erase destroys saved settings: for every sector size, whatever the
\* sector holds after any number of power losses, config_save never programs a
\* cell of a block that config_block_find_first_free found valid.
THEOREM SavedBlocksSurvive == Spec => AppendOnly
<1>1. Init => AppendInv
  <2>1. Init => TypeOK
    BY TreesAssumption, BoundsAssumption DEF Init, TypeOK, PCs, Ops, Erased
  <2> QED
    BY <2>1 DEF Init, AppendInv, SkippedValid, NoneSkipped
<1>2. AppendInv /\ [Next]_vars => KeepsSkipped
  BY StepKeeps DEF Kept, KeepsSkipped
<1> QED
  BY <1>1, <1>2, AppendStep, PTL DEF Spec, AppendOnly

-----------------------------------------------------------------------------
(* Scans and writes stay in the sector.                                    *)

\* A checksum of a length that was ever programmed into a cell, whatever else was
\* programmed there, belongs to a block that fits in the sector.
LengthsFit ==
  \A a \in Cells : \A n \in 0 .. SIZE : LenCrc(n) \in flash[a] => a + HEADER + n <= SIZE

\* The new block fits so far, and the room for its data did not wrap unless the chain
\* of blocks before it is longer than dst_len.
BlockFits ==
  /\ pc \in {"findFree", "room"} => op = "save"
  /\ pc = "eraseFirst" => op = "save"
  /\ pc = "eraseFull" => op = "save"
  /\ pc = "data" =>
       /\ index > 0 => dst + HEADER + index <= SIZE
       /\ op = "save"
       /\ dst > DstLen[caller] \/ dst + HEADER + size <= DstLen[caller]
  /\ pc = "crcLen" => dst + HEADER + index <= SIZE

EdgeInv == TypeOK /\ LengthsFit /\ BlockFits /\ FaultsAtTheEdge

\* Programming a word keeps LengthsFit, unless it is the checksum of a length that
\* does not fit.
LEMMA FitsAfterWrite ==
  ASSUME TypeOK, LengthsFit, NEW a \in Nat, NEW w, flash_write(a, w),
         \A n \in 0 .. SIZE : w = LenCrc(n) => a + HEADER + n <= SIZE
  PROVE  LengthsFit'
<1> SUFFICES ASSUME NEW x \in Cells, NEW n \in 0 .. SIZE, LenCrc(n) \in flash'[x]
             PROVE  x + HEADER + n <= SIZE
  BY DEF LengthsFit
<1>1. CASE LenCrc(n) \in flash[x]
  BY <1>1 DEF LengthsFit
<1>2. CASE LenCrc(n) \notin flash[x]
  <2>1. flash' = Programmed(flash, a, w) /\ DOMAIN flash = Cells
    BY <1>2 DEF flash_write, TypeOK
  <2>2. x = a /\ LenCrc(n) = w
    BY <1>2, <2>1 DEF Programmed
  <2> QED
    BY <2>2
<1> QED
  BY <1>1, <1>2

\* An erase, whole or torn, keeps it.
LEMMA FitsAfterErase ==
  ASSUME LengthsFit, \A a \in Cells : flash'[a] \in {{}, flash[a]}
  PROVE  LengthsFit'
<1> SUFFICES ASSUME NEW x \in Cells, NEW n \in 0 .. SIZE, LenCrc(n) \in flash'[x]
             PROVE  x + HEADER + n <= SIZE
  BY DEF LengthsFit
<1>1. LenCrc(n) \in flash[x]
  OBVIOUS
<1> QED
  BY <1>1 DEF LengthsFit

\* When the length checksums fit, a scan only leaves the sector at its edge.
LEMMA OverrunAtEdge ==
  ASSUME TypeOK, LengthsFit, Overruns(flash, block)
  PROVE  block + PREFIX > SIZE
<1> SUFFICES ASSUME block + PREFIX <= SIZE PROVE FALSE
  BY SizeAssumption DEF TypeOK, PREFIX
<1>1. PICK n \in 0 .. SIZE : HasLength(flash, block, n) /\ block + HEADER + n > SIZE
  BY SizeAssumption DEF Overruns, TypeOK, PREFIX
<1>2. LenCrc(n) \in flash[block]
  BY <1>1 DEF HasLength
<1>3. block \in Cells
  BY SizeAssumption DEF TypeOK, Cells, PREFIX
<1>4. block + HEADER + n <= SIZE
  BY <1>2, <1>3 DEF LengthsFit
<1> QED
  BY <1>1, <1>4, SizeAssumption DEF TypeOK, HEADER

\* The invariant is inductive.
LEMMA EdgeStep == EdgeInv /\ [Next]_vars => EdgeInv'
<1> SUFFICES ASSUME EdgeInv, [Next]_vars PROVE EdgeInv'
  OBVIOUS
<1>1. TypeOK'
  BY TypeStep DEF EdgeInv
<1>2. /\ SIZE \in Nat /\ HEADER = 3 /\ dst \in Nat /\ size \in Nat /\ index \in Nat /\ block \in Nat
      /\ index <= size
      /\ caller \in Callers /\ DstLen[caller] \in Nat /\ HEADER <= DstLen[caller] /\ DstLen[caller] <= SIZE
  BY SizeAssumption, CallersAssumption DEF EdgeInv, TypeOK, HEADER
<1>3. (flash' = flash) => LengthsFit'
  BY DEF EdgeInv, LengthsFit
<1>4. flash_sector_erase => LengthsFit'
  <2> SUFFICES ASSUME flash_sector_erase PROVE LengthsFit'
    OBVIOUS
  <2>1. \A a \in Cells : flash'[a] \in {{}, flash[a]}
    BY DEF flash_sector_erase, Erased
  <2> QED
    BY <2>1, FitsAfterErase DEF EdgeInv
<1>5. CASE ScanFault
  <2>1. block + PREFIX > SIZE
    BY <1>5, OverrunAtEdge DEF ScanFault, EdgeInv
  <2> QED
    BY <1>1, <1>3, <1>5, <2>1 DEF ScanFault, Fault, EdgeInv, BlockFits, FaultsAtTheEdge
<1>6. CASE WriteFault
  <2>1. /\ pc = "data" /\ index + 1 <= size /\ dst + HEADER + index >= SIZE
        /\ op = "save" /\ (dst > DstLen[caller] \/ dst + HEADER + size <= DstLen[caller])
    BY <1>6 DEF WriteFault, Fits, EdgeInv, BlockFits
  <2>2. dst > DstLen[caller]
    BY <1>2, <2>1
  <2> QED
    BY <1>1, <1>3, <1>6, <2>1, <2>2 DEF WriteFault, Fault, EdgeInv, BlockFits, FaultsAtTheEdge
<1>7. CASE FindLast \/ FindFree
  BY <1>1, <1>3, <1>7 DEF FindLast, FindFree, EdgeInv, BlockFits, FaultsAtTheEdge
<1>8. CASE LastFound
  BY <1>1, <1>3, <1>8 DEF LastFound, StartScan, EdgeInv, BlockFits, FaultsAtTheEdge
<1>9. CASE EraseFirst
  BY <1>1, <1>4, <1>9 DEF EraseFirst, StartScan, EdgeInv, BlockFits, FaultsAtTheEdge
<1>10. CASE FreeFound
  BY <1>1, <1>3, <1>10 DEF FreeFound, EdgeInv, BlockFits, FaultsAtTheEdge
<1>11. CASE Room
  <2>1. pc = "room" /\ op = "save"
    BY <1>11 DEF Room, EdgeInv, BlockFits
  <2>2. UNCHANGED <<flash, locked, ram, op, caller, block, last, blocks, dst, result, crashes>>
    BY <1>11 DEF Room
  <2>3. dst <= DstLen[caller] => RoomAt(dst) = DstLen[caller] - dst
    BY <1>2, BoundsAssumption DEF RoomAt
  <2>4. pc' \in {"eraseFull", "data"}
    BY <1>11 DEF Room
  <2>5. pc' = "data" => index' = 0 /\ size' = RoomAt(dst) - HEADER
    BY <1>11 DEF Room
  <2>6. pc' = "data" => dst > DstLen[caller] \/ dst + HEADER + size' <= DstLen[caller]
    BY <1>2, <2>3, <2>5
  <2>7. BlockFits'
    BY <1>2, <2>1, <2>2, <2>4, <2>5, <2>6 DEF BlockFits
  <2> QED
    BY <1>1, <1>3, <2>2, <2>4, <2>7 DEF EdgeInv, FaultsAtTheEdge
<1>12. CASE EraseFull
  BY <1>1, <1>2, <1>4, <1>12 DEF EraseFull, EdgeInv, BlockFits, FaultsAtTheEdge
<1>13. CASE WriteData
  <2>1. \A n \in 0 .. SIZE : DataWord(Enc[ram][index + 1]) # LenCrc(n)
    BY DEF DataWord, LenCrc
  <2>2. dst + HEADER + index \in Nat
    BY <1>2
  <2>3. LengthsFit'
    BY <1>13, <2>1, <2>2, FitsAfterWrite DEF WriteData, EdgeInv
  <2> QED
    BY <1>1, <1>2, <1>13, <2>3 DEF WriteData, EdgeInv, BlockFits, FaultsAtTheEdge
<1>14. CASE WriteRefused \/ SaveAgain
  BY <1>1, <1>3, <1>14
     DEF WriteRefused, SaveAgain, StartScan, EdgeInv, BlockFits, FaultsAtTheEdge
<1>24. CASE DataDone
  <2>1. index > 0
    BY <1>24, TreesAssumption, SizeAssumption DEF DataDone, EdgeInv, TypeOK
  <2> QED
    BY <1>1, <1>3, <1>24, <2>1 DEF DataDone, EdgeInv, BlockFits, FaultsAtTheEdge
<1>15. CASE Undo
  BY <1>1, <1>4, <1>15 DEF Undo, EdgeInv, BlockFits, FaultsAtTheEdge
<1>16. CASE WriteCrcLen
  <2>1. pc = "crcLen" /\ dst + HEADER + index <= SIZE
    BY <1>16 DEF WriteCrcLen, EdgeInv, BlockFits
  <2>2. \A n \in 0 .. SIZE : LenCrc(index) = LenCrc(n) => dst + HEADER + n <= SIZE
    BY <2>1 DEF LenCrc
  <2>3. LengthsFit'
    BY <1>2, <1>16, <2>2, FitsAfterWrite DEF WriteCrcLen, EdgeInv
  <2> QED
    BY <1>1, <1>16, <2>3 DEF WriteCrcLen, EdgeInv, BlockFits, FaultsAtTheEdge
<1>17. CASE WriteLen
  <2>1. \A n \in 0 .. SIZE : LenWord(index) # LenCrc(n)
    BY DEF LenWord, LenCrc
  <2>2. dst + 1 \in Nat
    BY <1>2
  <2>3. LengthsFit'
    BY <1>17, <2>1, <2>2, FitsAfterWrite DEF WriteLen, EdgeInv
  <2> QED
    BY <1>1, <1>17, <2>3 DEF WriteLen, EdgeInv, BlockFits, FaultsAtTheEdge
<1>18. CASE WriteCrcData
  <2>1. \A n \in 0 .. SIZE : DataCrc(DataAt(flash, dst, index)) # LenCrc(n)
    BY DEF DataCrc, LenCrc
  <2>2. dst + 2 \in Nat
    BY <1>2
  <2>3. LengthsFit'
    BY <1>18, <2>1, <2>2, FitsAfterWrite DEF WriteCrcData, EdgeInv
  <2> QED
    BY <1>1, <1>18, <2>3 DEF WriteCrcData, EdgeInv, BlockFits, FaultsAtTheEdge
<1>19. CASE ReadBack \/ Parse
  <2>1. flash' = flash /\ pc' \in {"findLast", "idle"}
    BY <1>19 DEF ReadBack, Parse, StartScan
  <2> QED
    BY <1>1, <1>3, <2>1 DEF EdgeInv, BlockFits, FaultsAtTheEdge
<1>20. CASE Wipe
  BY <1>1, <1>4, <1>20 DEF Wipe, EdgeInv, BlockFits, FaultsAtTheEdge
<1>21. CASE Command
  <2>1. flash' = flash /\ pc' \in {"findLast", "wipe", "idle"}
    BY <1>21 DEF Command, config_save, config_load, config_erase, config_set, StartScan
  <2> QED
    BY <1>1, <1>3, <2>1 DEF EdgeInv, BlockFits, FaultsAtTheEdge
<1>22. CASE Crash
  <2>1. \A a \in Cells : flash'[a] \in {{}, flash[a]}
    BY <1>22 DEF Crash
  <2>2. LengthsFit'
    BY <2>1, FitsAfterErase DEF EdgeInv
  <2>3. pc' = "findLast"
    BY <1>22 DEF Crash, StartScan
  <2> QED
    BY <1>1, <2>2, <2>3 DEF EdgeInv, BlockFits, FaultsAtTheEdge
<1>23. CASE UNCHANGED vars
  BY <1>1, <1>3, <1>23 DEF vars, EdgeInv, BlockFits, FaultsAtTheEdge
<1> QED
  BY <1>5, <1>6, <1>7, <1>8, <1>9, <1>10, <1>11, <1>12, <1>13, <1>14, <1>15, <1>16,
     <1>17, <1>18, <1>19, <1>20, <1>21, <1>22, <1>23, <1>24 DEF Next, Step

\* The config sector is the last one of the chip, and a scan or a write only ever runs
\* off its end when the chain of blocks leaves no room there for a checksum and a length,
\* or is longer than the dst_len of the caller: no power loss, during a write or an erase,
\* leaves a header that leads the scan astray.
THEOREM LeavesSectorAtEdgeOnly == Spec => []FaultsAtTheEdge
<1>1. Init => EdgeInv
  <2>1. Init => TypeOK
    BY TreesAssumption, BoundsAssumption DEF Init, TypeOK, PCs, Ops, Erased
  <2> QED
    BY <2>1 DEF Init, EdgeInv, LengthsFit, Erased, BlockFits, FaultsAtTheEdge
<1> QED
  BY <1>1, EdgeStep, PTL DEF Spec, EdgeInv

-----------------------------------------------------------------------------
(* A save that starts from an erased sector succeeds.                      *)

\* What an erased sector holds after n data words of the tree t and then k of the
\* three words of the header were programmed at its start.
FreshCell(t, n, k, a) ==
  IF HEADER <= a /\ a < HEADER + n THEN {DataWord(Enc[t][a - HEADER + 1])}
  ELSE IF a = 0 /\ k >= 1 THEN {LenCrc(n)}
  ELSE IF a = 1 /\ k >= 2 THEN {LenWord(n)}
  ELSE IF a = 2 /\ k >= 3 THEN {DataCrc(Stored(t))}
  ELSE {}
Fresh(t, n, k) == [a \in Cells |-> FreshCell(t, n, k, a)]

WordsOf(t) == Len(Enc[t])

\* The first block of the sector, just written.
OnlyBlock(t, k) == flash = Fresh(t, WordsOf(t), k) /\ HEADER + WordsOf(t) <= SIZE

\* The steps that only config_save takes find the flash unlocked.
Unlocked ==
  /\ op = "save" /\ pc = "findLast" => ~ locked
  /\ pc = "again" => op = "save"
  /\ pc \in Writing \cup {"eraseFirst", "findFree", "return"} => op = "save" /\ ~ locked

\* Without a valid block at the start of the sector there is none, and config_save has
\* erased the sector when it looks for free space.
FirstBlock ==
  /\ pc = "findLast" => \/ last = NoBlock /\ block = 0
                        \/ last # NoBlock /\ config_block_is_valid(flash, 0)
  /\ pc = "findFree" => \/ last = NoBlock /\ flash = Erased
                        \/ last # NoBlock /\ config_block_is_valid(flash, 0)
  /\ pc = "eraseFirst" => last = NoBlock

\* A save that writes to the start of the sector found it erased, and the read-back
\* finds its block and no other.
FreshSave ==
  dst = 0 =>
    /\ pc = "room" => flash = Erased
    /\ pc = "data" => flash = Fresh(ram, index, 0) /\ index <= WordsOf(ram)
    /\ pc \in {"crcLen", "len", "crcData"} => index = WordsOf(ram)
    /\ pc = "crcLen" => OnlyBlock(ram, 0)
    /\ pc = "len" => OnlyBlock(ram, 1)
    /\ pc = "crcData" => OnlyBlock(ram, 2)
    /\ pc = "return" => OnlyBlock(ram, 3)
    /\ op = "check" /\ pc \in {"findLast", "parse"} => OnlyBlock(ram, 3)
    /\ op = "check" /\ pc = "findLast" => \/ block = 0 /\ last = NoBlock
                                          \/ block = HEADER + WordsOf(ram) /\ last = 0
    /\ op = "check" /\ pc = "parse" => last = 0

FreshInv == EdgeInv /\ Unlocked /\ FirstBlock /\ FreshSave

\* Programming an erased cell of the block.
LEMMA FreshWrite ==
  ASSUME NEW t, NEW n, NEW k, NEW m, NEW j, NEW x \in Cells, NEW w,
         FreshCell(t, n, k, x) = {}, FreshCell(t, m, j, x) = {w},
         \A a \in Cells : a # x => FreshCell(t, m, j, a) = FreshCell(t, n, k, a)
  PROVE  Programmed(Fresh(t, n, k), x, w) = Fresh(t, m, j)
BY DEF Programmed, Fresh

\* Programming the next word of the block.
LEMMA FreshGrows ==
  ASSUME NEW t \in Trees, NEW n \in Nat, HEADER + n <= SIZE
  PROVE  /\ Fresh(t, 0, 0) = Erased
         /\ HEADER + n < SIZE =>
              Programmed(Fresh(t, n, 0), HEADER + n, DataWord(Enc[t][n + 1])) = Fresh(t, n + 1, 0)
         /\ Programmed(Fresh(t, n, 0), 0, LenCrc(n)) = Fresh(t, n, 1)
         /\ Programmed(Fresh(t, n, 1), 1, LenWord(n)) = Fresh(t, n, 2)
         /\ Programmed(Fresh(t, n, 2), 2, DataCrc(Stored(t))) = Fresh(t, n, 3)
<1> USE SizeAssumption DEF HEADER, Cells
<1>1. Fresh(t, 0, 0) = Erased
  BY DEF Fresh, FreshCell, Erased
<1>2. ASSUME HEADER + n < SIZE
      PROVE  Programmed(Fresh(t, n, 0), HEADER + n, DataWord(Enc[t][n + 1])) = Fresh(t, n + 1, 0)
  <2>1. FreshCell(t, n, 0, HEADER + n) = {} /\ HEADER + n \in Cells
    BY <1>2 DEF FreshCell
  <2>2. (HEADER + n) - HEADER + 1 = n + 1
    OBVIOUS
  <2>3. FreshCell(t, n + 1, 0, HEADER + n) = {DataWord(Enc[t][n + 1])}
    BY <1>2, <2>2 DEF FreshCell
  <2>4. \A a \in Cells : a # HEADER + n => FreshCell(t, n + 1, 0, a) = FreshCell(t, n, 0, a)
    BY DEF FreshCell
  <2> QED
    BY <2>1, <2>3, <2>4, FreshWrite
<1>3. Programmed(Fresh(t, n, 0), 0, LenCrc(n)) = Fresh(t, n, 1)
  <2>1. 0 \in Cells /\ FreshCell(t, n, 0, 0) = {} /\ FreshCell(t, n, 1, 0) = {LenCrc(n)}
    BY DEF FreshCell
  <2>2. \A a \in Cells : a # 0 => FreshCell(t, n, 1, a) = FreshCell(t, n, 0, a)
    BY DEF FreshCell
  <2> QED
    BY <2>1, <2>2, FreshWrite
<1>4. Programmed(Fresh(t, n, 1), 1, LenWord(n)) = Fresh(t, n, 2)
  <2>1. 1 \in Cells /\ FreshCell(t, n, 1, 1) = {} /\ FreshCell(t, n, 2, 1) = {LenWord(n)}
    BY DEF FreshCell
  <2>2. \A a \in Cells : a # 1 => FreshCell(t, n, 2, a) = FreshCell(t, n, 1, a)
    BY DEF FreshCell
  <2> QED
    BY <2>1, <2>2, FreshWrite
<1>5. Programmed(Fresh(t, n, 2), 2, DataCrc(Stored(t))) = Fresh(t, n, 3)
  <2>1. 2 \in Cells /\ FreshCell(t, n, 2, 2) = {} /\ FreshCell(t, n, 3, 2) = {DataCrc(Stored(t))}
    BY DEF FreshCell
  <2>2. \A a \in Cells : a # 2 => FreshCell(t, n, 3, a) = FreshCell(t, n, 2, a)
    BY DEF FreshCell
  <2> QED
    BY <2>1, <2>2, FreshWrite
<1> QED
  BY <1>1, <1>2, <1>3, <1>4, <1>5

\* The data of the block reads back as it was serialised.
LEMMA FreshData ==
  ASSUME NEW t \in Trees, HEADER + WordsOf(t) <= SIZE, NEW k \in 0 .. 3
  PROVE  DataAt(Fresh(t, WordsOf(t), k), 0, WordsOf(t)) = Stored(t)
<1> DEFINE n == WordsOf(t)
<1>1. n \in Nat
  BY TreesAssumption, SizeAssumption DEF WordsOf
<1>2. ASSUME NEW i \in 1 .. n
      PROVE  Fresh(t, n, k)[0 + HEADER + i - 1] = {DataWord(Enc[t][i])}
  <2> HIDE DEF n
  <2>1. /\ HEADER + i - 1 \in Cells /\ HEADER <= HEADER + i - 1 /\ HEADER + i - 1 < HEADER + n
        /\ 0 + HEADER + i - 1 = HEADER + i - 1 /\ (HEADER + i - 1) - HEADER + 1 = i
    BY <1>1, SizeAssumption DEF HEADER, Cells, n
  <2>2. FreshCell(t, n, k, HEADER + i - 1) = {DataWord(Enc[t][i])}
    BY <2>1 DEF FreshCell
  <2> QED
    BY <2>1, <2>2 DEF Fresh
<1> QED
  BY <1>2 DEF DataAt, Stored, WordsOf

\* A scan of the sector finds the block and nothing behind it.
LEMMA FreshScan ==
  ASSUME NEW t \in Trees, OnlyBlock(t, 3)
  PROVE  /\ config_block_is_valid(flash, 0)
         /\ NextBlock(flash, 0) = HEADER + WordsOf(t)
         /\ Reading(flash, 0) = Stored(t)
         /\ ~ config_block_is_valid(flash, HEADER + WordsOf(t))
<1> DEFINE n == WordsOf(t)
<1>1. n \in 0 .. SIZE /\ n \in Nat /\ HEADER + n <= SIZE /\ flash = Fresh(t, n, 3)
  BY TreesAssumption, SizeAssumption DEF OnlyBlock, WordsOf
<1>2. DataAt(flash, 0, n) = Stored(t)
  BY <1>1, FreshData DEF OnlyBlock
<1> HIDE DEF n
<1>3. flash[0] = {LenCrc(n)} /\ flash[0 + 1] = {LenWord(n)} /\ flash[0 + 2] = {DataCrc(Stored(t))}
  <2>1. /\ 0 \in Cells /\ 1 \in Cells /\ 2 \in Cells
        /\ 0 + 1 = 1 /\ 0 + 2 = 2
    BY <1>1, SizeAssumption DEF Cells, HEADER
  <2>2. /\ FreshCell(t, n, 3, 0) = {LenCrc(n)}
        /\ FreshCell(t, n, 3, 1) = {LenWord(n)}
        /\ FreshCell(t, n, 3, 2) = {DataCrc(Stored(t))}
    BY <1>1 DEF FreshCell, HEADER
  <2> QED
    BY <1>1, <2>1, <2>2 DEF Fresh
<1>4. HasLength(flash, 0, n)
  BY <1>3 DEF HasLength
<1>5. config_block_get_length(flash, 0) = n
  BY <1>1, <1>4, LengthUnique
<1>6. ~ Overruns(flash, 0)
  <2>1. ASSUME NEW m \in 0 .. SIZE, HasLength(flash, 0, m)
        PROVE  0 + HEADER + m <= SIZE
    BY <2>1, <1>1, <1>5, LengthUnique, SizeAssumption DEF HEADER
  <2> QED
    BY <2>1, <1>1, SizeAssumption DEF Overruns, HEADER, PREFIX
<1>7. config_block_is_valid(flash, 0)
  BY <1>1, <1>2, <1>3, <1>4, <1>6 DEF config_block_is_valid
<1>8. ASSUME config_block_is_valid(flash, HEADER + n) PROVE FALSE
  <2>1. HEADER + n + HEADER <= SIZE
    BY <1>1, <1>8, ValidShape, SizeAssumption DEF HEADER
  <2>2. flash[HEADER + n] = {}
    <3>1. HEADER + n \in Cells /\ FreshCell(t, n, 3, HEADER + n) = {}
      BY <1>1, <2>1, SizeAssumption DEF FreshCell, Cells, HEADER
    <3> QED
      BY <1>1, <3>1 DEF Fresh
  <2>3. PICK m \in 0 .. SIZE : HasLength(flash, HEADER + n, m)
    BY <1>8 DEF config_block_is_valid
  <2> QED
    BY <2>2, <2>3 DEF HasLength
<1> QED
  BY <1>1, <1>2, <1>5, <1>7, <1>8, SizeAssumption DEF NextBlock, Reading, n, HEADER

\* The invariant is inductive.
LEMMA FreshStep == FreshInv /\ [Next]_vars => FreshInv'
<1> SUFFICES ASSUME FreshInv, [Next]_vars PROVE FreshInv'
  OBVIOUS
<1>1. EdgeInv' /\ EdgeInv
  BY EdgeStep DEF FreshInv
<1>2. /\ SIZE \in Nat /\ HEADER = 3 /\ dst \in Nat /\ index \in Nat /\ block \in Nat
      /\ ram \in Trees /\ WordsOf(ram) \in Nat /\ NoBlock = -1 /\ NoBlock # 0
      /\ caller \in Callers /\ HEADER <= SIZE
  BY SizeAssumption, TreesAssumption, CallersAssumption
     DEF FreshInv, EdgeInv, TypeOK, HEADER, WordsOf, NoBlock
<1>3. ~ locked /\ flash_sector_erase => flash' = Erased
  BY DEF flash_sector_erase
<1>4. ASSUME pc' \in {"idle", "wipe", "fault", "undo", "again"},
             pc' = "undo" => op' = "save" /\ ~ locked',
             pc' = "again" => op' = "save"
      PROVE  FreshInv'
  BY <1>1, <1>4 DEF FreshInv, Unlocked, FirstBlock, FreshSave, Writing
<1>5. CASE ScanFault \/ WriteFault \/ Parse \/ Wipe
  BY <1>4, <1>5 DEF ScanFault, WriteFault, Fault, Parse, Wipe
<1>6. CASE WriteRefused \/ Undo
  BY <1>4, <1>6 DEF WriteRefused, Undo, FreshInv, Unlocked, Writing
<1>7. CASE config_erase \/ \E t \in Trees \ {Corrupt} : config_set(t)
  BY <1>4, <1>7 DEF config_erase, config_set
<1>8. CASE \/ config_load \/ Crash \/ SaveAgain
           \/ \E c \in Callers : config_save(c)
  <2>1. /\ pc' = "findLast" /\ block' = 0 /\ last' = NoBlock
        /\ op' # "check" /\ (op' = "save" => ~ locked')
    BY <1>8 DEF config_load, Crash, SaveAgain, config_save, StartScan, FreshInv, Unlocked, Writing
  <2> QED
    BY <1>1, <2>1 DEF FreshInv, Unlocked, FirstBlock, FreshSave, Writing
<1>9. CASE FindLast
  <2>1. /\ pc = "findLast" /\ pc' = "findLast" /\ config_block_is_valid(flash, block)
        /\ last' = block /\ block' = NextBlock(flash, block)
        /\ UNCHANGED <<flash, locked, ram, op, dst>>
    BY <1>9 DEF FindLast
  <2>2. last' # NoBlock
    BY <1>2, <2>1
  <2>3. config_block_is_valid(flash, 0)
    BY <2>1 DEF FreshInv, FirstBlock
  <2>4. FirstBlock' /\ Unlocked'
    BY <2>1, <2>2, <2>3 DEF FreshInv, FirstBlock, Unlocked, Writing
  <2>5. ASSUME dst = 0, op = "check"
        PROVE  OnlyBlock(ram, 3) /\ block' = HEADER + WordsOf(ram) /\ last' = 0
    <3>1. /\ OnlyBlock(ram, 3)
          /\ block = 0 \/ block = HEADER + WordsOf(ram)
      BY <2>1, <2>5 DEF FreshInv, FreshSave
    <3>2. block = 0
      BY <1>2, <2>1, <3>1, FreshScan
    <3> QED
      BY <1>2, <2>1, <3>1, <3>2, FreshScan
  <2>6. dst = 0 /\ op = "check" => OnlyBlock(ram, 3)'
    BY <2>1, <2>5 DEF OnlyBlock
  <2>7. FreshSave'
    BY <2>1, <2>5, <2>6 DEF FreshSave
  <2> QED
    BY <1>1, <2>4, <2>7 DEF FreshInv
<1>10. CASE LastFound
  <2>1. /\ pc = "findLast" /\ ~ config_block_is_valid(flash, block)
        /\ UNCHANGED <<flash, locked, ram, op, dst, last>>
        /\ pc' \in {"parse", "eraseFirst", "findFree"}
        /\ pc' = "parse" => op # "save"
        /\ pc' = "eraseFirst" => op = "save" /\ last = NoBlock
        /\ pc' = "findFree" => op = "save" /\ last # NoBlock
    BY <1>10 DEF LastFound, StartScan
  <2>2. FirstBlock' /\ Unlocked'
    BY <2>1 DEF FreshInv, FirstBlock, Unlocked, Writing
  <2>3. ASSUME dst = 0, op = "check"
        PROVE  OnlyBlock(ram, 3) /\ last = 0
    <3>1. /\ OnlyBlock(ram, 3)
          /\ block = 0 \/ last = 0
      BY <2>1, <2>3 DEF FreshInv, FreshSave
    <3> QED
      BY <1>2, <2>1, <3>1, FreshScan
  <2>4. dst = 0 /\ op = "check" => OnlyBlock(ram, 3)'
    BY <2>1, <2>3 DEF OnlyBlock
  <2>5. FreshSave'
    BY <2>1, <2>3, <2>4 DEF FreshSave
  <2> QED
    BY <1>1, <2>2, <2>5 DEF FreshInv
<1>11. CASE EraseFirst
  <2>1. /\ last = NoBlock /\ op = "save" /\ ~ locked /\ flash_sector_erase /\ pc' = "findFree"
        /\ UNCHANGED <<locked, op, last>>
    BY <1>11 DEF EraseFirst, StartScan, FreshInv, FirstBlock, Unlocked
  <2> QED
    BY <1>1, <1>3, <2>1 DEF FreshInv, Unlocked, FirstBlock, FreshSave, Writing
<1>12. CASE FindFree
  <2>1. pc = "findFree" /\ UNCHANGED <<flash, locked, op, pc, last>>
    BY <1>12 DEF FindFree
  <2> QED
    BY <1>1, <2>1 DEF FreshInv, Unlocked, FirstBlock, FreshSave, Writing
<1>13. CASE FreeFound
  <2>1. /\ pc = "findFree" /\ pc' = "room" /\ dst' = block /\ ~ config_block_is_valid(flash, block)
        /\ UNCHANGED <<flash, locked, op>>
    BY <1>13 DEF FreeFound
  <2>2. block = 0 => flash = Erased
    BY <2>1 DEF FreshInv, FirstBlock
  <2> QED
    BY <1>1, <2>1, <2>2 DEF FreshInv, Unlocked, FirstBlock, FreshSave, Writing
<1>14. CASE Room \/ EraseFull
  <2>1. op = "save" /\ ~ locked /\ UNCHANGED <<op, locked, ram>> /\ pc' \in {"data", "eraseFull"}
    BY <1>14 DEF Room, EraseFull, FreshInv, Unlocked, Writing
  <2>2. pc' = "data" => index' = 0 /\ (dst' = 0 => flash' = Erased)
    BY <1>3, <1>14, <2>1 DEF Room, EraseFull, FreshInv, FreshSave
  <2>3. Fresh(ram, 0, 0) = Erased
    BY <1>2, FreshGrows
  <2>4. pc' = "data" => (dst' = 0 => flash' = Fresh(ram', index', 0) /\ index' <= WordsOf(ram)')
    BY <1>2, <2>1, <2>2, <2>3 DEF WordsOf
  <2> QED
    BY <1>1, <2>1, <2>4 DEF FreshInv, Unlocked, FirstBlock, FreshSave, Writing
<1>15. CASE WriteData
  <2>1. /\ pc = "data" /\ pc' = "data" /\ op = "save" /\ ~ locked /\ UNCHANGED <<op, locked, ram, dst>>
        /\ index < WordsOf(ram) /\ index' = index + 1 /\ dst + HEADER + index < SIZE
        /\ flash' = Programmed(flash, dst + HEADER + index, DataWord(Enc[ram][index + 1]))
    BY <1>15 DEF WriteData, flash_write, FreshInv, Unlocked, Writing, WordsOf
  <2>2. ASSUME dst = 0 PROVE flash' = Fresh(ram, index + 1, 0)
    <3>1. flash = Fresh(ram, index, 0) /\ dst + HEADER + index = HEADER + index
          /\ HEADER + index < SIZE /\ HEADER + index <= SIZE
      BY <1>2, <2>1, <2>2 DEF FreshInv, FreshSave
    <3> QED
      BY <1>2, <2>1, <3>1, FreshGrows
  <2>3. index' <= WordsOf(ram)'
    BY <1>2, <2>1 DEF WordsOf
  <2> QED
    BY <1>1, <2>1, <2>2, <2>3 DEF FreshInv, Unlocked, FirstBlock, FreshSave, Writing
<1>16. CASE DataDone
  <2>1. /\ pc = "data" /\ pc' = "crcLen" /\ op = "save" /\ ~ locked
        /\ index = WordsOf(ram) /\ UNCHANGED <<flash, op, locked, ram, dst, index>>
    BY <1>16 DEF DataDone, FreshInv, Unlocked, Writing, WordsOf
  <2>2. ASSUME dst = 0 PROVE OnlyBlock(ram, 0)
    <3>1. flash = Fresh(ram, index, 0) /\ dst + HEADER + index <= SIZE
      BY <1>1, <2>1, <2>2 DEF FreshInv, FreshSave, EdgeInv, BlockFits
    <3> QED
      BY <1>2, <2>1, <2>2, <3>1 DEF OnlyBlock
  <2>3. (dst = 0 => OnlyBlock(ram, 0)') /\ WordsOf(ram)' = WordsOf(ram)
    BY <2>1, <2>2 DEF OnlyBlock, WordsOf
  <2> QED
    BY <1>1, <2>1, <2>3 DEF FreshInv, Unlocked, FirstBlock, FreshSave, Writing
<1>17. CASE WriteCrcLen
  <2>1. /\ pc = "crcLen" /\ pc' = "len" /\ op = "save" /\ ~ locked /\ UNCHANGED <<op, locked, ram, dst, index>>
        /\ flash' = Programmed(flash, dst, LenCrc(index))
    BY <1>17 DEF WriteCrcLen, flash_write, FreshInv, Unlocked, Writing
  <2>2. dst = 0 => index = WordsOf(ram) /\ OnlyBlock(ram, 0)
    BY <2>1 DEF FreshInv, FreshSave
  <2>3. (dst = 0 => OnlyBlock(ram, 1)') /\ WordsOf(ram)' = WordsOf(ram)
    BY <1>2, <2>1, <2>2, FreshGrows DEF OnlyBlock, WordsOf
  <2> QED
    BY <1>1, <2>1, <2>2, <2>3 DEF FreshInv, Unlocked, FirstBlock, FreshSave, Writing
<1>18. CASE WriteLen
  <2>1. /\ pc = "len" /\ pc' = "crcData" /\ op = "save" /\ ~ locked /\ UNCHANGED <<op, locked, ram, dst, index>>
        /\ flash' = Programmed(flash, dst + 1, LenWord(index))
    BY <1>18 DEF WriteLen, flash_write, FreshInv, Unlocked, Writing
  <2>2. dst = 0 => index = WordsOf(ram) /\ OnlyBlock(ram, 1) /\ dst + 1 = 1
    BY <2>1 DEF FreshInv, FreshSave
  <2>3. (dst = 0 => OnlyBlock(ram, 2)') /\ WordsOf(ram)' = WordsOf(ram)
    BY <1>2, <2>1, <2>2, FreshGrows DEF OnlyBlock, WordsOf
  <2> QED
    BY <1>1, <2>1, <2>2, <2>3 DEF FreshInv, Unlocked, FirstBlock, FreshSave, Writing
<1>19. CASE WriteCrcData
  <2>1. /\ pc = "crcData" /\ pc' = "return" /\ op = "save" /\ ~ locked /\ UNCHANGED <<op, locked, ram, dst, index>>
        /\ flash' = Programmed(flash, dst + 2, DataCrc(DataAt(flash, dst, index)))
    BY <1>19 DEF WriteCrcData, flash_write, FreshInv, Unlocked, Writing
  <2>2. dst = 0 => index = WordsOf(ram) /\ OnlyBlock(ram, 2) /\ dst + 2 = 2
    BY <2>1 DEF FreshInv, FreshSave
  <2>3. dst = 0 => DataAt(flash, dst, index) = Stored(ram)
    BY <1>2, <2>2, FreshData DEF OnlyBlock
  <2>4. dst = 0 => OnlyBlock(ram, 3)'
    BY <1>2, <2>1, <2>2, <2>3, FreshGrows DEF OnlyBlock, WordsOf
  <2> QED
    BY <1>1, <2>1, <2>4 DEF FreshInv, Unlocked, FirstBlock, FreshSave, Writing
<1>20. CASE ReadBack
  <2>1. /\ pc = "return" /\ pc' = "findLast" /\ op' = "check" /\ block' = 0 /\ last' = NoBlock
        /\ UNCHANGED <<flash, ram, dst>>
    BY <1>20 DEF ReadBack, StartScan
  <2>2. dst = 0 => OnlyBlock(ram, 3)'
    BY <2>1 DEF FreshInv, FreshSave, OnlyBlock
  <2> QED
    BY <1>1, <2>1, <2>2 DEF FreshInv, Unlocked, FirstBlock, FreshSave, Writing
<1>21. CASE UNCHANGED vars
  <2>1. \A k \in 0 .. 3 : OnlyBlock(ram, k) => OnlyBlock(ram, k)'
    BY <1>21 DEF vars, OnlyBlock
  <2>2. UNCHANGED <<flash, locked, ram, op, pc, block, last, dst, index>> /\ WordsOf(ram)' = WordsOf(ram)
    BY <1>21 DEF vars, WordsOf
  <2> QED
    BY <1>1, <2>1, <2>2 DEF FreshInv, Unlocked, FirstBlock, FreshSave, Writing
<1> QED
  BY <1>5, <1>6, <1>7, <1>8, <1>9, <1>10, <1>11, <1>12, <1>13, <1>14, <1>15, <1>16,
     <1>17, <1>18, <1>19, <1>20, <1>21 DEF Next, Step, Command

\* Whatever power losses left in the sector, a save that had to erase it first is
\* answered "OK." and reads back the tree it saved, for every sector size, dst_len and
\* set of trees.
THEOREM SaveAfterEraseSucceeds == Spec => ErasedSaveSucceeds
<1>1. Init => FreshInv
  <2>1. Init => EdgeInv
    <3>1. Init => TypeOK
      BY TreesAssumption, BoundsAssumption DEF Init, TypeOK, PCs, Ops, Erased
    <3> QED
      BY <3>1 DEF Init, EdgeInv, LengthsFit, Erased, BlockFits, FaultsAtTheEdge
  <2> QED
    BY <2>1 DEF Init, FreshInv, Unlocked, FirstBlock, FreshSave, Writing
<1>2. ASSUME FreshInv, Parse, op = "check", dst = 0
      PROVE  result' = "ok" /\ ram' = ram
  <2>1. /\ pc = "parse" /\ last = 0 /\ OnlyBlock(ram, 3) /\ ram \in Trees /\ last # NoBlock
    BY <1>2 DEF Parse, FreshInv, FreshSave, EdgeInv, TypeOK, NoBlock
  <2>2. Reading(flash, last) = Stored(ram)
    BY <2>1, FreshScan
  <2>3. PICK t \in Trees : Reading(flash, last) = Stored(t) /\ ram' = t /\ result' = "ok"
    BY <1>2, <2>1, <2>2 DEF Parse
  <2>4. Len(Enc[t]) \in Nat /\ Len(Enc[ram]) \in Nat
    BY <2>1, TreesAssumption, SizeAssumption
  <2>5. Len(Enc[t]) = Len(Enc[ram])
    <3>1. DOMAIN Stored(t) = DOMAIN Stored(ram)
      BY <2>2, <2>3
    <3>2. 1 .. Len(Enc[t]) = 1 .. Len(Enc[ram])
      BY <3>1 DEF Stored
    <3> QED
      BY <2>4, <3>2
  <2>6. ASSUME NEW i \in 1 .. Len(Enc[t]) PROVE Enc[t][i] = Enc[ram][i]
    <3>1. Stored(t)[i] = Stored(ram)[i]
      BY <2>2, <2>3
    <3>2. {DataWord(Enc[t][i])} = {DataWord(Enc[ram][i])}
      BY <2>5, <3>1 DEF Stored
    <3>3. DataWord(Enc[t][i]) = DataWord(Enc[ram][i])
      BY <3>2
    <3> QED
      BY <3>3 DEF DataWord
  <2>7. t = ram
    BY <2>1, <2>5, <2>6, EncAssumption
  <2> QED
    BY <2>3, <2>7
<1>3. FreshInv /\ [Next]_vars =>
        [op = "check" /\ ParseReturns /\ dst = 0 => result' = "ok" /\ ram' = ram]_vars
  <2> SUFFICES ASSUME FreshInv, Next, op = "check", pc = "parse", crashes' = crashes, dst = 0
               PROVE  result' = "ok" /\ ram' = ram
    BY DEF ParseReturns
  <2>1. crashes \in Nat
    BY BoundsAssumption DEF FreshInv, EdgeInv, TypeOK
  <2>2. ~ Crash
    BY <2>1 DEF Crash
  <2>3. Parse
    BY <2>2 DEF Next, Step, Command, ScanFault, FindLast, LastFound, EraseFirst, FindFree,
         FreeFound,
                Room, EraseFull, WriteData, WriteRefused, WriteFault, DataDone, Undo,
                SaveAgain, WriteCrcLen, WriteLen, WriteCrcData, ReadBack, Wipe, config_save,
                config_load, config_erase,
                config_set
  <2> QED
    BY <1>2, <2>3
<1> QED
  BY <1>1, <1>3, FreshStep, PTL DEF Spec, ErasedSaveSucceeds

-----------------------------------------------------------------------------
(* Two callers: no call destroys a block with what it knew before it was    *)
(* suspended.                                                              *)

\* Address b is the start of the sector or the end of a valid block.
Reached(f, b) ==
  b = 0 \/ \E q \in Cells : config_block_is_valid(f, q) /\ NextBlock(f, q) = b

\* All valid blocks are in one chain.
Chained(f) == \A p \in Cells : config_block_is_valid(f, p) => Reached(f, p)

\* Every valid block ends at or before d.
EndBefore(f, d) ==
  \A p \in Cells : config_block_is_valid(f, p) => NextBlock(f, p) <= d

\* The valid blocks before b end at or before it.
Cursor(f, b) ==
  /\ Reached(f, b)
  /\ \A p \in Cells : config_block_is_valid(f, p) /\ p < b => NextBlock(f, p) <= b

\* A length was programmed after its checksum, and the checksum of the data after the
\* length and the data.
Headers(f) ==
  \A a \in Cells : \A w \in f[a] :
    /\ w[1] = "len" => a - 1 \in Cells /\ LenCrc(w[2]) \in f[a - 1]
    /\ w[1] = "dcrc" => /\ a - 1 \in Cells /\ \E v \in f[a - 1] : v[1] = "len"
                        /\ \A i \in DOMAIN w[2] :
                             a + i \in Cells => w[2][i] \subseteq f[a + i]

\* What a call that is not overtaken may rely on, at control point c, with the locals
\* o (op), b (block), d (dst) and i (index).
CallOK(o, c, b, d, i) ==
  /\ o = "save" /\ c = "findLast" => ~ locked
  /\ c \in Writing \cup {"eraseFirst", "findFree"} => o = "save" /\ ~ locked
  /\ c = "again" => o = "save"
  /\ c = "findFree" => Cursor(flash, b)
  /\ c \in Writing => Reached(flash, d) /\ EndBefore(flash, d)
  /\ c = "data" /\ i > 0 => d + HEADER <= SIZE
  /\ c \in {"crcLen", "len", "crcData"} => d + HEADER <= SIZE
  /\ c = "len" => LenCrc(i) \in flash[d]
  /\ c = "crcData" => LenWord(i) \in flash[d + 1]

PreemptTypes ==
  /\ IsSector(flash) /\ block \in Nat /\ dst \in Nat /\ index \in Nat
  /\ ram \in Trees /\ running \in {"aseba", "shell"}
  /\ frame # NoFrame => frame[4] \in Nat /\ frame[7] \in Nat /\ frame[9] \in Nat

FlashOK == Chained(flash) /\ Headers(flash)

\* The call that runs, and the suspended one, unless the shell overtook it.
RunningOK == ~ (running = "aseba" /\ overtaken) => CallOK(op, pc, block, dst, index)
FrameOK ==
  frame # NoFrame /\ ~ overtaken => CallOK(frame[1], frame[3], frame[4], frame[7], frame[9])

\* An overtaken call of Aseba finds the flash locked: it is only unlocked while the
\* shell saves or erases.
Voided ==
  overtaken /\ ~ locked =>
    /\ running = "shell"
    /\ pc = "wipe" \/ (op = "save" /\ pc \notin {"idle", "parse"})

\* Under a suspended call that it has not overtaken the shell only reads the flash.
OnlyReads ==
  frame # NoFrame =>
    /\ running = "aseba" => pc = "idle"
    /\ ~ overtaken => /\ pc \in {"idle", "findLast", "parse", "fault"}
                      /\ pc = "findLast" => op # "save"

PreemptInv == PreemptTypes /\ FlashOK /\ RunningOK /\ FrameOK /\ Voided /\ OnlyReads

\* What a call relies on as long as no other one interferes.
CallInv ==
  /\ IsSector(flash) /\ block \in Nat /\ dst \in Nat /\ index \in Nat /\ ram \in Trees
  /\ FlashOK /\ CallOK(op, pc, block, dst, index)

\* It holds of a running call that is not overtaken.
LEMMA CallAlone ==
  ASSUME PreemptInv, ~ (running = "aseba" /\ overtaken)
  PROVE  CallInv
BY DEF PreemptInv, RunningOK, PreemptTypes, CallInv

\* A set of natural numbers has a least element.
LEMMA LeastAddress ==
  ASSUME NEW T \in SUBSET Nat, T # {}
  PROVE  \E p \in T : \A q \in T : p <= q
<1> DEFINE R == {ss \in Nat \X Nat : ss[1] < ss[2]}
<1>1. IsWellFoundedOn(R, Nat)
  BY NatLessThanWellFounded, Zenon DEF OpToRel
<1> HIDE DEF R
<1>2. PICK p \in T : \A q \in T : ~ (<<q, p>> \in R)
  BY <1>1, WFMin, Zenon
<1>3. ASSUME NEW q \in T PROVE p <= q
  <2>1. <<q, p>> \notin R /\ p \in Nat /\ q \in Nat
    BY <1>2
  <2>2. ~ (q < p)
    BY <2>1 DEF R
  <2> QED
    BY <2>1, <2>2
<1> QED
  BY <1>3, Zenon

\* There is no valid block behind the cursor but in the chain that goes on from there.
LEMMA NothingSkipped ==
  ASSUME NEW f, Chained(f), NEW b \in Nat, Cursor(f, b),
         NEW p \in Cells, config_block_is_valid(f, p), p > b
  PROVE  config_block_is_valid(f, b) /\ NextBlock(f, b) <= p
<1> SUFFICES ASSUME ~ (config_block_is_valid(f, b) /\ NextBlock(f, b) <= p)
             PROVE  FALSE
  OBVIOUS
<1> DEFINE T == {x \in Cells : /\ config_block_is_valid(f, x) /\ x > b
                               /\ ~ (config_block_is_valid(f, b) /\ NextBlock(f, b) <= x)}
<1>1. T \in SUBSET Nat /\ T # {}
  BY SizeAssumption DEF Cells
<1>2. PICK x \in T : \A y \in T : x <= y
  BY <1>1, LeastAddress
<1>3. /\ x \in Cells /\ x \in Nat /\ config_block_is_valid(f, x) /\ x > b
      /\ ~ (config_block_is_valid(f, b) /\ NextBlock(f, b) <= x)
  BY <1>1, <1>2
<1>4. PICK q \in Cells : config_block_is_valid(f, q) /\ NextBlock(f, q) = x
  BY <1>3, SizeAssumption DEF Chained, Reached, Cells
<1>5. q \in Nat /\ NextBlock(f, q) >= q + HEADER
  BY <1>4, ValidShape, SizeAssumption DEF Cells
<1>6. q < x
  BY <1>3, <1>4, <1>5 DEF HEADER
<1>7. ~ (q < b)
  <2>1. q < b => x <= b
    BY <1>4 DEF Cursor
  <2> QED
    BY <1>3, <2>1
<1>8. q # b
  BY <1>3, <1>4
<1>9. q > b
  BY <1>5, <1>7, <1>8
<1>10. config_block_is_valid(f, b) => NextBlock(f, b) \in Nat
  BY ValidShape
<1>11. q \in T
  BY <1>3, <1>4, <1>5, <1>6, <1>9, <1>10
<1> QED
  BY <1>2, <1>3, <1>5, <1>6, <1>11

\* The scan for free space: after a valid block, and at its end.
LEMMA CursorMoves ==
  ASSUME NEW f, Chained(f), NEW b \in Nat, Cursor(f, b)
  PROVE  /\ config_block_is_valid(f, b) => Cursor(f, NextBlock(f, b))
         /\ ~ config_block_is_valid(f, b) => EndBefore(f, b)
<1>1. ASSUME config_block_is_valid(f, b) PROVE Cursor(f, NextBlock(f, b))
  <2>1. /\ NextBlock(f, b) \in Nat /\ NextBlock(f, b) >= b + HEADER /\ NextBlock(f, b) <= SIZE
    BY <1>1, ValidShape
  <2>2. b \in Cells
    BY <2>1, SizeAssumption DEF Cells, HEADER
  <2>3. Reached(f, NextBlock(f, b))
    BY <1>1, <2>2 DEF Reached
  <2>4. ASSUME NEW p \in Cells, config_block_is_valid(f, p), p < NextBlock(f, b)
        PROVE  NextBlock(f, p) <= NextBlock(f, b)
    <3>1. p \in Nat /\ NextBlock(f, p) \in Nat
      BY <2>4, ValidShape, SizeAssumption DEF Cells
    <3>2. p <= b
      BY <2>1, <2>4, <3>1, NothingSkipped
    <3>3. CASE p = b
      BY <2>1, <3>3
    <3>4. CASE p < b
      <4>1. NextBlock(f, p) <= b
        BY <2>4, <3>4 DEF Cursor
      <4> QED
        BY <2>1, <3>1, <4>1 DEF HEADER
    <3> QED
      BY <3>1, <3>2, <3>3, <3>4
  <2> QED
    BY <2>3, <2>4 DEF Cursor
<1>2. ASSUME ~ config_block_is_valid(f, b) PROVE EndBefore(f, b)
  <2> SUFFICES ASSUME NEW p \in Cells, config_block_is_valid(f, p)
               PROVE  NextBlock(f, p) <= b
    BY DEF EndBefore
  <2>1. p \in Nat /\ p # b
    BY <1>2, SizeAssumption DEF Cells
  <2>2. p < b
    BY <1>2, <2>1, NothingSkipped
  <2> QED
    BY <2>2 DEF Cursor
<1> QED
  BY <1>1, <1>2

\* Only the checksum of its data makes a block valid.
LEMMA OnlyCrcValidates ==
  ASSUME NEW f, IsSector(f), Headers(f), NEW a \in Nat, NEW w, NEW p \in Cells,
         config_block_is_valid(Programmed(f, a, w), p),
         a = p + 2 => w[1] # "dcrc"
  PROVE  config_block_is_valid(f, p)
<1> DEFINE g == Programmed(f, a, w)
           n == config_block_get_length(g, p)
           c == Reading(g, p)
<1>1. p \in Nat
  BY SizeAssumption DEF Cells
<1>2. /\ n \in 0 .. SIZE /\ g[p] = {LenCrc(n)} /\ g[p + 1] = {LenWord(n)}
      /\ g[p + 2] = {DataCrc(c)}
      /\ NextBlock(g, p) = p + n + 3 /\ p + n + 3 <= SIZE
  BY <1>1, ValidShape DEF NextBlock, HEADER, HasLength
<1>3. c = [i \in 1 .. n |-> g[p + HEADER + i - 1]]
  BY DEF Reading, DataAt
<1>4. /\ \A x \in Cells : x # a => g[x] = f[x]
      /\ a \in Cells => g[a] = f[a] \cup {w}
      /\ \A x \in Cells : f[x] \subseteq g[x]
  BY DEF Programmed, IsSector
<1>5. p + 1 \in Cells /\ p + 2 \in Cells /\ p + 1 \in Nat /\ p + 2 \in Nat
  BY <1>1, <1>2, SizeAssumption DEF Cells
<1> HIDE DEF g, n, c
<1>6. LenWord(n)[1] = "len" /\ LenWord(n)[2] = n /\ DataCrc(c)[1] = "dcrc" /\ DataCrc(c)[2] = c
  BY DEF LenWord, DataCrc
<1>7. a # p + 2
  <2>1. a = p + 2 => w \in g[p + 2]
    BY <1>4, <1>5
  <2> QED
    BY <1>2, <1>6, <2>1
<1>8. f[p + 2] = {DataCrc(c)}
  BY <1>2, <1>4, <1>5, <1>7
<1>9. ASSUME p <= a, a < p + n + 3 PROVE w \in f[a]
  <2>1. a \in Cells
    BY <1>1, <1>2, <1>9, SizeAssumption DEF Cells
  <2>2. w \in g[a]
    BY <1>4, <2>1
  <2>3. CASE a = p
    <3>1. f[p + 1] = {LenWord(n)}
      BY <1>1, <1>2, <1>4, <1>5, <2>3
    <3>2. (p + 1) - 1 = p /\ LenWord(n) \in f[p + 1]
      BY <1>1, <3>1
    <3>3. LenCrc(n) \in f[p]
      BY <1>5, <1>6, <3>2 DEF Headers
    <3> QED
      BY <1>2, <2>2, <2>3, <3>3
  <2>4. CASE a = p + 1
    <3>1. (p + 2) - 1 = p + 1 /\ DataCrc(c) \in f[p + 2]
      BY <1>1, <1>8
    <3>2. \E v \in f[p + 1] : v[1] = "len"
      BY <1>5, <1>6, <3>1 DEF Headers
    <3>3. LenWord(n) \in f[p + 1]
      BY <1>2, <1>4, <1>5, <3>2
    <3> QED
      BY <1>2, <2>2, <2>4, <3>3
  <2>5. CASE a >= p + 3
    <3> DEFINE i == a - (p + 2)
    <3>1. i \in 1 .. n /\ (p + 2) + i = a /\ p + HEADER + i - 1 = a
      BY <1>1, <1>2, <1>9, <2>5, SizeAssumption DEF HEADER
    <3> HIDE DEF i
    <3>2. c[i] = g[a] /\ i \in DOMAIN c
      BY <1>3, <3>1
    <3>3. DataCrc(c) \in f[p + 2]
      BY <1>8
    <3>4. c[i] \subseteq f[a]
      BY <1>5, <1>6, <2>1, <3>1, <3>2, <3>3 DEF Headers
    <3> QED
      BY <2>2, <3>2, <3>4
  <2> QED
    BY <1>1, <1>7, <1>9, <2>3, <2>4, <2>5
<1>10. ASSUME NEW x \in Cells, p <= x, x < NextBlock(g, p) PROVE f[x] = g[x]
  <2>1. CASE x # a
    BY <1>4, <2>1
  <2>2. CASE x = a
    <3>1. w \in f[a]
      BY <1>2, <1>9, <1>10, <2>2
    <3> QED
      BY <1>4, <1>10, <2>2, <3>1
  <2> QED
    BY <2>1, <2>2
<1>11. config_block_is_valid(g, p)
  BY DEF g
<1> QED
  BY <1>1, <1>10, <1>11, ValidStable

\* Programming at or after the end of the last valid block.  Word w completes the block
\* at d if it is the checksum of the data, and no other block.
LEMMA WriteChained ==
  ASSUME NEW f, IsSector(f), Headers(f), Chained(f),
         NEW d \in Nat, NEW a \in Nat, NEW w, d <= a,
         Reached(f, d), EndBefore(f, d),
         w[1] = "dcrc" => a = d + 2
  PROVE  /\ Chained(Programmed(f, a, w))
         /\ Reached(Programmed(f, a, w), d)
         /\ w[1] # "dcrc" => EndBefore(Programmed(f, a, w), d)
         /\ \A p \in Cells : config_block_is_valid(f, p) =>
              /\ config_block_is_valid(Programmed(f, a, w), p)
              /\ Reading(Programmed(f, a, w), p) = Reading(f, p)
<1> DEFINE g == Programmed(f, a, w)
<1>1. ASSUME NEW p \in Cells, config_block_is_valid(f, p)
      PROVE  /\ config_block_is_valid(g, p)
             /\ NextBlock(g, p) = NextBlock(f, p)
             /\ Reading(g, p) = Reading(f, p)
  <2>1. p \in Nat /\ NextBlock(f, p) <= d
    BY <1>1, SizeAssumption DEF Cells, EndBefore
  <2> QED
    BY <1>1, <2>1, WriteAbove
<1>2. ASSUME NEW p \in Cells, config_block_is_valid(g, p), p # d \/ w[1] # "dcrc"
      PROVE  config_block_is_valid(f, p)
  <2>1. a = p + 2 => w[1] # "dcrc"
    BY <1>2, SizeAssumption DEF Cells
  <2> QED
    BY <1>2, <2>1, OnlyCrcValidates
<1> HIDE DEF g
<1>3. ASSUME NEW b, Reached(f, b) PROVE Reached(g, b)
  BY <1>1, <1>3 DEF Reached
<1>4. Chained(g)
  <2> SUFFICES ASSUME NEW p \in Cells, config_block_is_valid(g, p)
               PROVE  Reached(g, p)
    BY DEF Chained
  <2>1. CASE p = d
    BY <1>3, <2>1
  <2>2. CASE p # d
    BY <1>2, <1>3, <2>2 DEF Chained
  <2> QED
    BY <2>1, <2>2
<1>5. w[1] # "dcrc" => EndBefore(g, d)
  BY <1>1, <1>2 DEF EndBefore
<1> QED
  BY <1>1, <1>3, <1>4, <1>5 DEF g

\* Programming a word keeps the order of the headers when the word comes in that order.
LEMMA WriteHeaders ==
  ASSUME NEW f, IsSector(f), Headers(f), NEW a \in Nat, NEW w,
         w[1] = "len" => a - 1 \in Cells /\ LenCrc(w[2]) \in f[a - 1],
         w[1] = "dcrc" => /\ a - 1 \in Cells /\ \E v \in f[a - 1] : v[1] = "len"
                          /\ \A i \in DOMAIN w[2] :
                               a + i \in Cells => w[2][i] \subseteq f[a + i]
  PROVE  Headers(Programmed(f, a, w))
<1> DEFINE g == Programmed(f, a, w)
<1>1. /\ \A x \in Cells : x # a => g[x] = f[x]
      /\ a \in Cells => g[a] = f[a] \cup {w}
      /\ \A x \in Cells : f[x] \subseteq g[x]
  BY DEF Programmed, IsSector
<1> HIDE DEF g
<1> SUFFICES ASSUME NEW x \in Cells, NEW u \in g[x]
             PROVE  /\ u[1] = "len" => x - 1 \in Cells /\ LenCrc(u[2]) \in g[x - 1]
                    /\ u[1] = "dcrc" => /\ x - 1 \in Cells /\ \E v \in g[x - 1] : v[1] = "len"
                                        /\ \A i \in DOMAIN u[2] :
                                             x + i \in Cells => u[2][i] \subseteq g[x + i]
  BY DEF Headers, g
<1>2. u \in f[x] \/ (u = w /\ x = a)
  BY <1>1
<1>3. u[1] = "len" => x - 1 \in Cells /\ LenCrc(u[2]) \in f[x - 1]
  BY <1>2 DEF Headers
<1>4. u[1] = "dcrc" => /\ x - 1 \in Cells /\ \E v \in f[x - 1] : v[1] = "len"
                       /\ \A i \in DOMAIN u[2] : x + i \in Cells => u[2][i] \subseteq f[x + i]
  BY <1>2 DEF Headers
<1>5. u[1] = "dcrc" => \A i \in DOMAIN u[2] : x + i \in Cells => u[2][i] \subseteq g[x + i]
  BY <1>1, <1>4
<1> QED
  BY <1>1, <1>3, <1>4, <1>5

\* An erased sector holds no block.
LEMMA ErasedOK ==
  /\ IsSector(Erased) /\ Headers(Erased) /\ Chained(Erased)
  /\ \A d \in Nat : EndBefore(Erased, d)
<1>1. IsSector(Erased) /\ Headers(Erased)
  BY DEF IsSector, Headers, Erased
<1>2. ASSUME NEW p \in Cells, config_block_is_valid(Erased, p) PROVE FALSE
  <2>1. PICK n \in 0 .. SIZE : HasLength(Erased, p, n)
    BY <1>2 DEF config_block_is_valid
  <2> QED
    BY <2>1 DEF HasLength, Erased
<1> QED
  BY <1>1, <1>2 DEF Chained, EndBefore

\* The start of the sector.
LEMMA CursorAtStart ==
  ASSUME NEW f PROVE Cursor(f, 0) /\ Reached(f, 0)
<1>1. \A p \in Cells : ~ (p < 0)
  BY SizeAssumption DEF Cells
<1> QED
  BY <1>1 DEF Cursor, Reached

\* A call that programs a word of its new block.
LEMMA CallWrites ==
  ASSUME CallInv, pc \in Writing, NEW a \in Nat, NEW w, dst <= a, flash_write(a, w),
         w[1] = "dcrc" => a = dst + 2,
         w[1] = "len" => a - 1 \in Cells /\ LenCrc(w[2]) \in flash[a - 1],
         w[1] = "dcrc" => /\ a - 1 \in Cells /\ \E v \in flash[a - 1] : v[1] = "len"
                          /\ \A i \in DOMAIN w[2] :
                               a + i \in Cells => w[2][i] \subseteq flash[a + i]
  PROVE  /\ IsSector(flash') /\ FlashOK' /\ BlocksKept
         /\ Reached(flash', dst)
         /\ w[1] # "dcrc" => EndBefore(flash', dst)
         /\ a \in Cells => w \in flash'[a]
<1>1. /\ ~ locked /\ Reached(flash, dst) /\ EndBefore(flash, dst)
      /\ IsSector(flash) /\ Headers(flash) /\ Chained(flash) /\ dst \in Nat
  BY DEF CallInv, CallOK, FlashOK
<1>2. flash' = Programmed(flash, a, w)
  BY <1>1 DEF flash_write
<1>3. IsSector(flash') /\ (a \in Cells => w \in flash'[a])
  BY <1>1, <1>2 DEF IsSector, Programmed
<1>4. Headers(flash')
  BY <1>1, <1>2, WriteHeaders
<1>5. /\ Chained(Programmed(flash, a, w)) /\ Reached(Programmed(flash, a, w), dst)
      /\ w[1] # "dcrc" => EndBefore(Programmed(flash, a, w), dst)
      /\ \A p \in Cells : config_block_is_valid(flash, p) =>
              /\ config_block_is_valid(Programmed(flash, a, w), p)
              /\ Reading(Programmed(flash, a, w), p) = Reading(flash, p)
  BY <1>1, WriteChained
<1> QED
  BY <1>2, <1>3, <1>4, <1>5 DEF FlashOK, BlocksKept

\* A step of a call that is not overtaken.
LEMMA CallKeeps ==
  ASSUME CallInv, CallStep
  PROVE  /\ IsSector(flash') /\ FlashOK'
         /\ CallOK(op, pc, block, dst, index)'
         /\ pc \notin Erasing => BlocksKept
<1>1. /\ CallOK(op, pc, block, dst, index) /\ IsSector(flash) /\ Headers(flash) /\ Chained(flash)
      /\ block \in Nat /\ dst \in Nat /\ index \in Nat /\ SIZE \in Nat /\ HEADER = 3
  BY SizeAssumption DEF CallInv, FlashOK, HEADER
<1>2. ASSUME flash' = flash, CallOK(op, pc, block, dst, index)'
      PROVE  /\ IsSector(flash') /\ FlashOK'
             /\ CallOK(op, pc, block, dst, index)'
             /\ pc \notin Erasing => BlocksKept
  BY <1>1, <1>2 DEF FlashOK, BlocksKept
<1>3. flash_sector_erase => IsSector(flash') /\ FlashOK'
  BY <1>1, ErasedOK DEF flash_sector_erase, FlashOK
<1>4. CASE ScanFault \/ WriteFault
  BY <1>2, <1>4 DEF ScanFault, WriteFault, Fault, CallOK, Writing
<1>5. CASE FindLast
  BY <1>1, <1>2, <1>5 DEF FindLast, CallOK, Writing
<1>6. CASE LastFound
  <2>1. /\ flash' = flash /\ locked' = locked /\ op' = op /\ pc = "findLast"
        /\ \/ pc' = "parse"
           \/ op = "save" /\ pc' = "eraseFirst"
           \/ op = "save" /\ pc' = "findFree" /\ block' = 0
    BY <1>6 DEF LastFound, StartScan
  <2>2. Cursor(flash, 0)
    BY CursorAtStart
  <2>3. CallOK(op, pc, block, dst, index)'
    BY <1>1, <2>1, <2>2 DEF CallOK, Writing
  <2> QED
    BY <1>2, <2>1, <2>3
<1>7. CASE EraseFirst
  <2>1. /\ flash_sector_erase /\ pc = "eraseFirst" /\ pc' = "findFree" /\ block' = 0
        /\ op' = op /\ locked' = locked
    BY <1>7 DEF EraseFirst, StartScan
  <2>2. Cursor(flash', 0)
    BY CursorAtStart
  <2>3. CallOK(op, pc, block, dst, index)'
    BY <1>1, <2>1, <2>2 DEF CallOK, Writing
  <2> QED
    BY <1>3, <2>1, <2>3 DEF Erasing
<1>8. CASE FindFree
  <2>1. /\ pc = "findFree" /\ pc' = pc /\ UNCHANGED <<flash, locked, op>>
        /\ config_block_is_valid(flash, block) /\ block' = NextBlock(flash, block)
    BY <1>8 DEF FindFree
  <2>2. Cursor(flash, NextBlock(flash, block))
    BY <1>1, <2>1, CursorMoves DEF CallOK
  <2>3. CallOK(op, pc, block, dst, index)'
    BY <1>1, <2>1, <2>2 DEF CallOK, Writing
  <2> QED
    BY <1>2, <2>1, <2>3
<1>9. CASE FreeFound
  <2>1. /\ pc = "findFree" /\ pc' = "room" /\ UNCHANGED <<flash, locked, op>>
        /\ ~ config_block_is_valid(flash, block) /\ ~ Overruns(flash, block) /\ dst' = block
    BY <1>9 DEF FreeFound
  <2>2. EndBefore(flash, block) /\ Reached(flash, block)
    BY <1>1, <2>1, CursorMoves DEF CallOK, Cursor
  <2>3. CallOK(op, pc, block, dst, index)'
    BY <1>1, <2>1, <2>2 DEF CallOK, Writing
  <2> QED
    BY <1>2, <2>1, <2>3
<1>10. CASE Room \/ WriteRefused \/ DataDone \/ TreeShrank
  <2>3. Len(Enc[ram]) \in Nat /\ Len(Enc[ram]) > 0
    BY TreesAssumption, SizeAssumption DEF CallInv
  <2>1. /\ pc \in {"room", "data"} /\ pc' \in {"eraseFull", "data", "undo", "crcLen"}
        /\ UNCHANGED <<flash, locked, op, dst>>
        /\ pc' = "data" => index' = 0
        /\ pc' = "crcLen" => pc = "data" /\ index > 0
    BY <1>1, <1>10, <2>3 DEF Room, WriteRefused, DataDone, TreeShrank
  <2>2. CallOK(op, pc, block, dst, index)'
    BY <1>1, <2>1 DEF CallOK, Writing
  <2> QED
    BY <1>2, <2>1, <2>2
<1>11. CASE EraseFull
  <2>1. /\ flash_sector_erase /\ pc = "eraseFull" /\ pc' = "data" /\ dst' = 0
        /\ index' = 0 /\ op' = op /\ locked' = locked
    BY <1>11 DEF EraseFull
  <2>2. op = "save" /\ ~ locked
    BY <1>1, <2>1 DEF CallOK, Writing
  <2>3. flash' = Erased /\ EndBefore(flash', 0) /\ Reached(flash', 0)
    BY <1>1, <2>1, <2>2, ErasedOK, CursorAtStart DEF flash_sector_erase
  <2>4. CallOK(op, pc, block, dst, index)'
    BY <2>1, <2>2, <2>3 DEF CallOK, Writing
  <2> QED
    BY <1>3, <2>1, <2>4 DEF Erasing
<1>12. CASE WriteData
  <2> DEFINE w == DataWord(Enc[ram][index + 1])
             a == dst + HEADER + index
  <2>1. /\ pc = "data" /\ pc' = "data" /\ UNCHANGED <<locked, op, dst>> /\ flash_write(a, w)
        /\ dst + HEADER + index < SIZE
    BY <1>12 DEF WriteData
  <2>2. w[1] # "dcrc" /\ w[1] # "len"
    BY DEF DataWord
  <2>3. a \in Nat /\ dst <= a /\ pc \in Writing
    BY <1>1, <2>1 DEF Writing
  <2> HIDE DEF w, a
  <2>4. IsSector(flash') /\ FlashOK' /\ BlocksKept /\ Reached(flash', dst) /\ EndBefore(flash', dst)
    BY <2>1, <2>2, <2>3, CallWrites
  <2>5. CallOK(op, pc, block, dst, index)'
    BY <1>1, <2>1, <2>4 DEF CallOK, Writing
  <2> QED
    BY <2>4, <2>5
<1>13. CASE Undo
  <2>1. flash_sector_erase /\ pc = "undo" /\ pc' = "again" /\ op' = op
    BY <1>13 DEF Undo
  <2>2. CallOK(op, pc, block, dst, index)'
    BY <1>1, <2>1 DEF CallOK, Writing
  <2> QED
    BY <1>3, <2>1, <2>2 DEF Erasing
<1>20. CASE SaveAgain
  <2>1. flash' = flash /\ pc' = "findLast" /\ locked' = FALSE
    BY <1>20 DEF SaveAgain, StartScan
  <2> QED
    BY <1>2, <2>1 DEF CallOK, Writing
<1>14. CASE WriteCrcLen
  <2> DEFINE w == LenCrc(index)
  <2>1. /\ pc = "crcLen" /\ pc' = "len" /\ UNCHANGED <<locked, op, dst, index>>
        /\ flash_write(dst, w)
    BY <1>14 DEF WriteCrcLen
  <2>2. w[1] # "dcrc" /\ w[1] # "len"
    BY DEF LenCrc
  <2>3. dst <= dst /\ pc \in Writing /\ dst + HEADER <= SIZE
    BY <1>1, <2>1 DEF Writing, CallOK
  <2>4. dst \in Cells
    BY <1>1, <2>3 DEF Cells
  <2> HIDE DEF w
  <2>5. /\ IsSector(flash') /\ FlashOK' /\ BlocksKept /\ Reached(flash', dst) /\ EndBefore(flash', dst)
        /\ w \in flash'[dst]
    BY <1>1, <2>1, <2>2, <2>3, <2>4, CallWrites
  <2>6. CallOK(op, pc, block, dst, index)'
    BY <1>1, <2>1, <2>5 DEF CallOK, Writing, w
  <2> QED
    BY <2>5, <2>6
<1>15. CASE WriteLen
  <2> DEFINE w == LenWord(index)
  <2>1. /\ pc = "len" /\ pc' = "crcData" /\ UNCHANGED <<locked, op, dst, index>>
        /\ flash_write(dst + 1, w)
    BY <1>15 DEF WriteLen
  <2>2. w[1] # "dcrc" /\ w[2] = index
    BY DEF LenWord
  <2>3. /\ dst <= dst + 1 /\ dst + 1 \in Nat /\ pc \in Writing /\ dst + HEADER <= SIZE
        /\ LenCrc(index) \in flash[dst]
    BY <1>1, <2>1 DEF Writing, CallOK
  <2>4. dst \in Cells /\ dst + 1 \in Cells /\ (dst + 1) - 1 = dst
    BY <1>1, <2>3 DEF Cells
  <2> HIDE DEF w
  <2>5. /\ IsSector(flash') /\ FlashOK' /\ BlocksKept /\ Reached(flash', dst) /\ EndBefore(flash', dst)
        /\ w \in flash'[dst + 1]
    BY <1>1, <2>1, <2>2, <2>3, <2>4, CallWrites
  <2>6. CallOK(op, pc, block, dst, index)'
    BY <1>1, <2>1, <2>5 DEF CallOK, Writing, w
  <2> QED
    BY <2>5, <2>6
<1>16. CASE WriteCrcData
  <2> DEFINE c == DataAt(flash, dst, index)
             w == DataCrc(c)
  <2>1. /\ pc = "crcData" /\ pc' = "return" /\ UNCHANGED <<locked, op, dst, index>>
        /\ flash_write(dst + 2, w)
    BY <1>16 DEF WriteCrcData
  <2>2. w[1] = "dcrc" /\ w[2] = c
    BY DEF DataCrc
  <2>3. /\ dst <= dst + 2 /\ dst + 2 \in Nat /\ pc \in Writing /\ dst + HEADER <= SIZE
        /\ LenWord(index) \in flash[dst + 1]
    BY <1>1, <2>1 DEF Writing, CallOK
  <2>4. dst + 1 \in Cells /\ (dst + 2) - 1 = dst + 1
    BY <1>1, <2>3 DEF Cells
  <2>5. \E v \in flash[(dst + 2) - 1] : v[1] = "len"
    BY <2>3, <2>4 DEF LenWord
  <2>6. ASSUME NEW i \in DOMAIN c PROVE c[i] \subseteq flash[(dst + 2) + i]
    <3>1. i \in 1 .. index /\ c[i] = flash[dst + HEADER + i - 1]
      BY DEF DataAt
    <3>2. dst + HEADER + i - 1 = (dst + 2) + i
      BY <1>1, <3>1
    <3> QED
      BY <3>1, <3>2
  <2> HIDE DEF w, c
  <2>7. IsSector(flash') /\ FlashOK' /\ BlocksKept
    BY <1>1, <2>1, <2>2, <2>3, <2>4, <2>5, <2>6, CallWrites
  <2>8. CallOK(op, pc, block, dst, index)'
    BY <2>1 DEF CallOK, Writing
  <2> QED
    BY <2>7, <2>8
<1>17. CASE ReadBack
  <2>1. flash' = flash /\ pc' = "findLast" /\ op' = "check"
    BY <1>17 DEF ReadBack, StartScan
  <2> QED
    BY <1>2, <2>1 DEF CallOK, Writing
<1>18. CASE Wipe
  <2>1. flash_sector_erase /\ pc = "wipe" /\ pc' = "idle"
    BY <1>18 DEF Wipe
  <2>2. CallOK(op, pc, block, dst, index)'
    BY <2>1 DEF CallOK, Writing
  <2> QED
    BY <1>3, <2>1, <2>2 DEF Erasing
<1>19. CASE Parse \/ ParseGone
  <2>1. flash' = flash /\ pc' = "idle"
    BY <1>19 DEF Parse, ParseGone
  <2> QED
    BY <1>2, <2>1 DEF CallOK, Writing
<1> QED
  BY <1>4, <1>5, <1>6, <1>7, <1>8, <1>9, <1>10, <1>11, <1>12, <1>13, <1>14, <1>15, <1>16,
     <1>17, <1>18, <1>19, <1>20 DEF CallStep

\* A step of a call that the shell overtook finds the flash locked.
LEMMA VoidKeeps ==
  ASSUME PreemptInv, running = "aseba", overtaken, CallStep
  PROVE  /\ locked /\ flash' = flash
         /\ locked' \/ pc = "again"
<1>1. locked
  BY DEF PreemptInv, Voided
<1> QED
  BY <1>1 DEF CallStep, flash_write, flash_sector_erase, ScanFault, WriteFault, Fault,
     FindLast, LastFound, EraseFirst, FindFree, FreeFound, Room, EraseFull, WriteData,
     WriteRefused, DataDone, Undo, SaveAgain, WriteCrcLen, WriteLen, WriteCrcData, ReadBack, Wipe,
     Parse, ParseGone, TreeShrank

\* The types of the locals.
LEMMA CallTypes ==
  ASSUME PreemptTypes, CallStep
  PROVE  block' \in Nat /\ dst' \in Nat /\ index' \in Nat
<1>1. block \in Nat /\ dst \in Nat /\ index \in Nat
  BY DEF PreemptTypes
<1>2. CASE FindLast \/ FindFree
  <2>1. NextBlock(flash, block) \in Nat
    BY <1>1, <1>2, ValidShape DEF FindLast, FindFree
  <2> QED
    BY <1>1, <1>2, <2>1 DEF FindLast, FindFree
<1>3. CASE \/ ScanFault \/ WriteFault \/ LastFound \/ EraseFirst \/ FreeFound
           \/ Room \/ EraseFull \/ WriteData \/ WriteRefused \/ DataDone \/ TreeShrank
  BY <1>1, <1>3
     DEF ScanFault, WriteFault, Fault, LastFound, StartScan, EraseFirst, FreeFound, Room,
         EraseFull, WriteData, WriteRefused, DataDone, TreeShrank
<1>4. CASE \/ Undo \/ SaveAgain \/ WriteCrcLen \/ WriteLen \/ WriteCrcData \/ ReadBack \/ Wipe
           \/ Parse \/ ParseGone
  BY <1>1, <1>4
     DEF Undo, SaveAgain, WriteCrcLen, WriteLen, WriteCrcData, ReadBack, StartScan, Wipe, Parse,
         ParseGone
<1> QED
  BY <1>2, <1>3, <1>4 DEF CallStep

\* While the shell overtakes a suspended call, only its save or erase unlocks the flash.
LEMMA ShellLocks ==
  ASSUME PreemptInv, running = "shell", overtaken, CallStep, ~ locked'
  PROVE  op' = "save" /\ pc' \notin {"idle", "parse"}
<1>1. CASE SaveAgain
  <2>1. pc = "again" /\ op' = op /\ pc' = "findLast"
    BY <1>1 DEF SaveAgain, StartScan
  <2> QED
    BY <2>1 DEF PreemptInv, RunningOK, CallOK, Writing
<1>2. CASE ~ SaveAgain
  <2>1. /\ ~ ReadBack /\ ~ Wipe /\ ~ Undo
    BY DEF ReadBack, Wipe, Undo
  <2>2. locked' = locked
    BY <1>2, <2>1 DEF CallStep, ScanFault, WriteFault, Fault, FindLast, LastFound, EraseFirst,
       FindFree, FreeFound, Room, EraseFull, WriteData, WriteRefused, DataDone, WriteCrcLen,
       WriteLen, WriteCrcData, Parse, ParseGone, TreeShrank
  <2>3. pc = "wipe" \/ (op = "save" /\ pc \notin {"idle", "parse"})
    BY <2>2 DEF PreemptInv, Voided
  <2> QED
    BY <1>2, <2>1, <2>3 DEF CallStep, ScanFault, WriteFault, Fault, FindLast, LastFound,
       StartScan, EraseFirst, FindFree, FreeFound, Room, EraseFull, WriteData, WriteRefused,
       DataDone, WriteCrcLen, WriteLen, WriteCrcData, Parse, ParseGone, TreeShrank
<1> QED
  BY <1>1, <1>2

\* Under a suspended call that it has not overtaken the shell only reads the flash.
LEMMA ShellReads ==
  ASSUME PreemptInv, frame # NoFrame, ~ overtaken, CallStep
  PROVE  /\ running # "aseba" /\ flash' = flash /\ locked' = locked
         /\ pc' \in {"idle", "findLast", "parse", "fault"}
         /\ pc' = "findLast" => op' # "save"
<1>1. /\ running = "aseba" => pc = "idle"
      /\ pc \in {"idle", "findLast", "parse", "fault"}
      /\ pc = "findLast" => op # "save"
  BY DEF PreemptInv, OnlyReads
<1> QED
  BY <1>1 DEF CallStep, ScanFault, WriteFault, Fault, FindLast, LastFound, EraseFirst,
     FindFree, FreeFound, Room, EraseFull, WriteData, WriteRefused, DataDone, Undo, SaveAgain,
     WriteCrcLen, WriteLen, WriteCrcData, ReadBack, Wipe, Parse, ParseGone, TreeShrank

\* What a step of the two threads does to the blocks.
LEMMA PreemptKeeps ==
  ASSUME PreemptInv, [PreemptNext]_pvars
  PROVE  (pc \notin Erasing \/ (running = "aseba" /\ overtaken)) => BlocksKept
<1>1. CASE RunStep
  <2>1. CallStep
    BY <1>1 DEF RunStep
  <2>2. CASE running = "aseba" /\ overtaken
    BY <2>1, <2>2, VoidKeeps DEF BlocksKept
  <2>3. CASE ~ (running = "aseba" /\ overtaken)
    BY <2>1, <2>3, CallAlone, CallKeeps
  <2> QED
    BY <2>2, <2>3
<1>2. CASE AsebaCall \/ ShellCall \/ Preempt \/ Resume \/ UNCHANGED pvars
  <2>1. flash' = flash
    BY <1>2 DEF AsebaCall, ShellCall, Preempt, Resume, pvars, vars, shared,
       config_save, config_load, config_erase, config_set
  <2> QED
    BY <2>1 DEF BlocksKept
<1> QED
  BY <1>1, <1>2 DEF PreemptNext

\* The tree is one of the trees.
LEMMA RamStep ==
  ASSUME ram \in Trees, [PreemptNext]_pvars
  PROVE  ram' \in Trees
<1>1. CASE RunStep
  BY <1>1, TreesAssumption DEF RunStep, CallStep, ScanFault, WriteFault, Fault, FindLast, LastFound,
     EraseFirst, FindFree, FreeFound, Room, EraseFull, WriteData, WriteRefused, DataDone, Undo,
     SaveAgain,
     WriteCrcLen, WriteLen, WriteCrcData, ReadBack, Wipe, Parse, ParseGone, TreeShrank
<1>2. CASE AsebaCall \/ ShellCall \/ Preempt \/ Resume \/ UNCHANGED pvars
  BY <1>2 DEF AsebaCall, ShellCall, Preempt, Resume, pvars, vars, shared,
     config_save, config_load, config_erase, config_set
<1> QED
  BY <1>1, <1>2 DEF PreemptNext

\* The invariant is inductive.
LEMMA PreemptStep == PreemptInv /\ [PreemptNext]_pvars => PreemptInv'
<1> SUFFICES ASSUME PreemptInv, [PreemptNext]_pvars PROVE PreemptInv'
  OBVIOUS
<1>7. ram' \in Trees /\ running \in {"aseba", "shell"}
  BY RamStep DEF PreemptInv, PreemptTypes
<1>1. CASE AsebaCall
  <2>1. /\ UNCHANGED <<flash, dst, index, frame>> /\ frame = NoFrame
        /\ locked' = FALSE /\ running' = "aseba" /\ overtaken' = FALSE
        /\ pc' \in {"findLast", "wipe"} /\ block' \in {0, block}
    BY <1>1 DEF AsebaCall, config_save, config_erase, StartScan
  <2>2. PreemptTypes' /\ FlashOK'
    BY <1>7, <2>1 DEF PreemptInv, PreemptTypes, FlashOK
  <2>3. CallOK(op, pc, block, dst, index)'
    BY <2>1 DEF CallOK, Writing
  <2> QED
    BY <2>1, <2>2, <2>3 DEF PreemptInv, RunningOK, FrameOK, Voided, OnlyReads
<1>2. CASE ShellCall
  <2>1. UNCHANGED <<flash, dst, index, frame>> /\ running' = "shell" /\ pc = "idle"
    BY <1>2 DEF ShellCall, config_save, config_load, config_erase, config_set
  <2>2. \/ /\ locked' = FALSE /\ overtaken' = (frame # NoFrame) /\ block' \in {0, block}
           /\ pc' = "wipe" \/ (op' = "save" /\ pc' = "findLast")
        \/ /\ locked' = locked /\ overtaken' = overtaken /\ block' \in {0, block}
           /\ pc' = "idle" \/ (op' = "load" /\ pc' = "findLast")
    BY <1>2 DEF ShellCall, config_save, config_load, config_erase, config_set, StartScan
  <2>3. PreemptTypes' /\ FlashOK'
    BY <1>7, <2>1, <2>2 DEF PreemptInv, PreemptTypes, FlashOK
  <2>4. CallOK(op, pc, block, dst, index)'
    BY <2>2 DEF CallOK, Writing
  <2>5. FrameOK'
    BY <2>1, <2>2 DEF PreemptInv, FrameOK, CallOK
  <2>6. Voided'
    BY <2>1, <2>2 DEF PreemptInv, Voided
  <2> QED
    BY <2>1, <2>2, <2>3, <2>4, <2>5, <2>6 DEF PreemptInv, RunningOK, OnlyReads
<1>3. CASE RunStep
  <2>1. /\ CallStep /\ UNCHANGED <<running, frame>>
        /\ overtaken' = (overtaken /\ ~ (running = "aseba" /\ pc = "again"))
    BY <1>3 DEF RunStep
  <2>2. CASE running = "aseba" /\ overtaken
    <3>1. /\ locked /\ flash' = flash /\ (locked' \/ pc = "again")
      BY <2>1, <2>2, VoidKeeps
    <3>2. PreemptTypes' /\ FlashOK'
      BY <1>7, <2>1, <3>1, CallTypes DEF PreemptInv, PreemptTypes, FlashOK
    <3>3. frame = NoFrame
      BY <2>1, <2>2 DEF PreemptInv, OnlyReads, CallStep, ScanFault, WriteFault, Fault,
         FindLast, LastFound, EraseFirst, FindFree, FreeFound, Room, EraseFull, WriteData,
         WriteRefused, DataDone, Undo, SaveAgain, WriteCrcLen, WriteLen, WriteCrcData, ReadBack,
         Wipe,
         Parse, ParseGone, TreeShrank
    <3>4. ASSUME pc = "again" PROVE ~ overtaken' /\ CallOK(op, pc, block, dst, index)'
      <4>1. ~ overtaken'
        BY <2>1, <2>2, <3>4
      <4>2. SaveAgain
        BY <2>1, <3>4 DEF CallStep, ScanFault, WriteFault, FindLast, LastFound, EraseFirst,
           FindFree, FreeFound, Room, EraseFull, WriteData, WriteRefused, DataDone, Undo, SaveAgain,
           WriteCrcLen, WriteLen, WriteCrcData, ReadBack, Wipe, Parse, ParseGone, TreeShrank
      <4>3. pc' = "findLast" /\ locked' = FALSE
        BY <4>2 DEF SaveAgain, StartScan
      <4> QED
        BY <4>1, <4>3 DEF CallOK, Writing
    <3>5. ASSUME pc # "again" PROVE overtaken' /\ locked'
      BY <2>1, <2>2, <3>1, <3>5
    <3> QED
      BY <2>1, <2>2, <3>2, <3>3, <3>4, <3>5
         DEF PreemptInv, RunningOK, FrameOK, Voided, OnlyReads
  <2>3. CASE ~ (running = "aseba" /\ overtaken)
    <3>1. IsSector(flash') /\ FlashOK' /\ CallOK(op, pc, block, dst, index)'
      BY <2>1, <2>3, CallAlone, CallKeeps
    <3>2. overtaken' <=> overtaken
      BY <2>1, <2>3
    <3>3. PreemptTypes'
      BY <1>7, <2>1, <3>1, CallTypes DEF PreemptInv, PreemptTypes
    <3>4. Voided'
      <4>1. CASE running = "shell"
        BY <2>1, <3>2, <4>1, ShellLocks DEF Voided
      <4>2. CASE running # "shell"
        BY <2>1, <2>3, <3>2, <4>2 DEF PreemptInv, PreemptTypes, Voided
      <4> QED
        BY <4>1, <4>2
    <3>5. ASSUME frame # NoFrame, ~ overtaken
          PROVE  FrameOK' /\ OnlyReads'
      <4>1. /\ running # "aseba" /\ flash' = flash /\ locked' = locked
            /\ pc' \in {"idle", "findLast", "parse", "fault"}
            /\ pc' = "findLast" => op' # "save"
        BY <2>1, <3>5, ShellReads
      <4>2. CallOK(frame[1], frame[3], frame[4], frame[7], frame[9])
        BY <3>5 DEF PreemptInv, FrameOK
      <4>3. FrameOK'
        BY <2>1, <4>1, <4>2 DEF FrameOK, CallOK
      <4> QED
        BY <2>1, <4>1, <4>3 DEF OnlyReads
    <3>6. ASSUME frame = NoFrame \/ overtaken
          PROVE  FrameOK' /\ OnlyReads'
      BY <2>1, <2>3, <3>2, <3>6 DEF FrameOK, OnlyReads
    <3> QED
      BY <3>1, <3>3, <3>4, <3>5, <3>6 DEF PreemptInv, RunningOK
  <2> QED
    BY <2>2, <2>3
<1>4. CASE Preempt
  <2>1. /\ running = "aseba" /\ frame = NoFrame /\ frame' = locals /\ pc' = "idle"
        /\ UNCHANGED <<flash, locked, op, block, dst, index, running, overtaken>>
    BY <1>4 DEF Preempt, shared
  <2>2. /\ frame'[1] = op /\ frame'[3] = pc /\ frame'[4] = block /\ frame'[7] = dst
        /\ frame'[9] = index
    BY <2>1 DEF locals
  <2>3. PreemptTypes' /\ FlashOK'
    BY <1>7, <2>1, <2>2 DEF PreemptInv, PreemptTypes, FlashOK
  <2>4. CallOK(op, pc, block, dst, index)'
    BY <2>1 DEF CallOK, Writing
  <2>5. FrameOK'
    BY <2>1, <2>2 DEF PreemptInv, RunningOK, FrameOK, CallOK
  <2>6. Voided'
    BY <2>1 DEF PreemptInv, Voided
  <2> QED
    BY <2>1, <2>3, <2>4, <2>5, <2>6 DEF PreemptInv, RunningOK, OnlyReads
<1>5. CASE Resume
  <2>1. /\ frame # NoFrame /\ running = "shell" /\ pc = "idle"
        /\ op' = frame[1] /\ pc' = frame[3] /\ block' = frame[4] /\ dst' = frame[7]
        /\ index' = frame[9] /\ frame' = NoFrame /\ running' = "aseba"
        /\ UNCHANGED <<flash, locked, overtaken>>
    BY <1>5 DEF Resume, shared
  <2>2. PreemptTypes' /\ FlashOK'
    BY <1>7, <2>1 DEF PreemptInv, PreemptTypes, FlashOK
  <2>3. RunningOK'
    BY <2>1 DEF PreemptInv, FrameOK, RunningOK, CallOK
  <2>4. Voided'
    BY <2>1 DEF PreemptInv, Voided
  <2> QED
    BY <2>1, <2>2, <2>3, <2>4 DEF PreemptInv, FrameOK, OnlyReads
<1>6. CASE UNCHANGED pvars
  <2>1. UNCHANGED <<flash, locked, ram, op, pc, block, dst, index, running, frame, overtaken>>
    BY <1>6 DEF pvars, vars
  <2> QED
    BY <2>1 DEF PreemptInv, PreemptTypes, FlashOK, RunningOK, FrameOK, Voided, OnlyReads, CallOK
<1> QED
  BY <1>1, <1>2, <1>3, <1>4, <1>5, <1>6 DEF PreemptNext

\* The shell and the Aseba VM save, load and erase settings without a lock between them,
\* and a call of Aseba may be suspended between any two of its steps for any number of
\* commands.  No step but an erase that is still due destroys a saved block: a call that
\* was overtaken does nothing to the flash with what it knew before.
THEOREM PreemptedSavesKeepBlocks == PreemptSpec => SavedBlocksKept
<1>1. PreemptInit => PreemptInv
  <2> SUFFICES ASSUME PreemptInit PROVE PreemptInv
    OBVIOUS
  <2>1. /\ flash = Erased /\ locked = TRUE /\ op = "boot" /\ pc = "findLast" /\ block = 0
        /\ ram \in Trees
        /\ dst = 0 /\ index = 0 /\ running = "shell" /\ frame = NoFrame /\ overtaken = FALSE
    BY TreesAssumption DEF PreemptInit, Init
  <2>2. PreemptTypes /\ FlashOK
    BY <2>1, ErasedOK DEF PreemptTypes, FlashOK
  <2>3. CallOK(op, pc, block, dst, index)
    BY <2>1 DEF CallOK, Writing
  <2> QED
    BY <2>1, <2>2, <2>3 DEF PreemptInv, RunningOK, FrameOK, Voided, OnlyReads
<1>2. PreemptInv /\ [PreemptNext]_pvars =>
        [(pc \notin Erasing \/ (running = "aseba" /\ overtaken)) => BlocksKept]_pvars
  BY PreemptKeeps
<1> QED
  BY <1>1, <1>2, PreemptStep, PTL DEF PreemptSpec, SavedBlocksKept

-----------------------------------------------------------------------------
(* What a call reads back is what it saved.                                *)

\* The end of the chain of valid blocks.
AtEnd(f, e) == Reached(f, e) /\ EndBefore(f, e)

\* What a save of t puts into a cell, from e on, before the checksum of the data.
Due(t, e, a) ==
  IF a = e THEN {LenCrc(WordsOf(t))}
  ELSE IF a = e + 1 THEN {LenWord(WordsOf(t))}
  ELSE IF e + HEADER <= a /\ a < e + HEADER + WordsOf(t) THEN {DataWord(Enc[t][a - e - 2])}
  ELSE {}

\* Behind the chain there is nothing, or what a save of the current tree has put there.
BlankBehind(f) == \A e \in Nat : AtEnd(f, e) => \A a \in Cells : a >= e => f[a] = {}
RestBehind(f, t) == \A e \in Nat : AtEnd(f, e) => \A a \in Cells : a >= e => f[a] \subseteq Due(t, e, a)

\* A call that may have left something behind the chain.
InSave(o, c) == c = "wipe" \/ (o = "save" /\ c \notin {"idle", "parse", "return"})
Dirty ==
  \/ ~ (running = "aseba" /\ overtaken) /\ InSave(op, pc)
  \/ frame # NoFrame /\ ~ overtaken /\ InSave(frame[1], frame[3])

\* How far a call that was not overtaken has come with writing t to f: at c, with the locals
\* d (dst) and i (index).
Progress(f, t, c, d, i) ==
  c \in {"data", "crcLen", "len", "crcData"} =>
    /\ i <= WordsOf(t) /\ (i > 0 => d + HEADER + i <= SIZE)
    /\ \A k \in 1 .. i : DataWord(Enc[t][k]) \in f[d + 2 + k]
    /\ c # "data" => i = WordsOf(t)

\* The last block of the chain holds t.
LastHolds(f, t) ==
  \A q \in Cells : config_block_is_valid(f, q) /\ EndBefore(f, NextBlock(f, q)) => Reading(f, q) = Stored(t)

\* A call that has saved the tree, or that was overtaken by one that has.
Saved ==
  \/ op = "check" /\ pc \notin {"idle", "fault"}
  \/ pc = "return"
  \/ running = "aseba" /\ overtaken /\ pc \notin {"idle", "fault"}
  \/ frame # NoFrame /\ (frame[1] = "check" \/ frame[3] = "return")
  \/ frame # NoFrame /\ overtaken /\ ~ InSave(op, pc)

\* The scan of a read-back of t from f: the last block found ends at the cursor.
ScanOK(f, t, o, c, b, l) ==
  o = "check" =>
    /\ c = "findLast" =>
         /\ Cursor(f, b)
         /\ l # NoBlock => l \in Cells /\ config_block_is_valid(f, l) /\ NextBlock(f, l) = b
    /\ c = "parse" /\ l # NoBlock =>
         l \in Cells /\ config_block_is_valid(f, l) /\ Reading(f, l) = Stored(t)

Clean ==
  /\ RestBehind(flash, ram) /\ (~ Dirty => BlankBehind(flash))
  /\ ~ (running = "aseba" /\ overtaken) =>
       Progress(flash, ram, pc, dst, index) /\ (pc = "wipe" => ~ locked)
  /\ frame # NoFrame /\ ~ overtaken =>
       Progress(flash, ram, frame[3], frame[7], frame[9]) /\ (frame[3] = "wipe" => ~ locked)
  /\ Saved => LastHolds(flash, ram)
  /\ ScanOK(flash, ram, op, pc, block, last)
  /\ frame # NoFrame => ScanOK(flash, ram, frame[1], frame[3], frame[4], frame[5])

ReadInv == ram \in Trees /\ (~ changed => Clean)

\* A chain has one end.
LEMMA EndUnique ==
  ASSUME NEW f, NEW d \in Nat, NEW e \in Nat, AtEnd(f, d), AtEnd(f, e)
  PROVE  d = e
<1>1. ASSUME NEW x \in Nat, NEW y \in Nat, AtEnd(f, x), AtEnd(f, y) PROVE x <= y
  <2>1. CASE x = 0
    BY <2>1
  <2>2. CASE x # 0
    <3>1. PICK q \in Cells : config_block_is_valid(f, q) /\ NextBlock(f, q) = x
      BY <1>1, <2>2 DEF AtEnd, Reached
    <3> QED
      BY <1>1, <3>1 DEF AtEnd, EndBefore
  <2> QED
    BY <2>1, <2>2
<1>2. d <= e /\ e <= d
  BY <1>1
<1> QED
  BY <1>2

\* Nothing is less than the beginning of a block.
LEMMA BlankIsRest ==
  ASSUME NEW f, NEW t, BlankBehind(f)
  PROVE  RestBehind(f, t)
BY DEF BlankBehind, RestBehind

\* An erased sector has nothing behind the chain, and no last block.
LEMMA ErasedClean ==
  ASSUME NEW t
  PROVE  BlankBehind(Erased) /\ RestBehind(Erased, t) /\ LastHolds(Erased, t)
<1>1. BlankBehind(Erased)
  BY DEF BlankBehind, Erased
<1>2. ASSUME NEW q \in Cells, config_block_is_valid(Erased, q) PROVE FALSE
  <2>1. PICK n \in 0 .. SIZE : HasLength(Erased, q, n)
    BY <1>2 DEF config_block_is_valid
  <2> QED
    BY <2>1 DEF HasLength, Erased
<1> QED
  BY <1>1, <1>2, BlankIsRest DEF LastHolds

\* The blocks of f are in g, and cursors into f are good for g.
Extends(f, g) ==
  /\ \A p \in Cells : config_block_is_valid(f, p) =>
       /\ config_block_is_valid(g, p) /\ NextBlock(g, p) = NextBlock(f, p)
       /\ Reading(g, p) = Reading(f, p)
  /\ \A b \in Nat : Cursor(f, b) => Cursor(g, b)

\* A cursor does not pass the end of the chain.
LEMMA CursorBeforeEnd ==
  ASSUME NEW f, NEW d \in Nat, NEW b \in Nat, AtEnd(f, d), Cursor(f, b)
  PROVE  b <= d
<1>1. CASE b = 0
  BY <1>1
<1>2. CASE b # 0
  <2>1. PICK q \in Cells : config_block_is_valid(f, q) /\ NextBlock(f, q) = b
    BY <1>2 DEF Cursor, Reached
  <2> QED
    BY <2>1 DEF AtEnd, EndBefore
<1> QED
  BY <1>1, <1>2

\* Programming a word of the current tree behind the chain.
LEMMA ProgramWord ==
  ASSUME NEW f, IsSector(f), Headers(f), Chained(f), NEW t, NEW d \in Nat, NEW a \in Nat, NEW w,
         d <= a, w[1] # "dcrc", AtEnd(f, d), RestBehind(f, t), a \in Cells => w \in Due(t, d, a),
         NEW g, g = Programmed(f, a, w)
  PROVE  /\ RestBehind(g, t) /\ Extends(f, g)
         /\ \A p \in Cells : config_block_is_valid(g, p) => config_block_is_valid(f, p)
         /\ LastHolds(f, t) => LastHolds(g, t)
<1>1. /\ Reached(g, d) /\ EndBefore(g, d)
  BY WriteChained DEF AtEnd
<1>2. ASSUME NEW p \in Cells, config_block_is_valid(f, p)
      PROVE  /\ config_block_is_valid(g, p)
             /\ NextBlock(g, p) = NextBlock(f, p)
             /\ Reading(g, p) = Reading(f, p)
  <2>1. p \in Nat /\ NextBlock(f, p) <= d
    BY <1>2, SizeAssumption DEF Cells, AtEnd, EndBefore
  <2> QED
    BY <1>2, <2>1, WriteAbove
<1>3. ASSUME NEW p \in Cells, config_block_is_valid(g, p) PROVE config_block_is_valid(f, p)
  BY <1>3, OnlyCrcValidates
<1>4. RestBehind(g, t)
  <2> SUFFICES ASSUME NEW e \in Nat, AtEnd(g, e), NEW x \in Cells, x >= e
               PROVE  g[x] \subseteq Due(t, e, x)
    BY DEF RestBehind
  <2>1. e = d
    BY <1>1, EndUnique DEF AtEnd
  <2>2. f[x] \subseteq Due(t, d, x)
    BY <2>1 DEF RestBehind
  <2>3. g[x] = f[x] \/ (x = a /\ g[x] = f[x] \cup {w})
    BY DEF Programmed, IsSector
  <2> QED
    BY <2>1, <2>2, <2>3
<1>5. ASSUME NEW b \in Nat, Cursor(f, b) PROVE Cursor(g, b)
  <2>1. Reached(g, b)
    BY <1>2, <1>5 DEF Cursor, Reached
  <2> QED
    BY <1>2, <1>3, <1>5, <2>1 DEF Cursor
<1>6. ASSUME LastHolds(f, t), NEW q \in Cells, config_block_is_valid(g, q),
             EndBefore(g, NextBlock(g, q))
      PROVE  Reading(g, q) = Stored(t)
  <2>1. config_block_is_valid(f, q) /\ NextBlock(g, q) = NextBlock(f, q) /\ Reading(g, q) = Reading(f, q)
    BY <1>2, <1>3, <1>6
  <2>2. EndBefore(f, NextBlock(f, q))
    BY <1>2, <1>6, <2>1 DEF EndBefore
  <2> QED
    BY <1>6, <2>1, <2>2 DEF LastHolds
<1> QED
  BY <1>2, <1>3, <1>4, <1>5, <1>6 DEF Extends, LastHolds

\* The checksum of the data completes the block of the current tree.
LEMMA ProgramCrc ==
  ASSUME NEW f, IsSector(f), Headers(f), Chained(f), NEW t \in Trees, NEW d \in Nat,
         AtEnd(f, d), RestBehind(f, t), NEW n \in Nat, n = WordsOf(t), d + 3 + n <= SIZE,
         LenWord(n) \in f[d + 1],
         \A k \in 1 .. n : DataWord(Enc[t][k]) \in f[d + 2 + k],
         NEW g, g = Programmed(f, d + 2, DataCrc(DataAt(f, d, n)))
  PROVE  /\ BlankBehind(g) /\ RestBehind(g, t) /\ LastHolds(g, t) /\ Extends(f, g)
         /\ \E q \in Cells : config_block_is_valid(g, q)
<1> DEFINE c == DataAt(f, d, n)
           w == DataCrc(c)
           e == d + 3 + n
<1>1. /\ d \in Cells /\ d + 1 \in Cells /\ d + 2 \in Cells /\ (d + 1) - 1 = d /\ SIZE \in Nat
      /\ n \in 0 .. SIZE /\ e \in Nat 
  BY SizeAssumption DEF Cells
<1>h. \A k \in 1 .. n : d + HEADER + k - 1 = d + 2 + k
  BY DEF HEADER
<1>2. LenCrc(n) \in f[d]
  <2>1. LenWord(n)[1] = "len" /\ LenWord(n)[2] = n
    BY DEF LenWord
  <2> QED
    BY <1>1, <2>1 DEF Headers
<1>3. ASSUME NEW x \in Cells, x >= d PROVE f[x] \subseteq Due(t, d, x)
  BY <1>3 DEF RestBehind
<1>4. /\ Due(t, d, d) = {LenCrc(n)} /\ Due(t, d, d + 1) = {LenWord(n)} /\ Due(t, d, d + 2) = {}
      /\ \A k \in 1 .. n : Due(t, d, d + 2 + k) = {DataWord(Enc[t][k])}
      /\ \A x \in Cells : x >= e => Due(t, d, x) = {}
  <2>1. /\ Due(t, d, d) = {LenCrc(n)} /\ Due(t, d, d + 1) = {LenWord(n)} /\ Due(t, d, d + 2) = {}
    BY <1>1 DEF Due, HEADER
  <2>2. ASSUME NEW k \in 1 .. n PROVE Due(t, d, d + 2 + k) = {DataWord(Enc[t][k])}
    <3>1. /\ d + 2 + k # d /\ d + 2 + k # d + 1
          /\ d + 3 <= d + 2 + k /\ d + 2 + k < d + 3 + n /\ (d + 2 + k) - d - 2 = k
      BY <1>1, <2>2
    <3> QED
      BY <1>1, <3>1 DEF Due, HEADER
  <2>3. ASSUME NEW x \in Cells, x >= e PROVE Due(t, d, x) = {}
    BY <1>1, <2>3, SizeAssumption DEF Due, Cells, HEADER
  <2> QED
    BY <2>1, <2>2, <2>3
<1>5. /\ f[d] = {LenCrc(n)} /\ f[d + 1] = {LenWord(n)} /\ f[d + 2] = {}
      /\ \A x \in Cells : x >= e => f[x] = {}
  <2>1. ASSUME NEW x \in Cells, x >= e PROVE f[x] = {}
    <3>1. x >= d
      BY <1>1, <2>1, SizeAssumption DEF Cells
    <3> QED
      BY <1>3, <1>4, <2>1, <3>1
  <2> QED
    BY <1>1, <1>2, <1>3, <1>4, <2>1
<1>6. c = Stored(t)
  <2>1. ASSUME NEW k \in 1 .. n PROVE f[d + 2 + k] = {DataWord(Enc[t][k])}
    <3>1. d + 2 + k \in Cells /\ d + 2 + k >= d
      BY <1>1, <2>1 DEF Cells
    <3> QED
      BY <1>3, <1>4, <2>1, <3>1
  <2> QED
    BY <1>h, <2>1 DEF DataAt, Stored, WordsOf
<1>7. /\ g[d + 2] = {w} /\ \A x \in Cells : x # d + 2 => g[x] = f[x]
      /\ IsSector(g)
  BY <1>1, <1>5 DEF Programmed, IsSector
<1>8. /\ config_block_is_valid(g, d) /\ NextBlock(g, d) = e /\ Reading(g, d) = Stored(t)
  <2>1. HasLength(g, d, n)
    BY <1>1, <1>5, <1>7 DEF HasLength
  <2>2. DataAt(g, d, n) = c
    <3>1. ASSUME NEW k \in 1 .. n PROVE g[d + 2 + k] = f[d + 2 + k]
      <4>1. d + 2 + k \in Cells /\ d + 2 + k # d + 2
        BY <1>1, <3>1 DEF Cells
      <4> QED
        BY <1>7, <4>1
    <3> QED
      BY <1>h, <3>1 DEF DataAt
  <2>3. \A m \in 0 .. SIZE : HasLength(g, d, m) => m = n
    BY <2>1, <1>1, LengthUnique
  <2>4. ~ Overruns(g, d)
    <3>1. ASSUME NEW m \in 0 .. SIZE, HasLength(g, d, m) PROVE ~ (d + 3 + m > SIZE)
      <4>1. m = n
        BY <2>3, <3>1
      <4> QED
        BY <1>1, <4>1
    <3>2. ~ (d + 2 > SIZE)
      BY <1>1
    <3> QED
      BY <3>1, <3>2 DEF Overruns, HEADER, PREFIX
  <2>5. config_block_get_length(g, d) = n
    BY <1>1, <2>1, <2>3 DEF config_block_get_length
  <2>6. config_block_is_valid(g, d)
    BY <1>1, <1>7, <2>1, <2>2, <2>4 DEF config_block_is_valid
  <2> QED
    BY <1>1, <1>6, <2>2, <2>5, <2>6 DEF NextBlock, Reading, HEADER
<1> HIDE DEF w, c, e
<1>9. ASSUME NEW p \in Cells, config_block_is_valid(f, p)
      PROVE  /\ config_block_is_valid(g, p)
             /\ NextBlock(g, p) = NextBlock(f, p)
             /\ Reading(g, p) = Reading(f, p)
             /\ NextBlock(f, p) \in Nat /\ NextBlock(f, p) <= d
  <2>1. p \in Nat /\ NextBlock(f, p) <= d /\ NextBlock(f, p) \in Nat
    BY <1>9, ValidShape, SizeAssumption DEF Cells, AtEnd, EndBefore
  <2> QED
    BY <1>1, <1>9, <2>1, WriteAbove
<1>10. ASSUME NEW p \in Cells, config_block_is_valid(g, p), p # d PROVE config_block_is_valid(f, p)
  <2>1. d + 2 # p + 2 /\ d + 2 \in Nat
    BY <1>10, SizeAssumption DEF Cells
  <2> QED
    BY <1>10, <2>1, OnlyCrcValidates
<1>11. AtEnd(g, e)
  <2>1. Reached(g, e)
    BY <1>1, <1>8 DEF Reached
  <2>2. d <= e
    BY <1>1 DEF e
  <2>3. ASSUME NEW p \in Cells, config_block_is_valid(g, p) PROVE NextBlock(g, p) <= e
    <3>1. CASE p = d
      BY <1>1, <1>8, <3>1
    <3>2. CASE p # d
      BY <1>1, <1>9, <1>10, <2>2, <2>3, <3>2
    <3> QED
      BY <3>1, <3>2
  <2> QED
    BY <2>1, <2>3 DEF AtEnd, EndBefore
<1>12. BlankBehind(g)
  <2> SUFFICES ASSUME NEW b \in Nat, AtEnd(g, b), NEW x \in Cells, x >= b
               PROVE  g[x] = {}
    BY DEF BlankBehind
  <2>1. b = e
    BY <1>1, <1>11, EndUnique
  <2>2. x # d + 2
    BY <1>1, <2>1 DEF e
  <2> QED
    BY <1>5, <1>7, <2>1, <2>2
<1>13. LastHolds(g, t)
  <2> SUFFICES ASSUME NEW q \in Cells, config_block_is_valid(g, q), EndBefore(g, NextBlock(g, q))
               PROVE  Reading(g, q) = Stored(t)
    BY DEF LastHolds
  <2>1. e <= NextBlock(g, q)
    BY <1>1, <1>8 DEF EndBefore
  <2>2. d < e
    BY <1>1 DEF e
  <2>3. q # d => NextBlock(g, q) \in Nat /\ NextBlock(g, q) <= d
    BY <1>9, <1>10
  <2>4. e \in Nat /\ d \in Nat
    BY <1>1
  <2>5. q = d
    BY <2>1, <2>2, <2>3, <2>4
  <2> QED
    BY <1>8, <2>5
<1>14. ASSUME NEW b \in Nat, Cursor(f, b) PROVE Cursor(g, b)
  <2>1. b <= d
    BY <1>14, CursorBeforeEnd
  <2>2. Reached(g, b)
    BY <1>9, <1>14 DEF Cursor, Reached
  <2>3. ASSUME NEW p \in Cells, config_block_is_valid(g, p), p < b PROVE NextBlock(g, p) <= b
    <3>1. p # d /\ p \in Nat
      BY <2>1, <2>3, SizeAssumption DEF Cells
    <3>2. config_block_is_valid(f, p)
      BY <1>10, <2>3, <3>1
    <3> QED
      BY <1>9, <1>14, <2>3, <3>2 DEF Cursor
  <2> QED
    BY <2>2, <2>3 DEF Cursor
<1> QED
  BY <1>1, <1>8, <1>9, <1>12, <1>13, <1>14, BlankIsRest DEF Extends

\* The serialisation is lossless.
LEMMA StoredInjective ==
  ASSUME NEW t \in Trees, NEW u \in Trees, Stored(t) = Stored(u)
  PROVE  t = u
<1>1. WordsOf(t) \in Nat /\ WordsOf(u) \in Nat
  BY TreesAssumption, SizeAssumption DEF WordsOf
<1>2. DOMAIN Stored(t) = 1 .. WordsOf(t) /\ DOMAIN Stored(u) = 1 .. WordsOf(u)
  BY DEF Stored, WordsOf
<1>3. WordsOf(t) = WordsOf(u)
  BY <1>1, <1>2
<1>4. ASSUME NEW i \in 1 .. WordsOf(t) PROVE Enc[t][i] = Enc[u][i]
  <2>1. Stored(t)[i] = {DataWord(Enc[t][i])} /\ Stored(u)[i] = {DataWord(Enc[u][i])}
    BY <1>3 DEF Stored, WordsOf
  <2>2. DataWord(Enc[t][i]) = DataWord(Enc[u][i])
    BY <2>1
  <2> QED
    BY <2>2 DEF DataWord
<1> QED
  BY <1>3, <1>4, EncAssumption DEF WordsOf

\* The read-back comes to the last block, which holds the tree.
LEMMA ScanStep ==
  ASSUME PreemptInv, Clean, CallStep
  PROVE  ScanOK(flash', ram', op', pc', block', last')
<1>1. block \in Nat /\ Chained(flash) /\ ScanOK(flash, ram, op, pc, block, last)
  BY DEF PreemptInv, PreemptTypes, FlashOK, Clean
<1>2. CASE FindLast
  <2>1. /\ flash' = flash /\ ram' = ram /\ op' = op /\ pc = "findLast" /\ pc' = "findLast"
        /\ config_block_is_valid(flash, block) /\ last' = block /\ block' = NextBlock(flash, block)
    BY <1>2 DEF FindLast
  <2>2. block \in Cells
    BY <1>1, <2>1, ValidShape, SizeAssumption DEF Cells, HEADER
  <2>3. op = "check" => Cursor(flash, block')
    BY <1>1, <2>1, CursorMoves DEF ScanOK
  <2> QED
    BY <2>1, <2>2, <2>3 DEF ScanOK
<1>3. CASE LastFound
  <2>1. /\ flash' = flash /\ ram' = ram /\ op' = op /\ pc = "findLast" /\ last' = last
        /\ ~ config_block_is_valid(flash, block)
        /\ op # "save" => pc' = "parse"
    BY <1>3 DEF LastFound
  <2>2. ASSUME op = "check", last # NoBlock
        PROVE  last \in Cells /\ config_block_is_valid(flash, last) /\ Reading(flash, last) = Stored(ram)
    <3>1. Cursor(flash, block) /\ last \in Cells /\ config_block_is_valid(flash, last) /\ NextBlock(flash, last) = block
      BY <1>1, <2>1, <2>2 DEF ScanOK
    <3>2. EndBefore(flash, block)
      BY <1>1, <2>1, <3>1, CursorMoves
    <3>3. LastHolds(flash, ram)
      BY <2>1, <2>2 DEF Clean, Saved
    <3> QED
      BY <3>1, <3>2, <3>3 DEF LastHolds
  <2> QED
    BY <2>1, <2>2 DEF ScanOK
<1>4. CASE SaveAgain \/ ReadBack
  <2>1. pc' = "findLast" /\ block' = 0 /\ last' = NoBlock
    BY <1>4 DEF SaveAgain, ReadBack, StartScan
  <2>2. Cursor(flash', 0)
    BY CursorAtStart
  <2> QED
    BY <2>1, <2>2 DEF ScanOK
<1>5. CASE ~ (FindLast \/ LastFound \/ SaveAgain \/ ReadBack)
  <2>1. pc' \notin {"findLast", "parse"}
    BY <1>5 DEF CallStep, ScanFault, WriteFault, Fault, EraseFirst, FindFree, FreeFound, Room,
       EraseFull, WriteData, WriteRefused, DataDone, Undo, SaveAgain, WriteCrcLen, WriteLen,
       WriteCrcData,
       Wipe, Parse, ParseGone, TreeShrank, StartScan
  <2> QED
    BY <2>1 DEF ScanOK
<1> QED
  BY <1>2, <1>3, <1>4, <1>5

\* An erase by a call that is not overtaken.
LEMMA OwnErase ==
  ASSUME CallInv, CallStep,
         pc \in Erasing, pc = "wipe" => ~ locked, ram \in Trees
  PROVE  /\ flash' = Erased /\ ram' = ram
         /\ Progress(flash', ram', pc', dst', index')
         /\ pc' \in {"findFree", "data", "again", "idle"}
         /\ op' = "check" => pc' = "idle"
<1>1. /\ CallOK(op, pc, block, dst, index) /\ dst \in Nat
  BY DEF CallInv
<1>2. ~ locked /\ (pc # "wipe" => op = "save")
  BY <1>1 DEF CallOK, Writing, Erasing
<1>3. EraseFirst \/ EraseFull \/ Undo \/ Wipe
  BY DEF Erasing, CallStep, ScanFault, WriteFault, Fault, FindLast, LastFound,
     FindFree, FreeFound, Room, WriteData, WriteRefused, DataDone, SaveAgain, WriteCrcLen,
     WriteLen, WriteCrcData, ReadBack, Parse, ParseGone, TreeShrank
<1>4. /\ flash' = Erased /\ ram' = ram /\ op' = op
      /\ pc' \in {"findFree", "data", "again", "idle"}
      /\ pc' # "idle" => pc # "wipe"
      /\ pc' = "data" => pc = "eraseFull" /\ dst' = 0 /\ index' = 0
  BY <1>2, <1>3 DEF EraseFirst, EraseFull, Undo, Wipe, flash_sector_erase, StartScan
<1>5. 0 <= WordsOf(ram)
  BY TreesAssumption, SizeAssumption DEF WordsOf
<1>6. Progress(flash', ram', pc', dst', index')
  BY <1>4, <1>5 DEF Progress
<1> QED
  BY <1>2, <1>4, <1>6

\* A word of the tree, of the length or of its checksum.
LEMMA OwnWord ==
  ASSUME CallInv, RestBehind(flash, ram), Progress(flash, ram, pc, dst, index), ram \in Trees,
         WriteData \/ WriteCrcLen \/ WriteLen
  PROVE  /\ ram' = ram /\ op' = "save" /\ pc' \in {"data", "len", "crcData"}
         /\ RestBehind(flash', ram) /\ Extends(flash, flash')
         /\ \A p \in Cells : config_block_is_valid(flash', p) => config_block_is_valid(flash, p)
         /\ LastHolds(flash, ram) => LastHolds(flash', ram)
         /\ Progress(flash', ram, pc', dst', index')
<1>1. /\ CallOK(op, pc, block, dst, index) /\ dst \in Nat /\ index \in Nat
      /\ IsSector(flash) /\ Headers(flash) /\ Chained(flash) /\ SIZE \in Nat
      /\ RestBehind(flash, ram) /\ Progress(flash, ram, pc, dst, index)
  BY SizeAssumption DEF CallInv, FlashOK
<1>2. /\ pc \in {"data", "crcLen", "len"} /\ ram' = ram /\ op' = op /\ dst' = dst
      /\ pc' \in {"data", "len", "crcData"} /\ (pc = "data") = (pc' = "data")
  BY DEF WriteData, WriteCrcLen, WriteLen
<1>10. WriteData => dst + HEADER + index < SIZE
  BY DEF WriteData
<1>3. /\ op = "save" /\ ~ locked /\ AtEnd(flash, dst) /\ dst + 3 <= SIZE
  BY <1>1, <1>2, <1>10 DEF CallOK, Writing, AtEnd, HEADER, WriteCrcLen, WriteLen
<1>4. /\ index <= WordsOf(ram) /\ dst + 3 + index <= SIZE
      /\ \A k \in 1 .. index : DataWord(Enc[ram][k]) \in flash[dst + 2 + k]
      /\ pc # "data" => index = WordsOf(ram)
  BY <1>1, <1>2, <1>3 DEF Progress, HEADER
<1>5. WordsOf(ram) \in Nat
  BY TreesAssumption, SizeAssumption DEF WordsOf
<1>6. ASSUME NEW a \in Nat, NEW w, flash_write(a, w), dst <= a, w[1] # "dcrc", w \in Due(ram, dst, a)
      PROVE  /\ RestBehind(flash', ram) /\ Extends(flash, flash')
             /\ \A p \in Cells : config_block_is_valid(flash', p) => config_block_is_valid(flash, p)
             /\ LastHolds(flash, ram) => LastHolds(flash', ram)
             /\ \A x \in Cells : flash[x] \subseteq flash'[x]
             /\ a \in Cells => w \in flash'[a]
  <2>1. flash' = Programmed(flash, a, w)
    BY <1>3, <1>6 DEF flash_write
  <2>2. /\ \A x \in Cells : flash[x] \subseteq flash'[x]
        /\ a \in Cells => w \in flash'[a]
    BY <1>1, <2>1 DEF IsSector, Programmed
  <2>3. /\ RestBehind(flash', ram) /\ Extends(flash, flash')
        /\ \A p \in Cells : config_block_is_valid(flash', p) => config_block_is_valid(flash, p)
        /\ LastHolds(flash, ram) => LastHolds(flash', ram)
    BY <1>1, <1>3, <1>6, <2>1, ProgramWord
  <2> QED
    BY <2>2, <2>3
<1>7. ASSUME NEW k \in 1 .. index PROVE dst + 2 + k \in Cells
  BY <1>1, <1>4 DEF Cells
<1>8. CASE WriteData
  <2> DEFINE a == dst + 3 + index
             w == DataWord(Enc[ram][index + 1])
  <2>1. /\ flash_write(a, w) /\ index' = index + 1 /\ index < WordsOf(ram) /\ a < SIZE /\ pc' = "data"
    BY <1>8 DEF WriteData, HEADER, WordsOf
  <2>2. /\ a \in Nat /\ dst <= a /\ a \in Cells /\ a # dst /\ a # dst + 1 /\ dst + HEADER <= a
        /\ a < dst + HEADER + WordsOf(ram) /\ a - dst - 2 = index + 1 /\ dst + 2 + (index + 1) = a
    BY <1>1, <1>5, <2>1 DEF Cells, HEADER
  <2>3. w \in Due(ram, dst, a)
    BY <2>2 DEF Due
  <2>4. w[1] # "dcrc"
    BY DEF DataWord
  <2> HIDE DEF a
  <2>5. /\ RestBehind(flash', ram) /\ Extends(flash, flash')
        /\ \A p \in Cells : config_block_is_valid(flash', p) => config_block_is_valid(flash, p)
        /\ LastHolds(flash, ram) => LastHolds(flash', ram)
        /\ \A x \in Cells : flash[x] \subseteq flash'[x]
        /\ w \in flash'[a]
    BY <1>6, <2>1, <2>2, <2>3, <2>4
  <2>6. ASSUME NEW k \in 1 .. (index + 1) PROVE DataWord(Enc[ram][k]) \in flash'[dst + 2 + k]
    <3>1. CASE k = index + 1
      BY <2>2, <2>5, <3>1
    <3>2. CASE k # index + 1
      <4>1. k \in 1 .. index
        BY <1>1, <3>2
      <4> QED
        BY <1>4, <1>7, <2>5, <4>1
    <3> QED
      BY <3>1, <3>2
  <2>7. index + 1 <= WordsOf(ram) /\ dst + HEADER + (index + 1) <= SIZE
    BY <1>1, <1>5, <2>1 DEF a, HEADER
  <2>8. Progress(flash', ram, pc', dst', index')
    BY <1>2, <2>1, <2>6, <2>7 DEF Progress
  <2> QED
    BY <1>2, <1>3, <2>5, <2>8
<1>9. CASE WriteCrcLen \/ WriteLen
  <2>1. PICK a \in {dst, dst + 1}, w \in {LenCrc(index), LenWord(index)} :
          /\ flash_write(a, w) /\ w \in Due(ram, dst, a) /\ w[1] # "dcrc"
    <3>1. index = WordsOf(ram)
      BY <1>4, <1>9 DEF WriteCrcLen, WriteLen
    <3>2. LenCrc(index) \in Due(ram, dst, dst) /\ LenWord(index) \in Due(ram, dst, dst + 1)
      BY <1>1, <3>1 DEF Due
    <3>3. LenCrc(index)[1] # "dcrc" /\ LenWord(index)[1] # "dcrc"
      BY DEF LenCrc, LenWord
    <3> QED
      BY <1>9, <3>2, <3>3 DEF WriteCrcLen, WriteLen
  <2>2. a \in Nat /\ dst <= a
    BY <1>1
  <2>3. /\ RestBehind(flash', ram) /\ Extends(flash, flash')
        /\ \A p \in Cells : config_block_is_valid(flash', p) => config_block_is_valid(flash, p)
        /\ LastHolds(flash, ram) => LastHolds(flash', ram)
        /\ \A x \in Cells : flash[x] \subseteq flash'[x]
    BY <1>6, <2>1, <2>2
  <2>4. index' = index /\ index = WordsOf(ram)
    BY <1>4, <1>9 DEF WriteCrcLen, WriteLen
  <2>5. ASSUME NEW k \in 1 .. index PROVE DataWord(Enc[ram][k]) \in flash'[dst + 2 + k]
    BY <1>4, <1>7, <2>3
  <2>6. Progress(flash', ram, pc', dst', index')
    BY <1>2, <1>4, <2>4, <2>5 DEF Progress, HEADER
  <2> QED
    BY <1>2, <1>3, <2>3, <2>6
<1> QED
  BY <1>8, <1>9

\* The checksum of the data.
LEMMA OwnCrc ==
  ASSUME CallInv, RestBehind(flash, ram), Progress(flash, ram, pc, dst, index), ram \in Trees,
         WriteCrcData
  PROVE  /\ ram' = ram /\ op' = "save" /\ pc' = "return"
         /\ BlankBehind(flash') /\ RestBehind(flash', ram) /\ LastHolds(flash', ram)
         /\ Extends(flash, flash') /\ \E q \in Cells : config_block_is_valid(flash', q)
<1>1. /\ CallOK(op, pc, block, dst, index) /\ dst \in Nat /\ index \in Nat
      /\ IsSector(flash) /\ Headers(flash) /\ Chained(flash)
      /\ RestBehind(flash, ram) /\ Progress(flash, ram, pc, dst, index)
  BY DEF CallInv, FlashOK
<1>2. /\ pc = "crcData" /\ ram' = ram /\ op' = op /\ pc' = "return"
      /\ flash_write(dst + 2, DataCrc(DataAt(flash, dst, index)))
  BY DEF WriteCrcData
<1>3. /\ op = "save" /\ ~ locked /\ AtEnd(flash, dst) /\ LenWord(index) \in flash[dst + 1]
  BY <1>1, <1>2 DEF CallOK, Writing, AtEnd
<1>7. WordsOf(ram) \in Nat /\ WordsOf(ram) > 0
  BY TreesAssumption, SizeAssumption DEF WordsOf
<1>4. /\ index = WordsOf(ram) /\ dst + 3 + index <= SIZE
      /\ \A k \in 1 .. index : DataWord(Enc[ram][k]) \in flash[dst + 2 + k]
  BY <1>1, <1>2, <1>7 DEF Progress, HEADER
<1>5. flash' = Programmed(flash, dst + 2, DataCrc(DataAt(flash, dst, index)))
  BY <1>2, <1>3 DEF flash_write
<1>6. /\ BlankBehind(flash') /\ RestBehind(flash', ram) /\ LastHolds(flash', ram)
      /\ Extends(flash, flash') /\ \E q \in Cells : config_block_is_valid(flash', q)
  BY <1>1, <1>3, <1>4, <1>5, ProgramCrc
<1> QED
  BY <1>2, <1>3, <1>6

\* A step that only reads the flash, of a call that is not overtaken.
LEMMA OwnRead ==
  ASSUME CallInv, Progress(flash, ram, pc, dst, index), ram \in Trees, CallStep,
         pc \notin Erasing, ~ (WriteData \/ WriteCrcLen \/ WriteLen \/ WriteCrcData)
  PROVE  /\ flash' = flash
         /\ ram' = ram \/ pc = "parse"
         /\ (InSave(op', pc') <=> InSave(op, pc))
         /\ Progress(flash', ram', pc', dst', index')
         /\ pc' \notin {"wipe", "return"}
         /\ op' = "check" /\ pc' \notin {"idle", "fault"} => op = "check" \/ pc = "return"
         /\ pc \notin {"idle", "fault"}
<1>1. /\ CallOK(op, pc, block, dst, index) /\ dst \in Nat /\ index \in Nat
      /\ Progress(flash, ram, pc, dst, index)
  BY DEF CallInv
<1>2. WordsOf(ram) \in Nat
  BY TreesAssumption, SizeAssumption DEF WordsOf
<1>3. ~ TreeShrank
  <2>1. pc = "data" => index <= WordsOf(ram)
    BY <1>1 DEF Progress
  <2> QED
    BY <1>1, <1>2, <2>1 DEF TreeShrank, WordsOf
<1>4. /\ flash' = flash /\ pc \notin {"idle", "fault"} /\ pc' \notin {"wipe", "return"}
      /\ ram' = ram \/ pc = "parse"
      /\ pc' = "data" => ram' = ram /\ pc = "room" /\ index' = 0 /\ dst' = dst
      /\ pc' = "crcLen" => ram' = ram /\ pc = "data" /\ index' = index /\ index = WordsOf(ram) /\ dst' = dst
      /\ pc' \notin {"len", "crcData"}
      /\ op' = IF pc = "return" THEN "check" ELSE op
      /\ pc = "findFree" \/ pc = "room" \/ pc = "data" => op = "save" /\ pc' \notin {"idle", "parse", "return"}
      /\ pc = "findLast" /\ op = "save" => pc' \notin {"idle", "parse"}
      /\ pc \in {"findLast", "findFree", "room", "data", "again", "return", "parse"}
      /\ pc = "again" => op = "save" /\ pc' = "findLast"
      /\ pc = "parse" => pc' = "idle"
  BY <1>1, <1>3 DEF CallOK, Writing, Erasing, CallStep, ScanFault, WriteFault, Fault, FindLast,
     LastFound, EraseFirst, EraseFull, Undo, SaveAgain, Wipe, StartScan,
     FindFree, FreeFound, Room, WriteRefused, DataDone, ReadBack, Parse, ParseGone, WordsOf
<1>5. (InSave(op', pc') <=> InSave(op, pc))
  BY <1>4 DEF InSave
<1>6. Progress(flash', ram', pc', dst', index')
  BY <1>1, <1>2, <1>4 DEF Progress
<1> QED
  BY <1>4, <1>5, <1>6

\* Blocks that are found stay where they are.
LEMMA ScanExtends ==
  ASSUME NEW f, NEW g, NEW t, Extends(f, g), NEW o, NEW c, NEW b \in Nat, NEW l, ScanOK(f, t, o, c, b, l)
  PROVE  ScanOK(g, t, o, c, b, l)
BY DEF Extends, ScanOK

\* A step of a call that is not overtaken.
LEMMA OwnStep ==
  ASSUME PreemptInv, Clean, ~ (running = "aseba" /\ overtaken), ram \in Trees, RunStep,
         frame # NoFrame => ram' = ram /\ (flash' = Erased => flash' = flash)
  PROVE  Clean'
<1>1. /\ CallStep /\ running' = running /\ frame' = frame /\ (overtaken' <=> overtaken)
  BY DEF RunStep
<1>2. ScanOK(flash', ram', op', pc', block', last')
  BY <1>1, ScanStep
<1>3. /\ ~ (running' = "aseba" /\ overtaken')
      /\ frame # NoFrame => frame[4] \in Nat
      /\ frame # NoFrame => ScanOK(flash, ram, frame[1], frame[3], frame[4], frame[5])
      /\ Saved => LastHolds(flash, ram)
      /\ RestBehind(flash, ram) /\ (~ Dirty => BlankBehind(flash))
      /\ Progress(flash, ram, pc, dst, index) /\ CallInv
  BY <1>1, CallAlone DEF PreemptInv, PreemptTypes, Clean
<1>4. ASSUME frame # NoFrame, ~ overtaken
      PROVE  Progress(flash', ram', frame[3], frame[7], frame[9]) /\ (frame[3] = "wipe" => ~ locked')
  <2>1. flash' = flash /\ locked' = locked
    BY <1>1, <1>4, ShellReads
  <2> QED
    BY <1>4, <2>1 DEF Clean
<1>5. ASSUME /\ RestBehind(flash', ram') /\ (~ Dirty' => BlankBehind(flash'))
             /\ Progress(flash', ram', pc', dst', index') /\ pc' # "wipe"
             /\ Saved' => LastHolds(flash', ram')
             /\ frame # NoFrame => ScanOK(flash', ram', frame[1], frame[3], frame[4], frame[5])
      PROVE  Clean'
  BY <1>1, <1>2, <1>3, <1>4, <1>5 DEF Clean
<1>6. CASE pc \in Erasing
  <2>1. pc = "wipe" => ~ locked
    BY DEF Clean
  <2>2. /\ flash' = Erased /\ ram' = ram
        /\ Progress(flash', ram', pc', dst', index')
        /\ pc' \in {"findFree", "data", "again", "idle"}
    BY <1>1, <1>3, <1>6, <2>1, OwnErase
  <2>3. BlankBehind(flash') /\ RestBehind(flash', ram') /\ LastHolds(flash', ram')
    BY <2>2, ErasedClean
  <2> QED
    BY <1>3, <1>5, <2>2, <2>3
<1>7. CASE WriteData \/ WriteCrcLen \/ WriteLen
  <2>1. /\ ram' = ram /\ op' = "save" /\ pc' \in {"data", "len", "crcData"}
        /\ RestBehind(flash', ram) /\ Extends(flash, flash')
        /\ LastHolds(flash, ram) => LastHolds(flash', ram)
        /\ Progress(flash', ram, pc', dst', index')
    BY <1>3, <1>7, OwnWord
  <2>2. InSave(op', pc')
    BY <2>1 DEF InSave
  <2>3. Dirty'
    BY <1>3, <2>2 DEF Dirty
  <2>4. Saved' => Saved
    BY <1>1, <1>3, <2>1, <2>2 DEF Saved
  <2>5. frame # NoFrame => ScanOK(flash', ram', frame[1], frame[3], frame[4], frame[5])
    BY <1>3, <2>1, ScanExtends
  <2> QED
    BY <1>3, <1>5, <2>1, <2>3, <2>4, <2>5
<1>8. CASE WriteCrcData
  <2>1. /\ ram' = ram /\ op' = "save" /\ pc' = "return"
        /\ BlankBehind(flash') /\ RestBehind(flash', ram) /\ LastHolds(flash', ram)
        /\ Extends(flash, flash')
    BY <1>3, <1>8, OwnCrc
  <2>2. Progress(flash', ram', pc', dst', index')
    BY <2>1 DEF Progress
  <2>3. frame # NoFrame => ScanOK(flash', ram', frame[1], frame[3], frame[4], frame[5])
    BY <1>3, <2>1, ScanExtends
  <2> QED
    BY <1>5, <2>1, <2>2, <2>3
<1>9. CASE pc \notin Erasing /\ ~ (WriteData \/ WriteCrcLen \/ WriteLen \/ WriteCrcData)
  <2>1. /\ flash' = flash /\ (ram' = ram \/ pc = "parse")
        /\ (InSave(op', pc') <=> InSave(op, pc))
        /\ Progress(flash', ram', pc', dst', index')
        /\ pc' \notin {"wipe", "return"}
        /\ op' = "check" /\ pc' \notin {"idle", "fault"} => op = "check" \/ pc = "return"
        /\ pc \notin {"idle", "fault"}
    BY <1>1, <1>3, <1>9, OwnRead
  <2>2. Dirty' <=> Dirty
    BY <1>1, <2>1 DEF Dirty
  <2>3. CASE ram' = ram
    <3>1. Saved' => Saved
      BY <1>1, <1>3, <2>1 DEF Saved
    <3> QED
      BY <1>3, <1>5, <2>1, <2>2, <2>3, <3>1
  <2>4. CASE ram' # ram
    <3>1. frame = NoFrame /\ pc = "parse"
      BY <2>1, <2>4
    <3>2. pc' = "idle"
      BY <1>1, <3>1 DEF CallStep, ScanFault, WriteFault, Fault, FindLast, LastFound, EraseFirst,
         EraseFull, Undo, SaveAgain, Wipe, FindFree, FreeFound, Room, WriteData, WriteRefused,
         DataDone,
         WriteCrcLen, WriteLen, WriteCrcData, ReadBack, Parse, ParseGone, TreeShrank
    <3>3. ~ Dirty
      BY <3>1 DEF Dirty, InSave
    <3>4. BlankBehind(flash') /\ RestBehind(flash', ram')
      BY <1>3, <2>1, <3>3, BlankIsRest
    <3>5. ~ Saved'
      BY <1>1, <1>3, <3>1, <3>2 DEF Saved
    <3> QED
      BY <1>5, <2>1, <3>1, <3>4, <3>5
  <2> QED
    BY <2>3, <2>4
<1> QED
  BY <1>6, <1>7, <1>8, <1>9

\* A step of a call of Aseba that the shell overtook.
LEMMA VoidStep ==
  ASSUME PreemptInv, Clean, running = "aseba", overtaken, RunStep
  PROVE  Clean'
<1>1. /\ CallStep /\ running' = running /\ frame' = frame
      /\ overtaken' = (pc # "again")
  BY DEF RunStep
<1>2. locked /\ flash' = flash
  BY <1>1, VoidKeeps
<1>3. /\ pc \notin {"idle", "fault"} /\ pc' # "wipe"
      /\ ram' = ram \/ pc' = "idle"
      /\ pc = "again" => pc' = "findLast" /\ ram' = ram
  BY <1>1 DEF CallStep, ScanFault, WriteFault, Fault, FindLast, LastFound, EraseFirst,
     EraseFull, Undo, SaveAgain, Wipe, FindFree, FreeFound, Room, WriteData, WriteRefused, DataDone,
     WriteCrcLen, WriteLen, WriteCrcData, ReadBack, Parse, ParseGone, TreeShrank, StartScan
<1>4. frame = NoFrame
  BY <1>3 DEF PreemptInv, OnlyReads
<1>5. ~ Dirty /\ Saved
  BY <1>3, <1>4 DEF Dirty, Saved
<1>6. BlankBehind(flash') /\ RestBehind(flash', ram') /\ LastHolds(flash, ram)
  BY <1>2, <1>5, BlankIsRest DEF Clean
<1>7. Saved' => ram' = ram
  BY <1>1, <1>3, <1>4 DEF Saved
<1>8. ScanOK(flash', ram', op', pc', block', last')
  BY <1>1, ScanStep
<1>9. ~ (running' = "aseba" /\ overtaken') => Progress(flash', ram', pc', dst', index')
  BY <1>1, <1>3 DEF Progress
<1> QED
  BY <1>1, <1>2, <1>3, <1>4, <1>6, <1>7, <1>8, <1>9 DEF Clean

\* An erase under no suspended call makes up for all that was changed before.
LEMMA EraseMakesUp ==
  ASSUME PreemptInv, ram \in Trees, RunStep, frame = NoFrame, flash' # flash, flash' = Erased
  PROVE  Clean'
<1>1. CallStep /\ running' = running /\ frame' = NoFrame
  BY DEF RunStep
<1>2. ~ (running = "aseba" /\ overtaken)
  BY <1>1, VoidKeeps
<1>3. ~ (running' = "aseba" /\ overtaken')
  BY <1>2 DEF RunStep
<1>4. IsSector(flash) /\ ~ locked
  BY <1>1 DEF PreemptInv, PreemptTypes, CallStep, flash_write, flash_sector_erase, ScanFault,
     WriteFault, Fault, FindLast, LastFound, EraseFirst, FindFree, FreeFound, Room, EraseFull,
     WriteData, WriteRefused, DataDone, Undo, SaveAgain, WriteCrcLen, WriteLen, WriteCrcData,
     ReadBack, Wipe,
     Parse, ParseGone, TreeShrank
<1>5. ASSUME NEW a, NEW w, flash_write(a, w) PROVE FALSE
  <2>1. flash' = Programmed(flash, a, w)
    BY <1>4, <1>5 DEF flash_write
  <2>2. a \in Cells => w \in flash'[a]
    BY <1>4, <2>1 DEF Programmed, IsSector
  <2>3. a \notin Cells => flash' = flash
    BY <1>4, <2>1 DEF Programmed, IsSector
  <2> QED
    BY <2>2, <2>3 DEF Erased
<1>6. pc \in Erasing
  <2>1. ~ WriteData /\ ~ WriteCrcLen /\ ~ WriteLen /\ ~ WriteCrcData
    BY <1>5 DEF WriteData, WriteCrcLen, WriteLen, WriteCrcData
  <2> QED
    BY <1>1, <2>1 DEF CallStep, ScanFault, WriteFault, Fault, FindLast, LastFound, EraseFirst,
       FindFree, FreeFound, Room, EraseFull, WriteRefused, DataDone, Undo, SaveAgain, ReadBack,
       Wipe,
       Parse, ParseGone, TreeShrank, Erasing
<1>7. /\ ram' = ram /\ Progress(flash', ram', pc', dst', index')
      /\ pc' \in {"findFree", "data", "again", "idle"} /\ (op' = "check" => pc' = "idle")
  BY <1>1, <1>2, <1>4, <1>6, CallAlone, OwnErase
<1>8. BlankBehind(flash') /\ RestBehind(flash', ram') /\ LastHolds(flash', ram')
  BY ErasedClean
<1>9. ScanOK(flash', ram', op', pc', block', last')
  BY <1>7 DEF ScanOK
<1> QED
  BY <1>1, <1>3, <1>7, <1>8, <1>9 DEF Clean

\* The invariant is inductive.
LEMMA ReadStep == PreemptInv /\ ReadInv /\ [PreemptNext]_pvars => ReadInv'
<1> SUFFICES ASSUME PreemptInv, ReadInv, [PreemptNext]_pvars, ~ changed'
             PROVE  Clean'
  BY RamStep DEF ReadInv
<1>1. ram \in Trees
  BY DEF ReadInv
<1>2. CASE RunStep
  <2>1. Changed
    BY <1>2 DEF RunStep
  <2>2. CASE frame = NoFrame /\ flash' # flash /\ flash' = Erased
    BY <1>1, <1>2, <2>2, EraseMakesUp
  <2>3. CASE ~ (frame = NoFrame /\ flash' # flash /\ flash' = Erased)
    <3>1. ~ changed /\ (frame # NoFrame => ram' = ram /\ (flash' = Erased => flash' = flash))
      BY <2>1, <2>3 DEF Changed
    <3>2. Clean
      BY <3>1 DEF ReadInv
    <3>3. CASE running = "aseba" /\ overtaken
      BY <1>2, <3>2, <3>3, VoidStep
    <3>4. CASE ~ (running = "aseba" /\ overtaken)
      BY <1>1, <1>2, <3>1, <3>2, <3>4, OwnStep
    <3> QED
      BY <3>3, <3>4
  <2> QED
    BY <2>2, <2>3
<1>3. CASE AsebaCall
  <2>1. /\ UNCHANGED <<flash, ram, frame>> /\ frame = NoFrame /\ pc = "idle" /\ Changed
        /\ locked' = FALSE /\ running' = "aseba" /\ overtaken' = FALSE
        /\ op' \in {"save", "erase"} /\ pc' \in {"findLast", "wipe"}
    BY <1>3 DEF AsebaCall, config_save, config_erase, StartScan
  <2>2. Clean
    BY <2>1 DEF Changed, ReadInv
  <2>3. ~ Dirty /\ ~ Saved'
    BY <2>1 DEF Dirty, InSave, Saved
  <2>4. BlankBehind(flash') /\ RestBehind(flash', ram')
    BY <2>1, <2>2, <2>3 DEF Clean
  <2>5. Progress(flash', ram', pc', dst', index') /\ ScanOK(flash', ram', op', pc', block', last')
    BY <2>1 DEF Progress, ScanOK
  <2> QED
    BY <2>1, <2>3, <2>4, <2>5 DEF Clean
<1>4. CASE ShellCall
  <2>1. /\ UNCHANGED <<flash, frame>> /\ pc = "idle" /\ running' = "shell" /\ Changed
    BY <1>4 DEF ShellCall, config_save, config_load, config_erase, config_set
  <2>2. /\ ~ changed /\ (frame # NoFrame => ram' = ram)
    BY <2>1 DEF Changed
  <2>3. /\ RestBehind(flash, ram) /\ (~ Dirty => BlankBehind(flash))
        /\ frame # NoFrame /\ ~ overtaken =>
             Progress(flash, ram, frame[3], frame[7], frame[9]) /\ (frame[3] = "wipe" => ~ locked)
        /\ Saved => LastHolds(flash, ram)
        /\ frame # NoFrame => ScanOK(flash, ram, frame[1], frame[3], frame[4], frame[5])
    BY <2>2 DEF ReadInv, Clean
  <2>4. CASE config_save("shell") \/ config_erase
    <3>1. /\ ram' = ram /\ op' \in {"save", "erase"} /\ pc' \in {"findLast", "wipe"} /\ locked' = FALSE
          /\ InSave(op', pc')
      BY <2>4 DEF config_save, config_erase, StartScan, InSave
    <3>2. overtaken' = (frame # NoFrame)
      BY <1>4, <2>1, <2>4 DEF ShellCall, config_save, config_erase, config_load, config_set,
           StartScan
    <3>3. Dirty'
      BY <2>1, <3>1 DEF Dirty
    <3>4. Saved' => Saved
      BY <2>1, <3>1 DEF Saved
    <3>5. Progress(flash', ram', pc', dst', index') /\ ScanOK(flash', ram', op', pc', block', last')
      BY <3>1 DEF Progress, ScanOK
    <3> QED
      BY <2>1, <2>3, <3>1, <3>2, <3>3, <3>4, <3>5 DEF Clean
  <2>5. CASE ~ (config_save("shell") \/ config_erase)
    <3>1. /\ locked' = locked /\ overtaken' = overtaken
          /\ \/ op' = "load" /\ pc' = "findLast" /\ ram' = ram
             \/ op' = op /\ pc' = "idle"
      BY <1>4, <2>5 DEF ShellCall, config_load, config_set, StartScan
    <3>2. ~ InSave(op, pc) /\ ~ InSave(op', pc')
      BY <2>1, <3>1 DEF InSave
    <3>3. Dirty' <=> Dirty
      BY <2>1, <3>1, <3>2 DEF Dirty
    <3>4. frame = NoFrame => ~ Dirty /\ ~ Saved'
      BY <2>1, <3>1, <3>2 DEF Dirty, Saved
    <3>5. frame # NoFrame /\ Saved' => Saved
      BY <2>1, <3>1, <3>2 DEF Saved
    <3>6. Progress(flash', ram', pc', dst', index') /\ ScanOK(flash', ram', op', pc', block', last')
          /\ pc' # "wipe"
      BY <3>1 DEF Progress, ScanOK
    <3>7. RestBehind(flash', ram')
      BY <2>1, <2>2, <2>3, <3>4, BlankIsRest
    <3> QED
      BY <2>1, <2>2, <2>3, <3>1, <3>3, <3>4, <3>5, <3>6, <3>7 DEF Clean
  <2> QED
    BY <2>4, <2>5
<1>5. CASE Preempt
  <2>1. /\ running = "aseba" /\ frame = NoFrame /\ frame' = locals /\ pc' = "idle"
        /\ pc \notin {"idle", "fault"}
        /\ UNCHANGED <<flash, ram, locked, op, running, overtaken, changed>>
    BY <1>5 DEF Preempt, shared
  <2>2. /\ frame' # NoFrame /\ frame'[1] = op /\ frame'[3] = pc /\ frame'[4] = block
        /\ frame'[5] = last /\ frame'[7] = dst /\ frame'[9] = index
    BY <2>1 DEF locals, NoFrame
  <2>3. Clean
    BY <2>1 DEF ReadInv
  <2>4. (Dirty' <=> Dirty) /\ (Saved' => Saved)
    BY <2>1, <2>2 DEF Dirty, Saved, InSave
  <2>5. Progress(flash', ram', pc', dst', index') /\ ScanOK(flash', ram', op', pc', block', last')
    BY <2>1 DEF Progress, ScanOK
  <2> QED
    BY <2>1, <2>2, <2>3, <2>4, <2>5 DEF Clean
<1>6. CASE Resume
  <2>1. /\ frame # NoFrame /\ running = "shell" /\ pc = "idle" /\ frame' = NoFrame
        /\ running' = "aseba" /\ UNCHANGED <<flash, ram, locked, overtaken, changed>>
        /\ op' = frame[1] /\ pc' = frame[3] /\ block' = frame[4] /\ last' = frame[5]
        /\ dst' = frame[7] /\ index' = frame[9]
    BY <1>6 DEF Resume, shared
  <2>2. Clean
    BY <2>1 DEF ReadInv
  <2>3. (Dirty' <=> Dirty) /\ (Saved' => Saved)
    BY <2>1 DEF Dirty, Saved, InSave
  <2> QED
    BY <2>1, <2>2, <2>3 DEF Clean
<1>7. CASE UNCHANGED pvars
  BY <1>7 DEF pvars, vars, ReadInv, Clean, Dirty, Saved, Progress, ScanOK
<1> QED
  BY <1>2, <1>3, <1>4, <1>5, <1>6, <1>7 DEF PreemptNext

\* "OK." after config_save is true, also for a save that overtakes another or is overtaken,
\* for every sector size, every set of trees and every dst_len, as long as neither the
\* tree nor the chain is replaced under a suspended call.
THEOREM PreemptedSavesReadBack == PreemptSpec => ReadBackUnlessChanged
<1>1. PreemptInit => PreemptInv /\ ReadInv
  <2> SUFFICES ASSUME PreemptInit PROVE PreemptInv /\ ReadInv
    OBVIOUS
  <2>1. /\ flash = Erased /\ ram = Default /\ op = "boot" /\ pc = "findLast"
        /\ frame = NoFrame /\ running = "shell" /\ overtaken = FALSE /\ block = 0
        /\ dst = 0 /\ index = 0
    BY DEF PreemptInit, Init
  <2>2. PreemptInv
    BY <2>1, ErasedOK, TreesAssumption DEF PreemptInv, PreemptTypes, FlashOK, RunningOK, FrameOK, Voided, OnlyReads,
       CallOK, Writing
  <2>3. ~ Saved /\ BlankBehind(flash) /\ RestBehind(flash, ram)
    BY <2>1, ErasedClean DEF Saved
  <2>4. Progress(flash, ram, pc, dst, index) /\ ScanOK(flash, ram, op, pc, block, last)
    BY <2>1 DEF Progress, ScanOK
  <2> QED
    BY <2>1, <2>2, <2>3, <2>4, TreesAssumption DEF ReadInv, Clean
<1>2. ASSUME PreemptInv, ReadInv, [PreemptNext]_pvars, op = "check", pc = "parse", pc' = "idle",
             frame' = frame, ~ changed, result' = "ok"
      PROVE  ram' = ram
  <2>1. /\ ram \in Trees
        /\ last # NoBlock => last \in Cells /\ config_block_is_valid(flash, last)
                             /\ Reading(flash, last) = Stored(ram)
    BY <1>2 DEF ReadInv, Clean, ScanOK
  <2>2. ~ Gone
    BY <2>1 DEF Gone, config_block_is_valid
  <2>3. ~ Preempt
    <3>1. Preempt => frame = NoFrame /\ frame' = locals
      BY DEF Preempt
    <3>2. locals # NoFrame
      BY DEF locals, NoFrame
    <3> QED
      BY <1>2, <3>1, <3>2
  <2>4. RunStep
    BY <1>2, <2>3 DEF PreemptNext, AsebaCall, ShellCall, Resume, pvars, vars
  <2>5. Parse
    BY <1>2, <2>2, <2>4 DEF RunStep, CallStep, ScanFault, WriteFault, Fault, FindLast, LastFound,
       EraseFirst, FindFree, FreeFound, Room, EraseFull, WriteData, WriteRefused, DataDone, Undo,
       SaveAgain,
       WriteCrcLen, WriteLen, WriteCrcData, ReadBack, Wipe, ParseGone, TreeShrank
  <2>6. PICK t \in Trees : Reading(flash, last) = Stored(t) /\ ram' = t /\ last # NoBlock
    BY <1>2, <2>1, <2>5 DEF Parse
  <2>7. t = ram
    BY <2>1, <2>6, StoredInjective
  <2> QED
    BY <2>6, <2>7
<1> QED
  BY <1>1, <1>2, PreemptStep, ReadStep, PTL DEF PreemptSpec, ReadBackUnlessChanged

-----------------------------------------------------------------------------
(* The sector as a store of one tree.                                      *)

\* Before a block of the chain there are whole blocks.
LEMMA CursorAtBlock ==
  ASSUME NEW f, Chained(f), NEW p \in Cells, config_block_is_valid(f, p)
  PROVE  Cursor(f, p)
<1> DEFINE T == {x \in Cells : config_block_is_valid(f, x) /\ ~ Cursor(f, x)}
<1> SUFFICES ASSUME T # {} PROVE FALSE
  OBVIOUS
<1>1. T \in SUBSET Nat
  BY SizeAssumption DEF Cells
<1>2. PICK x \in T : \A y \in T : x <= y
  BY <1>1, LeastAddress
<1>3. x # 0 /\ x \in Nat /\ Reached(f, x)
  BY <1>1, <1>2, CursorAtStart DEF Chained
<1>4. PICK q \in Cells : config_block_is_valid(f, q) /\ NextBlock(f, q) = x
  BY <1>3 DEF Reached
<1>5. q \in Nat /\ NextBlock(f, q) >= q + 3
  BY <1>4, ValidShape, SizeAssumption DEF Cells, HEADER
<1>6. q \notin T
  BY <1>2, <1>3, <1>4, <1>5
<1>7. Cursor(f, q)
  BY <1>4, <1>6
<1> QED
  BY <1>2, <1>4, <1>5, <1>7, CursorMoves

\* The last block of a chain.
IsLast(f, q) == q \in Cells /\ config_block_is_valid(f, q) /\ EndBefore(f, NextBlock(f, q))

\* There is a greatest one in a set of addresses.
LEMMA GreatestAddress ==
  ASSUME NEW T \in SUBSET Cells, T # {}
  PROVE  \E p \in T : \A q \in T : q <= p
<1> DEFINE U == {SIZE - x : x \in T}
<1>1. SIZE \in Nat /\ \A x \in T : x \in Nat /\ x < SIZE
  BY SizeAssumption DEF Cells
<1>2. U \in SUBSET Nat /\ U # {}
  BY <1>1
<1>3. PICK u \in U : \A v \in U : u <= v
  BY <1>2, LeastAddress
<1>4. PICK p \in T : u = SIZE - p
  BY <1>3
<1>5. ASSUME NEW q \in T PROVE q <= p
  <2>1. SIZE - q \in U
    OBVIOUS
  <2>2. SIZE - p <= SIZE - q
    BY <1>3, <1>4, <2>1
  <2> QED
    BY <1>1, <2>2
<1> QED
  BY <1>5

\* If there is a block there is one last block.
LEMMA LastExists ==
  ASSUME NEW f, Chained(f), NEW p \in Cells, config_block_is_valid(f, p)
  PROVE  \E q : IsLast(f, q)
<1> DEFINE T == {x \in Cells : config_block_is_valid(f, x)}
<1>1. T \in SUBSET Cells /\ T # {}
  OBVIOUS
<1>2. PICK q \in T : \A x \in T : x <= q
  BY <1>1, GreatestAddress
<1>3. q \in Cells /\ config_block_is_valid(f, q) /\ Cursor(f, q)
  BY <1>2, CursorAtBlock
<1>4. NextBlock(f, q) \in Nat /\ NextBlock(f, q) >= q + 3 /\ q \in Nat
  BY <1>3, ValidShape, SizeAssumption DEF Cells, HEADER
<1>5. ASSUME NEW x \in Cells, config_block_is_valid(f, x) PROVE NextBlock(f, x) <= NextBlock(f, q)
  <2>1. x <= q /\ x \in Nat /\ NextBlock(f, x) \in Nat
    BY <1>2, <1>5, ValidShape, SizeAssumption DEF Cells
  <2>2. CASE x = q
    BY <1>4, <2>2
  <2>3. CASE x < q
    <3>1. NextBlock(f, x) <= q
      BY <1>3, <1>5, <2>3 DEF Cursor
    <3> QED
      BY <1>4, <2>1, <3>1
  <2> QED
    BY <1>4, <2>1, <2>2, <2>3
<1> QED
  BY <1>3, <1>5 DEF IsLast, EndBefore

\* A chain has one last block.
LEMMA LastUnique ==
  ASSUME NEW f, Chained(f), NEW p, IsLast(f, p), NEW q, IsLast(f, q)
  PROVE  p = q
<1>1. ASSUME NEW x, NEW y, IsLast(f, x), IsLast(f, y) PROVE ~ (x < y)
  <2>1. /\ x \in Cells /\ y \in Cells /\ x \in Nat /\ y \in Nat
        /\ config_block_is_valid(f, x) /\ config_block_is_valid(f, y)
    BY <1>1, SizeAssumption DEF IsLast, Cells
  <2>2. /\ NextBlock(f, x) \in Nat /\ NextBlock(f, y) \in Nat
        /\ NextBlock(f, y) >= y + 3
    BY <2>1, ValidShape DEF HEADER
  <2>3. NextBlock(f, y) <= NextBlock(f, x)
    BY <1>1, <2>1 DEF IsLast, EndBefore
  <2>4. x < y => NextBlock(f, x) <= y
    BY <2>1, CursorAtBlock DEF Cursor
  <2> QED
    BY <2>1, <2>2, <2>3, <2>4
<1>2. p \in Nat /\ q \in Nat
  BY SizeAssumption DEF IsLast, Cells
<1> QED
  BY <1>1, <1>2

\* The recursion of LastBlock comes to the last block.
LEMMA LastBlockIs ==
  ASSUME NEW f, Chained(f)
  PROVE  /\ \A q : IsLast(f, q) => LastBlock(f) = q
         /\ (\A p \in Cells : ~ config_block_is_valid(f, p)) => LastBlock(f) = NoBlock
<1> DEFINE V(p) == config_block_is_valid(f, p)
           Eqn(g) == g = [p \in Nat |-> IF V(p)
                                        THEN IF g[NextBlock(f, p)] = NoBlock
                                             THEN p ELSE g[NextBlock(f, p)]
                                        ELSE NoBlock]
           G == CHOOSE g : Eqn(g)
<1>1. LastBlock(f) = G[0]
  BY DEF LastBlock
<1>2. ASSUME NEW p \in Nat, V(p)
      PROVE  /\ p \in Cells /\ NextBlock(f, p) \in Nat /\ NextBlock(f, p) > p
             /\ ~ V(NextBlock(f, p)) => IsLast(f, p)
  <2>1. /\ NextBlock(f, p) \in Nat /\ NextBlock(f, p) >= p + 3 /\ NextBlock(f, p) <= SIZE
    BY <1>2, ValidShape DEF HEADER
  <2>2. p \in Cells
    BY <2>1, SizeAssumption DEF Cells
  <2>3. Cursor(f, NextBlock(f, p))
    BY <1>2, <2>2, CursorAtBlock, CursorMoves
  <2>4. ~ V(NextBlock(f, p)) => EndBefore(f, NextBlock(f, p))
    BY <2>1, <2>3, CursorMoves
  <2> QED
    BY <1>2, <2>1, <2>2, <2>4 DEF IsLast
<1>3. ASSUME NEW q, IsLast(f, q)
      PROVE  /\ \E g : Eqn(g)
             /\ \A g : Eqn(g) => \A p \in Nat : V(p) => g[p] = q
             /\ V(0)
  <2>0. q \in Cells /\ q \in Nat /\ V(q) /\ q # NoBlock
    BY <1>3, SizeAssumption DEF IsLast, Cells, NoBlock
  <2>1. \E g : Eqn(g)
    <3> DEFINE W == [p \in Nat |-> IF V(p) THEN q ELSE NoBlock]
    <3>1. ASSUME NEW p \in Nat
          PROVE  W[p] = IF V(p) THEN IF W[NextBlock(f, p)] = NoBlock
                                     THEN p ELSE W[NextBlock(f, p)]
                        ELSE NoBlock
      <4>1. CASE ~ V(p)
        BY <4>1
      <4>2. CASE V(p) /\ V(NextBlock(f, p))
        BY <1>2, <2>0, <4>2
      <4>3. CASE V(p) /\ ~ V(NextBlock(f, p))
        <5>1. p = q
          BY <1>2, <1>3, <4>3, LastUnique
        <5> QED
          BY <1>2, <4>3, <5>1
      <4> QED
        BY <4>1, <4>2, <4>3
    <3>2. Eqn(W)
      BY <3>1
    <3> QED
      BY <3>2
  <2>2. ASSUME NEW g, Eqn(g), NEW p0 \in Nat, V(p0), g[p0] # q PROVE FALSE
    <3> DEFINE T == {x \in Cells : V(x) /\ g[x] # q}
    <3>1. T \in SUBSET Cells /\ T # {}
      BY <1>2, <2>2
    <3>2. PICK p \in T : \A x \in T : x <= p
      BY <3>1, GreatestAddress
    <3>3. p \in Nat /\ V(p) /\ g[p] # q
      BY <3>2, SizeAssumption DEF Cells
    <3>4. g[p] = IF g[NextBlock(f, p)] = NoBlock THEN p ELSE g[NextBlock(f, p)]
      BY <2>2, <3>3
    <3>5. NextBlock(f, p) \in Nat /\ NextBlock(f, p) > p
      BY <1>2, <3>3
    <3>6. CASE V(NextBlock(f, p))
      <4>1. NextBlock(f, p) \in Cells
        BY <1>2, <3>5, <3>6
      <4>2. g[NextBlock(f, p)] = q
        BY <3>2, <3>3, <3>5, <3>6, <4>1
      <4> QED
        BY <2>0, <3>3, <3>4, <4>2
    <3>7. CASE ~ V(NextBlock(f, p))
      <4>1. g[NextBlock(f, p)] = NoBlock
        BY <2>2, <3>5, <3>7
      <4>2. p = q
        BY <1>2, <1>3, <3>3, <3>7, LastUnique
      <4> QED
        BY <3>3, <3>4, <4>1, <4>2
    <3> QED
      BY <3>6, <3>7
  <2>3. V(0)
    <3>1. Cursor(f, 0)
      BY CursorAtStart
    <3> QED
      BY <2>0, <3>1, NothingSkipped
  <2> QED
    BY <2>1, <2>2, <2>3
<1>4. ASSUME NEW q, IsLast(f, q) PROVE LastBlock(f) = q
  <2>1. Eqn(G)
    BY <1>3, <1>4
  <2> HIDE DEF G, Eqn, V
  <2> QED
    BY <1>1, <1>3, <1>4, <2>1
<1>5. ASSUME \A p \in Cells : ~ V(p) PROVE LastBlock(f) = NoBlock
  <2>1. \A p \in Nat : ~ V(p)
    BY <1>2, <1>5
  <2>2. Eqn([p \in Nat |-> NoBlock])
    BY <2>1
  <2>3. Eqn(G)
    BY <2>2
  <2> HIDE DEF G
  <2> QED
    BY <1>1, <2>1, <2>3
<1> QED
  BY <1>4, <1>5

\* What the next config_load finds: nothing in a sector without blocks, the tree of the last
\* block otherwise.
LEMMA StoredIs ==
  ASSUME NEW f, Chained(f)
  PROVE  /\ (\A p \in Cells : ~ config_block_is_valid(f, p)) => StoredTree(f) = NoTree
         /\ \A q, t : IsLast(f, q) /\ t \in Trees /\ Reading(f, q) = Stored(t)
                        => StoredTree(f) = t
<1>1. ASSUME \A p \in Cells : ~ config_block_is_valid(f, p) PROVE StoredTree(f) = NoTree
  BY <1>1, LastBlockIs DEF StoredTree
<1>2. ASSUME NEW q, NEW t \in Trees, IsLast(f, q), Reading(f, q) = Stored(t)
      PROVE  StoredTree(f) = t
  <2>1. LastBlock(f) = q /\ q # NoBlock
    BY <1>2, LastBlockIs, SizeAssumption DEF IsLast, Cells, NoBlock
  <2>2. \A u \in Trees : Reading(f, q) = Stored(u) => u = t
    BY <1>2, StoredInjective
  <2> QED
    BY <1>2, <2>1, <2>2 DEF StoredTree
<1> QED
  BY <1>1, <1>2

\* Programming that neither adds nor changes a block leaves the stored tree.
LEMMA StoredSame ==
  ASSUME NEW f, NEW g, Chained(f), Chained(g), Extends(f, g),
         \A p \in Cells : config_block_is_valid(g, p) => config_block_is_valid(f, p)
  PROVE  StoredTree(g) = StoredTree(f)
<1>1. CASE \A p \in Cells : ~ config_block_is_valid(f, p)
  <2>1. \A p \in Cells : ~ config_block_is_valid(g, p)
    BY <1>1
  <2> QED
    BY <1>1, <2>1, StoredIs
<1>2. CASE \E p \in Cells : config_block_is_valid(f, p)
  <2>1. PICK q : IsLast(f, q)
    BY <1>2, LastExists
  <2>2. IsLast(g, q) /\ Reading(g, q) = Reading(f, q)
    BY <2>1 DEF IsLast, EndBefore, Extends
  <2>3. LastBlock(f) = q /\ LastBlock(g) = q
    BY <2>1, <2>2, LastBlockIs
  <2> QED
    BY <2>2, <2>3 DEF StoredTree
<1> QED
  BY <1>1, <1>2

\* An erased sector stores no tree.
LEMMA StoredErased == StoredTree(Erased) = NoTree
<1>1. ASSUME NEW p \in Cells, config_block_is_valid(Erased, p) PROVE FALSE
  <2>1. PICK n \in 0 .. SIZE : HasLength(Erased, p, n)
    BY <1>1 DEF config_block_is_valid
  <2> QED
    BY <2>1 DEF HasLength, Erased
<1> QED
  BY <1>1, ErasedOK, StoredIs

-----------------------------------------------------------------------------
(* Without power losses the code implements the abstract store.            *)

\* Behind the chain there is nothing but what the save under way has put there.
StoreClean ==
  /\ RestBehind(flash, ram) /\ (~ InSave(op, pc) => BlankBehind(flash))
  /\ Progress(flash, ram, pc, dst, index)
  /\ pc = "wipe" => op = "erase" /\ ~ locked
  /\ pc = "parse" => op # "save"

\* The inductive invariant of the refinement.
StoreInv == TypeOK /\ CallInv /\ StoreClean

\* The state of the store at boot: an empty sector, no call under way.
LEMMA StoreInit == Init => StoreInv
<1> SUFFICES ASSUME Init PROVE StoreInv
  OBVIOUS
<1>1. TypeOK
  BY TreesAssumption, BoundsAssumption DEF Init, TypeOK, Erased, PCs, Ops
<1>2. CallInv
  BY ErasedOK, TreesAssumption DEF Init, CallInv, CallOK, FlashOK, Writing
<1>3. StoreClean
  BY ErasedClean DEF Init, StoreClean, Progress
<1> QED
  BY <1>1, <1>2, <1>3 DEF StoreInv

\* A command, or reading the tree: nothing is being saved before, and the flash stays.
LEMMA StoreQuiet ==
  ASSUME StoreInv, TypeOK', flash' = flash, ~ InSave(op, pc),
         pc' \in {"idle", "findLast", "wipe"},
         op' = "save" /\ pc' = "findLast" => ~ locked',
         pc' = "wipe" => op' = "erase" /\ ~ locked'
  PROVE  StoreInv'
<1>1. CallInv'
  BY DEF StoreInv, CallInv, CallOK, FlashOK, Writing, TypeOK
<1>2. BlankBehind(flash)
  BY DEF StoreInv, StoreClean
<1>3. StoreClean'
  BY <1>2, BlankIsRest DEF StoreClean, Progress
<1> QED
  BY <1>1, <1>3 DEF StoreInv

\* What a step of a call does to the flash and to what is being saved.
LEMMA StoreCall ==
  ASSUME StoreInv, NoTree \notin Trees, Step, ~ Parse, TypeOK'
  PROVE  StoreInv' /\ [Store!Next]_(Store!sVars)
<1>1. /\ CallStep /\ CallInv /\ RestBehind(flash, ram) /\ Progress(flash, ram, pc, dst, index)
      /\ ram \in Trees /\ (~ InSave(op, pc) => BlankBehind(flash))
      /\ pc = "wipe" => op = "erase" /\ ~ locked
      /\ pc = "parse" => op # "save"
      /\ Chained(flash) /\ CallOK(op, pc, block, dst, index)
  BY DEF Step, CallStep, StoreInv, StoreClean, TypeOK, CallInv, FlashOK
<1>2. CallInv' /\ Chained(flash')
  <2>1. IsSector(flash') /\ FlashOK' /\ CallOK(op, pc, block, dst, index)'
    BY <1>1, CallKeeps
  <2> QED
    BY <2>1 DEF CallInv, TypeOK, FlashOK
<1>3. ram # NoTree
  BY <1>1
<1>4. ASSUME pc' # "wipe", pc' = "parse" => op' # "save",
             RestBehind(flash', ram'), ~ InSave(op', pc') => BlankBehind(flash'),
             Progress(flash', ram', pc', dst', index')
      PROVE  StoreInv'
  BY <1>2, <1>4 DEF StoreInv, StoreClean
<1>5. CASE pc \in Erasing
  <2>1. /\ flash' = Erased /\ ram' = ram
        /\ Progress(flash', ram', pc', dst', index')
        /\ pc' \in {"findFree", "data", "again", "idle"}
    BY <1>1, <1>5, OwnErase
  <2>2. BlankBehind(flash') /\ RestBehind(flash', ram')
    BY <2>1, ErasedClean
  <2>3. StoreInv'
    BY <1>4, <2>1, <2>2
  <2>4. StoredTree(flash') = NoTree
    BY <2>1, StoredErased
  <2>5. CASE pc = "wipe"
    <3>1. op = "erase" /\ op' = op
      BY <1>1, <2>5 DEF Step, ScanFault, FindLast, LastFound, EraseFirst, FindFree, FreeFound,
         Room, EraseFull, WriteData, WriteRefused, WriteFault, DataDone, Undo, SaveAgain,
         WriteCrcLen,
         WriteLen, WriteCrcData, ReadBack, Wipe
    <3>2. ~ Saving /\ ~ Saving'
      BY <3>1 DEF Saving
    <3>3. Store!Erase
      BY <2>4, <3>2 DEF Store!Erase
    <3> QED
      BY <2>3, <3>3 DEF Store!Next
  <2>6. CASE pc # "wipe"
    <3>1. pc \in {"eraseFirst", "eraseFull", "undo"}
      BY <1>5, <2>6 DEF Erasing
    <3>2. op = "save"
      BY <1>1, <3>1 DEF CallOK, Writing
    <3>3. op' = op /\ pc' \in {"findFree", "data", "again"}
      BY <3>1 DEF Step, ScanFault, FindLast, LastFound, EraseFirst, FindFree, FreeFound,
         Room, EraseFull, WriteData, WriteRefused, WriteFault, DataDone, Undo, SaveAgain,
         WriteCrcLen,
         WriteLen, WriteCrcData, ReadBack, Wipe, Parse, StartScan
    <3>4. Saving /\ Saving'
      BY <3>1, <3>2, <3>3 DEF Saving
    <3>5. Store!MakeRoom
      BY <1>3, <2>1, <2>4, <3>4 DEF Store!MakeRoom
    <3> QED
      BY <2>3, <3>5 DEF Store!Next
  <2> QED
    BY <2>5, <2>6
<1>6. CASE WriteData \/ WriteCrcLen \/ WriteLen
  <2>1. /\ ram' = ram /\ op' = "save" /\ pc' \in {"data", "len", "crcData"}
        /\ RestBehind(flash', ram) /\ Extends(flash, flash')
        /\ \A p \in Cells : config_block_is_valid(flash', p) => config_block_is_valid(flash, p)
        /\ Progress(flash', ram, pc', dst', index')
    BY <1>1, <1>6, OwnWord
  <2>2. StoreInv'
    <3>1. InSave(op', pc')
      BY <2>1 DEF InSave
    <3> QED
      BY <1>4, <2>1, <3>1
  <2>3. StoredTree(flash') = StoredTree(flash)
    BY <1>1, <1>2, <2>1, StoredSame
  <2>4. op = "save" /\ pc \in {"data", "crcLen", "len"}
    BY <1>6, <2>1 DEF WriteData, WriteCrcLen, WriteLen
  <2>5. Saving /\ Saving'
    BY <2>1, <2>4 DEF Saving
  <2>6. UNCHANGED Store!sVars
    BY <2>1, <2>3, <2>5 DEF Store!sVars
  <2> QED
    BY <2>2, <2>6
<1>7. CASE WriteCrcData
  <2>1. /\ ram' = ram /\ op' = "save" /\ pc' = "return"
        /\ BlankBehind(flash') /\ RestBehind(flash', ram) /\ LastHolds(flash', ram)
        /\ Extends(flash, flash')
    BY <1>1, <1>7, OwnCrc
  <2>2. StoreInv'
    <3>1. Progress(flash', ram', pc', dst', index')
      BY <2>1 DEF Progress
    <3> QED
      BY <1>4, <2>1, <3>1
  <2>3. op = "save" /\ pc = "crcData"
    BY <1>7, <2>1 DEF WriteCrcData
  <2>4. Saving /\ ~ Saving'
    BY <2>1, <2>3 DEF Saving
  <2>5. \E p \in Cells : config_block_is_valid(flash', p)
    BY <1>1, <1>7, OwnCrc
  <2>6. PICK q : IsLast(flash', q)
    BY <1>2, <2>5, LastExists
  <2>7. Reading(flash', q) = Stored(ram)
    BY <2>1, <2>6 DEF IsLast, LastHolds
  <2>8. StoredTree(flash') = ram
    BY <1>1, <1>2, <2>6, <2>7, StoredIs
  <2>9. Store!Commit
    BY <1>3, <2>4, <2>8 DEF Store!Commit
  <2> QED
    BY <2>2, <2>9 DEF Store!Next
<1>8. CASE pc \notin Erasing /\ ~ (WriteData \/ WriteCrcLen \/ WriteLen \/ WriteCrcData)
  <2>1. /\ flash' = flash
        /\ (InSave(op', pc') <=> InSave(op, pc))
        /\ Progress(flash', ram', pc', dst', index')
        /\ pc' \notin {"wipe", "return"}
        /\ pc \notin {"idle", "fault"}
    BY <1>1, <1>8, OwnRead
  <2>2. /\ pc # "wipe" /\ pc # "parse" /\ ram' = ram /\ op' \in {op, "check"}
        /\ op' # op => pc = "return"
        /\ pc = "return" => op' = "check"
        /\ pc' # "idle"
        /\ pc' = "parse" => op' # "save"
    BY <1>1, <1>8 DEF Step, ScanFault, FindLast, LastFound, EraseFirst, FindFree, FreeFound,
         Room, EraseFull, WriteRefused, WriteFault, DataDone, Undo, SaveAgain, ReadBack, Wipe,
         StartScan,
         Fault, CallOK, Writing, Erasing
  <2>3. StoreInv'
    BY <1>1, <1>4, <2>1, <2>2
  <2>4. Saving' <=> Saving
    BY <2>1, <2>2 DEF Saving
  <2>5. UNCHANGED Store!sVars
    BY <2>1, <2>2, <2>4 DEF Store!sVars
  <2> QED
    BY <2>3, <2>5
<1> QED
  BY <1>5, <1>6, <1>7, <1>8

\* Every step keeps the invariant and is a step of the store, or none.
LEMMA StoreStep ==
  ASSUME StoreInv, MaxCrash = 0, NoTree \notin Trees, [Next]_vars
  PROVE  StoreInv' /\ [Store!Next]_(Store!sVars)
<1>1. TypeOK'
  BY TypeStep DEF StoreInv
<1>2. ~ Crash
  BY DEF Crash, StoreInv, TypeOK
<1>3. CASE Step /\ ~ Parse
  BY <1>1, <1>3, StoreCall
<1>4. CASE Parse
  <2>1. /\ flash' = flash /\ op' = op /\ pc = "parse" /\ pc' = "idle" /\ op # "save"
    BY <1>4 DEF Parse, StoreInv, StoreClean
  <2>2. StoreInv'
    BY <1>1, <2>1, StoreQuiet DEF InSave
  <2>3. UNCHANGED Store!sVars
    BY <2>1 DEF Store!sVars, Saving
  <2> QED
    BY <2>2, <2>3
<1>5. CASE \E c \in Callers : config_save(c)
  <2>1. /\ flash' = flash /\ ram' = ram /\ op' = "save" /\ pc = "idle" /\ pc' = "findLast"
        /\ ~ locked'
    BY <1>5 DEF config_save, StartScan
  <2>2. StoreInv'
    BY <1>1, <2>1, StoreQuiet DEF InSave
  <2>3. ram \in Trees /\ ~ Saving /\ Saving'
    BY <2>1 DEF Saving, StoreInv, TypeOK
  <2>4. Store!Begin(ram)
    BY <2>1, <2>3 DEF Store!Begin
  <2> QED
    BY <2>2, <2>3, <2>4 DEF Store!Next
<1>6. CASE config_load \/ config_erase \/ (\E t \in Trees \ {Corrupt} : config_set(t))
  <2>1. /\ flash' = flash /\ pc = "idle"
        /\ \/ op' = op /\ pc' = "idle"
           \/ op' = "load" /\ pc' = "findLast"
           \/ op' = "erase" /\ pc' = "wipe" /\ ~ locked'
    BY <1>6 DEF config_load, config_erase, config_set, StartScan
  <2>2. StoreInv'
    BY <1>1, <2>1, StoreQuiet DEF InSave
  <2>3. UNCHANGED Store!sVars
    BY <2>1 DEF Store!sVars, Saving
  <2> QED
    BY <2>2, <2>3
<1>7. CASE UNCHANGED vars
  <2>1. UNCHANGED <<flash, locked, ram, op, pc, block, dst, index>>
    BY <1>7 DEF vars
  <2>2. StoreInv'
    BY <1>1, <2>1 DEF StoreInv, CallInv, StoreClean, CallOK, FlashOK
  <2>3. UNCHANGED Store!sVars
    BY <2>1 DEF Store!sVars, Saving
  <2> QED
    BY <2>2, <2>3
<1> QED
  BY <1>2, <1>3, <1>4, <1>5, <1>6, <1>7 DEF Next, Command

\* As long as power stays, config_flash_storage.c is a store of one tree, for every sector
\* size, every set of trees and whatever dst_len the callers pass: the sector holds what the
\* last save that came to its last header word wrote, or nothing after an erase or while a
\* save makes room, and no other step changes what the next config_load returns.
THEOREM ImplementsStore ==
  ASSUME MaxCrash = 0, NoTree \notin Trees
  PROVE  Spec => Store!Init /\ [][Store!Next]_(Store!sVars)
<1>1. Init => Store!Init
  BY StoredErased DEF Init, Store!Init, Saving
<1>2. StoreInv /\ [Next]_vars => StoreInv' /\ [Store!Next]_(Store!sVars)
  BY StoreStep
<1> QED
  BY <1>1, <1>2, StoreInit, PTL DEF Spec

=============================================================================
