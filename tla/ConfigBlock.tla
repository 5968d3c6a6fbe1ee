----------------------------- MODULE ConfigBlock -----------------------------
(***************************************************************************)
(* The on-flash layout of the saved settings (config_flash_storage.c) and  *)
(* the NOR flash that holds it (flash/flash.c), as operators on the        *)
(* contents f of the config sector.                                        *)
(*                                                                         *)
(* The sector is an array of words.  NOR flash is erased to all ones and   *)
(* programming can only clear bits, so programming a word that is already  *)
(* programmed leaves the bitwise AND of both values.  A cell is therefore  *)
(* the SET of the values programmed into it since the last erase: {} reads *)
(* as erased (0xffffffff), {w} reads as w, and a larger set reads as the   *)
(* AND of its members, a value different from all of them.                 *)
(*                                                                         *)
(* Checksums are symbolic: two CRCs are equal iff what they cover is equal *)
(* (no CRC collision), and CRC_INITIAL_VALUE makes sure that no CRC reads  *)
(* as erased flash.  The unit of length is the word, so that the header is *)
(* 3 words: CRC of the length, length, CRC of the data.                    *)
(***************************************************************************)
EXTENDS Integers, Sequences

CONSTANT SIZE                       \* words in the config sector

ASSUME SizeAssumption == SIZE \in Nat

HEADER == 3                         \* CONFIG_HEADER_SIZE
PREFIX == 2                         \* what is read of a header before its length is trusted
Cells == 0 .. SIZE - 1
NoBlock == -1                       \* the NULL of find_last_used

DataWord(w) == <<"data", w>>
LenWord(n) == <<"len", n>>
LenCrc(n) == <<"lcrc", n>>          \* crc32(CRC_INITIAL_VALUE, &len, 4)
DataCrc(cells) == <<"dcrc", cells>> \* crc32(CRC_INITIAL_VALUE, data, len)

Erased == [a \in Cells |-> {}]

\* Programming word w at a: bits only go from 1 to 0.
Programmed(f, a, w) == [f EXCEPT ![a] = @ \cup {w}]

\* The n data words of the block at p, as they read.
DataAt(f, p, n) == [i \in 1 .. n |-> f[p + HEADER + i - 1]]

\* The length word at p is n and its checksum matches.
HasLength(f, p, n) == f[p] = {LenCrc(n)} /\ f[p + 1] = {LenWord(n)}

\* Checking the block at p reads outside the sector, which is the last one
\* of the chip: the access faults.  The checksum of the data and the data are
\* read only if the length is intact.
Overruns(f, p) ==
  \/ p + PREFIX > SIZE
  \/ /\ p + PREFIX <= SIZE
     /\ \E n \in 0 .. SIZE : HasLength(f, p, n) /\ p + HEADER + n > SIZE

\* Mutant: the data checksum is not checked.
MutIsValid(f, p) == ~ Overruns(f, p) /\ \E n \in 0 .. SIZE : HasLength(f, p, n)

config_block_is_valid(f, p) ==
  /\ ~ Overruns(f, p)
  /\ \E n \in 0 .. SIZE : /\ HasLength(f, p, n)
                          /\ f[p + 2] = {DataCrc(DataAt(f, p, n))}

config_block_get_length(f, p) == CHOOSE n \in 0 .. SIZE : HasLength(f, p, n)

\* Mutant: the header is not counted.
MutNextBlock(f, p) == p + config_block_get_length(f, p)

\* Where the block after the valid block at p starts.
NextBlock(f, p) == p + config_block_get_length(f, p) + HEADER
==============================================================================
