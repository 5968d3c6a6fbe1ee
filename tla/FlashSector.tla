----------------------------- MODULE FlashSector ------------------------------
(***************************************************************************)
(* Which sector flash_sector_erase erases (flash/flash.c).  The settings   *)
(* and the bytecode each have a sector of their own next to the firmware:  *)
(* a wrong number erases the program that runs.                            *)
(*                                                                         *)
(* An address is abstracted to its page of 4 kB: all sectors start and end *)
(* at a page, and the code only compares and divides by multiples of it.   *)
(***************************************************************************)
EXTENDS Integers

CONSTANT Pages    \* pages that are looked at

Base == 32768          \* 0x08000000
Bank == 256            \* 1 MB

\* The STM32F407 has one bank.
ASSUME PagesAssumption == Pages \subseteq Base .. Base + Bank - 1

\* Mutant: the first 128 kB sector counted like the 64 kB one.
MutSector(a) ==
  LET offset == a % 4096
  IN IF offset < 16 THEN offset \div 4
     ELSE IF offset < 32 THEN 3 + offset \div 16
     ELSE 3 + offset \div 32

flash_addr_to_sector(a) ==
  LET offset == a % 4096                                \* 0xFFFFFF
      sector == IF offset < 16 THEN offset \div 4              \* 16 kB sectors
                ELSE IF offset < 32 THEN 3 + offset \div 16    \* 64 kB
                ELSE 4 + offset \div 32                        \* 128 kB
  IN (IF a >= Base + Bank THEN sector + 12 ELSE sector) % 256

-----------------------------------------------------------------------------
\* The layout of a bank: four sectors of 16 kB, one of 64 kB, seven of 128 kB.
Start(n) == IF n <= 4 THEN 4 * n ELSE 32 * (n - 4)
InSector(a, n) == n \in 0..11 /\ a - Base \in Start(n) .. Start(n + 1) - 1
===============================================================================
