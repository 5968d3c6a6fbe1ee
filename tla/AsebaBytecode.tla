---------------------------- MODULE AsebaBytecode -----------------------------
(***************************************************************************)
(* The program of the Aseba VM in flash (aseba_vm/aseba_node.c): it is     *)
(* saved byte by byte into an erased sector, behind its size in two bytes, *)
(* and copied back at boot.  Power can fail at any point, and the shell,   *)
(* which has a higher priority than the VM thread, can save or erase the   *)
(* settings at any point.                                                  *)
(***************************************************************************)
EXTENDS FlashSector

CONSTANTS
  Programs,            \* what a debugger can load
  VM_BYTECODE_SIZE     \* opcodes of the VM's memory, two bytes each

Blank == "blank"       \* an erased byte of flash, or memory never loaded
Mixed == "mixed"       \* bits of two programs

ASSUME BytecodeAssumption ==
  VM_BYTECODE_SIZE \in Nat \ {0} /\ Blank \notin Programs /\ Mixed \notin Programs

VARIABLES
  page,      \* where the linker script puts the sector of the bytecode
  sector,    \* the sector that was erased last, -1 if none
  memory,    \* vmState.bytecode: the program each byte comes from
  sizeBytes, \* the size in flash, its low and high byte: written or not
  data,      \* the bytes after it in flash: the program each comes from
  step,      \* "idle", "erase", "size", "data": AsebaWriteBytecode; "off", "overrun"
  next,      \* the byte flash_write is at
  unlocked,  \* FLASH_CR_LOCK is clear
  saved      \* history: memory at the last save, <<>> if it was cut, overtaken, or there was none

bytecodevars == <<page, sector, memory, sizeBytes, data, step, next, unlocked, saved>>

Bytes == 0..(2 * VM_BYTECODE_SIZE - 1)       \* of the VM's memory

\* Programming a byte of flash only clears bits.
Program(old, new) == IF old = Blank THEN new ELSE IF new \in {Blank, old} THEN old ELSE Mixed

-----------------------------------------------------------------------------
(* The debugger loads a program into memory, then asks to save it.          *)

SetBytecode(p) ==
  /\ step = "idle"
  /\ memory' = [b \in Bytes |-> p]
  /\ UNCHANGED <<page, sector, sizeBytes, data, step, next, unlocked, saved>>

AsebaWriteBytecode ==
  /\ step = "idle" /\ step' = "erase" /\ unlocked' = TRUE /\ saved' = <<>>
  /\ UNCHANGED <<page, sector, memory, sizeBytes, data, next>>

\* Mutant: the sector is not erased; programming bits that are already 0 changes nothing.
MutErase ==
  /\ step = "erase" /\ step' = "size" /\ next' = 0
  /\ UNCHANGED <<page, sector, memory, sizeBytes, data, unlocked, saved>>

\* With FLASH_CR_LOCK set neither erasing nor programming works.
Erase ==
  /\ step = "erase" /\ step' = "size" /\ next' = 0
  /\ \/ /\ unlocked
        /\ sizeBytes' = [b \in 0..1 |-> FALSE] /\ data' = [b \in DOMAIN data |-> Blank]
        /\ sector' = flash_addr_to_sector(page)
     \/ ~ unlocked /\ UNCHANGED <<sizeBytes, data, sector>>
  /\ UNCHANGED <<page, memory, unlocked, saved>>

WriteSize ==
  /\ step = "size"
  /\ sizeBytes' = IF unlocked THEN [sizeBytes EXCEPT ![next] = TRUE] ELSE sizeBytes
  /\ step' = IF next = 1 THEN "data" ELSE "size"
  /\ next' = IF next = 1 THEN 0 ELSE 1
  /\ UNCHANGED <<page, sector, memory, data, unlocked, saved>>

\* The second flash_write takes bytecodeSize, a number of opcodes, as a number of bytes.
WriteBytecode ==
  /\ step = "data" /\ next < VM_BYTECODE_SIZE
  /\ data' = IF unlocked THEN [data EXCEPT ![next] = Program(@, memory[next])] ELSE data
  /\ next' = next + 1
  /\ UNCHANGED <<page, sector, memory, sizeBytes, step, unlocked, saved>>

\* The flash is only still unlocked if no command of the shell came in between.
SaveDone ==
  /\ step = "data" /\ next = VM_BYTECODE_SIZE
  /\ step' = "idle" /\ next' = 0 /\ unlocked' = FALSE
  /\ saved' = IF unlocked THEN memory ELSE <<>>
  /\ UNCHANGED <<page, sector, memory, sizeBytes, data>>

\* config_save or config_erase in the shell: it unlocks the flash, works on another
\* sector, and locks the flash, before the VM thread goes on.
ShellCommand ==
  /\ step \notin {"off", "overrun"}
  /\ unlocked' = FALSE
  /\ UNCHANGED <<page, sector, memory, sizeBytes, data, step, next, saved>>

-----------------------------------------------------------------------------
(* Power.                                                                   *)

\* A sector erase that is cut short leaves any part of the sector erased.
PowerLoss ==
  /\ step # "off" /\ step' = "off" /\ next' = 0 /\ unlocked' = FALSE
  /\ memory' = [b \in Bytes |-> Blank]
  /\ \E s \in SUBSET DOMAIN sizeBytes, d \in SUBSET DOMAIN data :
       /\ ~ (step = "erase" /\ unlocked) => s = {} /\ d = {}
       /\ sizeBytes' = [b \in DOMAIN sizeBytes |-> b \notin s /\ sizeBytes[b]]
       /\ data' = [b \in DOMAIN data |-> IF b \in d THEN Blank ELSE data[b]]
  /\ UNCHANGED <<page, sector, saved>>

Copy(n) == memory' = [b \in Bytes |-> IF b < n THEN data[b] ELSE memory[b]]

\* Mutant: an opcode less is copied.
MutBoot ==
  /\ step = "off" /\ step' = "idle"
  /\ IF sizeBytes[0] /\ sizeBytes[1] THEN Copy(VM_BYTECODE_SIZE - 1) ELSE UNCHANGED memory
  /\ UNCHANGED <<page, sector, sizeBytes, data, next, unlocked, saved>>

\* Both bytes blank is 0xffff, "the bytecode page was erased".  With one blank byte the
\* size is larger than the one saved: more is copied, up to past the end of the memory,
\* where a blank high byte always leads.
aseba_vm_init ==
  /\ step = "off"
  /\ \/ ~ sizeBytes[0] /\ ~ sizeBytes[1] /\ step' = "idle" /\ UNCHANGED memory
     \/ sizeBytes[0] /\ sizeBytes[1] /\ step' = "idle" /\ Copy(VM_BYTECODE_SIZE)
     \/ /\ ~ sizeBytes[0] /\ sizeBytes[1] /\ step' = "idle"
        /\ \E n \in VM_BYTECODE_SIZE .. 2 * VM_BYTECODE_SIZE : Copy(n)
     \/ sizeBytes[0] # sizeBytes[1] /\ step' = "overrun" /\ Copy(2 * VM_BYTECODE_SIZE)
  /\ UNCHANGED <<page, sector, sizeBytes, data, next, unlocked, saved>>

BytecodeInit ==
  /\ page \in Pages /\ sector = -1
  /\ memory = [b \in Bytes |-> Blank]
  /\ sizeBytes = [b \in 0..1 |-> FALSE] /\ data = [b \in Bytes |-> Blank]
  /\ step = "off" /\ next = 0 /\ unlocked = FALSE /\ saved = <<>>

BytecodeNext ==
  \/ \E p \in Programs : SetBytecode(p)
  \/ AsebaWriteBytecode \/ Erase \/ WriteSize \/ WriteBytecode \/ SaveDone
  \/ ShellCommand \/ PowerLoss \/ aseba_vm_init

BytecodeSpec == BytecodeInit /\ [][BytecodeNext]_bytecodevars

-----------------------------------------------------------------------------

\* Wherever the bytecode is: flash_sector_erase erases the sector that holds the address
\* it is given, at every change of the sector size too, and never the firmware or the
\* settings next to it.
ErasesItsSector == sector # -1 => InSector(page, sector)

\* Wherever saves were cut, by a power loss or by a command of the shell that leaves the
\* flash locked, and how often: flash never holds a mixture of two programs for the VM to
\* boot.
NeverMixed == \A a, b \in Bytes : data[a] # Blank /\ data[b] # Blank => data[a] = data[b] /\ data[a] # Mixed

\* After a save that neither a power loss cut nor a command of the shell voided, every
\* boot restores the saved opcodes, as far as they are stored at all; commands of the
\* shell after it do no harm.
BootRestores ==
  [][step = "off" /\ step' # "off" /\ saved # <<>> =>
       step' = "idle" /\ \A b \in 0..(VM_BYTECODE_SIZE - 1) : memory'[b] = saved[b]]_bytecodevars
===============================================================================
