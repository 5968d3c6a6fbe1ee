----------------------------- MODULE MCFlashSharing -----------------------------
(***************************************************************************)
(* The two flash sectors that the firmware writes, in one run: the         *)
(* bytecode (two programs in a memory of three opcodes, at the first and   *)
(* last page of every sector), and the settings with two callers (two      *)
(* trees of the same length that differ in two words, so that a torn tree  *)
(* is neither, and a longer one).  A behaviour is one of the two with all  *)
(* of its steps.  All they share is the lock of the flash: the thread that *)
(* saves bytecode is the one that calls the settings for Aseba, and what   *)
(* the shell does to its lock is ShellCommand.                             *)
(***************************************************************************)
EXTENDS AsebaBytecode, ConfigPreempt

Edges == {Base + Start(n) : n \in 0..11} \cup {Base + Start(n) - 1 : n \in 1..12}

AllTrees == {"a", "b", "long", "bad"}
Words == [t \in AllTrees |->
            CASE t = "a"    -> <<"x", "x">>
              [] t = "b"    -> <<"y", "y">>
              [] t = "long" -> <<"x", "z", "z">>
              [] t = "bad"  -> <<"w", "w">>]
PartForAseba == [c \in Callers |-> IF c = "aseba" THEN 7 ELSE SIZE]

VARIABLE part

\* A part that does not run starts in one state, whatever it could start in.
FlashInit ==
  /\ part \in {"bytecode", "config"}
  /\ BytecodeInit /\ PreemptInit
  /\ part # "bytecode" => page = Base

FlashNext ==
  \/ part = "bytecode" /\ BytecodeNext /\ UNCHANGED <<part, pvars>>
  \/ part = "config" /\ PreemptNext /\ UNCHANGED <<part, bytecodevars>>

FlashSpec == FlashInit /\ [][FlashNext]_<<part, bytecodevars, pvars>>
================================================================================
