---------------------------- MODULE ConfigPreempt -----------------------------
(***************************************************************************)
(* Two callers of config_flash_storage.c without a lock between them.  The *)
(* Aseba VM thread has priority LOWPRIO (aseba_node.c), the shell          *)
(* NORMALPRIO (cmd.c), and nothing in config_save, config_load or          *)
(* config_erase blocks: a command that reaches the shell suspends Aseba's  *)
(* call between any two of its steps and runs to its end.  The flash, its  *)
(* lock and the parameter tree are shared; the locals of the suspended     *)
(* call are kept in a frame.                                               *)
(***************************************************************************)
EXTENDS ConfigFlash

VARIABLES
  running,    \* whose call the variables of ConfigFlash are
  frame,      \* the suspended call of Aseba, or NoFrame
  overtaken,  \* history: the shell saved or erased since Aseba's call unlocked
  changed     \* history: the tree or the chain was replaced under a suspended call

shared == <<flash, locked, ram>>
locals == <<op, caller, pc, block, last, blocks, dst, size, index, result>>
pvars == <<vars, running, frame, overtaken, changed>>

NoFrame == <<>>

-----------------------------------------------------------------------------
(* Steps that only a suspended call can come to.                           *)

\* The tree became shorter while it was being written: nothing is left of it.
TreeShrank ==
  /\ pc = "data" /\ index > Len(Enc[ram])
  /\ pc' = "crcLen"
  /\ UNCHANGED <<flash, locked, ram, op, caller, block, last, blocks, dst, size, index, result, crashes>>

\* The block that was found is gone: erased flash is refused, the middle of another
\* block may be taken for a tree.
Gone == last # NoBlock /\ \A n \in 0 .. SIZE : ~ HasLength(flash, last, n)

ParseGone ==
  /\ pc = "parse" /\ Gone
  /\ pc' = "idle"
  /\ IF last + HEADER \in Cells /\ flash[last + HEADER] = {}
     THEN result' = "failed" /\ UNCHANGED ram
     ELSE result' \in {"ok", "failed"} /\ ram' \in {ram, Corrupt}
  /\ UNCHANGED <<flash, locked, op, caller, block, last, blocks, dst, size, index, crashes>>

CallStep ==
  \/ ScanFault \/ FindLast \/ LastFound \/ EraseFirst \/ FindFree \/ FreeFound
  \/ Room \/ EraseFull \/ WriteData \/ WriteRefused \/ WriteFault \/ DataDone
  \/ Undo \/ SaveAgain
  \/ WriteCrcLen \/ WriteLen \/ WriteCrcData \/ ReadBack \/ Wipe
  \/ ~ Gone /\ Parse
  \/ ParseGone \/ TreeShrank

-----------------------------------------------------------------------------
(* Threads.                                                                *)

\* While a call of Aseba is suspended, the tree is changed or the sector is erased.  An erase
\* without a suspended call makes up for it.
Changed ==
  LET erased == flash' # flash /\ flash' = Erased
  IN changed' = IF frame = NoFrame THEN changed /\ ~ erased
                ELSE changed \/ erased \/ ram' # ram

\* _system.settings.flash and _system.settings.erase.
AsebaCall ==
  /\ pc = "idle" /\ frame = NoFrame
  /\ config_save("aseba") \/ config_erase
  /\ running' = "aseba" /\ overtaken' = FALSE
  /\ Changed /\ UNCHANGED frame

ShellCall ==
  /\ pc = "idle"
  /\ \/ config_save("shell") /\ overtaken' = (frame # NoFrame)
     \/ config_erase /\ overtaken' = (frame # NoFrame)
     \/ config_load /\ UNCHANGED overtaken
     \/ \E t \in Trees \ {Corrupt} : config_set(t) /\ UNCHANGED overtaken
  /\ running' = "shell"
  /\ Changed /\ UNCHANGED frame

RunStep ==
  /\ CallStep
  /\ overtaken' = (overtaken /\ ~(running = "aseba" /\ pc = "again"))
  /\ Changed /\ UNCHANGED <<running, frame>>

\* A command arrives.
Preempt ==
  /\ running = "aseba" /\ frame = NoFrame /\ pc \notin {"idle", "fault"}
  /\ frame' = locals /\ pc' = "idle"
  /\ UNCHANGED <<shared, op, caller, block, last, blocks, dst, size, index, result,
                 crashes, running, overtaken, changed>>

\* The shell waits for the next command.
Resume ==
  /\ frame # NoFrame /\ running = "shell" /\ pc = "idle"
  /\ op' = frame[1] /\ caller' = frame[2] /\ pc' = frame[3] /\ block' = frame[4]
  /\ last' = frame[5] /\ blocks' = frame[6] /\ dst' = frame[7] /\ size' = frame[8]
  /\ index' = frame[9] /\ result' = frame[10]
  /\ frame' = NoFrame /\ running' = "aseba"
  /\ UNCHANGED <<shared, crashes, overtaken, changed>>

PreemptInit ==
  /\ Init /\ running = "shell" /\ frame = NoFrame
  /\ overtaken = FALSE /\ changed = FALSE

PreemptNext == AsebaCall \/ ShellCall \/ RunStep \/ Preempt \/ Resume

PreemptSpec == PreemptInit /\ [][PreemptNext]_pvars

-----------------------------------------------------------------------------
\* A step leaves every valid block valid, with the same data.
BlocksKept ==
  flash' # flash =>
    \A p \in Cells : config_block_is_valid(flash, p) =>
      /\ config_block_is_valid(flash', p)
      /\ Reading(flash', p) = Reading(flash, p)

\* A call of Aseba that the shell overtook holds a destination, and a decision to erase
\* or not, that are out of date.  It destroys nothing with them: the lock that the
\* shell's call left behind makes its writes and its erase void, until it unlocks the
\* flash again and with that scans it again.  Programming never harms a block.
SavedBlocksKept ==
  [][(pc \notin Erasing \/ (running = "aseba" /\ overtaken)) => BlocksKept]_pvars

\* "OK." after config_save is true also for a save that overtakes or is overtaken by
\* another, as long as the shell neither changes the parameters nor erases the sector
\* while Aseba's call is suspended: both callers write the same words to the same place,
\* and a block that was found stays where it is.
ReadBackUnlessChanged ==
  [][op = "check" /\ pc = "parse" /\ pc' = "idle" /\ frame' = frame /\ ~ changed /\ result' = "ok"
       => ram' = ram]_pvars
===============================================================================
