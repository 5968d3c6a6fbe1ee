------------------------------ MODULE AudioDac -------------------------------
(***************************************************************************)
(* The audio driver (audio/audio_dac.c) fed from a WAV file                *)
(* (audio/audio_wav.c): a thread fills the halves of a circular buffer     *)
(* that the DMA converts, interrupts tell it which half is free.           *)
(*                                                                         *)
(* The file is a sequence of pieces, each as long as half the buffer; the  *)
(* last may be shorter, or a single sample.  A conversion of the last      *)
(* piece alone has a half and an end interrupt like any other.             *)
(***************************************************************************)
EXTENDS Integers, Sequences

CONSTANTS
  FileSizes,   \* sizes, in pieces, a file may have
  MaxPlays     \* bound: number of files played

ConstantsOK == FileSizes \subseteq Nat /\ MaxPlays \in Nat

VARIABLES
  pc,      \* where audio_dac_convert is
  sem,     \* dac_signal
  cb,      \* dac_conversion.end_cb
  wp,      \* dac_write_pos: which half
  buf,     \* half the thread fills
  halves,  \* piece in each half of the buffer
  got,     \* what the last read of half a buffer delivered: a piece or nothing
  dma,     \* what is converted: "off", a half, or the last pieces on their own
  file,    \* size of the file and shape of its end
  next,    \* next piece to read (data_pos)
  heard,   \* history: pieces converted completely; kept up to one more than the file has
  failed,  \* history: a read of the file failed
  late,    \* history: an interrupt came before the thread was waiting for it
  plays    \* files played

vars == <<pc, sem, cb, wp, buf, halves, got, dma, file, next, heard, failed, late, plays>>

Off == [run |-> "off"]
HalfOf(h) == [run |-> "loop", half |-> h]
Alone(pieces) == [run |-> "tail", stage |-> 1, pieces |-> pieces]

Files == [size : FileSizes, tiny : BOOLEAN]     \* tiny: the last piece is one sample

-----------------------------------------------------------------------------
(* wav_read_cb: reads up to n pieces.  It returns true (last) at the end of *)
(* the file and on an error, which delivers nothing.                        *)

Left == file.size - next + 1
Got(n) == IF n < Left THEN n ELSE Left
Last(n) == n >= Left

\* dac_last_conversion and dac_single_conversion round the number of samples down
\* to an even number, so a single sample is dropped.
EvenPieces(s) == IF file.tiny /\ s # <<>> /\ s[Len(s)] = file.size
                 THEN SubSeq(s, 1, Len(s) - 1) ELSE s

\* The first call of audio_dac_convert's callback fills the whole buffer.
FirstPieces == [i \in 1 .. Got(2) |-> next + i - 1]

-----------------------------------------------------------------------------
(* audio_dac_convert.                                                       *)

\* A file is opened; its header is valid.
Open(f) ==
  /\ pc = "idle" /\ plays < MaxPlays
  /\ plays' = plays + 1 /\ file' = f /\ next' = 1 /\ heard' = <<>> /\ failed' = FALSE /\ late' = FALSE
  /\ pc' = "first"
  /\ UNCHANGED <<sem, cb, wp, buf, halves, got, dma>>

\* The whole file fits in the buffer: one conversion, unless it is empty.
Single ==
  /\ pc = "first" /\ Last(2)
  /\ next' = next + Got(2)
  /\ LET pieces == EvenPieces(FirstPieces)
     IN IF pieces = <<>>
        THEN pc' = "stop" /\ UNCHANGED <<cb, sem, dma>>
        ELSE /\ cb' = "single" /\ sem' = FALSE /\ dma' = Alone(pieces)
             /\ pc' = "waitDone"
  /\ UNCHANGED <<wp, buf, halves, got, file, heard, failed, late, plays>>

Continuous ==
  /\ pc = "first" /\ ~ Last(2)
  /\ next' = next + 2
  /\ halves' = [h \in 0 .. 1 |-> next + h]
  /\ cb' = "continuous" /\ sem' = FALSE /\ dma' = HalfOf(0)
  /\ pc' = "wait"
  /\ UNCHANGED <<wp, buf, got, file, heard, failed, late, plays>>

\* The first read fails: nothing is converted.
FirstFails ==
  /\ pc = "first" /\ failed' = TRUE /\ pc' = "stop"
  /\ UNCHANGED <<sem, cb, wp, buf, halves, got, dma, file, next, heard, late, plays>>

\* dac_next_write_pos: chBSemWait, then dac_write_pos is read without a lock.
Wake ==
  /\ pc = "wait" /\ sem
  /\ sem' = FALSE /\ pc' = "readPos"
  /\ UNCHANGED <<cb, wp, buf, halves, got, dma, file, next, heard, failed, late, plays>>

ReadPos ==
  /\ pc = "readPos"
  /\ buf' = wp /\ pc' = "fill"
  /\ UNCHANGED <<sem, cb, wp, halves, got, dma, file, next, heard, failed, late, plays>>

Fill ==
  /\ pc = "fill"
  /\ halves' = [halves EXCEPT ![buf] = next]
  /\ next' = next + 1
  /\ got' = <<next>>
  /\ pc' = IF Last(1) THEN "last" ELSE "wait"
  /\ UNCHANGED <<sem, cb, wp, buf, dma, file, heard, failed, late, plays>>

\* A read error ends the sound.
FillFails ==
  /\ pc = "fill" /\ failed' = TRUE /\ got' = <<>> /\ pc' = "last"
  /\ UNCHANGED <<sem, cb, wp, buf, halves, dma, file, next, heard, late, plays>>

\* Mutant: dac_write_pos is left to the interrupt.
MutLastConversion ==
  /\ pc = "last"
  /\ cb' = (IF EvenPieces(got) # <<>> THEN "last" ELSE "stop")
  /\ pc' = "waitDone"
  /\ UNCHANGED <<sem, wp, buf, halves, got, dma, file, next, heard, failed, late, plays>>

\* dac_last_conversion up to its wait, in one critical section.
LastConversion ==
  /\ pc = "last"
  /\ IF EvenPieces(got) # <<>> THEN wp' = buf /\ cb' = "last" ELSE cb' = "stop" /\ UNCHANGED wp
  /\ pc' = "waitDone"
  /\ UNCHANGED <<sem, buf, halves, got, dma, file, next, heard, failed, late, plays>>

\* chBSemWaitS of dac_last_conversion, chBSemWait of dac_single_conversion.
Done ==
  /\ pc = "waitDone" /\ sem
  /\ sem' = FALSE /\ pc' = "stop"
  /\ UNCHANGED <<cb, wp, buf, halves, got, dma, file, next, heard, failed, late, plays>>

\* dacStop, and the file is closed.  dacStop must not be called while the DAC converts:
\* a thread that a left-over signal brought here early runs into the assertion of the
\* driver (CH_DBG_ENABLE_ASSERTS, chconf.h), which halts the robot.
Stop ==
  /\ pc = "stop"
  /\ pc' = IF dma.run = "off" THEN "idle" ELSE "halted"
  /\ dma' = Off         \* nothing is to be modelled of a halted robot
  /\ UNCHANGED <<sem, cb, wp, buf, halves, got, file, next, heard, failed, late, plays>>

-----------------------------------------------------------------------------
(* The DMA interrupts: one at the end of each half of what is converted.    *)

\* What has been converted when the interrupt comes, and where the DMA goes on.
Converted ==
  IF dma.run = "loop" THEN <<halves[dma.half]>>
  ELSE IF dma.stage = 2 THEN dma.pieces ELSE <<>>
Onward ==
  IF dma.run = "loop" THEN HalfOf(1 - dma.half) ELSE [dma EXCEPT !.stage = 3 - @]

\* The thread keeps up if it waits for the semaphore when an interrupt comes.
KeepsUp == pc \in {"wait", "waitDone"} /\ ~ sem

Irq(handler) ==
  /\ dma.run # "off" /\ cb = handler
  /\ late' = (late \/ ~ KeepsUp)
  /\ heard' = IF Len(heard) > file.size THEN heard ELSE heard \o Converted

\* Mutant: the half that starts is announced instead of the one that ended.
MutContinuous ==
  /\ Irq("continuous")
  /\ wp' = 1 - dma.half /\ sem' = TRUE /\ dma' = Onward
  /\ UNCHANGED <<pc, cb, buf, halves, got, file, next, failed, plays>>

continuous_cb ==
  /\ Irq("continuous")
  /\ wp' = dma.half /\ sem' = TRUE /\ dma' = Onward
  /\ UNCHANGED <<pc, cb, buf, halves, got, file, next, failed, plays>>

\* Mutant: end_cb is not replaced.
MutLastCb ==
  /\ Irq("last")
  /\ dma' = Alone(<<halves[wp]>>)
  /\ UNCHANGED <<pc, sem, cb, wp, buf, halves, got, file, next, failed, plays>>

last_cb ==
  /\ Irq("last")
  /\ cb' = "single" /\ dma' = Alone(<<halves[wp]>>)
  /\ UNCHANGED <<pc, sem, wp, buf, halves, got, file, next, failed, plays>>

single_cb ==
  /\ Irq("single")
  /\ cb' = "stop" /\ dma' = Onward
  /\ UNCHANGED <<pc, sem, wp, buf, halves, got, file, next, failed, plays>>

stop_cb ==
  /\ Irq("stop")
  /\ dma' = Off /\ sem' = TRUE
  /\ UNCHANGED <<pc, cb, wp, buf, halves, got, file, next, failed, plays>>

-----------------------------------------------------------------------------

Init ==
  /\ pc = "idle" /\ sem = FALSE /\ cb = "none" /\ wp = 0 /\ buf = 0
  /\ halves = [h \in 0 .. 1 |-> 0] /\ got = <<>> /\ dma = Off
  /\ file = [size |-> 0, tiny |-> FALSE] /\ next = 1
  /\ heard = <<>> /\ failed = FALSE /\ late = FALSE /\ plays = 0

Thread ==
  \/ Single \/ Continuous \/ FirstFails
  \/ Wake \/ ReadPos \/ Fill \/ FillFails \/ LastConversion \/ Done \/ Stop
Interrupt == continuous_cb \/ last_cb \/ single_cb \/ stop_cb

Next == (\E f \in Files : Open(f)) \/ Thread \/ Interrupt

\* The timer triggers the DAC as long as a conversion runs, and the thread runs.
Spec == Init /\ [][Next]_vars /\ WF_vars(Thread) /\ WF_vars(Interrupt)

-----------------------------------------------------------------------------

TypeOK ==
  /\ pc \in {"idle", "first", "wait", "readPos", "fill", "last", "waitDone", "stop", "halted"}
  /\ cb \in {"none", "continuous", "last", "single", "stop"}
  /\ sem \in BOOLEAN /\ failed \in BOOLEAN /\ late \in BOOLEAN
  /\ wp \in 0 .. 1 /\ buf \in 0 .. 1
  /\ halves \in [0 .. 1 -> Nat]
  /\ next \in 1 .. file.size + 1
  /\ plays \in 0 .. MaxPlays

\* A sound that was read without errors by a thread that was always waiting when an
\* interrupt came is played completely and in order: every piece once, but for a
\* single odd sample at the end.  Whatever happened in the sound before does not matter.
\* And dacStop is never called too early: the robot halts only when the thread was late.
AllPieces == [i \in 1 .. file.size |-> i]
AllHeard ==
  /\ pc = "idle" /\ plays > 0 /\ ~ failed /\ ~ late => heard = EvenPieces(AllPieces)
  /\ pc = "halted" => late

\* Also when the thread is late and pieces were skipped or repeated, the
\* conversion set up by dac_last_conversion is of the end of the file: the
\* interrupt handlers never redirect it.
TailIsEnd ==
  dma.run = "tail" => \E k \in 1 .. file.size : dma.pieces = EvenPieces([i \in 1 .. k |-> file.size - k + i])

\* Every sound ends, or the robot halts (which AllHeard allows for a late thread only): the
\* thread never waits for a signal that no interrupt gives.
PlayEnds == pc # "idle" ~> pc \in {"idle", "halted"}
==============================================================================
