--------------------------- MODULE MCEventsAndSounds ----------------------------
(***************************************************************************)
(* Aseba's events (two sensors around the timer event), the audio driver   *)
(* (files from nothing to five half buffers), and the requests of shell    *)
(* and script to the audio thread (four, in any order), in one run.  The   *)
(* models share no state; a behaviour is one of them with all its steps.   *)
(***************************************************************************)
EXTENDS AsebaEvents

CONSTANTS FileSizes, MaxPlays, MaxRequests

TwoSensors == {0, 2}
Sizes == 0 .. 5

VARIABLES part,
  dac_pc, sem, cb, wp, buf, halves, got, dma, file, next, heard, failed, late, plays,  \* AudioDac
  audio, buffer, current, shell, mine, taken, replaced, reply, evt, sound_flags, requests, results,
  noticed  \* AudioPlay

dacvars == <<dac_pc, sem, cb, wp, buf, halves, got, dma, file, next, heard, failed, late, plays>>
playvars == <<audio, buffer, current, shell, mine, taken, replaced, reply, evt, sound_flags,
              requests, results, noticed>>

Dac == INSTANCE AudioDac WITH pc <- dac_pc
Requests == INSTANCE AudioPlay WITH flags <- sound_flags

ASSUME SoundsAssumption == Dac!ConstantsOK /\ Requests!ConstantsOK

SoundsInit ==
  /\ part \in {"events", "dac", "requests"}
  /\ Init /\ Dac!Init /\ Requests!Init

SoundsNext ==
  \/ part = "events" /\ Next /\ UNCHANGED <<part, dacvars, playvars>>
  \/ part = "dac" /\ Dac!Next /\ UNCHANGED <<part, vars, playvars>>
  \/ part = "requests" /\ Requests!Next /\ UNCHANGED <<part, vars, dacvars>>

\* The fairness of AudioDac and of AudioPlay, for the part that runs.
SoundsFairness ==
  /\ WF_dacvars(part = "dac" /\ Dac!Thread) /\ WF_dacvars(part = "dac" /\ Dac!Interrupt)
  /\ WF_playvars(part = "requests" /\ Requests!AwaitResult)
  /\ WF_playvars(part = "requests" /\ Requests!AudioThread)
  /\ WF_playvars(part = "requests" /\ Requests!SetEvent)

SoundsSpec == SoundsInit /\ [][SoundsNext]_<<part, vars, dacvars, playvars>> /\ SoundsFairness

-----------------------------------------------------------------------------

\* A sound whose thread is never late is heard completely, and dacStop never comes too early
\* (audio_dac_convert).
AllHeard == Dac!AllHeard
\* The end of a file is converted last, also when the thread is late (dac_last_conversion).
TailIsEnd == Dac!TypeOK /\ Dac!TailIsEnd
\* Every sound ends or halts the robot (audio_dac_convert).
PlayEnds == Dac!PlayEnds
\* The audio thread publishes no result that aseba_audio_thd misses.
NoMissedResult == Requests!NoMissedResult
\* A request that was taken gets its own result, or one of a request that replaced it
\* (the play command).
ReplyMatches == Requests!ReplyMatches
\* The play command returns when its request was taken.
PlayReturns == Requests!PlayReturns
================================================================================
