------------------------ MODULE EventsAndSoundsProofs -------------------------
(***************************************************************************)
(* Proofs about Aseba's events, the requests to play a sound and the audio *)
(* driver, for every set of sensors, every set of file sizes and any       *)
(* number of requests and sounds.                                          *)
(***************************************************************************)
EXTENDS MCEventsAndSounds, Sequences, WellFoundedInduction, TLAPS

-----------------------------------------------------------------------------
(* AsebaEvents: no measurement is lost between the event threads and the   *)
(* loop of the VM thread.                                                  *)

IInv == TypeOK /\ EventInv

\* The value ffs returns without a bit, and the mark of a remote event, are no events.
LEMMA NotEvents == Events \subseteq Nat /\ None \notin Events /\ Remote \notin Events /\ None # Remote
BY EventsAssumption DEF Events, None, Remote

\* ffs on a word that is not 0 returns one of its bits.
LEMMA LowestBit ==
  ASSUME NEW F \in SUBSET Nat, F # {}
  PROVE  (CHOOSE e \in F : \A d \in F : e <= d) \in F
<1> DEFINE R == {ss \in Nat \X Nat : ss[1] < ss[2]}
<1>1. IsWellFoundedOn(R, Nat)
  BY NatLessThanWellFounded, Zenon DEF OpToRel
<1> HIDE DEF R
<1>2. PICK e \in F : \A d \in F : ~ (<<d, e>> \in R)
  BY <1>1, WFMin, Zenon
<1>3. ASSUME NEW d \in F PROVE e <= d
  <2>1. <<d, e>> \notin R /\ d \in Nat /\ e \in Nat
    BY <1>2
  <2>2. ~ (d < e)
    BY <2>1 DEF R
  <2> QED BY <2>1, <2>2
<1> QED BY <1>3, Zenon

\* At power up nothing is published, flagged or active but the init event.
LEMMA InitInv == Init => IInv
<1> SUFFICES ASSUME Init PROVE IInv
  OBVIOUS
<1> USE DEF Init
<1>1. TypeOK
  BY NotEvents DEF TypeOK
<1>2. NoLostEvent /\ SetIsFlagged
  BY DEF NoLostEvent, SetIsFlagged
<1>3. Idle /\ Announced
  BY DEF Idle, Announced
<1>4. RunsFirst
  BY NotEvents DEF RunsFirst, Events
<1> QED BY <1>1, <1>2, <1>3, <1>4 DEF IInv, EventInv

\* Every step keeps the types.
LEMMA TypeStep == TypeOK /\ [Next]_vars => TypeOK'
<1> SUFFICES ASSUME TypeOK, [Next]_vars PROVE TypeOK'
  OBVIOUS
<1> USE DEF TypeOK
<1>1. ASSUME NEW s \in Sensors, Publish(s) PROVE TypeOK'
  BY <1>1 DEF Publish
<1>2. ASSUME NEW s \in Sensors, SetEvent(s) PROVE TypeOK'
  BY <1>2 DEF SetEvent, Events
<1>3. ASSUME NEW s \in Sensors, WaitAgain(s) PROVE TypeOK'
  BY <1>3 DEF WaitAgain
<1>4. CASE aseba_timer_cb
  BY <1>4 DEF aseba_timer_cb, Events
<1>5. CASE ReadVariables
  BY <1>5 DEF ReadVariables
<1>6. ASSUME NEW ends \in BOOLEAN, Run(ends) PROVE TypeOK'
  BY <1>6, Zenon DEF Run
<1>7. ASSUME NEW a \in {active, Remote}, NEW s \in BOOLEAN, Incoming(a, s) PROVE TypeOK'
  BY <1>7 DEF Incoming
<1>8. CASE FindEvent
  <2>1. event' \in Events \cup {None}
    BY <1>8, LowestBit, NotEvents DEF FindEvent
  <2> QED BY <1>8, <2>1 DEF FindEvent
<1>9. CASE ClearEvent
  BY <1>9 DEF ClearEvent
<1>10. CASE UNCHANGED vars
  BY <1>10 DEF vars
<1> QED
  BY <1>1, <1>2, <1>3, <1>4, <1>5, <1>6, <1>7, <1>8, <1>9, <1>10 DEF Next, VmThread

\* Every step keeps the inductive invariant.
LEMMA EventStep == IInv /\ [Next]_vars => EventInv'
<1> SUFFICES ASSUME TypeOK, EventInv, [Next]_vars PROVE EventInv'
  BY DEF IInv
<1> USE NotEvents DEF TypeOK, EventInv, Events
<1>1. ASSUME NEW s \in Sensors, Publish(s) PROVE EventInv'
  <2>1. NoLostEvent'
    BY <1>1 DEF Publish, NoLostEvent, OnTheWay, SetIsFlagged
  <2>2. SetIsFlagged' /\ Announced'
    BY <1>1 DEF Publish, SetIsFlagged, Announced
  <2>3. Idle' /\ RunsFirst'
    BY <1>1 DEF Publish, Idle, RunsFirst
  <2> QED BY <2>1, <2>2, <2>3
<1>2. ASSUME NEW s \in Sensors, SetEvent(s) PROVE EventInv'
  <2>1. NoLostEvent'
    BY <1>2 DEF SetEvent, NoLostEvent, OnTheWay
  <2>2. SetIsFlagged' /\ Announced'
    BY <1>2 DEF SetEvent, SetIsFlagged, Announced
  <2>3. Idle' /\ RunsFirst'
    BY <1>2 DEF SetEvent, Idle, RunsFirst
  <2> QED BY <2>1, <2>2, <2>3
<1>3. ASSUME NEW s \in Sensors, WaitAgain(s) PROVE EventInv'
  <2>1. NoLostEvent'
    BY <1>3 DEF WaitAgain, NoLostEvent, OnTheWay
  <2>2. SetIsFlagged' /\ Announced'
    BY <1>3 DEF WaitAgain, SetIsFlagged, Announced
  <2>3. Idle' /\ RunsFirst'
    BY <1>3 DEF WaitAgain, Idle, RunsFirst
  <2> QED BY <2>1, <2>2, <2>3
<1>4. CASE aseba_timer_cb
  BY <1>4 DEF aseba_timer_cb, NoLostEvent, OnTheWay, SetIsFlagged, Announced, Idle, RunsFirst
<1>5. CASE ReadVariables
  BY <1>5 DEF ReadVariables, NoLostEvent, OnTheWay, SetIsFlagged, Announced, Idle, RunsFirst
<1>6. ASSUME NEW ends \in BOOLEAN, Run(ends) PROVE EventInv'
  <2>1. CASE active # None /\ ~ stepping
    \* What the handler has not seen in its variables is announced again.
    <3>1. NoLostEvent'
      BY <1>6, <2>1 DEF Run, NoLostEvent, OnTheWay, Announced
    <3>2. SetIsFlagged' /\ Announced' /\ Idle' /\ RunsFirst'
      BY <1>6, <2>1 DEF Run, SetIsFlagged, Announced, Idle, RunsFirst
    <3> QED BY <3>1, <3>2
  <2>2. CASE ~ (active # None /\ ~ stepping)
    <3>1. NoLostEvent' /\ SetIsFlagged' /\ Announced' /\ Idle'
      BY <1>6, <2>2 DEF Run, NoLostEvent, OnTheWay, SetIsFlagged, Announced, Idle
    <3>2. RunsFirst'
      BY <1>6, <2>2 DEF Run, RunsFirst
    <3> QED BY <3>1, <3>2
  <2> QED BY <2>1, <2>2
<1>7. ASSUME NEW a \in {active, Remote}, NEW s \in BOOLEAN, Incoming(a, s) PROVE EventInv'
  \* At this point no sensor's handler is fresh: nothing that matters is replaced.
  <2>1. NoLostEvent'
    BY <1>7 DEF Incoming, NoLostEvent, OnTheWay, RunsFirst
  <2>2. SetIsFlagged' /\ Announced' /\ Idle'
    BY <1>7 DEF Incoming, SetIsFlagged, Announced, Idle
  <2>3. RunsFirst'
    BY <1>7 DEF Incoming, RunsFirst
  <2> QED BY <2>1, <2>2, <2>3
<1>8. CASE FindEvent
  <2>1. NoLostEvent'
    BY <1>8 DEF FindEvent, NoLostEvent, OnTheWay
  <2>2. SetIsFlagged' /\ Announced' /\ Idle' /\ RunsFirst'
    BY <1>8 DEF FindEvent, SetIsFlagged, Announced, Idle, RunsFirst
  <2> QED BY <2>1, <2>2
<1>9. CASE ClearEvent
  \* Every event thread is at its wait: none has set the flag that is cleared here
  \* for a publication the handler will not see.
  <2>1. NoLostEvent'
    BY <1>9 DEF ClearEvent, NoLostEvent, OnTheWay, Idle
  <2>2. SetIsFlagged' /\ Announced' /\ Idle' /\ RunsFirst'
    BY <1>9 DEF ClearEvent, LowRuns, SetIsFlagged, Announced, Idle, RunsFirst
  <2> QED BY <2>1, <2>2
<1>10. CASE UNCHANGED vars
  BY <1>10 DEF vars, NoLostEvent, OnTheWay, SetIsFlagged, Announced, Idle, RunsFirst
<1> QED
  BY <1>1, <1>2, <1>3, <1>4, <1>5, <1>6, <1>7, <1>8, <1>9, <1>10 DEF Next, VmThread

\* The inductive invariant holds in every reachable state.
LEMMA Invariance == Spec => []IInv
<1>1. IInv /\ [Next]_vars => IInv'
  BY TypeStep, EventStep DEF IInv
<1> QED BY InitInv, <1>1, PTL DEF Spec

\* Types, for every set of sensors: in particular the VM only ever starts the handler
\* of an event that exists.
THEOREM EventsTypeCorrect == Spec => []TypeOK
<1>1. IInv => TypeOK
  BY DEF IInv
<1> QED BY Invariance, <1>1, PTL

\* For every set of sensors: a measurement no handler has worked on has its event on
\* the way, whatever comes between ffs and CLEAR_EVENT or between SET_EVENT and the
\* next wait of an event thread.
THEOREM EventsNotLost == Spec => []NoLostEvent
<1>1. IInv => NoLostEvent
  BY DEF IInv, EventInv
<1> QED BY Invariance, <1>1, PTL

-----------------------------------------------------------------------------
(* AudioPlay: requests and results.                                        *)

RequestTypes ==
  /\ audio \in {"waiting", "woken", "playing", "done"}
  /\ shell \in {"prompt", "asked", "waiting"}
  /\ evt \in Requests!Statuses \cup {"waiting"}
  /\ taken \in BOOLEAN /\ replaced \in BOOLEAN
  /\ {requests, buffer, current, mine, reply, results, noticed} \subseteq Nat
  /\ mine <= requests

\* A request is the shell's, or a later one that replaced it in the topic.
OwnOrLater(n) == n = mine \/ (replaced /\ n > mine)

\* While the shell waits for the result of a request that was taken, that request or one
\* that replaced it lies in the topic for the woken audio thread, or is served by it.
Served ==
  shell # "prompt" /\ taken =>
    \/ audio = "woken" /\ OwnOrLater(buffer)
    \/ audio = "playing" /\ OwnOrLater(current)

RequestInv == RequestTypes /\ NoMissedResult /\ ReplyMatches /\ Served

\* Nothing is requested, taken or answered at the start.
LEMMA RequestInit == Requests!Init => RequestInv
<1> SUFFICES ASSUME Requests!Init PROVE RequestInv
  OBVIOUS
<1>1. RequestTypes
  <2>1. taken \in BOOLEAN /\ replaced \in BOOLEAN /\ evt = "waiting"
    BY Zenon DEF Requests!Init
  <2> QED BY <2>1 DEF Requests!Init, RequestTypes
<1>2. NoMissedResult /\ ReplyMatches /\ Served
  BY DEF Requests!Init, NoMissedResult, ReplyMatches, Served, Requests!NoMissedResult,
         Requests!ReplyMatches
<1> QED BY <1>1, <1>2 DEF RequestInv

\* Every step of shell, script, audio thread and event thread keeps the invariant.
LEMMA RequestStep == RequestInv /\ [Requests!Next]_playvars => RequestInv'
<1> SUFFICES ASSUME RequestInv, [Requests!Next]_playvars PROVE RequestInv'
  OBVIOUS
<1> USE DEF RequestInv, RequestTypes, Served, OwnOrLater, NoMissedResult, ReplyMatches,
            Requests!NoMissedResult, Requests!ReplyMatches
<1>1. CASE Requests!Play
  <2>1. ~ replaced'
    BY <1>1, Zenon DEF Requests!Play
  <2>4. evt' = evt
    BY <1>1 DEF Requests!Play
  <2>2. taken' \in BOOLEAN /\ (taken' => audio \in {"waiting", "woken"})
    <3>1. taken' \in BOOLEAN
      BY <1>1 DEF Requests!Play
    <3>2. taken' => audio \in {"waiting", "woken"}
      BY <1>1, Zenon DEF Requests!Play
    <3> QED BY <3>1, <3>2
  <2>3. replaced' \in BOOLEAN
    BY <1>1 DEF Requests!Play
  <2> QED BY <1>1, <2>1, <2>2, <2>3, <2>4 DEF Requests!Play, Requests!PublishRequest
<1>2. CASE Requests!AwaitResult
  BY <1>2 DEF Requests!AwaitResult
<1>3. CASE Requests!SoundPlay
  \* The shell's request may be overwritten here, if it is still in the topic.
  <2>1. /\ replaced' \in BOOLEAN /\ (replaced' <=> replaced \/ (audio = "woken" /\ buffer = mine))
        /\ taken' = taken
    BY <1>3, Zenon DEF Requests!SoundPlay
  <2> QED BY <1>3, <2>1 DEF Requests!SoundPlay, Requests!PublishRequest, Requests!LowRuns
<1>4. ASSUME NEW s \in Requests!Statuses, Requests!Finish(s) PROVE RequestInv'
  \* The audio thread only runs when the event thread is back at its wait.
  BY <1>4 DEF Requests!Finish, Requests!LowRuns, Requests!Statuses
<1>5. CASE Requests!AwaitRequest
  BY <1>5 DEF Requests!AwaitRequest
<1>6. CASE Requests!SetEvent
  BY <1>6 DEF Requests!SetEvent
<1>7. ASSUME NEW e \in sound_flags, Requests!TakeEvent(e) PROVE RequestInv'
  BY <1>7 DEF Requests!TakeEvent
<1>8. CASE Requests!TakeRequest
  BY <1>8 DEF Requests!TakeRequest
<1>9. CASE UNCHANGED playvars
  BY <1>9 DEF playvars
<1> QED
  BY <1>1, <1>2, <1>3, <1>4, <1>5, <1>6, <1>7, <1>8, <1>9 DEF Requests!Next, Requests!AudioThread

\* The invariant holds in every reachable state, whichever part of the system runs.
LEMMA RequestsInvariance == SoundsSpec => []RequestInv
<1>1. SoundsInit => RequestInv
  BY RequestInit DEF SoundsInit
<1>2. RequestInv /\ [SoundsNext]_<<part, vars, dacvars, playvars>> => RequestInv'
  BY RequestStep DEF SoundsNext
<1> QED BY <1>1, <1>2, PTL DEF SoundsSpec

\* For any number of requests of shell and script: each result that the audio thread
\* publishes is seen by aseba_audio_thd, although the topic keeps only the last one.
THEOREM ResultsNotMissed == SoundsSpec => []NoMissedResult
<1>1. RequestInv => NoMissedResult
  BY DEF RequestInv
<1> QED BY RequestsInvariance, <1>1, PTL

\* For any number of requests: a play command whose request was taken is told the result
\* of this request or, if that was overwritten in the topic before the audio thread got to
\* run, of a later one; never the result of a request before its own.
THEOREM RepliesMatch == SoundsSpec => []ReplyMatches
<1>1. RequestInv => ReplyMatches
  BY DEF RequestInv
<1> QED BY RequestsInvariance, <1>1, PTL

-----------------------------------------------------------------------------
(* AudioDac: what the converter plays of a file, when the thread that fills *)
(* the buffer keeps up with it and when it does not.                        *)

\* The pieces 1 to n, in order.
Upto(n) == [i \in 1 .. n |-> i]

\* Taking away the single sample at the end of a sequence that ends with the file.
LEMMA EvenUpto ==
  ASSUME NEW n \in Nat, file.size = n, file.tiny \in BOOLEAN
  PROVE  Dac!EvenPieces(Upto(n)) = IF file.tiny /\ n > 0 THEN Upto(n - 1) ELSE Upto(n)
<1>1. Upto(n) \in Seq(Nat) /\ Len(Upto(n)) = n
  BY DEF Upto
<1>2. CASE n = 0
  <2>1. Upto(n) = <<>>
    BY <1>2 DEF Upto
  <2> QED BY <1>2, <2>1 DEF Dac!EvenPieces
<1>3. CASE n > 0
  <2>1. Upto(n) # <<>> /\ Upto(n)[Len(Upto(n))] = n
    BY <1>1, <1>3 DEF Upto
  <2>2. SubSeq(Upto(n), 1, n - 1) = Upto(n - 1)
    BY <1>1, <1>3 DEF Upto
  <2> QED BY <1>1, <1>3, <2>1, <2>2 DEF Dac!EvenPieces
<1> QED BY <1>2, <1>3

\* One piece more.
LEMMA UptoNext == ASSUME NEW n \in Nat PROVE Upto(n) \o <<n + 1>> = Upto(n + 1)
BY DEF Upto

\* The last piece of a file, and the one before.
LEMMA UptoLast == ASSUME NEW n \in Nat, n >= 1 PROVE Upto(n - 1) \o <<n>> = Upto(n)
BY DEF Upto

\* The pieces up to one, put together from the earlier ones and the last.
LEMMA UptoLess == ASSUME NEW n \in Nat, n >= 2 PROVE Upto(n - 2) \o <<n - 1>> = Upto(n - 1)
BY DEF Upto

\* Pieces in order are a sequence.
LEMMA UptoZero == Upto(0) = <<>> /\ \A n \in Nat : Upto(n) \in Seq(Nat) /\ Len(Upto(n)) = n
BY DEF Upto

\* The last piece of a file alone.
LEMMA EvenOne ==
  ASSUME NEW n \in Nat, file.size = n, file.tiny \in BOOLEAN
  PROVE  Dac!EvenPieces(<<n>>) = IF file.tiny THEN <<>> ELSE <<n>>
<1>1. SubSeq(<<n>>, 1, Len(<<n>>) - 1) = <<>> /\ <<n>> # <<>>
  OBVIOUS
<1> QED BY <1>1 DEF Dac!EvenPieces

\* The conversion of the last pieces, and the types of all that the driver keeps.
Tails == [run : {"tail"}, stage : {1, 2}, pieces : Seq(Nat)]
DacTypes ==
  /\ Dac!TypeOK
  /\ dma \in {Dac!Off} \cup {Dac!HalfOf(h) : h \in 0 .. 1} \cup Tails
  /\ file \in [size : Nat, tiny : BOOLEAN]
  /\ heard \in Seq(Nat) /\ got \in Seq(Nat)

\* Where the thread is, which handler is set and what the DMA does belong together; the
\* handler of the last piece finds it in the half it was told.
Converting == {"wait", "readPos", "fill", "last"}
DacControl ==
  /\ dac_pc \in {"idle", "first"} => dma.run = "off"
  /\ dac_pc = "first" => next = 1
  /\ dac_pc \in Converting <=> dma.run # "off" /\ cb = "continuous"
  /\ dac_pc \in Converting \ {"last"} => next \in 3 .. file.size
  /\ dac_pc = "last" => got = <<>> \/ (got = <<file.size>> /\ halves[buf] = file.size /\ file.size > 0)
  /\ dma.run = "loop" => cb \in {"continuous", "last", "stop"}
  /\ dma.run = "tail" => cb \in {"single", "stop"}
  /\ dma.run = "loop" /\ cb = "last" => halves[wp] = file.size /\ ~ file.tiny /\ file.size > 0

\* What is to be heard of a file.
Final == Dac!EvenPieces(Upto(file.size))

\* What has been heard, what is in the buffer and what has been read, as long as the
\* thread keeps up and the file can be read.
Timely ==
  /\ dac_pc = "first" => heard = <<>>
  /\ dac_pc = "wait" /\ ~ sem =>
       heard = Upto(next - 3) /\ halves[dma.half] = next - 2 /\ halves[1 - dma.half] = next - 1
  /\ dac_pc \in {"readPos", "fill"} \/ (dac_pc = "wait" /\ sem) =>
       /\ heard = Upto(next - 2) /\ halves[dma.half] = next - 1 /\ wp = 1 - dma.half
       /\ dac_pc = "fill" => buf = wp
  /\ dac_pc \in {"readPos", "fill", "last"} => ~ sem
  /\ dac_pc = "last" \/ (dac_pc = "waitDone" /\ dma.run = "loop") =>
       file.size >= 3 /\ heard = Upto(file.size - 2) /\ halves[dma.half] = file.size - 1
  /\ dac_pc = "last" => got = <<file.size>>
  /\ dac_pc = "waitDone" /\ dma.run = "loop" => (cb = "last" <=> ~ file.tiny)
  /\ dac_pc = "waitDone" => (sem <=> dma.run = "off")
  /\ dac_pc = "stop" => dma.run = "off"
  /\ dma.run = "tail" =>
       /\ \/ heard = <<>> /\ dma.pieces = Final
          \/ heard = Upto(file.size - 1) /\ dma.pieces = <<file.size>> /\ ~ file.tiny
       /\ dma.stage = 1 <=> cb = "single"
  /\ dac_pc \in {"waitDone", "stop"} /\ dma.run = "off" => heard = Final
  /\ dac_pc = "idle" /\ plays > 0 => heard = Final

OnTime == ~ failed /\ ~ late => Timely

\* A thread that keeps up finds the signal of the end of the conversion and no other one,
\* also when a read failed.
Punctual ==
  ~ late =>
    /\ dac_pc \in {"readPos", "fill", "last"} => ~ sem
    /\ dac_pc = "waitDone" => (sem <=> dma.run = "off")
    /\ dac_pc = "stop" => dma.run = "off"
    /\ dac_pc # "halted"

DacInv == DacTypes /\ DacControl /\ Dac!TailIsEnd /\ OnTime /\ Punctual

\* The five parts hold at first, and a step of the driver keeps each of them.
LEMMA DacInit == Dac!Init => DacInv
<1> SUFFICES ASSUME Dac!Init PROVE DacInv
  OBVIOUS
<1>1. Dac!TypeOK
  <2>1. sem \in BOOLEAN /\ failed \in BOOLEAN /\ late \in BOOLEAN
    BY Zenon DEF Dac!Init
  <2> QED BY <2>1, SoundsAssumption DEF Dac!Init, Dac!TypeOK, Dac!ConstantsOK
<1>2. DacTypes
  BY <1>1 DEF Dac!Init, DacTypes, Dac!Off
<1>3. DacControl /\ Dac!TailIsEnd
  BY DEF Dac!Init, DacControl, Dac!TailIsEnd, Dac!Off, Converting
<1>4. OnTime
  BY DEF Dac!Init, OnTime, Timely, Dac!Off
<1>5. Punctual
  BY DEF Dac!Init, Punctual
<1> QED BY <1>2, <1>3, <1>4, <1>5 DEF DacInv

\* A file that fits in the buffer is read completely by the first read.
LEMMA FirstIsAll ==
  ASSUME DacTypes, DacControl, dac_pc = "first", Dac!Last(2)
  PROVE  /\ Dac!FirstPieces = Upto(file.size)
         /\ next + Dac!Got(2) = file.size + 1
         /\ file.size \in Nat /\ file.tiny \in BOOLEAN
<1>1. next = 1 /\ file.size \in Nat /\ file.tiny \in BOOLEAN
  BY DEF DacTypes, DacControl
<1>2. Dac!Got(2) = file.size
  BY <1>1 DEF Dac!Got, Dac!Left, Dac!Last
<1> QED BY <1>1, <1>2 DEF Dac!FirstPieces, Upto

\* The types of the audio driver are kept by every step.
LEMMA DacTypesStep == DacTypes /\ DacControl /\ [Dac!Next]_dacvars => DacTypes'
<1> SUFFICES ASSUME DacTypes, DacControl, [Dac!Next]_dacvars PROVE DacTypes'
  OBVIOUS
<1> USE DEF DacTypes, Dac!TypeOK
<1>0. ASSUME NEW f \in Dac!Files, Dac!Open(f) PROVE DacTypes'
  <2>1. f \in [size : Nat, tiny : BOOLEAN] /\ MaxPlays \in Nat
    BY SoundsAssumption DEF Dac!Files, Dac!ConstantsOK
  <2>2. file' \in [size : Nat, tiny : BOOLEAN] /\ next' \in 1 .. file'.size + 1
    BY <1>0, <2>1 DEF Dac!Open
  <2>3. failed' \in BOOLEAN /\ late' \in BOOLEAN
    BY <1>0, Zenon DEF Dac!Open
  <2> QED BY <1>0, <2>1, <2>2, <2>3 DEF Dac!Open
<1>1. CASE Dac!Single
  <2> DEFINE pieces == Dac!EvenPieces(Dac!FirstPieces)
  <2>1. Dac!FirstPieces = Upto(file.size) /\ file.size \in Nat /\ file.tiny \in BOOLEAN
    BY <1>1, FirstIsAll DEF Dac!Single
  <2>2. next + Dac!Got(2) \in 1 .. file.size + 1
    BY <1>1, <2>1, FirstIsAll DEF Dac!Single
  <2>3. pieces \in Seq(Nat)
    <3>1. pieces \in {Upto(file.size - 1), Upto(file.size)} /\ (file.size = 0 => pieces = Upto(0))
      BY <2>1, EvenUpto
    <3>2. Upto(file.size) \in Seq(Nat) /\ (file.size > 0 => Upto(file.size - 1) \in Seq(Nat))
      BY <2>1, UptoZero
    <3> QED BY <2>1, <3>1, <3>2
  <2>4. sem' \in BOOLEAN /\ dma' \in {dma, Dac!Alone(pieces)}
    BY <1>1, Zenon DEF Dac!Single
  <2> HIDE DEF pieces
  <2> QED BY <1>1, <2>2, <2>3, <2>4 DEF Dac!Single, Dac!Alone, Tails
<1>2. CASE Dac!Continuous
  <2>1. next = 1 /\ file.size \in Nat /\ file.size > 2
    BY <1>2 DEF Dac!Continuous, Dac!Last, Dac!Left, DacControl
  <2>2. next' \in 1 .. file'.size + 1 /\ halves' \in [0 .. 1 -> Nat]
    BY <1>2, <2>1 DEF Dac!Continuous
  <2>3. sem' \in BOOLEAN /\ dma' = Dac!HalfOf(0)
    BY <1>2, Zenon DEF Dac!Continuous
  <2> QED BY <1>2, <2>2, <2>3 DEF Dac!Continuous
<1>3. CASE Dac!FirstFails
  BY <1>3 DEF Dac!FirstFails
<1>4. CASE Dac!Wake
  BY <1>4 DEF Dac!Wake
<1>5. CASE Dac!ReadPos
  BY <1>5 DEF Dac!ReadPos
<1>6. CASE Dac!Fill
  BY <1>6 DEF Dac!Fill, DacControl, Converting
<1>7. CASE Dac!FillFails
  BY <1>7 DEF Dac!FillFails
<1>8. CASE Dac!LastConversion
  BY <1>8 DEF Dac!LastConversion
<1>9. CASE Dac!Done
  BY <1>9 DEF Dac!Done
<1>10. CASE Dac!Stop
  BY <1>10 DEF Dac!Stop
<1>11. CASE Dac!continuous_cb
  BY <1>11 DEF Dac!continuous_cb, Dac!Irq, Dac!Onward, Dac!Converted, Dac!HalfOf, Dac!Off, Tails,
               DacControl
<1>12. CASE Dac!last_cb
  <2>1. dma' \in Tails
    BY <1>12 DEF Dac!last_cb, Dac!Alone, Tails
  <2>2. Dac!Converted \in Seq(Nat)
    BY <1>12 DEF Dac!last_cb, Dac!Irq, Dac!Converted, Dac!HalfOf, Dac!Off, Tails, DacControl
  <2>3. heard' \in Seq(Nat) /\ late' \in BOOLEAN
    BY <1>12, <2>2 DEF Dac!last_cb, Dac!Irq
  <2> QED BY <1>12, <2>1, <2>3 DEF Dac!last_cb
<1>13. CASE Dac!single_cb
  <2>1. /\ dma \in Tails /\ dma' = [dma EXCEPT !.stage = 3 - @]
        /\ dma.stage \in {1, 2} /\ dma.pieces \in Seq(Nat) /\ dma.run = "tail"
    BY <1>13 DEF Dac!single_cb, Dac!Irq, Dac!Onward, DacControl, Dac!HalfOf, Dac!Off, Tails
  <2>2. dma' \in Tails
    <3>1. 3 - dma.stage \in {1, 2}
      BY <2>1
    <3> QED BY <2>1, <3>1, Zenon DEF Tails
  <2>3. Dac!Converted \in Seq(Nat)
    BY <2>1 DEF Dac!Converted
  <2>4. heard' \in Seq(Nat) /\ late' \in BOOLEAN
    BY <1>13, <2>3 DEF Dac!single_cb, Dac!Irq
  <2> QED BY <1>13, <2>2, <2>4 DEF Dac!single_cb
<1>14. CASE Dac!stop_cb
  BY <1>14 DEF Dac!stop_cb, Dac!Irq, Dac!Converted, Dac!HalfOf, Dac!Off, Tails
<1>15. CASE UNCHANGED dacvars
  BY <1>15 DEF dacvars
<1> QED BY <1>0, <1>1, <1>2, <1>3, <1>4, <1>5, <1>6, <1>7, <1>8, <1>9, <1>10, <1>11, <1>12, <1>13,
           <1>14, <1>15 DEF Dac!Next, Dac!Thread, Dac!Interrupt

\* What the types say of the conversion under way.
LEMMA DmaKinds ==
  ASSUME DacTypes
  PROVE  /\ dma.run \in {"off", "loop", "tail"}
         /\ dma.run = "loop" => dma.half \in 0 .. 1 /\ dma = Dac!HalfOf(dma.half)
         /\ dma.run = "tail" => dma.stage \in {1, 2} /\ dma.pieces \in Seq(Nat)
BY DEF DacTypes, Dac!HalfOf, Dac!Off, Tails

\* Thread, interrupt handler and DMA stay in step with each other.
LEMMA DacControlStep == DacTypes /\ DacControl /\ [Dac!Next]_dacvars => DacControl'
<1> SUFFICES ASSUME DacTypes, DacControl, [Dac!Next]_dacvars PROVE DacControl'
  OBVIOUS
<1> USE DmaKinds DEF DacControl, Converting
<1>0. ASSUME NEW f \in Dac!Files, Dac!Open(f) PROVE DacControl'
  BY <1>0 DEF Dac!Open
<1>1. CASE Dac!Single
  BY <1>1 DEF Dac!Single, Dac!Alone
<1>2. CASE Dac!Continuous
  <2>1. next' = 3 /\ file.size \in Nat /\ file.size > 2
    BY <1>2 DEF Dac!Continuous, Dac!Last, Dac!Left, DacTypes
  <2> QED BY <1>2, <2>1 DEF Dac!Continuous, Dac!HalfOf
<1>3. CASE Dac!FirstFails
  BY <1>3 DEF Dac!FirstFails
<1>4. CASE Dac!Wake
  BY <1>4 DEF Dac!Wake
<1>5. CASE Dac!ReadPos
  BY <1>5 DEF Dac!ReadPos
<1>6. CASE Dac!Fill
  <2>1. next \in 3 .. file.size /\ file.size \in Nat /\ buf \in 0 .. 1
    BY <1>6 DEF Dac!Fill, DacTypes, Dac!TypeOK
  <2>2. halves'[buf] = next
    BY <1>6, <2>1 DEF Dac!Fill, DacTypes, Dac!TypeOK
  <2>3. dac_pc' = (IF next = file.size THEN "last" ELSE "wait") /\ next' = next + 1
    BY <1>6, <2>1 DEF Dac!Fill, Dac!Last, Dac!Left
  <2> QED BY <1>6, <2>1, <2>2, <2>3 DEF Dac!Fill
<1>7. CASE Dac!FillFails
  BY <1>7 DEF Dac!FillFails
<1>8. CASE Dac!LastConversion
  \* An odd sample alone is nothing to convert.
  <2>1. Dac!EvenPieces(got) # <<>> => got = <<file.size>> /\ ~ file.tiny
    BY <1>8, EvenOne DEF Dac!LastConversion, DacTypes, Dac!EvenPieces
  <2> QED BY <1>8, <2>1 DEF Dac!LastConversion
<1>9. CASE Dac!Done
  BY <1>9 DEF Dac!Done
<1>10. CASE Dac!Stop
  BY <1>10 DEF Dac!Stop, Dac!Off
<1>11. CASE Dac!continuous_cb
  BY <1>11 DEF Dac!continuous_cb, Dac!Irq, Dac!Onward, Dac!HalfOf
<1>12. CASE Dac!last_cb
  BY <1>12 DEF Dac!last_cb, Dac!Irq, Dac!Alone
<1>13. CASE Dac!single_cb
  <2>1. dma'.run = "tail"
    BY <1>13 DEF Dac!single_cb, Dac!Irq, Dac!Onward, DacTypes, Dac!HalfOf, Dac!Off, Tails
  <2> QED BY <1>13, <2>1 DEF Dac!single_cb, Dac!Irq
<1>14. CASE Dac!stop_cb
  BY <1>14 DEF Dac!stop_cb, Dac!Irq, Dac!Off
<1>15. CASE UNCHANGED dacvars
  BY <1>15 DEF dacvars
<1> QED BY <1>0, <1>1, <1>2, <1>3, <1>4, <1>5, <1>6, <1>7, <1>8, <1>9, <1>10, <1>11, <1>12, <1>13,
           <1>14, <1>15 DEF Dac!Next, Dac!Thread, Dac!Interrupt

\* What is left of the last piece of the file, or of the whole file, is an end of the file.
LEMMA EndOfFile ==
  ASSUME DacTypes, file.size > 0
  PROVE  /\ [i \in 1 .. 1 |-> file.size - 1 + i] = <<file.size>>
         /\ [i \in 1 .. file.size |-> file.size - file.size + i] = Upto(file.size)
BY DEF DacTypes, Upto

\* No step makes anything but an end of the file the last piece.
LEMMA TailStep ==
  DacTypes /\ DacControl /\ Dac!TailIsEnd /\ [Dac!Next]_dacvars => Dac!TailIsEnd'
<1> SUFFICES ASSUME DacTypes, DacControl, Dac!TailIsEnd, [Dac!Next]_dacvars PROVE Dac!TailIsEnd'
  OBVIOUS
<1>a. file.size \in Nat /\ file.tiny \in BOOLEAN
  BY DEF DacTypes
<1>b. ASSUME NEW k \in 1 .. file.size, UNCHANGED file,
             dma'.pieces = Dac!EvenPieces([i \in 1 .. k |-> file.size - k + i])
      PROVE  Dac!TailIsEnd'
  BY <1>b, Zenon DEF Dac!TailIsEnd, Dac!EvenPieces
<1>1. CASE Dac!Single
  <2> DEFINE pieces == Dac!EvenPieces(Dac!FirstPieces)
  <2>1. CASE pieces = <<>>
    BY <1>1, <2>1 DEF Dac!Single, DacControl, Dac!TailIsEnd
  <2>2. CASE pieces # <<>>
    <3>1. pieces = Dac!EvenPieces(Upto(file.size)) /\ file' = file /\ dma'.pieces = pieces
      BY <1>1, <2>2, FirstIsAll DEF Dac!Single, Dac!Alone
    <3>2. file.size > 0
      BY <1>a, <2>2, <3>1, EvenUpto, UptoZero
    <3>3. file.size \in 1 .. file.size
      BY <1>a, <3>2
    <3> QED BY <1>b, <3>1, <3>2, <3>3, EndOfFile
  <2> QED BY <2>1, <2>2
<1>2. CASE Dac!last_cb
  <2>1. dma'.pieces = <<file.size>> /\ file' = file /\ ~ file.tiny /\ file.size > 0
    BY <1>2, DmaKinds DEF Dac!last_cb, Dac!Irq, Dac!Alone, DacControl
  <2>2. <<file.size>> = Dac!EvenPieces([i \in 1 .. 1 |-> file.size - 1 + i])
    BY <1>a, <2>1, EvenOne, EndOfFile
  <2>3. 1 \in 1 .. file.size
    BY <1>a, <2>1
  <2> QED BY <1>b, <2>1, <2>2, <2>3
<1>3. CASE Dac!single_cb
  <2>1. dma.run = "tail" /\ dma'.pieces = dma.pieces /\ file' = file
    BY <1>3 DEF Dac!single_cb, Dac!Irq, Dac!Onward, DacControl, DacTypes, Dac!HalfOf, Dac!Off, Tails
  <2> QED BY <2>1 DEF Dac!TailIsEnd, Dac!EvenPieces
<1>4. CASE dma'.run # "tail"
  BY <1>4 DEF Dac!TailIsEnd
<1>5. CASE UNCHANGED <<dma, file>>
  BY <1>5 DEF Dac!TailIsEnd, Dac!EvenPieces
<1>6. ASSUME ~ Dac!Single, ~ Dac!last_cb, ~ Dac!single_cb
      PROVE  dma'.run # "tail" \/ UNCHANGED <<dma, file>>
  <2>1. CASE \E f \in Dac!Files : Dac!Open(f)
    BY <2>1 DEF Dac!Open, DacControl
  <2>2. CASE Dac!Continuous
    BY <2>2 DEF Dac!Continuous, Dac!HalfOf
  <2>3. CASE Dac!Stop \/ Dac!stop_cb
    BY <2>3 DEF Dac!Stop, Dac!stop_cb, Dac!Off
  <2>4. CASE Dac!continuous_cb
    BY <2>4, DmaKinds DEF Dac!continuous_cb, Dac!Irq, Dac!Onward, Dac!HalfOf, DacControl
  <2>5. CASE Dac!FirstFails \/ Dac!Wake \/ Dac!ReadPos \/ Dac!Fill \/ Dac!FillFails
             \/ Dac!LastConversion \/ Dac!Done \/ UNCHANGED dacvars
    BY <2>5 DEF Dac!FirstFails, Dac!Wake, Dac!ReadPos, Dac!Fill, Dac!FillFails, Dac!LastConversion,
                Dac!Done, dacvars
  <2> QED BY <1>6, <2>1, <2>2, <2>3, <2>4, <2>5 DEF Dac!Next, Dac!Thread, Dac!Interrupt
<1> QED BY <1>1, <1>2, <1>3, <1>4, <1>5, <1>6

\* A handler appends what was converted to what was heard; a thread that keeps up was
\* waiting for it.
LEMMA IrqOnTime ==
  ASSUME DacTypes, NEW h, Dac!Irq(h), ~ late', NEW m \in Nat, heard = Upto(m), m <= file.size
  PROVE  /\ ~ late /\ ~ sem /\ dac_pc \in {"wait", "waitDone"} /\ dma.run # "off" /\ cb = h
         /\ heard' = heard \o Dac!Converted
<1>1. ~ late /\ ~ sem /\ dac_pc \in {"wait", "waitDone"}
  BY Zenon DEF Dac!Irq, Dac!KeepsUp
<1>2. Len(heard) = m /\ file.size \in Nat
  BY UptoZero DEF DacTypes
<1> QED BY <1>1, <1>2 DEF Dac!Irq

\* What was heard, what is in the halves and what was read stay the file so far.
LEMMA OnTimeStep ==
  DacTypes /\ DacControl /\ Dac!TailIsEnd /\ OnTime /\ [Dac!Next]_dacvars => OnTime'
<1> SUFFICES ASSUME DacTypes, DacControl, Dac!TailIsEnd, OnTime, [Dac!Next]_dacvars, ~ failed', ~ late'
             PROVE  Timely'
  BY DEF OnTime
<1>a. /\ file.size \in Nat /\ file.tiny \in BOOLEAN /\ next \in Nat
      /\ wp \in 0 .. 1 /\ buf \in 0 .. 1 /\ halves \in [0 .. 1 -> Nat]
  BY DEF DacTypes, Dac!TypeOK
<1> USE DmaKinds
<1>0. ASSUME NEW f \in Dac!Files, Dac!Open(f) PROVE Timely'
  BY <1>0 DEF Dac!Open, DacControl, Timely
<1>1. CASE Dac!Single
  <2> DEFINE pieces == Dac!EvenPieces(Dac!FirstPieces)
  <2>1. pieces = Final /\ Final' = Final
    BY <1>1, FirstIsAll DEF Dac!Single, Final, Dac!EvenPieces
  <2>2. ~ failed /\ ~ late /\ heard' = heard /\ dac_pc = "first" /\ UNCHANGED file
    BY <1>1, Zenon DEF Dac!Single
  <2>3. heard' = <<>> /\ dma.run = "off"
    BY <2>2 DEF OnTime, Timely, DacControl
  <2>4. CASE pieces = <<>>
    <3>1. dac_pc' = "stop" /\ dma'.run = "off"
      BY <1>1, <2>3, <2>4 DEF Dac!Single
    <3> QED BY <2>1, <2>3, <2>4, <3>1 DEF Timely
  <2>5. CASE pieces # <<>>
    <3>1. dac_pc' = "waitDone" /\ dma' = Dac!Alone(pieces) /\ cb' = "single" /\ ~ sem'
      BY <1>1, <2>5, Zenon DEF Dac!Single
    <3>2. dma'.run = "tail" /\ dma'.stage = 1 /\ dma'.pieces = pieces
      BY <3>1 DEF Dac!Alone
    <3> QED BY <2>1, <2>3, <3>1, <3>2 DEF Timely
  <2> QED BY <2>4, <2>5
<1>2. CASE Dac!Continuous
  BY <1>2, <1>a, UptoZero DEF Dac!Continuous, Dac!HalfOf, DacControl, OnTime, Timely
<1>3. CASE Dac!FirstFails
  BY <1>3, Zenon DEF Dac!FirstFails
<1>4. CASE Dac!Wake
  BY <1>4 DEF Dac!Wake, OnTime, Timely, DacControl, Converting
<1>5. CASE Dac!ReadPos
  BY <1>5 DEF Dac!ReadPos, OnTime, Timely, DacControl, Converting
<1>6. CASE Dac!Fill
  BY <1>6, <1>a DEF Dac!Fill, OnTime, Timely, DacControl, Converting, Dac!Last, Dac!Left
<1>7. CASE Dac!FillFails
  BY <1>7, Zenon DEF Dac!FillFails
<1>8. CASE Dac!LastConversion
  <2>1. ~ failed /\ ~ late /\ sem' = sem /\ dac_pc = "last" /\ dac_pc' = "waitDone"
        /\ UNCHANGED <<dma, heard, file, halves>>
    BY <1>8, Zenon DEF Dac!LastConversion
  <2>2. /\ file.size >= 3 /\ heard = Upto(file.size - 2) /\ halves[dma.half] = file.size - 1
        /\ got = <<file.size>> /\ ~ sem
    BY <2>1 DEF OnTime, Timely
  <2>3. dma.run = "loop"
    BY <2>1 DEF DacControl, Converting
  <2>4. cb' = "last" <=> ~ file.tiny
    <3>1. Dac!EvenPieces(got) = IF file.tiny THEN <<>> ELSE <<file.size>>
      BY <1>a, <2>2, EvenOne, Zenon
    <3>2. CASE file.tiny
      <4>1. Dac!EvenPieces(got) = <<>>
        BY <3>1, <3>2
      <4>2. cb' = "stop"
        BY <1>8, <4>1 DEF Dac!LastConversion
      <4> QED BY <3>2, <4>2
    <3>3. CASE ~ file.tiny
      <4>1. Dac!EvenPieces(got) # <<>>
        BY <3>1, <3>3
      <4>2. cb' = "last"
        BY <1>8, <4>1 DEF Dac!LastConversion
      <4> QED BY <3>3, <4>2
    <3> QED BY <3>2, <3>3
  <2>5. ~ sem'
    BY <2>1, <2>2, Zenon
  <2> QED BY <2>1, <2>2, <2>3, <2>4, <2>5 DEF Timely
<1>9. CASE Dac!Done
  BY <1>9 DEF Dac!Done, OnTime, Timely, DacControl, Converting, Final, Dac!EvenPieces
<1>10. CASE Dac!Stop
  BY <1>10 DEF Dac!Stop, Dac!Off, OnTime, Timely, Final, Dac!EvenPieces
<1>11. CASE Dac!continuous_cb
  \* The thread is waiting: the half that was converted is the older one.
  <2>1. dac_pc \in Converting /\ dma.run = "loop" /\ ~ failed
    BY <1>11 DEF Dac!continuous_cb, Dac!Irq, DacControl
  <2>2. dac_pc = "wait" /\ ~ sem /\ ~ late
    BY <1>11, <2>1, Zenon DEF Dac!continuous_cb, Dac!Irq, Dac!KeepsUp, Converting
  <2>3. next \in 3 .. file.size /\ heard = Upto(next - 3) /\ halves[dma.half] = next - 2
        /\ halves[1 - dma.half] = next - 1
    BY <2>1, <2>2 DEF OnTime, Timely, DacControl
  <2>4. heard' = heard \o <<next - 2>>
    BY <1>11, <1>a, <2>1, <2>3, IrqOnTime DEF Dac!continuous_cb, Dac!Converted
  <2>5. heard' = Upto(next - 2)
    BY <1>a, <2>3, <2>4, UptoNext
  <2>6. dma'.run = "loop" /\ dma'.half = 1 - dma.half /\ 1 - dma'.half = dma.half
    BY <1>11, <2>1 DEF Dac!continuous_cb, Dac!Onward, Dac!HalfOf
  <2> QED BY <1>11, <2>2, <2>3, <2>5, <2>6 DEF Dac!continuous_cb, Timely
<1>12. CASE Dac!last_cb
  <2>1. dac_pc = "waitDone" /\ ~ sem /\ dma.run = "loop" /\ ~ failed /\ ~ late
    BY <1>12, Zenon DEF Dac!last_cb, Dac!Irq, Dac!KeepsUp, DacControl, Converting
  <2>2. /\ file.size >= 3 /\ heard = Upto(file.size - 2) /\ halves[dma.half] = file.size - 1
        /\ halves[wp] = file.size /\ ~ file.tiny
    BY <1>12, <2>1 DEF OnTime, Timely, DacControl, Dac!last_cb, Dac!Irq
  <2>3. heard' = heard \o <<file.size - 1>>
    BY <1>12, <1>a, <2>1, <2>2, IrqOnTime DEF Dac!last_cb, Dac!Converted
  <2>4. heard' = Upto(file.size - 1)
    <3>1. Upto(file.size - 2) \o <<file.size - 1>> = Upto(file.size - 1)
      <4>1. file.size \in Nat /\ file.size >= 2
        BY <1>a, <2>2
      <4> QED BY <4>1, UptoLess, Zenon
    <3> QED BY <2>2, <2>3, <3>1, Zenon
  <2> QED BY <1>12, <2>1, <2>2, <2>4 DEF Dac!last_cb, Dac!Alone, Timely
<1>13. CASE Dac!single_cb
  <2>1. ~ failed /\ ~ late /\ cb = "single" /\ dma.run # "off" /\ ~ sem
        /\ dac_pc \in {"wait", "waitDone"} /\ UNCHANGED <<dac_pc, sem, file>> /\ cb' = "stop"
    BY <1>13, Zenon DEF Dac!single_cb, Dac!Irq, Dac!KeepsUp
  <2>2. dma.run = "tail" /\ dac_pc = "waitDone"
    BY <2>1 DEF DacControl, Converting
  <2>3. /\ dma.stage = 1
        /\ \/ heard = <<>> /\ dma.pieces = Final
           \/ heard = Upto(file.size - 1) /\ dma.pieces = <<file.size>> /\ ~ file.tiny
    BY <2>1, <2>2 DEF OnTime, Timely
  <2>4. heard' = heard
    <3>1. Dac!Converted = <<>> /\ heard \in Seq(Nat)
      BY <2>2, <2>3 DEF Dac!Converted, DacTypes
    <3> QED BY <1>13, <3>1 DEF Dac!single_cb, Dac!Irq
  <2>5. dma'.run = "tail" /\ dma'.stage = 2 /\ dma'.pieces = dma.pieces
    BY <1>13, <2>2, <2>3 DEF Dac!single_cb, Dac!Onward, DacTypes, Tails, Dac!Off, Dac!HalfOf
  <2>6. Final' = Final
    BY <2>1 DEF Final, Dac!EvenPieces
  <2>7. ~ sem'
    BY <2>1, Zenon
  <2> QED BY <2>1, <2>2, <2>3, <2>4, <2>5, <2>6, <2>7 DEF Timely
<1>14. CASE Dac!stop_cb
  <2>1. ~ failed /\ ~ late /\ cb = "stop" /\ dma.run # "off" /\ ~ sem
        /\ dac_pc \in {"wait", "waitDone"} /\ UNCHANGED <<dac_pc, file>> /\ sem' /\ dma' = Dac!Off
    BY <1>14, Zenon DEF Dac!stop_cb, Dac!Irq, Dac!KeepsUp
  <2>2. dac_pc = "waitDone" /\ dma'.run = "off"
    BY <2>1 DEF DacControl, Converting, Dac!Off
  <2>3. Final' = Final
    BY <2>1 DEF Final, Dac!EvenPieces
  <2>4. heard' = Final
    <3>1. CASE dma.run = "loop"
      \* What is left of the file is a single sample, which is dropped.
      <4>1. /\ file.size >= 3 /\ heard = Upto(file.size - 2) /\ halves[dma.half] = file.size - 1
            /\ file.tiny
        BY <2>1, <2>2, <3>1, <1>a DEF OnTime, Timely
      <4>2. heard' = heard \o <<file.size - 1>>
        BY <1>14, <1>a, <3>1, <4>1, IrqOnTime DEF Dac!stop_cb, Dac!Converted
      <4>3. heard' = Upto(file.size - 1)
        <5>1. Upto(file.size - 2) \o <<file.size - 1>> = Upto(file.size - 1)
          BY <1>a, <4>1, UptoLess
        <5> QED BY <4>1, <4>2, <5>1, Zenon
      <4> QED BY <1>a, <4>1, <4>3, EvenUpto DEF Final
    <3>2. CASE dma.run = "tail"
      <4>1. /\ dma.stage = 2
            /\ \/ heard = <<>> /\ dma.pieces = Final
               \/ heard = Upto(file.size - 1) /\ dma.pieces = <<file.size>> /\ ~ file.tiny
        BY <2>1, <2>2, <3>2 DEF OnTime, Timely
      <4>2. file.size > 0
        <5>1. PICK k \in 1 .. file.size : dma.pieces = Dac!EvenPieces([i \in 1 .. k |-> file.size - k + i])
          BY <3>2, Zenon DEF Dac!TailIsEnd
        <5> QED BY <1>a, <5>1
      <4>3. CASE heard = <<>> /\ dma.pieces = Final
        <5>1. heard' = heard \o Final
          <6>1. heard = Upto(0) /\ 0 <= file.size
            BY <1>a, <4>3, UptoZero
          <6>2. Dac!Converted = Final
            BY <3>2, <4>1, <4>3 DEF Dac!Converted
          <6>3. heard' = heard \o Dac!Converted
            BY <1>14, <6>1, IrqOnTime DEF Dac!stop_cb
          <6> QED BY <6>2, <6>3, Zenon
        <5>2. Final \in Seq(Nat)
          BY <3>2, <4>3
        <5> QED BY <4>3, <5>1, <5>2
      <4>4. CASE heard = Upto(file.size - 1) /\ dma.pieces = <<file.size>> /\ ~ file.tiny
        <5>1. heard' = heard \o <<file.size>>
          BY <1>14, <1>a, <3>2, <4>1, <4>2, <4>4, IrqOnTime DEF Dac!stop_cb, Dac!Converted
        <5>2. heard' = Upto(file.size)
          BY <1>a, <4>2, <4>4, <5>1, UptoLast
        <5> QED BY <1>a, <4>4, <5>2, EvenUpto DEF Final
      <4> QED BY <4>1, <4>3, <4>4
    <3> QED BY <2>1, <3>1, <3>2
  <2> QED BY <2>1, <2>2, <2>3, <2>4 DEF Timely
<1>15. CASE UNCHANGED dacvars
  BY <1>15 DEF dacvars, OnTime, Timely, Final, Dac!EvenPieces
<1> QED BY <1>0, <1>1, <1>2, <1>3, <1>4, <1>5, <1>6, <1>7, <1>8, <1>9, <1>10, <1>11, <1>12, <1>13,
           <1>14, <1>15 DEF Dac!Next, Dac!Thread, Dac!Interrupt

\* An interrupt that finds a thread that is not late leaves no signal behind.
LEMMA PunctualStep ==
  DacTypes /\ DacControl /\ Punctual /\ [Dac!Next]_dacvars => Punctual'
<1> SUFFICES ASSUME DacTypes, DacControl, Punctual, [Dac!Next]_dacvars, ~ late' PROVE
      /\ dac_pc' \in {"readPos", "fill", "last"} => ~ sem'
      /\ dac_pc' = "waitDone" => (sem' <=> dma'.run = "off")
      /\ dac_pc' = "stop" => dma'.run = "off"
      /\ dac_pc' # "halted"
  BY DEF Punctual
<1> USE DEF Punctual, DacControl, Converting
<1>0. ASSUME NEW f \in Dac!Files, Dac!Open(f) PROVE dac_pc' = "first"
  BY <1>0 DEF Dac!Open
<1>1. CASE Dac!Single
  BY <1>1 DEF Dac!Single, Dac!Alone
<1>2. CASE Dac!Continuous
  BY <1>2 DEF Dac!Continuous
<1>3. CASE Dac!FirstFails
  BY <1>3 DEF Dac!FirstFails
<1>4. CASE Dac!Wake
  BY <1>4 DEF Dac!Wake
<1>5. CASE Dac!ReadPos
  BY <1>5 DEF Dac!ReadPos
<1>6. CASE Dac!Fill
  BY <1>6 DEF Dac!Fill
<1>7. CASE Dac!FillFails
  BY <1>7 DEF Dac!FillFails
<1>8. CASE Dac!LastConversion
  BY <1>8 DEF Dac!LastConversion
<1>9. CASE Dac!Done
  BY <1>9 DEF Dac!Done
<1>10. CASE Dac!Stop
  BY <1>10 DEF Dac!Stop
<1>11. ASSUME NEW h, Dac!Irq(h) PROVE ~ late /\ ~ sem /\ dac_pc \in {"wait", "waitDone"}
  BY <1>11, Zenon DEF Dac!Irq, Dac!KeepsUp
<1>12. CASE Dac!continuous_cb
  <2>1. dac_pc = "wait" /\ dac_pc' = dac_pc
    BY <1>11, <1>12 DEF Dac!continuous_cb, Dac!Irq
  <2> QED BY <2>1
<1>13. CASE Dac!last_cb
  <2>1. ~ sem /\ sem' = sem /\ dac_pc' = dac_pc /\ dac_pc \in {"wait", "waitDone"}
    BY <1>11, <1>13, Zenon DEF Dac!last_cb
  <2>2. dma'.run = "tail"
    BY <1>13 DEF Dac!last_cb, Dac!Alone
  <2> QED BY <2>1, <2>2
<1>14. CASE Dac!single_cb
  <2>1. ~ sem /\ sem' = sem /\ dac_pc' = dac_pc /\ dac_pc \in {"wait", "waitDone"}
    BY <1>11, <1>14, Zenon DEF Dac!single_cb
  <2>2. dma'.run = "tail"
    BY <1>14 DEF Dac!single_cb, Dac!Irq, Dac!Onward, DacTypes, Dac!HalfOf, Dac!Off, Tails
  <2> QED BY <2>1, <2>2
<1>15. CASE Dac!stop_cb
  <2>1. sem' /\ dac_pc' = dac_pc /\ dac_pc \in {"wait", "waitDone"}
    BY <1>11, <1>15, Zenon DEF Dac!stop_cb
  <2>2. dma'.run = "off"
    BY <1>15 DEF Dac!stop_cb, Dac!Off
  <2> QED BY <2>1, <2>2
<1>16. CASE UNCHANGED dacvars
  BY <1>16 DEF dacvars
<1> QED BY <1>0, <1>1, <1>2, <1>3, <1>4, <1>5, <1>6, <1>7, <1>8, <1>9, <1>10, <1>12, <1>13, <1>14,
           <1>15, <1>16 DEF Dac!Next, Dac!Thread, Dac!Interrupt

\* The audio driver keeps DacInv.
LEMMA DacInvariance == SoundsSpec => []DacInv
<1>1. SoundsInit => DacInv
  BY DacInit DEF SoundsInit
<1>2. DacInv /\ [SoundsNext]_<<part, vars, dacvars, playvars>> => DacInv'
  <2> SUFFICES ASSUME DacInv, [SoundsNext]_<<part, vars, dacvars, playvars>> PROVE DacInv'
    OBVIOUS
  <2>1. [Dac!Next]_dacvars
    BY DEF SoundsNext
  <2> QED BY <2>1, DacTypesStep, DacControlStep, TailStep, OnTimeStep, PunctualStep DEF DacInv
<1> QED BY <1>1, <1>2, PTL DEF SoundsSpec

\* For files of every size and any number of sounds: what is converted last is an end of
\* the file, also when the thread was late or a read failed.
THEOREM TailsAreEnds == SoundsSpec => []TailIsEnd
<1>1. DacInv => TailIsEnd
  BY DEF DacInv, DacTypes, TailIsEnd
<1> QED BY <1>1, DacInvariance, PTL

\* For files of every size: a sound that was read without an error by a thread that was
\* waiting at each interrupt is converted completely and in order, each piece once; and
\* only a thread that was late can call dacStop during a conversion and halt the robot.
THEOREM SoundsHeard == SoundsSpec => []AllHeard
<1>1. DacInv => AllHeard
  <2>1. ASSUME DacInv, dac_pc = "idle", plays > 0, ~ failed, ~ late
        PROVE  heard = Dac!EvenPieces(Dac!AllPieces)
    BY <2>1 DEF DacInv, OnTime, Timely, Final, Upto, Dac!AllPieces
  <2>2. ASSUME DacInv, dac_pc = "halted" PROVE late
    BY <2>2 DEF DacInv, Punctual
  <2> QED BY <2>1, <2>2, Zenon DEF AllHeard, Dac!AllHeard
<1> QED BY <1>1, DacInvariance, PTL
=============================================================================
