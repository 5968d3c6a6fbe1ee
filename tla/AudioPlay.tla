------------------------------ MODULE AudioPlay ------------------------------
(***************************************************************************)
(* Requests to play a sound: the audio thread (audio/audio_thread.c), the  *)
(* shell command "play" (cmd.c), the Aseba native sound.play and the       *)
(* thread that turns results into Aseba events (aseba_vm/skel_user.c).     *)
(*                                                                         *)
(* A topic of the message bus has one buffer (TOPIC_DECL, main.h).  A      *)
(* publication overwrites it and makes the waiting threads ready; each     *)
(* copies the buffer when it gets to run.  What is published while nobody  *)
(* waits wakes nobody.  The audio thread and the Aseba VM run at LOWPRIO:  *)
(* never while the shell or the event thread, at NORMALPRIO, can run, and  *)
(* in any order between them.                                              *)
(***************************************************************************)
EXTENDS Integers

CONSTANT MaxRequests    \* bound: number of requests

ConstantsOK == MaxRequests \in Nat

VARIABLES
  audio,     \* audio thread: "waiting", "woken" (ready to copy the request), "playing"
             \* or "done" (result published)
  buffer,    \* request in the buffer of /audio/play/request
  current,   \* request the audio thread serves
  shell,     \* shell: "prompt", "asked" (request published) or "waiting"
  mine,      \* last request of the shell
  taken,     \* history: the audio thread was woken for it, or about to copy the buffer
  replaced,  \* history: another request overwrote it before the audio thread copied it
  reply,     \* request whose result the shell was told, 0 if none
  evt,       \* aseba_audio_thd: "waiting", or the status it has to report
  flags,     \* sound bits of events_flags
  requests,  \* requests published; they are numbered in order
  results,   \* history: results published
  noticed    \* history: results that aseba_audio_thd has seen

vars == <<audio, buffer, current, shell, mine, taken, replaced, reply, evt, flags, requests,
          results, noticed>>

Statuses == {"AUDIO_OK", "AUDIO_FILE_NOT_FOUND", "AUDIO_WAV_DECODE"}
EventOf(status) ==
  IF status = "AUDIO_OK" THEN "EVENT_SOUND_PLAY_FINISHED" ELSE "EVENT_SOUND_ERROR"

\* Mutant: the audio thread at the same priority as the others.
MutLowRuns == TRUE

\* A LOWPRIO thread can run.
LowRuns == shell # "asked" /\ evt = "waiting"

\* messagebus_topic_publish on /audio/play/request: the buffer is overwritten, and the
\* audio thread becomes ready if it is waiting in messagebus_topic_wait.
PublishRequest ==
  /\ requests < MaxRequests
  /\ requests' = requests + 1 /\ buffer' = requests + 1
  /\ audio' = IF audio = "waiting" THEN "woken" ELSE audio
  /\ UNCHANGED current

\* cmd_play publishes ...
Play ==
  /\ shell = "prompt"
  /\ PublishRequest
  /\ mine' = requests + 1 /\ taken' = (audio \in {"waiting", "woken"}) /\ replaced' = FALSE
  /\ shell' = "asked"
  /\ UNCHANGED <<reply, evt, flags, results, noticed>>

\* Mutant: the last result is read instead of waiting for the next one.
MutAwaitResult ==
  /\ shell = "asked" /\ shell' = "prompt"
  /\ UNCHANGED <<audio, buffer, current, mine, taken, replaced, reply, evt, flags, requests,
                 results, noticed>>

\* ... and waits for the next result.
AwaitResult ==
  /\ shell = "asked" /\ shell' = "waiting"
  /\ UNCHANGED <<audio, buffer, current, mine, taken, replaced, reply, evt, flags, requests,
                 results, noticed>>

\* AsebaNative_sound_play, in the VM thread.
SoundPlay ==
  /\ LowRuns
  /\ PublishRequest
  /\ replaced' = (replaced \/ (audio = "woken" /\ buffer = mine))
  /\ UNCHANGED <<shell, mine, taken, reply, evt, flags, results, noticed>>

\* The audio thread runs again and messagebus_topic_wait copies the buffer.
TakeRequest ==
  /\ audio = "woken" /\ LowRuns
  /\ audio' = "playing" /\ current' = buffer
  /\ UNCHANGED <<buffer, shell, mine, taken, replaced, reply, evt, flags, requests, results,
                 noticed>>

\* Mutant: a file that is not found ends the thread without a result.
MutFinish(status) ==
  /\ audio = "playing" /\ LowRuns
  /\ IF status = "AUDIO_FILE_NOT_FOUND"
     THEN audio' = "exited" /\ UNCHANGED <<results, shell, reply, evt>>
     ELSE /\ audio' = "done" /\ results' = results + 1
          /\ shell' = (IF shell = "waiting" THEN "prompt" ELSE shell)
          /\ reply' = (IF shell = "waiting" THEN current ELSE reply)
          /\ evt' = (IF evt = "waiting" THEN status ELSE evt)
  /\ UNCHANGED <<buffer, current, mine, taken, replaced, flags, requests, noticed>>

\* The file is not found, not a WAV file, or played to its end (or to an error);
\* the thread publishes a result and goes back to its wait later.
Finish(status) ==
  /\ audio = "playing" /\ LowRuns
  /\ audio' = "done" /\ results' = results + 1
  /\ IF shell = "waiting" THEN shell' = "prompt" /\ reply' = current
     ELSE UNCHANGED <<shell, reply>>
  /\ IF evt = "waiting" THEN evt' = status ELSE UNCHANGED evt
  /\ UNCHANGED <<buffer, current, mine, taken, replaced, flags, requests, noticed>>

AwaitRequest ==
  /\ audio = "done" /\ LowRuns
  /\ audio' = "waiting"
  /\ UNCHANGED <<buffer, current, shell, mine, taken, replaced, reply, evt, flags, requests,
                 results, noticed>>

\* aseba_audio_thd sets the event and waits for the next result.
SetEvent ==
  /\ evt # "waiting"
  /\ flags' = flags \cup {EventOf(evt)}
  /\ noticed' = noticed + 1 /\ evt' = "waiting"
  /\ UNCHANGED <<audio, buffer, current, shell, mine, taken, replaced, reply, requests, results>>

\* The Aseba VM takes an event.
TakeEvent(e) ==
  /\ e \in flags /\ LowRuns
  /\ flags' = flags \ {e}
  /\ UNCHANGED <<audio, buffer, current, shell, mine, taken, replaced, reply, evt, requests,
                 results, noticed>>

Init ==
  /\ audio = "waiting" /\ buffer = 0 /\ current = 0
  /\ shell = "prompt" /\ mine = 0 /\ taken = FALSE /\ replaced = FALSE /\ reply = 0
  /\ evt = "waiting" /\ flags = {}
  /\ requests = 0 /\ results = 0 /\ noticed = 0

AudioThread == TakeRequest \/ (\E s \in Statuses : Finish(s)) \/ AwaitRequest
Next ==
  \/ Play \/ AwaitResult \/ SoundPlay \/ AudioThread \/ SetEvent
  \/ \E e \in flags : TakeEvent(e)

\* Every thread that can run runs; a user need not type anything.
Spec ==
  Init /\ [][Next]_vars /\ WF_vars(AwaitResult) /\ WF_vars(AudioThread) /\ WF_vars(SetEvent)

-----------------------------------------------------------------------------

\* No result is missed by Aseba: although a topic keeps only its last value, each
\* result published by the audio thread becomes an event.
NoMissedResult == results = noticed + (IF evt = "waiting" THEN 0 ELSE 1)

\* "Wait for the reply": "play" is told the result of its own request, however often the
\* shell is preempted, if the audio thread was waiting when the request was published, but
\* for one case: the VM runs before the woken audio thread and its sound.play overwrites
\* the request in the topic.  Then the shell is told the result of that later request;
\* never is it told one of a request before its own.
ReplyMatches ==
  shell = "prompt" /\ taken => reply = mine \/ (replaced /\ reply > mine)

\* A request that woke the audio thread brings the shell back to the prompt, whether the
\* file can be played or not and also when another request replaced it.
PlayReturns == shell # "prompt" /\ taken ~> shell = "prompt"
==============================================================================
