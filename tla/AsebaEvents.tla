----------------------------- MODULE AsebaEvents -----------------------------
(***************************************************************************)
(* Local events of Aseba: one thread per sensor topic and a timer          *)
(* interrupt set bits of events_flags (aseba_vm/skel_user.c), the VM       *)
(* thread takes the lowest bit when no handler is active                   *)
(* (aseba_vm/aseba_node.c).  The VM thread runs at LOWPRIO, the event      *)
(* threads at NORMALPRIO: the VM never runs while one of them can.         *)
(***************************************************************************)
EXTENDS Integers, FiniteSets

CONSTANTS
  Sensors,   \* events that stand for a publication on a topic
  Timer      \* the event of the virtual timer

Events == Sensors \cup {Timer}      \* bit numbers of events_flags
None == -1                          \* ffs(0) - 1, and no active handler
Remote == -2                        \* handler of an event that came over CAN

ASSUME EventsAssumption == Sensors \subseteq Nat /\ Timer \in Nat \ Sensors

VARIABLES
  thread,    \* event thread of each sensor: "wait", "woken", or "set" (flag set, not back at its wait)
  flags,     \* events_flags
  pc,        \* where the VM thread is in its loop
  event,     \* bit found by ffs
  active,    \* event the VM executes (ASEBA_VM_EVENT_ACTIVE_MASK), or None
  fresh,     \* TRUE until the active handler has run for the first time
  stepping,  \* ASEBA_VM_STEP_BY_STEP_MASK
  unread,    \* history: sensors published since the VM read its variables
  unhandled  \* history: sensors with a publication that no handler has worked on

vars == <<thread, flags, pc, event, active, fresh, stepping, unread, unhandled>>

\* Mutant: the event threads at LOWPRIO.
MutLowRuns == TRUE

\* A LOWPRIO thread can run.
LowRuns == \A s \in Sensors : thread[s] = "wait"

-----------------------------------------------------------------------------
(* The event threads and the timer.                                         *)

\* A sensor thread publishes; the event thread wakes up if it is at its wait.
Publish(s) ==
  /\ thread' = [thread EXCEPT ![s] = IF @ = "wait" THEN "woken" ELSE @]
  /\ unread' = unread \cup {s} /\ unhandled' = unhandled \cup {s}
  /\ UNCHANGED <<flags, pc, event, active, fresh, stepping>>

SetEvent(s) ==
  /\ thread[s] = "woken"
  /\ thread' = [thread EXCEPT ![s] = "set"]
  /\ flags' = flags \cup {s}
  /\ UNCHANGED <<pc, event, active, fresh, stepping, unread, unhandled>>

WaitAgain(s) ==
  /\ thread[s] = "set"
  /\ thread' = [thread EXCEPT ![s] = "wait"]
  /\ UNCHANGED <<flags, pc, event, active, fresh, stepping, unread, unhandled>>

aseba_timer_cb ==
  /\ flags' = flags \cup {Timer}
  /\ UNCHANGED <<thread, pc, event, active, fresh, stepping, unread, unhandled>>

-----------------------------------------------------------------------------
(* The loop of aseba_vm_thd.                                                *)

ReadVariables ==
  /\ pc = "read" /\ LowRuns
  /\ unread' = {} /\ pc' = "run"
  /\ UNCHANGED <<thread, flags, event, active, fresh, stepping, unhandled>>

\* AsebaVMRun executes up to 1000 instructions of the active handler, if any; in
\* step by step mode it waits for the debugger.
Run(ends) ==
  /\ pc = "run" /\ LowRuns
  /\ IF active # None /\ ~ stepping
     THEN /\ unhandled' = unhandled \ ({active} \ unread)
          /\ fresh' = FALSE
          /\ active' = IF ends THEN None ELSE active
     ELSE UNCHANGED <<unhandled, fresh, active>>
  /\ pc' = "incoming"
  /\ UNCHANGED <<thread, flags, event, stepping, unread>>

\* AsebaProcessIncomingEvents: an event of another node replaces the active
\* handler, a debugger starts or ends stepping.  Then the variables are written.
Incoming(a, s) ==
  /\ pc = "incoming" /\ LowRuns
  /\ a \in {active, Remote}
  /\ active' = a /\ stepping' = s
  /\ fresh' = (fresh /\ a = active)
  /\ pc' = IF s \/ a # None THEN "read" ELSE "ffs"
  /\ UNCHANGED <<thread, flags, event, unread, unhandled>>

\* ffs, in a critical section of its own.
FindEvent ==
  /\ pc = "ffs" /\ LowRuns
  /\ event' = IF flags = {} THEN None ELSE CHOOSE e \in flags : \A d \in flags : e <= d
  /\ pc' = IF flags = {} THEN "read" ELSE "clear"
  /\ UNCHANGED <<thread, flags, active, fresh, stepping, unread, unhandled>>

\* CLEAR_EVENT, then AsebaVMSetupEvent.
ClearEvent ==
  /\ pc = "clear" /\ LowRuns
  /\ flags' = flags \ {event}
  /\ active' = event /\ fresh' = TRUE /\ pc' = "read"
  /\ UNCHANGED <<thread, event, stepping, unread, unhandled>>

VmThread ==
  \/ ReadVariables
  \/ \E ends \in BOOLEAN : Run(ends)
  \/ \E a \in {active, Remote}, s \in BOOLEAN : Incoming(a, s)
  \/ FindEvent \/ ClearEvent

\* AsebaVMSetupEvent(ASEBA_EVENT_INIT) before the loop.
Init ==
  /\ thread = [s \in Sensors |-> "wait"] /\ flags = {}
  /\ pc = "read" /\ event = None /\ active = Remote /\ fresh = TRUE /\ stepping = FALSE
  /\ unread = Sensors /\ unhandled = {}

Next ==
  \/ \E s \in Sensors : Publish(s) \/ SetEvent(s) \/ WaitAgain(s)
  \/ aseba_timer_cb
  \/ VmThread

Spec == Init /\ [][Next]_vars

-----------------------------------------------------------------------------

TypeOK ==
  /\ thread \in [Sensors -> {"wait", "woken", "set"}]
  /\ flags \subseteq Events
  /\ pc \in {"read", "run", "incoming", "ffs", "clear"}
  /\ event \in Events \cup {None}
  /\ active \in Events \cup {None, Remote}
  /\ fresh \in BOOLEAN /\ stepping \in BOOLEAN
  /\ unread \subseteq Sensors /\ unhandled \subseteq Sensors

\* No measurement is lost: one that no handler has worked on with variables at
\* least as new has its event on the way, although events coalesce, topics keep
\* one value, and ffs and CLEAR_EVENT are two critical sections.
OnTheWay(s) ==
  \/ thread[s] = "woken" \/ s \in flags
  \/ pc = "clear" /\ event = s
  \/ active = s /\ fresh
NoLostEvent == \A s \in unhandled : OnTheWay(s)

\* What makes it inductive: between ffs and CLEAR_EVENT nothing is active; a thread
\* that has set its flag and is not back at its wait keeps the VM from taking it;
\* what is published between reading the variables and running the handler is
\* announced again; a new handler runs before anything can replace it.
Idle == pc \in {"ffs", "clear"} => active = None /\ ~ stepping
SetIsFlagged == \A s \in Sensors : thread[s] = "set" => s \in flags
Announced == pc = "run" => \A s \in unread : thread[s] = "woken" \/ s \in flags \/ s \notin unhandled
RunsFirst == fresh /\ (stepping \/ pc = "incoming") => active \notin Sensors
EventInv == NoLostEvent /\ Idle /\ SetIsFlagged /\ Announced /\ RunsFirst
==============================================================================
