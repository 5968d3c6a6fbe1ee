---------------------------- MODULE AsebaVariables ----------------------------
(***************************************************************************)
(* The variables of the Aseba VM and the system (aseba_vm/skel_user.c):    *)
(* each turn of the VM thread copies the system into the variables, runs   *)
(* the script, and writes back what the script changed.  The VM thread is  *)
(* of the lowest priority: other threads change the system between any     *)
(* two of its steps.                                                       *)
(***************************************************************************)
EXTENDS Integers

CONSTANTS
  Wheels, Leds, Params,
  Inputs,      \* [pwm, current, velocity, position, led, param]: values a script gives its variables
  Setpoints,   \* contents of "/motors/setpoint" that other threads publish
  Parameters,  \* values other threads give a parameter, in thousandths
  Garbage,     \* what an uninitialised message on the stack can hold
  Lossy        \* whole numbers of thousandths that a float cannot hold and rounds towards zero

VARIABLES
  setpoint,   \* "/motors/setpoint": mode ("none": not published yet), and per wheel
              \* thousandths of A, rad/s or rad
  duty, led, param,   \* PWM duty cycles, "/body_leds/%d", the parameters of the controllers
  vm,         \* vmVariables
  previous,   \* previous_vars
  pc,         \* where the VM thread is
  touched     \* history: variables that the script changed in this turn

system == <<setpoint, duty, led, param>>
vars == <<setpoint, duty, led, param, vm, previous, pc, touched>>

Groups == {"pwm", "current", "velocity", "position", "led", "param"}
Modes == {"current", "velocity", "position"}
Index(g) == CASE g = "led" -> Leds [] g = "param" -> Params [] OTHER -> Wheels

Sint16(x) == ((x + 32768) % 65536) - 32768
Sign(x) == IF x < 0 THEN -1 ELSE IF x > 0 THEN 1 ELSE 0
Magnitude(x) == IF x < 0 THEN -x ELSE x

\* A float read back as an integer number of thousandths.
Thousandths(x) == Sint16(IF Magnitude(x) \in Lossy THEN x - Sign(x) ELSE x)

\* Degrees as thousandths of a radian, with the firmware's 3.14, rounded towards zero.
MilliRad(deg) == Sign(deg) * ((3140 * Magnitude(deg)) \div 180)

VM_VAR_CHANGED(g, i) == vm[g][i] # previous[g][i]
Changed(g) == \E i \in Index(g) : VM_VAR_CHANGED(g, i)

-----------------------------------------------------------------------------
(* Other threads: shell commands setpoint, leds and config_set, and the     *)
(* motor PID thread.                                                        *)

OtherThread ==
  /\ \/ \E s \in Setpoints : setpoint' = s /\ UNCHANGED <<duty, led, param>>
     \/ led' = [l \in Leds |-> 100] /\ UNCHANGED <<setpoint, duty, param>>
     \/ \E p \in Params, x \in Parameters : param' = [param EXCEPT ![p] = x] /\ UNCHANGED <<setpoint, duty, led>>
     \/ \E w \in Wheels, x \in Inputs.pwm : duty' = [duty EXCEPT ![w] = x] /\ UNCHANGED <<setpoint, led, param>>
  /\ UNCHANGED <<vm, previous, pc, touched>>

-----------------------------------------------------------------------------
(* aseba_read_variables_from_system                                         *)

\* The result of messagebus_topic_read is not looked at: before the first publication
\* the message is whatever was on the stack.
ReadSetpoint ==
  /\ pc = "read"
  /\ \E msg \in IF setpoint.mode = "none" THEN [Wheels -> Garbage] ELSE {setpoint.of} :
       vm' = [vm EXCEPT !.current = [w \in Wheels |-> Thousandths(msg[w])]]
  /\ pc' = "readParams"
  /\ UNCHANGED <<setpoint, duty, led, param, previous, touched>>

\* Mutant: the copy is taken before the parameters are read.
MutReadParams ==
  /\ pc = "readParams"
  /\ vm' = [vm EXCEPT !.param = [p \in Params |-> Thousandths(param[p])]]
  /\ previous' = vm
  /\ pc' = "script"
  /\ UNCHANGED <<system, touched>>

\* READ_PARAM_TO_VM of every parameter, then the copy of vmVariables.
ReadParams ==
  /\ pc = "readParams"
  /\ vm' = [vm EXCEPT !.param = [p \in Params |-> Thousandths(param[p])]]
  /\ previous' = vm'
  /\ pc' = "script"
  /\ UNCHANGED <<system, touched>>

-----------------------------------------------------------------------------
(* AsebaVMRun and AsebaProcessIncomingEvents.                               *)

\* The script, or a debugger's message, changes one variable ...
Assign(g, i, x) ==
  /\ pc = "script"
  /\ vm' = [vm EXCEPT ![g][i] = x]
  /\ touched' = IF x # vm[g][i] THEN touched \cup {<<g, i>>} ELSE touched
  /\ UNCHANGED <<system, previous, pc>>

\* ... or resets the VM ...
AsebaVMResetCB ==
  /\ pc = "script"
  /\ vm' = [vm EXCEPT !.pwm = [w \in Wheels |-> 0], !.led = [l \in Leds |-> 0]]
  /\ touched' = touched \cup {v \in ({"pwm"} \X Wheels) \cup ({"led"} \X Leds) : vm[v[1]][v[2]] # 0}
  /\ UNCHANGED <<system, previous, pc>>

\* ... and the slice ends.
EndSlice ==
  /\ pc = "script" /\ pc' = "pwm"
  /\ UNCHANGED <<system, vm, previous, touched>>

-----------------------------------------------------------------------------
(* aseba_write_variables_to_system                                          *)

WritePwm ==
  /\ pc = "pwm"
  /\ duty' = [w \in Wheels |-> IF VM_VAR_CHANGED("pwm", w) THEN vm.pwm[w] ELSE duty[w]]
  /\ pc' = "current"
  /\ UNCHANGED <<setpoint, led, param, vm, previous, touched>>

\* What a setpoint variable stands for in the topic.
Convert(mode, x) == IF mode = "current" THEN x ELSE MilliRad(x)
Following == [current |-> "velocity", velocity |-> "position", position |-> "led"]

\* A change of one wheel's variable publishes both wheels.
WriteSetpoint ==
  /\ pc \in Modes
  /\ setpoint' = IF Changed(pc) THEN [mode |-> pc, of |-> [w \in Wheels |-> Convert(pc, vm[pc][w])]]
                 ELSE setpoint
  /\ pc' = Following[pc]
  /\ UNCHANGED <<duty, led, param, vm, previous, touched>>

WriteLeds ==
  /\ pc = "led"
  /\ led' = [l \in Leds |-> IF VM_VAR_CHANGED("led", l) THEN vm.led[l] ELSE led[l]]
  /\ pc' = "param"
  /\ UNCHANGED <<setpoint, duty, param, vm, previous, touched>>

\* WRITE_PARAM_FROM_VM of every parameter.
WriteParams ==
  /\ pc = "param"
  /\ param' = [p \in Params |-> IF VM_VAR_CHANGED("param", p) THEN vm.param[p] ELSE param[p]]
  /\ pc' = "read" /\ touched' = {}
  /\ UNCHANGED <<setpoint, duty, led, vm, previous>>

-----------------------------------------------------------------------------

VmThread ==
  \/ ReadSetpoint \/ ReadParams
  \/ \E g \in Groups : \E i \in Index(g), x \in Inputs[g] : Assign(g, i, x)
  \/ AsebaVMResetCB \/ EndSlice
  \/ WritePwm \/ WriteSetpoint \/ WriteLeds \/ WriteParams

Zero(S) == [i \in S |-> 0]
Init ==
  /\ setpoint = [mode |-> "none", of |-> Zero(Wheels)]
  /\ duty = Zero(Wheels) /\ led = Zero(Leds) /\ param \in [Params -> Parameters]
  /\ vm = [g \in Groups |-> Zero(Index(g))] /\ previous = vm
  /\ pc = "read" /\ touched = {}

Next == OtherThread \/ VmThread
Spec == Init /\ [][Next]_vars

-----------------------------------------------------------------------------

\* "This is allows setting the PWM from C without Aseba interfering": whatever other
\* threads do between reading and writing, and although parameters and setpoints do
\* not survive the conversion to variables, the VM thread changes nothing in the
\* system but what the script changed in this turn.
NoInterference ==
  [][pc' # pc =>
       /\ setpoint' # setpoint => \E w \in Wheels : <<setpoint'.mode, w>> \in touched
       /\ \A w \in Wheels : duty'[w] # duty[w] => <<"pwm", w>> \in touched
       /\ \A l \in Leds : led'[l] # led[l] => <<"led", l>> \in touched
       /\ \A p \in Params : param'[p] # param[p] => <<"param", p>> \in touched]_vars

\* What makes NoInterference hold: from the copy on, a variable differs from its copy
\* only if the script changed it.
Tracked ==
  pc \notin {"read", "readParams"} =>
    \A g \in Groups : \A i \in Index(g) : VM_VAR_CHANGED(g, i) => <<g, i>> \in touched
===============================================================================
