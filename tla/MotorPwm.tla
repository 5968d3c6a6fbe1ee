------------------------------- MODULE MotorPwm --------------------------------
(***************************************************************************)
(* The two phases of each motor's bridge (motor_pwm.c) and the two threads *)
(* that set them without a lock: the control loop (motor_pid_thread.c,     *)
(* NORMALPRIO), which sets both motors in every period, and the Aseba VM   *)
(* (skel_user.c, LOWPRIO), which sets one when its pwm variable changes.   *)
(* A duty cycle takes two writes; the control loop preempts the VM between *)
(* them.  Duty cycles are in percent.                                      *)
(***************************************************************************)
EXTENDS Integers

CONSTANT Duties    \* duty cycles that the two threads ask for

ConstantsOK == Duties \subseteq Int

VARIABLES
  bridge,    \* bridge[w]: widths of phases A and B
  inverted,  \* is_inverted parameter of each motor
  vm,        \* the call of the VM: motor, duty cycle, writes left
  split      \* history: a period fell between the two writes of the VM's call

vars == <<bridge, inverted, vm, split>>

Motors == {"left", "right"}
PWM_CYCLE == 2000
PWM_LIMIT == 99
NoCall == [motor |-> "left", duty |-> 0, left |-> 0]

clamp(d) == IF d > PWM_LIMIT THEN PWM_LIMIT ELSE IF d < -PWM_LIMIT THEN -PWM_LIMIT ELSE d

\* What is left of the duty cycle when the phases are chosen.
Signed(w, d) == IF inverted[w] THEN -clamp(d) ELSE clamp(d)

Width(d) == (PWM_CYCLE * d) \div 100

\* The two calls of pwmEnableChannel.
PhaseA(b, d) == [b EXCEPT !.A = IF d <= 0 THEN 0 ELSE Width(d)]

\* Mutant: the phase that must not drive is left as it is.
MutPhaseB(b, d) == [b EXCEPT !.B = IF d <= 0 THEN Width(-d) ELSE @]
PhaseB(b, d) == [b EXCEPT !.B = IF d <= 0 THEN Width(-d) ELSE 0]

-----------------------------------------------------------------------------
(* aseba_write_variables_to_system.                                        *)

vm_pwm_set(w, d) ==
  /\ vm.left = 0
  /\ vm' = [motor |-> w, duty |-> Signed(w, d), left |-> 2]
  /\ UNCHANGED <<bridge, inverted, split>>

vm_phase_a ==
  /\ vm.left = 2 /\ vm' = [vm EXCEPT !.left = 1]
  /\ bridge' = [bridge EXCEPT ![vm.motor] = PhaseA(@, vm.duty)]
  /\ UNCHANGED <<inverted, split>>

vm_phase_b ==
  /\ vm.left = 1 /\ vm' = NoCall
  /\ bridge' = [bridge EXCEPT ![vm.motor] = PhaseB(@, vm.duty)]
  /\ UNCHANGED <<inverted, split>>

-----------------------------------------------------------------------------
(* One period of motor_pid_thd: left_wheel_voltage_set and                 *)
(* right_wheel_voltage_set.                                                *)

Set(w, d) == PhaseB(PhaseA(bridge[w], d), d)

pid_period(duty) ==
  /\ bridge' = [w \in Motors |-> Set(w, Signed(w, duty[w]))]
  /\ split' = [w \in Motors |-> vm.left = 1 /\ vm.motor = w]
  /\ UNCHANGED <<inverted, vm>>

\* The parameter is changed.
set_inverted(w) ==
  /\ inverted' = [inverted EXCEPT ![w] = ~ @]
  /\ UNCHANGED <<bridge, vm, split>>

Init ==
  /\ bridge = [w \in Motors |-> [A |-> 0, B |-> 0]]
  /\ inverted = [w \in Motors |-> FALSE]
  /\ vm = NoCall /\ split = [w \in Motors |-> FALSE]

Next ==
  \/ \E w \in Motors, d \in Duties : vm_pwm_set(w, d)
  \/ vm_phase_a \/ vm_phase_b
  \/ \E duty \in [Motors -> Duties] : pid_period(duty)
  \/ \E w \in Motors : set_inverted(w)

Spec == Init /\ [][Next]_vars

-----------------------------------------------------------------------------

\* "Clamp the value between -PWM_LIMIT and PWM_LIMIT": no phase is on for a whole cycle.
TypeOK ==
  /\ bridge \in [Motors -> [A : 0 .. Width(PWM_LIMIT), B : 0 .. Width(PWM_LIMIT)]]
  /\ inverted \in [Motors -> BOOLEAN]
  /\ vm \in [motor : Motors, duty : -PWM_LIMIT .. PWM_LIMIT, left : 0 .. 2]
  /\ split \in [Motors -> BOOLEAN]

\* Both phases of a motor drive at once only while the VM is between its two writes, or
\* after a period of the control loop fell between them; the next period ends it.
Crossed(w) == bridge[w].A > 0 /\ bridge[w].B > 0
CrossedBySplit == \A w \in Motors : Crossed(w) => (vm.left = 1 /\ vm.motor = w) \/ split[w]
================================================================================
