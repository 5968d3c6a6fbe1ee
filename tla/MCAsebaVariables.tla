--------------------------- MODULE MCAsebaVariables ---------------------------
(***************************************************************************)
(* What the VM thread writes to the system: one turn of its loop against   *)
(* every other thread (AsebaVariables), and, in other behaviours of the    *)
(* same run, the writes of one duty cycle against the control loop         *)
(* (MotorPwm).  The two models share no state.                             *)
(***************************************************************************)
EXTENDS AsebaVariables, FiniteSets

CONSTANTS
  MaxTouched,  \* bound: variables changed in one turn
  Duties       \* duty cycles that the two threads ask for

\* Values a script gives to its variables; positions are converted like velocities.
MCInputs == [pwm |-> {50}, current |-> {5}, velocity |-> {10}, position |-> {}, led |-> {30}, param |-> {7}]
MCSetpoints ==
  {[mode |-> m, of |-> [left |-> 5, right |-> 0]] : m \in {"current", "velocity"}}
\* 5 thousandths, which a float does not hold exactly, and ki = 40, which overflows.
MCParameters == {5, 40000}
MCWheels == {"left", "right"}

\* Beyond the limit, no drive, within the limit.
MCDuties == {-120, 0, 40}

VARIABLES part, bridge, inverted, call, split

pwmvars == <<bridge, inverted, call, split>>
Pwm == INSTANCE MotorPwm WITH vm <- call

ASSUME PwmAssumption == Pwm!ConstantsOK

VmInit ==
  /\ part \in {"variables", "pwm"} /\ Init /\ Pwm!Init
  /\ part # "variables" => \A p \in Params : param[p] = 5

VmNext ==
  \/ part = "variables" /\ Next /\ UNCHANGED <<part, pwmvars>>
  \/ part = "pwm" /\ Pwm!Next /\ UNCHANGED <<part, vars>>

VmSpec == VmInit /\ [][VmNext]_<<part, vars, pwmvars>>

Bound == Cardinality(touched) <= MaxTouched

\* Both phases drive at once only by way of the two writes of the VM's call (pwm_set), and
\* the widths stay within the clamp.
CrossedBySplit == Pwm!TypeOK /\ Pwm!CrossedBySplit
===============================================================================
