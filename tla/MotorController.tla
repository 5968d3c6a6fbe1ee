--------------------------- MODULE MotorController ---------------------------
(***************************************************************************)
(* The cascaded controller of one wheel (motor_controller.c) and the       *)
(* control loop that drives it (motor_pid_thread.c).                       *)
(*                                                                         *)
(* The unit of time is the control period (1 ms); the velocity and         *)
(* position loops run every Dv and Dp periods.  Positions, velocities and  *)
(* accelerations are integers in consistent units, and the arithmetic is   *)
(* exact: an acceleration acc applied for Dp periods is represented by the *)
(* velocity change acc * Dp it causes.  The PID filters are a library:     *)
(* their outputs are arbitrary members of PidOut.                          *)
(***************************************************************************)
EXTENDS Integers

CONSTANTS
  Dv, Dp,      \* dividers of the velocity and position loops
  MaxAcc,      \* limits/acceleration, per control period
  MaxVel,      \* limits/velocity
  MaxCur,      \* limits/current
  Positions,   \* wheel positions the encoders may report
  Velocities,  \* wheel velocities the encoders may report
  Setpoints,   \* values a setpoint message may carry
  Modes,       \* modes a setpoint message may ask for
  PidOut,      \* outputs of the PID filters
  MaxMsgs      \* bound: number of setpoint messages

CURRENT == 0
VELOCITY == 1
POSITION == 2

ASSUME DividersAssumption == Dv \in Nat \ {0} /\ Dp \in Nat \ {0} /\ Dp % 2 = 0
ASSUME LimitsAssumption ==
  MaxAcc \in Nat \ {0} /\ MaxVel \in Nat /\ MaxCur \in Nat /\ MaxMsgs \in Nat
ASSUME InputsAssumption ==
  /\ Positions \subseteq Int /\ Velocities \subseteq Int /\ Setpoints \subseteq Int
  /\ PidOut \subseteq Int
  /\ Modes \subseteq {CURRENT, VELOCITY, POSITION}

VARIABLES
  c,       \* the motor_controller_t of the wheel
  wheel,   \* measured position and velocity of the wheel
  msg,     \* latest message on /motors/setpoint, or NoMsg
  age,     \* history: periods since c.velSp was computed, capped at Dp
  msgs     \* setpoint messages so far

vars == <<c, wheel, msg, age, msgs>>

NoMsg == [mode |-> -1, value |-> 0]
Messages == [mode : Modes, value : Setpoints]

Abs(x) == IF x < 0 THEN -x ELSE x
Sign(x) == IF x < 0 THEN -1 ELSE 1            \* copysignf(1.0, x)

-----------------------------------------------------------------------------
(* The functions of motor_controller.c.                                    *)

limit_symmetric(value, limit) ==
  IF value > limit THEN limit ELSE IF value < -limit THEN -limit ELSE value

\* Velocity change of the next Dp periods.  The braking distance comparisons
\* are multiplied out: |error| <= vel^2 / 2 / max_acc, |error| <= max_acc dt^2 / 2.
CanStop(error, vel) == 2 * MaxAcc * Abs(error) <= vel * vel
VeryClose(error) == 2 * Abs(error) <= MaxAcc * Dp * Dp
Brake(vel) == - limit_symmetric(vel, MaxAcc * Dp)

\* Mutants: no cruising at the velocity limit; cruising decided before braking.
MutNoCruise(pos, vel, target) ==
  LET error == pos - target
  IN IF VeryClose(error) \/ (Sign(error) # Sign(vel) /\ CanStop(error, vel)) THEN Brake(vel)
     ELSE - Sign(error) * MaxAcc * Dp
MutCruiseFirst(pos, vel, target) ==
  LET error == pos - target
      approaching == Sign(error) # Sign(vel)
  IN IF approaching /\ Abs(vel) >= MaxVel THEN 0
     ELSE IF VeryClose(error) \/ (approaching /\ CanStop(error, vel)) THEN Brake(vel)
     ELSE - Sign(error) * MaxAcc * Dp

vel_ramp(pos, vel, target) ==
  LET error == pos - target
      approaching == Sign(error) # Sign(vel)
  IN IF VeryClose(error) \/ (approaching /\ CanStop(error, vel)) THEN Brake(vel)
     ELSE IF approaching /\ Abs(vel) >= MaxVel THEN 0
     ELSE - Sign(error) * MaxAcc * Dp

\* Interpolations: dv is acc * delta_t.
pos_setpt_interpolation(pos, vel, dv) == pos + vel * Dp + dv * (Dp \div 2)
vel_setpt_interpolation(vel, dv) == vel + dv

set_mode(k, w, mode) ==
  IF mode = POSITION /\ k.mode < POSITION
  THEN [k EXCEPT !.mode = mode, !.posSp = w.pos, !.velTarget = w.vel]
  ELSE IF mode = VELOCITY /\ k.mode < VELOCITY
  THEN [k EXCEPT !.mode = mode, !.velSp = w.vel]
  ELSE [k EXCEPT !.mode = mode]

\* The thread stores the value of the message as the target of its mode.
set_target(k, m) ==
  [k EXCEPT !.curTarget = IF m.mode = CURRENT THEN m.value ELSE @,
            !.velTarget = IF m.mode = VELOCITY THEN m.value ELSE @,
            !.posTarget = IF m.mode = POSITION THEN m.value ELSE @]

\* Mutant: the topic is not checked for a first publication.
MutApply(k, w, m) == set_target(set_mode(k, w, m.mode), m)

\* A setpoint message, which the thread applies again in every period.
Apply(k, w, m) == IF m = NoMsg THEN k ELSE set_target(set_mode(k, w, m.mode), m)

\* motor_controller_process, in its three stages.  A divider counter counts on
\* while its loop is off; it is capped at the divider, which is all that is compared.
Count(n, divider) == IF n < divider THEN n + 1 ELSE divider

PositionRuns(k) == k.mode >= POSITION /\ Count(k.posCnt, Dp) >= Dp
VelocityRuns(k) == k.mode >= VELOCITY /\ Count(k.velCnt, Dv) >= Dv

\* Mutant: the divider counter only counts in position mode.
MutPositionLoop(k, pid) ==
  IF PositionRuns(k)
  THEN LET dv == vel_ramp(k.posSp, k.velTarget, k.posTarget)
           vel == vel_setpt_interpolation(k.velTarget, dv)
       IN [k EXCEPT !.posCnt = 0,
                    !.posSp = pos_setpt_interpolation(@, k.velTarget, dv),
                    !.velTarget = vel,
                    !.velSp = vel + pid]
  ELSE [k EXCEPT !.posCnt = IF k.mode >= POSITION THEN Count(@, Dp) ELSE @]

PositionLoop(k, pid) ==
  IF PositionRuns(k)
  THEN LET dv == vel_ramp(k.posSp, k.velTarget, k.posTarget)
           vel == vel_setpt_interpolation(k.velTarget, dv)
       IN [k EXCEPT !.posCnt = 0,
                    !.posSp = pos_setpt_interpolation(@, k.velTarget, dv),
                    !.velTarget = vel,
                    !.velSp = vel + pid]
  ELSE [k EXCEPT !.posCnt = Count(@, Dp)]

\* delta_t is 1 / velocity.pid.frequency, that is Dv periods.
VelocityRamp(k) ==
  LET target == limit_symmetric(k.velTarget, MaxVel)
  IN IF k.mode = VELOCITY
     THEN [k EXCEPT !.velTarget = target,
                    !.velSp = @ + limit_symmetric(target - @, Dv * MaxAcc)]
     ELSE k

VelocityLoop(k, pid) ==
  IF VelocityRuns(k)
  THEN [k EXCEPT !.velCnt = 0, !.curSp = pid]
  ELSE [k EXCEPT !.velCnt = Count(@, Dv)]

CurrentLoop(k) ==
  [k EXCEPT !.curSp = limit_symmetric(IF k.mode = CURRENT THEN k.curTarget ELSE @, MaxCur)]

-----------------------------------------------------------------------------

\* Someone (the shell, Aseba) publishes a setpoint.
Publish(m) ==
  /\ msgs < MaxMsgs
  /\ msg' = m /\ msgs' = msgs + 1
  /\ UNCHANGED <<c, wheel, age>>

\* The wheel turns: the encoders report something else.
Turn(w) == wheel' = w /\ UNCHANGED <<c, msg, age, msgs>>

\* One iteration of motor_pid_thd.
Period(posPid, velPid) ==
  LET applied == Apply(c, wheel, msg)
      ramped == VelocityRamp(PositionLoop(applied, posPid))
  IN /\ c' = CurrentLoop(VelocityLoop(ramped, velPid))
     /\ age' = IF PositionRuns(applied) \/ applied.mode = VELOCITY THEN 0 ELSE Count(age, Dp)
     /\ UNCHANGED <<wheel, msg, msgs>>

\* motor_controller_init, then set_prescaler; the thread waits for the encoders.
Init ==
  /\ c = [mode |-> CURRENT, posSp |-> 0, posTarget |-> 0, velSp |-> 0, velTarget |-> 0,
          curSp |-> 0, curTarget |-> 0, posCnt |-> 0, velCnt |-> 0]
  /\ wheel \in [pos : Positions, vel : Velocities]
  /\ msg = NoMsg /\ age = 0 /\ msgs = 0

Tick == \E p, v \in PidOut : Period(p, v)

Next ==
  \/ \E m \in Messages : Publish(m)
  \/ \E w \in [pos : Positions, vel : Velocities] : Turn(w)
  \/ Tick

\* The timer interrupt signals the semaphore of the thread every period.
Spec == Init /\ [][Next]_vars
FairSpec == Spec /\ WF_vars(Tick)

-----------------------------------------------------------------------------

TypeOK ==
  /\ c \in [mode : {CURRENT, VELOCITY, POSITION},
            posSp : Int, posTarget : Int, velSp : Int, velTarget : Int,
            curSp : Int, curTarget : Int, posCnt : 0 .. Dp, velCnt : 0 .. Dv]
  /\ wheel \in [pos : Positions, vel : Velocities]
  /\ msg \in Messages \cup {NoMsg}
  /\ age \in 0 .. Dp
  /\ msgs \in 0 .. MaxMsgs

\* Switching modes is safe: the divider counters are not reset by a switch, and
\* still the velocity loop never acts, in position mode, on a velocity setpoint
\* older than one position period, whatever sequence of modes came before.
VelocityUsed ==
  UNCHANGED <<wheel, msg, msgs>> /\ VelocityRuns(Apply(c, wheel, msg))
NoStaleSetpoint ==
  [][VelocityUsed /\ c'.mode = POSITION => age' < Dp]_vars

\* In position mode the interpolated velocity passes the limit by less than what
\* one position period can add, whatever the target does, as long as the wheel
\* was not faster when the mode was entered.
VelBound == MaxVel + MaxAcc * Dp
VelocityBounded == c.mode = POSITION => Abs(c.velTarget) <= VelBound

\* The current setpoint handed to the current loop respects its limit in all
\* modes, also on the period in which the mode changes.
CurrentBounded == Abs(c.curSp) <= MaxCur

\* After the last message, in position mode, the interpolated position comes close
\* to the target and stays there: within five times what one period can cover.
Near == Abs(c.posSp - c.posTarget) <= 5 * MaxAcc * Dp * Dp
StaysNear == msgs = MaxMsgs /\ msg.mode = POSITION ~> [](c.mode = POSITION /\ Near)

\* The interpolated velocity respects the acceleration limit: in one period it
\* changes by at most MaxAcc.
AccelerationRespected ==
  [][c.mode = VELOCITY /\ c'.mode = VELOCITY => Abs(c'.velSp - c.velSp) <= MaxAcc]_vars
==============================================================================
