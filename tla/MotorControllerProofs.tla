------------------------ MODULE MotorControllerProofs ------------------------
(***************************************************************************)
(* Proofs about MotorController, for all dividers, limits and inputs.      *)
(***************************************************************************)
EXTENDS MotorController, TLAPS

Controllers ==
  [mode : {CURRENT, VELOCITY, POSITION},
   posSp : Int, posTarget : Int, velSp : Int, velTarget : Int,
   curSp : Int, curTarget : Int, posCnt : 0 .. Dp, velCnt : 0 .. Dv]
Wheels == [pos : Positions, vel : Velocities]

\* The velocity change of one position period.
Step == MaxAcc * Dp

\* limit_symmetric returns a value within the limit.
LEMMA Limited ==
  ASSUME NEW v \in Int, NEW l \in Nat
  PROVE  limit_symmetric(v, l) \in Int /\ Abs(limit_symmetric(v, l)) <= l
BY DEF limit_symmetric, Abs

\* The steps of the ramps are numbers.
LEMMA StepNat == Step \in Nat /\ Dv * MaxAcc \in Nat /\ Dp \div 2 \in Int
<1>1. Dp \in Nat /\ MaxAcc \in Nat /\ Dv \in Nat
  BY DividersAssumption, LimitsAssumption
<1>2. MaxAcc * Dp \in Nat /\ Dv * MaxAcc \in Nat
  BY <1>1, SMT
<1>3. Dp \div 2 \in Int
  BY <1>1, SMT
<1> QED
  BY <1>2, <1>3 DEF Step

\* vel_ramp never asks for more than the acceleration limit, and keeps the
\* velocity it is added to within one step of the velocity limit.
LEMMA RampBounded ==
  ASSUME NEW pos \in Int, NEW vel \in Int, NEW target \in Int
  PROVE  /\ vel_ramp(pos, vel, target) \in Int
         /\ Abs(vel) <= MaxVel + Step => Abs(vel + vel_ramp(pos, vel, target)) <= MaxVel + Step
<1> DEFINE error == pos - target
           dv == vel_ramp(pos, vel, target)
<1>1. Step \in Nat /\ MaxVel \in Nat
  BY StepNat, LimitsAssumption
<1>2. - Sign(error) * MaxAcc * Dp = IF error < 0 THEN Step ELSE - Step
  <2>1. MaxAcc \in Int /\ Dp \in Int
    BY DividersAssumption, LimitsAssumption
  <2>2. CASE error < 0
    <3>1. Sign(error) = -1
      BY <2>2 DEF Sign
    <3>2. - ((-1) * MaxAcc * Dp) = MaxAcc * Dp
      BY <2>1, SMT
    <3> QED
      BY <2>2, <3>1, <3>2 DEF Step
  <2>3. CASE ~ (error < 0)
    <3>1. Sign(error) = 1
      BY <2>3 DEF Sign
    <3>2. - (1 * MaxAcc * Dp) = - (MaxAcc * Dp)
      BY <2>1, SMT
    <3> QED
      BY <2>3, <3>1, <3>2 DEF Step
  <2> QED
    BY <2>2, <2>3
<1>3. \/ dv = Brake(vel)
      \/ dv = 0
      \/ /\ dv = IF error < 0 THEN Step ELSE - Step
         /\ Sign(error) = Sign(vel) \/ ~ (Abs(vel) >= MaxVel)
  BY <1>2 DEF vel_ramp
<1>4. CASE dv = Brake(vel)
  BY <1>1, <1>4 DEF Brake, limit_symmetric, Abs, Step
<1>5. CASE dv = 0
  BY <1>1, <1>5 DEF Abs
<1>6. CASE /\ dv = IF error < 0 THEN Step ELSE - Step
           /\ Sign(error) = Sign(vel) \/ ~ (Abs(vel) >= MaxVel)
  BY <1>1, <1>6 DEF Abs, Sign
<1> QED
  BY <1>3, <1>4, <1>5, <1>6

\* A message changes mode and targets, never a counter, and a mode is a mode.
LEMMA ApplyType ==
  ASSUME NEW k \in Controllers, NEW w \in Wheels, NEW m \in Messages \cup {NoMsg}
  PROVE  /\ Apply(k, w, m) \in Controllers
         /\ Apply(k, w, m).posCnt = k.posCnt
         /\ \/ Apply(k, w, m).mode # POSITION
            \/ Apply(k, w, m).velTarget = w.vel
            \/ k.mode = POSITION /\ Apply(k, w, m).velTarget = k.velTarget
<1>1. w.pos \in Int /\ w.vel \in Int
  BY InputsAssumption DEF Wheels
<1>2. CASE m = NoMsg
  BY <1>2 DEF Apply, Controllers, POSITION
<1>3. CASE m # NoMsg
  <2>1. m \in Messages /\ m.mode \in {CURRENT, VELOCITY, POSITION} /\ m.value \in Int
    BY <1>3, InputsAssumption DEF Messages
  <2>2. Apply(k, w, m) = set_target(set_mode(k, w, m.mode), m)
    BY <1>3 DEF Apply
  <2>3. /\ set_mode(k, w, m.mode) \in Controllers
        /\ set_mode(k, w, m.mode).posCnt = k.posCnt
        /\ set_mode(k, w, m.mode).mode = m.mode
        /\ m.mode = POSITION => \/ set_mode(k, w, m.mode).velTarget = w.vel
                                \/ /\ k.mode = POSITION
                                   /\ set_mode(k, w, m.mode).velTarget = k.velTarget
    <3>1. set_mode(k, w, m.mode) =
               IF m.mode = POSITION /\ k.mode < POSITION
               THEN [k EXCEPT !.mode = m.mode, !.posSp = w.pos, !.velTarget = w.vel]
               ELSE IF m.mode = VELOCITY /\ k.mode < VELOCITY
               THEN [k EXCEPT !.mode = m.mode, !.velSp = w.vel]
               ELSE [k EXCEPT !.mode = m.mode]
      BY DEF set_mode
    <3>2. CASE m.mode = POSITION /\ k.mode < POSITION
      BY <1>1, <2>1, <3>1, <3>2 DEF Controllers
    <3>3. CASE ~ (m.mode = POSITION /\ k.mode < POSITION)
      <4>1. m.mode = POSITION => k.mode = POSITION
        BY <3>3 DEF Controllers, CURRENT, VELOCITY, POSITION
      <4> QED
        BY <1>1, <2>1, <3>1, <3>3, <4>1 DEF Controllers
    <3> QED
      BY <3>2, <3>3
  <2> DEFINE s == set_mode(k, w, m.mode)
  <2> HIDE DEF s
  <2>4. /\ set_target(s, m) \in Controllers
        /\ set_target(s, m).posCnt = s.posCnt
        /\ set_target(s, m).mode = s.mode
        /\ m.mode = POSITION => set_target(s, m).velTarget = s.velTarget
    <3>1. s \in Controllers
      BY <2>3 DEF s
    <3> DEFINE ct == IF m.mode = CURRENT THEN m.value ELSE s.curTarget
               vt == IF m.mode = VELOCITY THEN m.value ELSE s.velTarget
               pt == IF m.mode = POSITION THEN m.value ELSE s.posTarget
    <3>2. ct \in Int /\ vt \in Int /\ pt \in Int
      BY <2>1, <3>1 DEF Controllers
    <3>3. m.mode = POSITION => vt = s.velTarget
      BY DEF VELOCITY, POSITION
    <3>4. set_target(s, m) = [s EXCEPT !.curTarget = ct, !.velTarget = vt, !.posTarget = pt]
      BY <3>1 DEF set_target, Controllers
    <3> HIDE DEF ct, vt, pt
    <3> QED
      BY <3>1, <3>2, <3>3, <3>4 DEF Controllers
  <2> QED
    BY <2>2, <2>3, <2>4 DEF s
<1> QED
  BY <1>2, <1>3

\* A divider counter stays within its divider and counts one at a time.
LEMMA CountType ==
  ASSUME NEW d \in Nat \ {0}, NEW n \in 0 .. d
  PROVE  Count(n, d) \in 0 .. d /\ (Count(n, d) < d => Count(n, d) = n + 1)
BY DEF Count

\* The position loop changes neither the type nor the mode of a controller.
LEMMA PositionLoopType ==
  ASSUME NEW k \in Controllers, NEW pid \in Int
  PROVE  /\ PositionLoop(k, pid) \in Controllers
         /\ PositionLoop(k, pid).mode = k.mode
         /\ PositionLoop(k, pid).posCnt = IF PositionRuns(k) THEN 0 ELSE Count(k.posCnt, Dp)
         /\ \/ PositionLoop(k, pid).velTarget = k.velTarget
            \/ PositionLoop(k, pid).velTarget
                 = k.velTarget + vel_ramp(k.posSp, k.velTarget, k.posTarget)
<1> DEFINE dv == vel_ramp(k.posSp, k.velTarget, k.posTarget)
           p == pos_setpt_interpolation(k.posSp, k.velTarget, dv)
<1>1. k.posSp \in Int /\ k.velTarget \in Int /\ k.posTarget \in Int /\ k.posCnt \in 0 .. Dp
  BY DEF Controllers
<1>2. dv \in Int
  BY <1>1, RampBounded
<1>3. Dp \in Nat \ {0} /\ Dp \div 2 \in Int
  BY DividersAssumption, StepNat
<1> HIDE DEF dv
<1>4. p \in Int
  <2> DEFINE half == Dp \div 2
  <2>1. half \in Int
    BY <1>3
  <2> HIDE DEF half
  <2>2. k.velTarget * Dp \in Int /\ dv * half \in Int
    BY <1>1, <1>2, <1>3, <2>1, SMT
  <2> QED
    BY <1>1, <2>2 DEF pos_setpt_interpolation, half
<1> HIDE DEF p
<1>5. k.velTarget + dv \in Int /\ k.velTarget + dv + pid \in Int
  BY <1>1, <1>2
<1>6. CASE PositionRuns(k)
  <2> DEFINE vt == k.velTarget + dv
             vs == k.velTarget + dv + pid
  <2>1. PositionLoop(k, pid) = [k EXCEPT !.posCnt = 0, !.posSp = p, !.velTarget = vt, !.velSp = vs]
    BY <1>6 DEF PositionLoop, vel_setpt_interpolation, dv, p, Controllers
  <2>2. vt \in Int /\ vs \in Int /\ 0 \in 0 .. Dp
    BY <1>3, <1>5
  <2> HIDE DEF vt, vs
  <2>3. PositionLoop(k, pid) \in Controllers
    BY <1>4, <2>1, <2>2 DEF Controllers
  <2>4. /\ PositionLoop(k, pid).mode = k.mode
        /\ PositionLoop(k, pid).posCnt = 0
        /\ PositionLoop(k, pid).velTarget = vt
    BY <2>1 DEF Controllers
  <2> QED
    BY <1>6, <2>3, <2>4 DEF vt, dv
<1>7. CASE ~ PositionRuns(k)
  <2>1. PositionLoop(k, pid) = [k EXCEPT !.posCnt = Count(k.posCnt, Dp)]
    BY <1>7 DEF PositionLoop, Controllers
  <2>2. Count(k.posCnt, Dp) \in 0 .. Dp
    BY <1>1, <1>3, CountType
  <2>3. PositionLoop(k, pid) \in Controllers
    BY <2>1, <2>2 DEF Controllers
  <2>4. /\ PositionLoop(k, pid).mode = k.mode
        /\ PositionLoop(k, pid).posCnt = Count(k.posCnt, Dp)
        /\ PositionLoop(k, pid).velTarget = k.velTarget
    BY <2>1 DEF Controllers
  <2> QED
    BY <1>7, <2>3, <2>4
<1> QED
  BY <1>6, <1>7

\* The other stages leave the mode and the position counter alone, and the
\* velocity target too in position mode.
LEMMA VelocityStagesType ==
  ASSUME NEW k \in Controllers, NEW pid \in Int
  PROVE  LET r == VelocityRamp(k)
             v == VelocityLoop(r, pid)
             u == CurrentLoop(v)
         IN /\ u \in Controllers
            /\ u.mode = k.mode /\ u.posCnt = k.posCnt
            /\ k.mode = POSITION => u.velTarget = k.velTarget
            /\ Abs(u.curSp) <= MaxCur
<1> DEFINE r == VelocityRamp(k)
           v == VelocityLoop(r, pid)
           u == CurrentLoop(v)
<1>1. /\ r \in Controllers /\ r.mode = k.mode /\ r.posCnt = k.posCnt
      /\ k.mode = POSITION => r.velTarget = k.velTarget
  <2> DEFINE target == limit_symmetric(k.velTarget, MaxVel)
             delta == limit_symmetric(target - k.velSp, Dv * MaxAcc)
  <2>1. target \in Int
    BY Limited, LimitsAssumption DEF Controllers
  <2> HIDE DEF target
  <2>2. target - k.velSp \in Int
    BY <2>1 DEF Controllers
  <2>3. delta \in Int
    BY <2>2, Limited, StepNat
  <2> HIDE DEF delta
  <2>4. r = IF k.mode = VELOCITY
            THEN [k EXCEPT !.velTarget = target, !.velSp = k.velSp + delta] ELSE k
    BY DEF VelocityRamp, target, delta, Controllers
  <2>5. k.velSp + delta \in Int
    BY <2>3 DEF Controllers
  <2>6. CASE k.mode = VELOCITY
    <3> DEFINE vs == k.velSp + delta
    <3>1. r = [k EXCEPT !.velTarget = target, !.velSp = vs]
      BY <2>4, <2>6
    <3>2. vs \in Int
      BY <2>5
    <3> HIDE DEF vs
    <3>3. r \in Controllers
      BY <2>1, <3>1, <3>2 DEF Controllers
    <3>4. r.mode = k.mode /\ r.posCnt = k.posCnt
      BY <3>1 DEF Controllers
    <3> QED
      BY <2>6, <3>3, <3>4 DEF VELOCITY, POSITION
  <2>7. CASE k.mode # VELOCITY
    BY <2>4, <2>7
  <2> QED
    BY <2>6, <2>7
<1> HIDE DEF r
<1>2. v \in Controllers /\ v.mode = r.mode /\ v.posCnt = r.posCnt /\ v.velTarget = r.velTarget
  <2>1. Dv \in Nat \ {0} /\ r.velCnt \in 0 .. Dv
    BY <1>1, DividersAssumption DEF Controllers
  <2>2. Count(r.velCnt, Dv) \in 0 .. Dv
    BY <2>1, CountType
  <2>3. v = IF VelocityRuns(r) THEN [r EXCEPT !.velCnt = 0, !.curSp = pid]
            ELSE [r EXCEPT !.velCnt = Count(r.velCnt, Dv)]
    BY <1>1 DEF VelocityLoop, Controllers
  <2>4. 0 \in 0 .. Dv
    BY <2>1
  <2>5. CASE VelocityRuns(r)
    BY <1>1, <2>3, <2>4, <2>5 DEF Controllers
  <2>6. CASE ~ VelocityRuns(r)
    BY <1>1, <2>2, <2>3, <2>6 DEF Controllers
  <2> QED
    BY <2>5, <2>6
<1> HIDE DEF v
<1>3. /\ u \in Controllers /\ u.mode = v.mode /\ u.posCnt = v.posCnt
      /\ u.velTarget = v.velTarget /\ Abs(u.curSp) <= MaxCur
  <2> DEFINE raw == IF v.mode = CURRENT THEN v.curTarget ELSE v.curSp
  <2>1. raw \in Int
    BY <1>2 DEF Controllers
  <2> HIDE DEF raw
  <2>2. limit_symmetric(raw, MaxCur) \in Int /\ Abs(limit_symmetric(raw, MaxCur)) <= MaxCur
    BY <2>1, Limited, LimitsAssumption
  <2>3. u = [v EXCEPT !.curSp = limit_symmetric(raw, MaxCur)]
    BY <1>2 DEF CurrentLoop, raw, Controllers
  <2> QED
    BY <1>2, <2>2, <2>3 DEF Controllers
<1> QED
  BY <1>1, <1>2, <1>3 DEF r, v, u

-----------------------------------------------------------------------------

\* The inductive invariant: a position counter that has not reached its divider
\* bounds the age of the velocity setpoint.
FreshWhileCounting == c.posCnt < Dp => age <= c.posCnt

\* What one period does, stage by stage.
LEMMA PeriodStep ==
  ASSUME TypeOK, NEW p \in PidOut, NEW v \in PidOut, Period(p, v)
  PROVE  LET a == Apply(c, wheel, msg)
         IN /\ TypeOK'
            /\ c'.mode = a.mode
            /\ c'.posCnt = IF PositionRuns(a) THEN 0 ELSE Count(c.posCnt, Dp)
            /\ a.posCnt = c.posCnt
            /\ Abs(c'.curSp) <= MaxCur
            /\ c'.mode = POSITION =>
                 \/ c'.velTarget = a.velTarget
                 \/ c'.velTarget = a.velTarget + vel_ramp(a.posSp, a.velTarget, a.posTarget)
<1> DEFINE a == Apply(c, wheel, msg)
           l == PositionLoop(a, p)
<1>1. c \in Controllers /\ wheel \in Wheels /\ msg \in Messages \cup {NoMsg}
  BY DEF TypeOK, Controllers, Wheels
<1>2. p \in Int /\ v \in Int
  BY InputsAssumption
<1>3. a \in Controllers /\ a.posCnt = c.posCnt
  BY <1>1, ApplyType
<1>4. c' = CurrentLoop(VelocityLoop(VelocityRamp(l), v))
  BY DEF Period
<1>5. age' = IF PositionRuns(a) \/ a.mode = VELOCITY THEN 0 ELSE Count(age, Dp)
  BY DEF Period
<1> HIDE DEF a
<1>6. /\ l \in Controllers /\ l.mode = a.mode
      /\ l.posCnt = IF PositionRuns(a) THEN 0 ELSE Count(a.posCnt, Dp)
      /\ \/ l.velTarget = a.velTarget
         \/ l.velTarget = a.velTarget + vel_ramp(a.posSp, a.velTarget, a.posTarget)
  BY <1>2, <1>3, PositionLoopType
<1> HIDE DEF l
<1>7. /\ c' \in Controllers /\ c'.mode = l.mode /\ c'.posCnt = l.posCnt
      /\ l.mode = POSITION => c'.velTarget = l.velTarget
      /\ Abs(c'.curSp) <= MaxCur
  BY <1>2, <1>4, <1>6, VelocityStagesType
<1>8. Dp \in Nat \ {0} /\ age \in 0 .. Dp
  BY DividersAssumption DEF TypeOK
<1>9. Count(age, Dp) \in 0 .. Dp /\ 0 \in 0 .. Dp
  BY <1>8, CountType
<1>10. age' \in 0 .. Dp
  BY <1>5, <1>9
<1>11. UNCHANGED <<wheel, msg, msgs>>
  BY DEF Period
<1>12. TypeOK'
  BY <1>7, <1>10, <1>11 DEF TypeOK, Controllers
<1> QED
  BY <1>3, <1>6, <1>7, <1>12 DEF a

\* Types are kept by every step.
LEMMA MotorTypeStep ==
  ASSUME TypeOK, [Next]_vars
  PROVE  TypeOK'
<1>1. ASSUME NEW m \in Messages, Publish(m) PROVE TypeOK'
  BY <1>1, LimitsAssumption DEF TypeOK, Publish
<1>2. ASSUME NEW w \in [pos : Positions, vel : Velocities], Turn(w) PROVE TypeOK'
  BY <1>2 DEF TypeOK, Turn
<1>3. ASSUME Tick PROVE TypeOK'
  BY <1>3, PeriodStep DEF Tick
<1>4. ASSUME UNCHANGED vars PROVE TypeOK'
  BY <1>4 DEF TypeOK, vars
<1> QED
  BY <1>1, <1>2, <1>3, <1>4 DEF Next

\* Types hold at boot.
LEMMA MotorTypeInit == Init => TypeOK
<1> SUFFICES ASSUME Init PROVE TypeOK
  OBVIOUS
<1>1. 0 \in 0 .. Dp /\ 0 \in 0 .. Dv /\ 0 \in 0 .. MaxMsgs
  BY DividersAssumption, LimitsAssumption
<1> QED
  BY <1>1 DEF Init, TypeOK

\* Type correctness, for all dividers and limits: the divider counters stay
\* within their dividers and the mode is always one of the three.
THEOREM MotorTypeCorrect == Spec => []TypeOK
<1>1. Init => TypeOK
  BY MotorTypeInit
<1>2. TypeOK /\ [Next]_vars => TypeOK'
  BY MotorTypeStep
<1> QED
  BY <1>1, <1>2, PTL DEF Spec

\* A counter below its divider keeps bounding the age of the setpoint.
LEMMA FreshStep ==
  ASSUME TypeOK, FreshWhileCounting, [Next]_vars
  PROVE  FreshWhileCounting'
<1>1. ASSUME NEW m \in Messages, Publish(m) PROVE FreshWhileCounting'
  BY <1>1 DEF FreshWhileCounting, Publish
<1>2. ASSUME NEW w \in [pos : Positions, vel : Velocities], Turn(w) PROVE FreshWhileCounting'
  BY <1>2 DEF FreshWhileCounting, Turn
<1>3. ASSUME NEW p \in PidOut, NEW v \in PidOut, Period(p, v) PROVE FreshWhileCounting'
  <2> DEFINE a == Apply(c, wheel, msg)
  <2>1. c'.posCnt = IF PositionRuns(a) THEN 0 ELSE Count(c.posCnt, Dp)
    BY <1>3, PeriodStep
  <2>2. age' = IF PositionRuns(a) \/ a.mode = VELOCITY THEN 0 ELSE Count(age, Dp)
    BY <1>3 DEF Period
  <2> HIDE DEF a
  <2>3. Dp \in Nat \ {0} /\ age \in 0 .. Dp /\ c.posCnt \in 0 .. Dp
    BY DividersAssumption DEF TypeOK
  <2>4. Count(c.posCnt, Dp) \in 0 .. Dp
    BY <2>3, CountType
  <2>5. Count(c.posCnt, Dp) < Dp => Count(age, Dp) <= Count(c.posCnt, Dp)
    BY <2>3 DEF Count, FreshWhileCounting
  <2> QED
    BY <2>1, <2>2, <2>3, <2>4, <2>5 DEF FreshWhileCounting
<1>4. ASSUME UNCHANGED vars PROVE FreshWhileCounting'
  BY <1>4 DEF FreshWhileCounting, vars
<1> QED
  BY <1>1, <1>2, <1>3, <1>4 DEF Next, Tick

\* Switching modes never makes the velocity loop act on an old setpoint: in
\* position mode the setpoint it uses is younger than one position period.
THEOREM FreshSetpoint == Spec => NoStaleSetpoint
<1>1. Init => TypeOK /\ FreshWhileCounting
  <2>1. Init => FreshWhileCounting
    BY DividersAssumption DEF Init, FreshWhileCounting
  <2> QED
    BY <2>1, MotorTypeInit
<1>2. TypeOK /\ FreshWhileCounting /\ [Next]_vars => (TypeOK /\ FreshWhileCounting)'
  BY MotorTypeStep, FreshStep
<1>3. TypeOK /\ FreshWhileCounting /\ [Next]_vars
        => [VelocityUsed /\ c'.mode = POSITION => age' < Dp]_vars
  <2> SUFFICES ASSUME TypeOK, FreshWhileCounting, [Next]_vars, VelocityUsed,
                      c'.mode = POSITION, vars' # vars
               PROVE  age' < Dp
    BY DEF vars
  <2>1. PICK p \in PidOut, v \in PidOut : Period(p, v)
    <3>1. ASSUME NEW m \in Messages, Publish(m) PROVE FALSE
      BY <3>1 DEF Publish, VelocityUsed, TypeOK
    <3>2. ASSUME NEW w \in [pos : Positions, vel : Velocities], Turn(w) PROVE FALSE
      BY <3>2 DEF Turn, VelocityUsed, vars
    <3> QED
      BY <3>1, <3>2 DEF Next, Tick, vars
  <2> DEFINE a == Apply(c, wheel, msg)
  <2>2. /\ c'.posCnt = IF PositionRuns(a) THEN 0 ELSE Count(c.posCnt, Dp)
        /\ a.mode = POSITION /\ a.posCnt = c.posCnt
    BY <2>1, PeriodStep
  <2>3. age' = IF PositionRuns(a) \/ a.mode = VELOCITY THEN 0 ELSE Count(age, Dp)
    BY <2>1 DEF Period
  <2> HIDE DEF a
  <2>4. Dp \in Nat \ {0} /\ age \in 0 .. Dp /\ c.posCnt \in 0 .. Dp
    BY DividersAssumption DEF TypeOK
  <2>5. CASE PositionRuns(a)
    BY <2>3, <2>4, <2>5
  <2>6. CASE ~ PositionRuns(a)
    <3>1. ~ (Count(c.posCnt, Dp) >= Dp)
      BY <2>2, <2>6 DEF PositionRuns, POSITION
    <3>2. a.mode # VELOCITY
      BY <2>2 DEF POSITION, VELOCITY
    <3> QED
      BY <2>3, <2>4, <2>6, <3>1, <3>2 DEF Count, FreshWhileCounting
  <2> QED
    BY <2>5, <2>6
<1> QED
  BY <1>1, <1>2, <1>3, PTL DEF Spec, NoStaleSetpoint

\* The current setpoint respects limits/current in every state, whatever the
\* velocity filter returns and in every mode.
THEOREM CurrentLimited == Spec => []CurrentBounded
<1>1. Init => CurrentBounded
  BY LimitsAssumption DEF Init, CurrentBounded, Abs
<1>2. TypeOK /\ CurrentBounded /\ [Next]_vars => CurrentBounded'
  <2> SUFFICES ASSUME TypeOK, CurrentBounded, [Next]_vars PROVE CurrentBounded'
    OBVIOUS
  <2>1. ASSUME NEW p \in PidOut, NEW v \in PidOut, Period(p, v) PROVE CurrentBounded'
    BY <2>1, PeriodStep DEF CurrentBounded, Abs
  <2>2. ASSUME c' = c PROVE CurrentBounded'
    BY <2>2 DEF CurrentBounded
  <2> QED
    BY <2>1, <2>2 DEF Next, Tick, Publish, Turn, vars
<1> QED
  BY <1>1, <1>2, MotorTypeCorrect, PTL DEF Spec

\* If the encoders never report more than VelBound, the interpolated velocity of
\* position mode stays within VelBound, for every sequence of targets.
THEOREM VelocityLimited ==
  ASSUME \A v \in Velocities : Abs(v) <= VelBound
  PROVE  Spec => []VelocityBounded
<1>1. Init => VelocityBounded
  BY DEF Init, VelocityBounded, CURRENT, POSITION
<1>2. TypeOK /\ VelocityBounded /\ [Next]_vars => VelocityBounded'
  <2> SUFFICES ASSUME TypeOK, VelocityBounded, [Next]_vars PROVE VelocityBounded'
    OBVIOUS
  <2>1. ASSUME NEW p \in PidOut, NEW v \in PidOut, Period(p, v), c'.mode = POSITION
        PROVE  Abs(c'.velTarget) <= VelBound
    <3> DEFINE a == Apply(c, wheel, msg)
    <3>1. c \in Controllers /\ wheel \in Wheels /\ msg \in Messages \cup {NoMsg}
      BY DEF TypeOK, Controllers, Wheels
    <3>2. /\ a.mode = POSITION
          /\ \/ c'.velTarget = a.velTarget
             \/ c'.velTarget = a.velTarget + vel_ramp(a.posSp, a.velTarget, a.posTarget)
      BY <2>1, PeriodStep
    <3>3. /\ a \in Controllers
          /\ \/ a.velTarget = wheel.vel
             \/ c.mode = POSITION /\ a.velTarget = c.velTarget
      BY <3>1, <3>2, ApplyType
    <3> HIDE DEF a
    <3>4. Abs(a.velTarget) <= VelBound
      BY <3>1, <3>3 DEF VelocityBounded, Wheels
    <3>5. a.posSp \in Int /\ a.velTarget \in Int /\ a.posTarget \in Int
      BY <3>3 DEF Controllers
    <3>6. VelBound = MaxVel + Step
      BY DEF VelBound, Step
    <3> QED
      BY <3>2, <3>4, <3>5, <3>6, RampBounded
  <2>2. ASSUME c' = c PROVE VelocityBounded'
    BY <2>2 DEF VelocityBounded, VelBound
  <2>3. (\E p, v \in PidOut : Period(p, v)) \/ c' = c
    BY DEF Next, Tick, Publish, Turn, vars
  <2>4. ASSUME NEW p \in PidOut, NEW v \in PidOut, Period(p, v) PROVE VelocityBounded'
    BY <2>1, <2>4 DEF VelocityBounded, VelBound
  <2> QED
    BY <2>2, <2>3, <2>4
<1> QED
  BY <1>1, <1>2, MotorTypeCorrect, PTL DEF Spec
=============================================================================
