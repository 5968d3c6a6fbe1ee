------------------------------- MODULE Encoder -------------------------------
(***************************************************************************)
(* The odometry of one wheel (sensors/encoder.c): a quadrature timer that  *)
(* wraps at Word, sampled by a thread that accumulates the differences     *)
(* into a signed total and publishes it.  The wheel turns at any time; it  *)
(* makes at most Reach ticks between two samples (200 Hz).                 *)
(* The float position and velocity that the thread derives from the total  *)
(* and from the last difference are left out.                              *)
(***************************************************************************)
EXTENDS Integers

CONSTANTS
  Half,      \* MAX_16BIT_DIV2
  Reach,     \* ticks the wheel can make between two samples
  MaxTicks   \* bound: distance the wheel may travel from where it started

Word == 2 * (Half + 1)     \* the timer counts modulo MAX_16BIT + 1

ASSUME HalfAssumption == Half \in Nat
ASSUME ReachAssumption == Reach \in 0 .. Half
ASSUME MaxTicksAssumption == MaxTicks \in Nat

VARIABLES
  cnt,       \* TIMx->CNT
  old,       \* left_encoder_old
  total,     \* encoders.left, as published on /encoders
  inverted,  \* parameter encoders/left/is_inverted
  moved,     \* history: ticks since the last sample
  travel     \* history: ticks sampled so far, counted in the configured direction

vars == <<cnt, old, total, inverted, moved, travel>>

\* Mutant: the comparison with half the range is off by one.
MutTickDiff(enc_old, enc_new) ==
  LET d == enc_new - enc_old
  IN IF d >= Half THEN - (Word - d) ELSE IF -d > Half THEN Word + d ELSE d

encoder_tick_diff(enc_old, enc_new) ==
  LET d == enc_new - enc_old
  IN IF d > Half THEN - (Word - d) ELSE IF -d > Half THEN Word + d ELSE d

\* The wheel makes one tick forwards or backwards.
Turn(d) ==
  /\ moved + d \in -Reach .. Reach
  /\ travel + moved + d \in -MaxTicks .. MaxTicks
  /\ cnt' = IF cnt + d = Word THEN 0 ELSE IF cnt + d < 0 THEN Word - 1 ELSE cnt + d
  /\ moved' = moved + d
  /\ UNCHANGED <<old, total, inverted, travel>>

\* The is_inverted parameter is set from the shell or loaded from flash.
SetInverted(b) == inverted' = b /\ UNCHANGED <<cnt, old, total, moved, travel>>

\* One iteration of encoders_thd.
Sample ==
  LET diff == encoder_tick_diff(old, cnt)
  IN /\ total' = total + (IF inverted THEN -diff ELSE diff)
     /\ travel' = travel + (IF inverted THEN -moved ELSE moved)
     /\ old' = cnt /\ moved' = 0
     /\ UNCHANGED <<cnt, inverted>>

\* setup_timer, then left_encoder_old = encoder_get_left(); the timer may have
\* counted by then.
Init ==
  /\ cnt \in 0 .. Word - 1 /\ old = cnt
  /\ total = 0 /\ inverted = FALSE /\ moved = 0 /\ travel = 0

Next ==
  \/ \E d \in {-1, 1} : Turn(d)
  \/ \E b \in BOOLEAN : SetInverted(b)
  \/ Sample

Spec == Init /\ [][Next]_vars

-----------------------------------------------------------------------------

TypeOK ==
  /\ cnt \in 0 .. Word - 1 /\ old \in 0 .. Word - 1
  /\ total \in Int /\ travel \in Int /\ moved \in -Reach .. Reach
  /\ inverted \in BOOLEAN

\* The 16-bit timer is added up correctly: the published total is the distance
\* travelled, whatever the direction, the number of wrap-arounds, the position at
\* power-on and changes of is_inverted on the way.
Odometry == total = travel
==============================================================================
