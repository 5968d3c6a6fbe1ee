----------------------------- MODULE SensorsProofs -----------------------------
(***************************************************************************)
(* Proofs about the wheel encoders, for every width of the timer, about    *)
(* the ADCs that the proximity sensors and the battery share, for any      *)
(* number of samples and every set of voltages, and about the threads on   *)
(* the I2C bus, for any number of LEDs, messages and lost transfers.       *)
(***************************************************************************)
EXTENDS MCSensors, TLAPS

-----------------------------------------------------------------------------
(* Encoder: the odometry is exact, as long as the wheel makes less than    *)
(* half a turn of the timer between two samples.                           *)

\* The timer is where the ticks since the last sample put it, modulo its range.
Wrapped == cnt - old - moved \in {- Word, 0, Word}

\* encoder_tick_diff recovers every movement of at most Half ticks from two
\* readings of the timer.
LEMMA TickDiffExact ==
  ASSUME NEW a \in 0 .. Word - 1, NEW b \in 0 .. Word - 1, NEW d \in -Half .. Half,
         b - a - d \in {- Word, 0, Word}
  PROVE  encoder_tick_diff(a, b) = d
BY HalfAssumption DEF encoder_tick_diff, Word

\* A step of the wheel or of the sampling thread keeps the total exact.
LEMMA EncoderStep ==
  ASSUME TypeOK, Wrapped, Odometry, [Next]_vars
  PROVE  TypeOK' /\ Wrapped' /\ Odometry'
<1>1. Half \in Nat /\ Reach \in 0 .. Half
  BY HalfAssumption, ReachAssumption
<1>2. ASSUME NEW d \in {-1, 1}, Turn(d) PROVE TypeOK' /\ Wrapped' /\ Odometry'
  <2>1. cnt' \in 0 .. Word - 1
    BY <1>1, <1>2 DEF Turn, TypeOK, Word
  <2>2. moved' = moved + d /\ moved' \in -Reach .. Reach
    BY <1>2 DEF Turn
  <2>3. cnt' - old - moved' \in {- Word, 0, Word}
    <3>1. cnt - old - moved \in {- Word, 0, Word} /\ Word = 2 * (Half + 1)
      BY DEF Wrapped, Word
    <3>2. cnt' = IF cnt + d = Word THEN 0 ELSE IF cnt + d < 0 THEN Word - 1 ELSE cnt + d
      BY <1>2 DEF Turn
    <3>3. /\ cnt \in 0 .. Word - 1 /\ old \in 0 .. Word - 1
          /\ moved \in -Reach .. Reach
      BY DEF TypeOK
    <3>4. d = -1 \/ d = 1
      OBVIOUS
    <3> QED
      BY <1>1, <2>2, <3>1, <3>2, <3>3, <3>4, SMT
  <2> QED
    BY <1>2, <2>1, <2>2, <2>3 DEF Turn, TypeOK, Wrapped, Odometry, Word
<1>3. ASSUME NEW b \in BOOLEAN, SetInverted(b) PROVE TypeOK' /\ Wrapped' /\ Odometry'
  BY <1>3 DEF SetInverted, TypeOK, Wrapped, Odometry, Word
<1>4. ASSUME Sample PROVE TypeOK' /\ Wrapped' /\ Odometry'
  <2>1. encoder_tick_diff(old, cnt) = moved
    BY <1>1, TickDiffExact DEF TypeOK, Wrapped
  <2>2. /\ total' = total + (IF inverted THEN -moved ELSE moved)
        /\ travel' = travel + (IF inverted THEN -moved ELSE moved)
    BY <1>4, <2>1 DEF Sample
  <2>3. total' = travel' /\ total' \in Int
    BY <1>1, <2>2 DEF TypeOK, Odometry
  <2>4. old' = cnt /\ moved' = 0 /\ cnt' = cnt /\ inverted' = inverted
    BY <1>4 DEF Sample
  <2>5. cnt' - old' - moved' = 0 /\ 0 \in -Reach .. Reach
    BY <1>1, <2>4 DEF TypeOK, Word
  <2> QED
    BY <2>3, <2>4, <2>5 DEF TypeOK, Wrapped, Odometry, Word
<1>5. ASSUME UNCHANGED vars PROVE TypeOK' /\ Wrapped' /\ Odometry'
  BY <1>5 DEF vars, TypeOK, Wrapped, Odometry, Word
<1> QED
  BY <1>2, <1>3, <1>4, <1>5 DEF Next

\* For every timer width, start position and sequence of movements and of changes
\* of is_inverted, the published total is the distance travelled.
THEOREM OdometryExact == Spec => []Odometry
<1>1. Init => TypeOK /\ Wrapped /\ Odometry
  <2> SUFFICES ASSUME Init PROVE TypeOK /\ Wrapped /\ Odometry
    OBVIOUS
  <2>1. cnt \in Int /\ cnt - old - moved = 0 /\ 0 \in -Reach .. Reach
    BY HalfAssumption, ReachAssumption DEF Init, Word
  <2>2. TypeOK /\ Odometry
    <3>1. inverted \in BOOLEAN
      BY Zenon DEF Init
    <3>2. /\ cnt \in 0 .. Word - 1 /\ old = cnt
          /\ total = 0 /\ moved = 0 /\ travel = 0
      BY DEF Init
    <3> QED
      BY <2>1, <3>1, <3>2 DEF TypeOK, Odometry
  <2>3. Wrapped
    BY <2>1 DEF Wrapped
  <2> QED
    BY <2>2, <2>3
<1>2. TypeOK /\ Wrapped /\ Odometry /\ [Next]_vars => (TypeOK /\ Wrapped /\ Odometry)'
  BY EncoderStep
<1> QED
  BY <1>1, <1>2, PTL DEF Spec

-----------------------------------------------------------------------------
(* AdcSensors: a measurement of the proximity sensors is of one turn of the *)
(* thread, and of the point of the LED waveform it is meant for.            *)

\* The types, and what the battery thread publishes is a measurement.
AdcTypes ==
  /\ Adc!TypeOK
  /\ sem.battery \/ battery = "publish" => battery_value \in Voltages

\* Who holds ADC2, and what runs on an ADC, follow from where the two threads are; a
\* semaphore is signalled for the measurement under way.
AdcLocks ==
  /\ battery \in {"start", "wait"} => owner["ADCD2"] = "battery"
  /\ prox \in {"start3", "start2", "wait3", "wait2", "copy"} => owner["ADCD2"] = "prox"
  /\ adc["ADCD2"].group = "battery" => battery = "wait"
  /\ sem.battery => battery = "wait" /\ adc["ADCD2"].group = Adc!None
  /\ adc["ADCD3"].group # "battery"
  /\ adc["ADCD2"].group = "proximity" =>
       prox \in {"wait3", "wait2"} /\ ~ sem.adc2 /\ adc["ADCD2"].left > 0
  /\ adc["ADCD3"].group = "proximity" =>
       prox \in {"start2", "wait3"} /\ ~ sem.adc3 /\ adc["ADCD3"].left > 0
  /\ sem.adc2 => prox \in {"wait3", "wait2"}
  /\ sem.adc3 => prox \in {"start2", "wait3"}
  /\ sem.adc2 \/ prox = "copy" => stamp["ADCD2"] = turn
  /\ sem.adc3 \/ prox \in {"wait2", "copy"} => stamp["ADCD3"] = turn

\* The timer will not reach a point before the end of its cycle.
Passed(p) == (p = "on" => phase \in {"on", "off"}) /\ (p = "off" => phase = "off")

\* Samples are taken where they were asked for: the timer is either there already or past
\* the point of the measurement before.
AdcPoints ==
  /\ prox # "set" => preload = goal /\ (position = goal \/ Passed(position))
  /\ prox \in {"set", "copy", "unlock3"} => Passed(position)
  /\ prox = "start2" => ~ sem.adc3
  /\ prox = "wait3" /\ sem.adc3 => Passed(position)
  /\ prox = "wait2" /\ sem.adc2 => Passed(position)
  /\ \A a \in Adc!ADCs : adc[a].group = "proximity" => adc[a].at \subseteq {goal}
  /\ sem.adc2 \/ prox = "copy" => value["ADCD2"] = {goal}
  /\ sem.adc3 \/ prox \in {"wait2", "copy"} => value["ADCD3"] = {goal}

\* The inductive invariant.
AdcInv == AdcTypes /\ AdcLocks /\ (~ delayed => AdcPoints)

\* The state of the two ADC threads at boot.
LEMMA AdcInit == Adc!Init => AdcInv
<1> SUFFICES ASSUME Adc!Init PROVE AdcInv
  OBVIOUS
<1>1. sem \in [{"adc3", "adc2", "battery"} -> BOOLEAN] /\ ~ sem.battery /\ ~ sem.adc2 /\ ~ sem.adc3
  BY Zenon DEF Adc!Init
<1>2. delayed \in BOOLEAN /\ warning \in BOOLEAN /\ off \in BOOLEAN
  BY Zenon DEF Adc!Init
<1>3. Adc!TypeOK
  BY <1>1, <1>2, SensorsAssumption DEF Adc!Init, Adc!TypeOK, Adc!Idle, Adc!ADCs, Adc!None,
       Adc!ConstantsOK
<1>4. AdcTypes /\ AdcLocks
  BY <1>1, <1>3 DEF Adc!Init, AdcTypes, AdcLocks, Adc!Idle, Adc!ADCs, Adc!None
<1>5. AdcPoints
  BY <1>1 DEF Adc!Init, AdcPoints, Passed, Adc!Idle, Adc!ADCs, Adc!None
<1> QED BY <1>4, <1>5 DEF AdcInv

\* What an ADC may be converting.
Conversions ==
  [group : {Adc!None, "proximity", "battery"}, left : 0 .. (Samples2 + Samples3),
   at : SUBSET {"on", "off"}]

\* A conversion that goes on has one sample less to take, and one more point behind it.
LEMMA OneSample ==
  ASSUME NEW r \in Conversions, NEW p \in {"on", "off"}, r.left > 0,
         NEW s, s = [r EXCEPT !.left = @ - 1, !.at = @ \cup {p}]
  PROVE  s \in Conversions /\ s.group = r.group /\ s.left = r.left - 1 /\ s.at = r.at \cup {p}
<1> DEFINE l == r.left - 1 q == r.at \cup {p}
<1>1. l \in 0 .. (Samples2 + Samples3) /\ q \in SUBSET {"on", "off"}
  BY SensorsAssumption DEF Conversions, Adc!ConstantsOK
<1>2. s = [r EXCEPT !.left = l, !.at = q]
  BY Zenon
<1> HIDE DEF l, q
<1>3. s \in Conversions
  BY <1>1, <1>2, Zenon DEF Conversions
<1>4. s.group = r.group /\ s.left = l /\ s.at = q
  BY <1>2 DEF Conversions
<1> QED BY <1>3, <1>4, Zenon DEF l, q

\* The timer triggers an ADC at a point, for a last sample or for another one.
Hit(a, p) == position = p /\ adc[a].group = "proximity"
LastHit(a, p) == Hit(a, p) /\ adc[a].left = 1

\* What a point of the timer does to an ADC.
LEMMA TickEffect ==
  ASSUME Adc!TypeOK, AdcLocks, Adc!Tick, NEW a \in Adc!ADCs, NEW p, p = phase'
  PROVE  /\ p = Adc!Following[phase] /\ p \in {"start", "on", "off"}
         /\ ~ Hit(a, p) => adc'[a] = adc[a]
         /\ LastHit(a, p) => /\ adc'[a] = Adc!Idle /\ value'[a] = adc[a].at \cup {p}
                             /\ stamp'[a] = turn /\ sem'[Adc!SemOf(a)]
         /\ Hit(a, p) /\ ~ LastHit(a, p) =>
              /\ adc'[a].group = "proximity" /\ adc'[a].left = adc[a].left - 1
              /\ adc'[a].at = adc[a].at \cup {p}
         /\ ~ LastHit(a, p) =>
              value'[a] = value[a] /\ stamp'[a] = stamp[a] /\ sem'[Adc!SemOf(a)] = sem[Adc!SemOf(a)]
         /\ sem'.battery = sem.battery /\ sem' \in [{"adc3", "adc2", "battery"} -> BOOLEAN]
         /\ adc'[a] \in Conversions /\ value'[a] \in SUBSET {"on", "off"} /\ stamp'[a] \in 0 .. 1
<1> DEFINE t == Hit(a, p) c == LastHit(a, p)
<1>1. p = Adc!Following[phase] /\ p \in {"start", "on", "off"}
  BY DEF Adc!Tick, Adc!Following, Adc!TypeOK
<1>2. (t <=> a \in Adc!Triggered(p)) /\ (c <=> a \in Adc!Completed(p))
  BY Zenon DEF Adc!Triggered, Adc!Completed, Hit, LastHit
<1> HIDE DEF t, c
<1>3. position = p => p \in {"on", "off"}
  BY <1>1 DEF Adc!TypeOK, Adc!None
<1>4. /\ ~ t => adc'[a] = adc[a]
      /\ c => adc'[a] = Adc!Idle
      /\ t /\ ~ c => adc'[a] = [adc[a] EXCEPT !.left = @ - 1, !.at = @ \cup {p}]
  BY <1>2, Zenon DEF Adc!Tick, Adc!adc_cb, Adc!Completed
<1>5. /\ c => value'[a] = adc[a].at \cup {p} /\ stamp'[a] = turn
      /\ ~ c => value'[a] = value[a] /\ stamp'[a] = stamp[a]
  BY <1>2, Zenon DEF Adc!Tick, Adc!adc_cb
<1>6. /\ c => sem'[Adc!SemOf(a)]
      /\ ~ c => sem'[Adc!SemOf(a)] = sem[Adc!SemOf(a)]
      /\ sem'.battery = sem.battery /\ sem' \in [{"adc3", "adc2", "battery"} -> BOOLEAN]
  <2>1. /\ sem \in [{"adc3", "adc2", "battery"} -> BOOLEAN]
        /\ sem' = [s \in {"adc3", "adc2", "battery"} |->
                     sem[s] \/ \E b \in Adc!Completed(p) : s = Adc!SemOf(b)]
    BY Zenon DEF Adc!Tick, Adc!adc_cb, Adc!TypeOK
  <2>2. Adc!SemOf(a) \in {"adc3", "adc2"} /\ \A b \in Adc!ADCs : Adc!SemOf(b) = Adc!SemOf(a) => b = a
    BY DEF Adc!SemOf, Adc!ADCs
  <2>3. \A b \in Adc!Completed(p) : b \in Adc!ADCs /\ Adc!SemOf(b) # "battery"
    BY DEF Adc!SemOf, Adc!Completed, Adc!Triggered
  <2>4. sem' \in [{"adc3", "adc2", "battery"} -> BOOLEAN]
    BY <2>1, Zenon
  <2>5. sem'.battery = (sem.battery \/ \E b \in Adc!Completed(p) : "battery" = Adc!SemOf(b))
        /\ sem.battery \in BOOLEAN
    BY <2>1, Zenon
  <2>6. sem'[Adc!SemOf(a)] =
          (sem[Adc!SemOf(a)] \/ \E b \in Adc!Completed(p) : Adc!SemOf(a) = Adc!SemOf(b))
        /\ sem[Adc!SemOf(a)] \in BOOLEAN
    BY <2>1, <2>2, Zenon
  <2>7. sem'.battery = sem.battery
    <3>1. ~ \E b \in Adc!Completed(p) : "battery" = Adc!SemOf(b)
      BY <2>3, Zenon
    <3>2. CASE sem.battery
      <4>1. sem'.battery = TRUE /\ sem.battery = TRUE
        BY <2>5, <3>2, Zenon
      <4> QED BY <4>1, Zenon
    <3>3. CASE ~ sem.battery
      <4>1. sem'.battery = FALSE /\ sem.battery = FALSE
        BY <2>5, <3>1, <3>3, Zenon
      <4> QED BY <4>1, Zenon
    <3> QED BY <3>2, <3>3, Zenon
  <2>8. c => \E b \in Adc!Completed(p) : Adc!SemOf(a) = Adc!SemOf(b)
    BY <1>2, Zenon
  <2>9. ~ c => ~ \E b \in Adc!Completed(p) : Adc!SemOf(a) = Adc!SemOf(b)
    BY <1>2, <2>2, <2>3, Zenon
  <2> QED BY <2>4, <2>6, <2>7, <2>8, <2>9, Zenon
<1>7. adc[a] \in Conversions /\ Adc!Idle \in Conversions
      /\ value[a] \in SUBSET {"on", "off"} /\ stamp[a] \in 0 .. 1 /\ turn \in 0 .. 1
  BY SensorsAssumption DEF Adc!TypeOK, Conversions, Adc!Idle, Adc!ConstantsOK
<1>8. t /\ ~ c => /\ adc'[a].group = "proximity" /\ adc'[a].left = adc[a].left - 1
                  /\ adc'[a].at = adc[a].at \cup {p} /\ adc'[a] \in Conversions
  <2> SUFFICES ASSUME t, ~ c 
               PROVE /\ adc'[a].group = "proximity" /\ adc'[a].left = adc[a].left - 1
                     /\ adc'[a].at = adc[a].at \cup {p} /\ adc'[a] \in Conversions
    OBVIOUS
  <2>1. adc[a].left > 0 /\ p \in {"on", "off"} /\ adc[a].group = "proximity"
    BY <1>3 DEF AdcLocks, Adc!ADCs, t, Hit
  <2> DEFINE r == adc[a] s == adc'[a]
  <2>2. s = [r EXCEPT !.left = @ - 1, !.at = @ \cup {p}]
    BY <1>4, Zenon
  <2>3. r \in Conversions /\ r.left > 0 /\ p \in {"on", "off"} /\ r.group = "proximity"
    BY <1>7, <2>1
  <2> HIDE DEF r, s
  <2>4. s \in Conversions /\ s.group = r.group /\ s.left = r.left - 1 /\ s.at = r.at \cup {p}
    BY <2>2, <2>3, OneSample, Zenon
  <2> QED BY <2>3, <2>4, Zenon DEF r, s
<1>9. value'[a] \in SUBSET {"on", "off"} /\ stamp'[a] \in 0 .. 1 
  <2>1. CASE c
    <3>1. p \in {"on", "off"} /\ adc[a].at \in SUBSET {"on", "off"}
      BY <1>3, <1>7, <2>1 DEF Conversions, c, LastHit, Hit
    <3> QED BY <1>5, <1>7, <2>1, <3>1
  <2>2. CASE ~ c
    BY <1>5, <1>7, <2>2
  <2> QED BY <2>1, <2>2
<1>10. adc'[a] \in Conversions
  BY <1>4, <1>7, <1>8, Zenon
<1> QED BY <1>1, <1>4, <1>5, <1>6, <1>8, <1>9, <1>10, Zenon DEF t, c

\* The types in the form the steps below use.
LEMMA AdcShapes ==
  ASSUME Adc!TypeOK
  PROVE  /\ adc \in [Adc!ADCs -> Conversions] /\ Adc!ADCs = {"ADCD2", "ADCD3"}
         /\ owner \in [Adc!ADCs -> {Adc!None, "prox", "battery"}]
         /\ sem \in [{"adc3", "adc2", "battery"} -> BOOLEAN]
BY DEF Adc!TypeOK, Conversions, Adc!ADCs

\* A conversion that is started.
LEMMA Starts ==
  /\ [group |-> "proximity", left |-> Samples3, at |-> {}] \in Conversions
  /\ [group |-> "proximity", left |-> Samples2, at |-> {}] \in Conversions
  /\ [group |-> "battery", left |-> 1, at |-> {}] \in Conversions
  /\ Adc!Idle \in Conversions
BY SensorsAssumption DEF Conversions, Adc!Idle, Adc!ConstantsOK

\* A semaphore that is signalled or taken leaves the others alone.
LEMMA SemStep ==
  ASSUME sem \in [{"adc3", "adc2", "battery"} -> BOOLEAN],
         NEW s \in {"adc3", "adc2", "battery"}, NEW b \in BOOLEAN, sem' = [sem EXCEPT ![s] = b]
  PROVE  /\ sem' \in [{"adc3", "adc2", "battery"} -> BOOLEAN]
         /\ sem'[s] = b /\ \A u \in {"adc3", "adc2", "battery"} \ {s} : sem'[u] = sem[u]
BY Zenon

\* One lemma for each part of the invariant, one step for each action.
LEMMA AdcTypesStep ==
  AdcTypes /\ AdcLocks /\ [Adc!Next]_adcvars => AdcTypes'
<1> SUFFICES ASSUME AdcTypes, AdcLocks, [Adc!Next]_adcvars PROVE AdcTypes'
  OBVIOUS
<1>a. /\ adc \in [Adc!ADCs -> Conversions] /\ Adc!ADCs = {"ADCD2", "ADCD3"}
      /\ owner \in [Adc!ADCs -> {Adc!None, "prox", "battery"}]
      /\ sem \in [{"adc3", "adc2", "battery"} -> BOOLEAN]
      /\ Samples2 > 0 /\ Samples3 > 0
  BY AdcShapes, SensorsAssumption DEF AdcTypes, Adc!ConstantsOK
<1> USE DEF AdcTypes, Adc!TypeOK, Adc!timer, Adc!proximity, Adc!cutoff, Adc!others, Adc!ProxGoes,
     Adc!BatteryGoes
<1>1. CASE Adc!Tick
  <2>1. \A a \in Adc!ADCs :
          adc'[a] \in Conversions /\ value'[a] \in SUBSET {"on", "off"} /\ stamp'[a] \in 0 .. 1
    BY <1>1, TickEffect
  <2>2. /\ adc' = [a \in Adc!ADCs |-> adc'[a]] /\ value' = [a \in Adc!ADCs |-> value'[a]]
        /\ stamp' = [a \in Adc!ADCs |-> stamp'[a]]
    BY <1>1, Zenon DEF Adc!Tick, Adc!adc_cb
  <2>3. /\ adc' \in [Adc!ADCs -> Conversions] /\ value' \in [Adc!ADCs -> SUBSET {"on", "off"}]
        /\ stamp' \in [Adc!ADCs -> 0 .. 1]
    BY <2>1, <2>2, Zenon
  <2>4. /\ sem' \in [{"adc3", "adc2", "battery"} -> BOOLEAN] /\ sem'.battery = sem.battery
        /\ phase' \in {"start", "on", "off"}
    BY <1>1, <1>a, TickEffect
  <2>5. delayed' \in BOOLEAN
    BY <1>1, Zenon DEF Adc!Tick
  <2> QED BY <1>1, <2>3, <2>4, <2>5 DEF Adc!Tick, Conversions
<1>2. CASE Adc!battery_adc_cb
  <2>1. sem' = [sem EXCEPT !["battery"] = TRUE]
    BY <1>2, Zenon DEF Adc!battery_adc_cb
  <2>2. sem' \in [{"adc3", "adc2", "battery"} -> BOOLEAN] /\ sem'.battery
        /\ sem'.adc3 = sem.adc3 /\ sem'.adc2 = sem.adc2
    BY <1>a, <2>1, SemStep, Zenon
  <2>3. adc' \in [Adc!ADCs -> Conversions]
    BY <1>2, <1>a, Starts DEF Adc!battery_adc_cb
  <2> QED BY <1>2, <2>2, <2>3 DEF Adc!battery_adc_cb, Conversions
<1>3. CASE Adc!set_measurement_position
  BY <1>3, <1>a DEF Adc!set_measurement_position
<1>4. CASE Adc!AcquireBus3
  BY <1>4, <1>a DEF Adc!AcquireBus3
<1>5. CASE Adc!AcquireBus2
  BY <1>5, <1>a DEF Adc!AcquireBus2
<1>6. CASE Adc!GotBus2
  BY <1>6, <1>a DEF Adc!GotBus2
<1>7. CASE Adc!StartConversion3
  <2>1. adc' \in [Adc!ADCs -> Conversions]
    BY <1>7, <1>a, Starts DEF Adc!StartConversion3
  <2> QED BY <1>7, <2>1 DEF Adc!StartConversion3, Conversions
<1>8. CASE Adc!StartConversion2
  <2>1. adc' \in [Adc!ADCs -> Conversions]
    BY <1>8, <1>a, Starts DEF Adc!StartConversion2
  <2> QED BY <1>8, <2>1 DEF Adc!StartConversion2, Conversions
<1>9. CASE Adc!WaitAdc("wait3", "adc3", "wait2")
  <2>1. sem' = [sem EXCEPT !["adc3"] = FALSE]
    BY <1>9, Zenon DEF Adc!WaitAdc
  <2>2. sem' \in [{"adc3", "adc2", "battery"} -> BOOLEAN] /\ ~ sem'.adc3
        /\ sem'.adc2 = sem.adc2 /\ sem'.battery = sem.battery
    BY <1>a, <2>1, SemStep, Zenon
  <2> QED BY <1>9, <1>a, <2>2 DEF Adc!WaitAdc
<1>10. CASE Adc!WaitAdc("wait2", "adc2", "copy")
  <2>1. sem' = [sem EXCEPT !["adc2"] = FALSE]
    BY <1>10, Zenon DEF Adc!WaitAdc
  <2>2. sem' \in [{"adc3", "adc2", "battery"} -> BOOLEAN] /\ ~ sem'.adc2
        /\ sem'.adc3 = sem.adc3 /\ sem'.battery = sem.battery
    BY <1>a, <2>1, SemStep, Zenon
  <2> QED BY <1>10, <1>a, <2>2 DEF Adc!WaitAdc
<1>11. CASE Adc!ReleaseBus2
  BY <1>11, <1>a DEF Adc!ReleaseBus2, Adc!NextOwner
<1>12. CASE Adc!ReleaseBus3
  BY <1>12, <1>a DEF Adc!ReleaseBus3
<1>13. CASE Adc!BatteryAcquires
  BY <1>13, <1>a DEF Adc!BatteryAcquires
<1>14. CASE Adc!BatteryGotBus
  BY <1>14, <1>a DEF Adc!BatteryGotBus
<1>15. CASE Adc!BatteryStarts
  <2>1. adc' \in [Adc!ADCs -> Conversions]
    BY <1>15, <1>a, Starts DEF Adc!BatteryStarts
  <2> QED BY <1>15, <2>1 DEF Adc!BatteryStarts, Conversions
<1>16. CASE Adc!BatteryReleases
  <2>1. sem' = [sem EXCEPT !["battery"] = FALSE]
    BY <1>16, Zenon DEF Adc!BatteryReleases
  <2>2. sem' \in [{"adc3", "adc2", "battery"} -> BOOLEAN] /\ ~ sem'.battery
        /\ sem'.adc2 = sem.adc2 /\ sem'.adc3 = sem.adc3
    BY <1>a, <2>1, SemStep, Zenon
  <2> QED BY <1>16, <1>a, <2>2 DEF Adc!BatteryReleases, Adc!NextOwner
<1>17. CASE Adc!BatteryPublishes
  BY <1>17, <1>a DEF Adc!BatteryPublishes
<1>18. CASE Adc!battery_protection_thd
  <2>1. warning' \in BOOLEAN /\ off' \in BOOLEAN
    BY <1>18, Zenon DEF Adc!battery_protection_thd
  <2> QED BY <1>18, <2>1 DEF Adc!battery_protection_thd
<1>19. CASE Adc!Discharge
  BY <1>19, <1>a DEF Adc!Discharge
<1>20. CASE UNCHANGED adcvars
  BY <1>20 DEF adcvars
<1> QED BY <1>1, <1>2, <1>3, <1>4, <1>5, <1>6, <1>7, <1>8, <1>9, <1>10, <1>11, <1>12, <1>13,
     <1>14, <1>15, <1>16, <1>17, <1>18, <1>19, <1>20
           DEF Adc!Next, Adc!proximity_thd, Adc!battery_thd

\* Owner, conversions and semaphores stay in step with the two threads.
LEMMA AdcLocksStep ==
  AdcTypes /\ AdcLocks /\ [Adc!Next]_adcvars => AdcLocks'
<1> SUFFICES ASSUME AdcTypes, AdcLocks, [Adc!Next]_adcvars PROVE AdcLocks'
  OBVIOUS
<1>a. /\ adc \in [Adc!ADCs -> Conversions] /\ Adc!ADCs = {"ADCD2", "ADCD3"}
      /\ owner \in [Adc!ADCs -> {Adc!None, "prox", "battery"}]
      /\ sem \in [{"adc3", "adc2", "battery"} -> BOOLEAN]
      /\ Samples2 > 0 /\ Samples3 > 0
  BY AdcShapes, SensorsAssumption DEF AdcTypes, Adc!ConstantsOK
<1> USE DEF AdcLocks, Adc!None, Adc!Idle, Conversions, Adc!timer, Adc!proximity, Adc!cutoff,
     Adc!others, Adc!ProxGoes, Adc!BatteryGoes
<1>1. CASE Adc!Tick
  <2>1. /\ phase' = Adc!Following[phase] /\ phase' \in {"start", "on", "off"}
        /\ ~ Hit("ADCD2", phase') => adc'["ADCD2"] = adc["ADCD2"]
        /\ LastHit("ADCD2", phase') =>
             /\ adc'["ADCD2"] = Adc!Idle /\ value'["ADCD2"] = adc["ADCD2"].at \cup {phase'}
             /\ stamp'["ADCD2"] = turn /\ sem'.adc2
        /\ Hit("ADCD2", phase') /\ ~ LastHit("ADCD2", phase') =>
             /\ adc'["ADCD2"].group = "proximity" /\ adc'["ADCD2"].left = adc["ADCD2"].left - 1
             /\ adc'["ADCD2"].at = adc["ADCD2"].at \cup {phase'}
        /\ ~ LastHit("ADCD2", phase') =>
             /\ value'["ADCD2"] = value["ADCD2"] /\ stamp'["ADCD2"] = stamp["ADCD2"]
             /\ sem'.adc2 = sem.adc2
        /\ sem'.battery = sem.battery /\ sem' \in [{"adc3", "adc2", "battery"} -> BOOLEAN]
    BY <1>1, <1>a, TickEffect, Zenon DEF Adc!SemOf, AdcTypes
  <2>2. /\ ~ Hit("ADCD3", phase') => adc'["ADCD3"] = adc["ADCD3"]
        /\ LastHit("ADCD3", phase') =>
             /\ adc'["ADCD3"] = Adc!Idle /\ value'["ADCD3"] = adc["ADCD3"].at \cup {phase'}
             /\ stamp'["ADCD3"] = turn /\ sem'.adc3
        /\ Hit("ADCD3", phase') /\ ~ LastHit("ADCD3", phase') =>
             /\ adc'["ADCD3"].group = "proximity" /\ adc'["ADCD3"].left = adc["ADCD3"].left - 1
             /\ adc'["ADCD3"].at = adc["ADCD3"].at \cup {phase'}
        /\ ~ LastHit("ADCD3", phase') =>
             /\ value'["ADCD3"] = value["ADCD3"] /\ stamp'["ADCD3"] = stamp["ADCD3"]
             /\ sem'.adc3 = sem.adc3
    BY <1>1, <1>a, TickEffect, Zenon DEF Adc!SemOf, AdcTypes
  <2> QED BY <1>1, <1>a, <2>1, <2>2 DEF Adc!Tick, Hit, LastHit
<1>2. CASE Adc!battery_adc_cb
  <2>1. sem' = [sem EXCEPT !["battery"] = TRUE]
    BY <1>2, Zenon DEF Adc!battery_adc_cb
  <2>2. sem' \in [{"adc3", "adc2", "battery"} -> BOOLEAN] /\ sem'.battery
        /\ sem'.adc3 = sem.adc3 /\ sem'.adc2 = sem.adc2
    BY <1>a, <2>1, SemStep, Zenon
  <2> QED BY <1>2, <1>a, <2>2 DEF Adc!battery_adc_cb
<1>3. CASE Adc!set_measurement_position
  BY <1>3, <1>a DEF Adc!set_measurement_position
<1>4. CASE Adc!AcquireBus3
  BY <1>4, <1>a DEF Adc!AcquireBus3
<1>5. CASE Adc!AcquireBus2
  BY <1>5, <1>a DEF Adc!AcquireBus2
<1>6. CASE Adc!GotBus2
  BY <1>6, <1>a DEF Adc!GotBus2
<1>7. CASE Adc!StartConversion3
  BY <1>7, <1>a DEF Adc!StartConversion3
<1>8. CASE Adc!StartConversion2
  BY <1>8, <1>a DEF Adc!StartConversion2
<1>9. CASE Adc!WaitAdc("wait3", "adc3", "wait2")
  <2>1. sem' = [sem EXCEPT !["adc3"] = FALSE]
    BY <1>9, Zenon DEF Adc!WaitAdc
  <2>2. sem' \in [{"adc3", "adc2", "battery"} -> BOOLEAN] /\ ~ sem'.adc3
        /\ sem'.adc2 = sem.adc2 /\ sem'.battery = sem.battery
    BY <1>a, <2>1, SemStep, Zenon
  <2> QED BY <1>9, <1>a, <2>2 DEF Adc!WaitAdc
<1>10. CASE Adc!WaitAdc("wait2", "adc2", "copy")
  <2>1. sem' = [sem EXCEPT !["adc2"] = FALSE]
    BY <1>10, Zenon DEF Adc!WaitAdc
  <2>2. sem' \in [{"adc3", "adc2", "battery"} -> BOOLEAN] /\ ~ sem'.adc2
        /\ sem'.adc3 = sem.adc3 /\ sem'.battery = sem.battery
    BY <1>a, <2>1, SemStep, Zenon
  <2> QED BY <1>10, <1>a, <2>2 DEF Adc!WaitAdc
<1>11. CASE Adc!ReleaseBus2
  BY <1>11, <1>a DEF Adc!ReleaseBus2, Adc!NextOwner
<1>12. CASE Adc!ReleaseBus3
  BY <1>12, <1>a DEF Adc!ReleaseBus3
<1>13. CASE Adc!BatteryAcquires
  BY <1>13, <1>a DEF Adc!BatteryAcquires
<1>14. CASE Adc!BatteryGotBus
  BY <1>14, <1>a DEF Adc!BatteryGotBus
<1>15. CASE Adc!BatteryStarts
  BY <1>15, <1>a DEF Adc!BatteryStarts
<1>16. CASE Adc!BatteryReleases
  <2>1. sem' = [sem EXCEPT !["battery"] = FALSE]
    BY <1>16, Zenon DEF Adc!BatteryReleases
  <2>2. sem' \in [{"adc3", "adc2", "battery"} -> BOOLEAN] /\ ~ sem'.battery
        /\ sem'.adc2 = sem.adc2 /\ sem'.adc3 = sem.adc3
    BY <1>a, <2>1, SemStep, Zenon
  <2> QED BY <1>16, <1>a, <2>2 DEF Adc!BatteryReleases, Adc!NextOwner
<1>17. CASE Adc!BatteryPublishes
  BY <1>17, <1>a DEF Adc!BatteryPublishes
<1>18. CASE Adc!battery_protection_thd
  BY <1>18, <1>a DEF Adc!battery_protection_thd
<1>19. CASE Adc!Discharge
  BY <1>19, <1>a DEF Adc!Discharge
<1>20. CASE UNCHANGED adcvars
  BY <1>20 DEF adcvars
<1> QED BY <1>1, <1>2, <1>3, <1>4, <1>5, <1>6, <1>7, <1>8, <1>9, <1>10, <1>11, <1>12, <1>13,
     <1>14, <1>15, <1>16, <1>17, <1>18, <1>19, <1>20
           DEF Adc!Next, Adc!proximity_thd, Adc!battery_thd

\* The compare value stays the one asked for, or that of a point passed in this cycle.
LEMMA AdcPointsStep ==
  AdcTypes /\ AdcLocks /\ (~ delayed => AdcPoints) /\ [Adc!Next]_adcvars => (~ delayed => AdcPoints)'
<1> SUFFICES ASSUME AdcTypes, AdcLocks, [Adc!Next]_adcvars, ~ delayed => AdcPoints, ~ delayed'
             PROVE  AdcPoints'
  OBVIOUS
<1>a. /\ adc \in [Adc!ADCs -> Conversions] /\ Adc!ADCs = {"ADCD2", "ADCD3"}
      /\ owner \in [Adc!ADCs -> {Adc!None, "prox", "battery"}]
      /\ sem \in [{"adc3", "adc2", "battery"} -> BOOLEAN]
      /\ Samples2 > 0 /\ Samples3 > 0
  BY AdcShapes, SensorsAssumption DEF AdcTypes, Adc!ConstantsOK
<1> USE DEF AdcPoints, AdcLocks, Passed, Adc!None, Adc!Idle, Conversions, Adc!timer,
     Adc!proximity, Adc!cutoff, Adc!others, Adc!ProxGoes, Adc!BatteryGoes
<1>1. CASE Adc!Tick
  <2>1. /\ phase' = Adc!Following[phase] /\ phase' \in {"start", "on", "off"}
        /\ ~ Hit("ADCD2", phase') => adc'["ADCD2"] = adc["ADCD2"]
        /\ LastHit("ADCD2", phase') =>
             /\ adc'["ADCD2"] = Adc!Idle /\ value'["ADCD2"] = adc["ADCD2"].at \cup {phase'}
             /\ stamp'["ADCD2"] = turn /\ sem'.adc2
        /\ Hit("ADCD2", phase') /\ ~ LastHit("ADCD2", phase') =>
             /\ adc'["ADCD2"].group = "proximity" /\ adc'["ADCD2"].left = adc["ADCD2"].left - 1
             /\ adc'["ADCD2"].at = adc["ADCD2"].at \cup {phase'}
        /\ ~ LastHit("ADCD2", phase') =>
             /\ value'["ADCD2"] = value["ADCD2"] /\ stamp'["ADCD2"] = stamp["ADCD2"]
             /\ sem'.adc2 = sem.adc2
        /\ sem'.battery = sem.battery /\ sem' \in [{"adc3", "adc2", "battery"} -> BOOLEAN]
    BY <1>1, <1>a, TickEffect, Zenon DEF Adc!SemOf, AdcTypes
  <2>2. /\ ~ Hit("ADCD3", phase') => adc'["ADCD3"] = adc["ADCD3"]
        /\ LastHit("ADCD3", phase') =>
             /\ adc'["ADCD3"] = Adc!Idle /\ value'["ADCD3"] = adc["ADCD3"].at \cup {phase'}
             /\ stamp'["ADCD3"] = turn /\ sem'.adc3
        /\ Hit("ADCD3", phase') /\ ~ LastHit("ADCD3", phase') =>
             /\ adc'["ADCD3"].group = "proximity" /\ adc'["ADCD3"].left = adc["ADCD3"].left - 1
             /\ adc'["ADCD3"].at = adc["ADCD3"].at \cup {phase'}
        /\ ~ LastHit("ADCD3", phase') =>
             /\ value'["ADCD3"] = value["ADCD3"] /\ stamp'["ADCD3"] = stamp["ADCD3"]
             /\ sem'.adc3 = sem.adc3
    BY <1>1, <1>a, TickEffect, Zenon DEF Adc!SemOf, AdcTypes
  <2>3. ~ delayed /\ ~ Adc!ProxRuns
    BY <1>1, Zenon DEF Adc!Tick
  <2>4. AdcPoints /\ prox \in {"wait3", "wait2", "blocked"}
    BY <2>3 DEF Adc!ProxRuns
  <2> QED BY <1>1, <1>a, <2>1, <2>2, <2>3, <2>4
          DEF Adc!Tick, Adc!ProxRuns, Hit, LastHit, Adc!Following, AdcTypes, Adc!TypeOK
<1>2. CASE Adc!battery_adc_cb
  <2>1. sem' = [sem EXCEPT !["battery"] = TRUE]
    BY <1>2, Zenon DEF Adc!battery_adc_cb
  <2>2. sem' \in [{"adc3", "adc2", "battery"} -> BOOLEAN] /\ sem'.battery
        /\ sem'.adc3 = sem.adc3 /\ sem'.adc2 = sem.adc2
    BY <1>a, <2>1, SemStep, Zenon
  <2> QED BY <1>2, <1>a, <2>2 DEF Adc!battery_adc_cb
<1>3. CASE Adc!set_measurement_position
  BY <1>3, <1>a DEF Adc!set_measurement_position
<1>4. CASE Adc!AcquireBus3
  BY <1>4, <1>a DEF Adc!AcquireBus3
<1>5. CASE Adc!AcquireBus2
  BY <1>5, <1>a DEF Adc!AcquireBus2
<1>6. CASE Adc!GotBus2
  BY <1>6, <1>a DEF Adc!GotBus2
<1>7. CASE Adc!StartConversion3
  BY <1>7, <1>a DEF Adc!StartConversion3
<1>8. CASE Adc!StartConversion2
  BY <1>8, <1>a DEF Adc!StartConversion2
<1>9. CASE Adc!WaitAdc("wait3", "adc3", "wait2")
  <2>1. sem' = [sem EXCEPT !["adc3"] = FALSE]
    BY <1>9, Zenon DEF Adc!WaitAdc
  <2>2. sem' \in [{"adc3", "adc2", "battery"} -> BOOLEAN] /\ ~ sem'.adc3
        /\ sem'.adc2 = sem.adc2 /\ sem'.battery = sem.battery
    BY <1>a, <2>1, SemStep, Zenon
  <2> QED BY <1>9, <1>a, <2>2 DEF Adc!WaitAdc
<1>10. CASE Adc!WaitAdc("wait2", "adc2", "copy")
  <2>1. sem' = [sem EXCEPT !["adc2"] = FALSE]
    BY <1>10, Zenon DEF Adc!WaitAdc
  <2>2. sem' \in [{"adc3", "adc2", "battery"} -> BOOLEAN] /\ ~ sem'.adc2
        /\ sem'.adc3 = sem.adc3 /\ sem'.battery = sem.battery
    BY <1>a, <2>1, SemStep, Zenon
  <2> QED BY <1>10, <1>a, <2>2 DEF Adc!WaitAdc
<1>11. CASE Adc!ReleaseBus2
  BY <1>11, <1>a DEF Adc!ReleaseBus2, Adc!NextOwner
<1>12. CASE Adc!ReleaseBus3
  BY <1>12, <1>a DEF Adc!ReleaseBus3
<1>13. CASE Adc!BatteryAcquires
  BY <1>13, <1>a DEF Adc!BatteryAcquires
<1>14. CASE Adc!BatteryGotBus
  BY <1>14, <1>a DEF Adc!BatteryGotBus
<1>15. CASE Adc!BatteryStarts
  BY <1>15, <1>a DEF Adc!BatteryStarts
<1>16. CASE Adc!BatteryReleases
  <2>1. sem' = [sem EXCEPT !["battery"] = FALSE]
    BY <1>16, Zenon DEF Adc!BatteryReleases
  <2>2. sem' \in [{"adc3", "adc2", "battery"} -> BOOLEAN] /\ ~ sem'.battery
        /\ sem'.adc2 = sem.adc2 /\ sem'.adc3 = sem.adc3
    BY <1>a, <2>1, SemStep, Zenon
  <2> QED BY <1>16, <1>a, <2>2 DEF Adc!BatteryReleases, Adc!NextOwner
<1>17. CASE Adc!BatteryPublishes
  BY <1>17, <1>a DEF Adc!BatteryPublishes
<1>18. CASE Adc!battery_protection_thd
  BY <1>18, <1>a DEF Adc!battery_protection_thd
<1>19. CASE Adc!Discharge
  BY <1>19, <1>a DEF Adc!Discharge
<1>20. CASE UNCHANGED adcvars
  BY <1>20 DEF adcvars
<1> QED BY <1>1, <1>2, <1>3, <1>4, <1>5, <1>6, <1>7, <1>8, <1>9, <1>10, <1>11, <1>12, <1>13,
     <1>14, <1>15, <1>16, <1>17, <1>18, <1>19, <1>20
           DEF Adc!Next, Adc!proximity_thd, Adc!battery_thd

\* The state of the two ADC threads, in every reachable state.
LEMMA AdcInvariance == SensorsSpec => []AdcInv
<1>1. SensorsInit => AdcInv
  BY AdcInit DEF SensorsInit
<1>2. AdcInv /\ [SensorsNext]_<<part, vars, adcvars, busvars>> => AdcInv'
  <2> SUFFICES ASSUME AdcInv, [SensorsNext]_<<part, vars, adcvars, busvars>> PROVE AdcInv'
    OBVIOUS
  <2>1. [Adc!Next]_adcvars
    BY DEF SensorsNext
  <2> QED BY <2>1, AdcTypesStep, AdcLocksStep, AdcPointsStep DEF AdcInv
<1> QED BY <1>1, <1>2, PTL DEF SensorsSpec

\* For any number of samples of either ADC and whenever the battery is measured: the
\* values that take_measurement copies belong to the measurement it started.
THEOREM ValuesFresh == SensorsSpec => []FreshValues
<1>1. AdcInv => FreshValues
  BY DEF AdcInv, AdcTypes, AdcLocks, FreshValues, Adc!FreshValues, Adc!ADCs
<1> QED BY <1>1, AdcInvariance, PTL

\* As long as the proximity thread runs when it can, all samples behind the copied values
\* were taken at the point of the LED waveform that set_measurement_position was told.
THEOREM MeasuredAtPosition == SensorsSpec => []AtPosition
<1>1. AdcInv => AtPosition
  BY DEF AdcInv, AdcPoints, AtPosition, Adc!AtPosition, Adc!ADCs
<1> QED BY <1>1, AdcInvariance, PTL

-----------------------------------------------------------------------------
(* The threads on the I2C bus: a published range is a new one.             *)

\* The scheduler: who runs or is ready waits for nothing, and is so once.  Only the two
\* threads on the I2C bus wait for it.
BusSched ==
  /\ cpu \in Bus!Threads \cup {"none"} /\ ready \in Seq(Bus!Threads)
  /\ waits = [t \in Bus!Threads |-> waits[t]]
  /\ cpu # "none" => waits[cpu] = "none"
  /\ \A i \in 1 .. Len(ready) : waits[ready[i]] = "none" /\ ready[i] # cpu
  /\ \A i, j \in 1 .. Len(ready) : ready[i] = ready[j] => i = j
  /\ \A t \in Bus!Threads : waits[t] = "bus" => t \in {"leds", "range"}

\* main has not yet created the threads that come later.
BusStart ==
  /\ pc = [t \in Bus!Threads |-> pc[t]]
  /\ pc["main"] = "leds" => waits["leds"] = "created"
  /\ pc["main"] \in {"leds", "range"} => waits["range"] = "created"
  /\ pc["main"] \in {"leds", "range", "imu"} => waits["imu"] = "created"

\* What the flags of the sensor and the bytes read tell, with the thread at p, and w while
\* it waits for a transfer: a measurement runs only while its end is polled for, the
\* interrupt flag stands for a new value, and is gone before the next start.
RangeOK(p, w, d, s, f) ==
  /\ d.measuring => (p = "started" /\ ~ w) \/ p = "int1"
  /\ d.int => /\ "val" \in f /\ ~ d.measuring
              /\ p \in {"started", "int1", "value", "value1", "cleared"}
              /\ p = "cleared" => w
              /\ p = "started" => ~ w
  /\ p = "int1" /\ ~ w /\ s => d.int
  /\ p = "value" \/ (p = "value1" /\ w) => d.int
  /\ p \in {"cleared", "ready2", "unlock", "publish"} \/ (p = "value1" /\ ~ w) => "mm" \in f

Transfers(t) == waits[t] = "i2c"

RangeInv == fails = 0 => RangeOK(pc["range"], Transfers("range"), dev, status, fresh)

BusTypes ==
  /\ Bus!TypeOK /\ led \in 1 .. Leds /\ fails \in Nat
  /\ dev \in [measuring : BOOLEAN, int : BOOLEAN] /\ status \in BOOLEAN

BusInv == BusTypes /\ BusSched /\ BusStart /\ RangeInv

\* What a step of the scheduler leaves alone.
SchedKept ==
  /\ BusSched'
  /\ \A t \in Bus!Threads : waits[t] = "created" => waits'[t] = "created"

-----------------------------------------------------------------------------

\* The running thread waits.
LEMMA WaitsKeeps ==
  ASSUME BusSched, NEW t \in Bus!Threads, NEW why, NEW to, cpu = t, Bus!Waits(t, why, to),
         why # "none", why = "bus" => t \in {"leds", "range"}
  PROVE  /\ SchedKept /\ Bus!Goes(t, to) /\ waits'[t] = why
         /\ \A x \in Bus!Threads \ {t} : waits'[x] = waits[x]
<1>1. t # "none"
  BY DEF Bus!Threads
<1>2. waits' = [waits EXCEPT ![t] = why] /\ Bus!Goes(t, to)
  BY DEF Bus!Waits
<1>3. /\ waits'[t] = why /\ \A x \in Bus!Threads \ {t} : waits'[x] = waits[x]
      /\ waits' = [x \in Bus!Threads |-> waits'[x]]
  BY <1>2 DEF BusSched
<1>4. \A x \in Bus!Threads : waits[x] = "created" => waits'[x] = "created"
  BY <1>1, <1>3 DEF BusSched
<1>5. \A x \in Bus!Threads : waits'[x] = "bus" => x \in {"leds", "range"}
  BY <1>3 DEF BusSched
<1>6. \A i \in 1 .. Len(ready) : ready[i] \in Bus!Threads /\ ready[i] # t /\ waits'[ready[i]] = "none"
  BY <1>3 DEF BusSched
<1>7. CASE ready = <<>>
  <2>1. cpu' = "none" /\ ready' = ready
    BY <1>7 DEF Bus!Waits, Bus!None
  <2>2. Len(ready') = 0 /\ ready' \in Seq(Bus!Threads)
    BY <1>7, <2>1 DEF BusSched
  <2>3. 1 .. Len(ready') = {}
    BY <2>2
  <2> QED
    BY <1>2, <1>3, <1>4, <1>5, <2>1, <2>2, <2>3 DEF BusSched, SchedKept
<1>8. CASE ready # <<>>
  <2>1. cpu' = Head(ready) /\ ready' = Tail(ready)
    BY <1>8 DEF Bus!Waits
  <2>2. /\ Len(ready) \in Nat \ {0} /\ cpu' = ready[1] /\ ready' \in Seq(Bus!Threads)
        /\ Len(ready') = Len(ready) - 1
        /\ \A i \in 1 .. Len(ready') : ready'[i] = ready[i + 1]
    BY <1>8, <2>1 DEF BusSched
  <2>3. cpu' \in Bus!Threads /\ waits'[cpu'] = "none"
    BY <1>6, <2>2
  <2>4. ASSUME NEW i \in 1 .. Len(ready') PROVE waits'[ready'[i]] = "none" /\ ready'[i] # cpu'
    <3>1. i + 1 \in 1 .. Len(ready) /\ 1 \in 1 .. Len(ready) /\ i + 1 # 1
      BY <2>2
    <3>2. ready'[i] = ready[i + 1] /\ cpu' = ready[1]
      BY <2>2
    <3> QED
      BY <1>6, <3>1, <3>2 DEF BusSched
  <2>5. ASSUME NEW i \in 1 .. Len(ready'), NEW j \in 1 .. Len(ready'), ready'[i] = ready'[j]
        PROVE  i = j
    <3>1. i + 1 \in 1 .. Len(ready) /\ j + 1 \in 1 .. Len(ready)
      BY <2>2
    <3>2. ready[i + 1] = ready[j + 1]
      BY <2>2, <2>5
    <3>3. i + 1 = j + 1
      BY <3>1, <3>2 DEF BusSched
    <3> QED
      BY <3>3
  <2> QED
    BY <1>2, <1>3, <1>4, <1>5, <2>2, <2>3, <2>4, <2>5 DEF BusSched, SchedKept
<1> QED
  BY <1>7, <1>8

\* A waiting thread is woken.
LEMMA WakeKeeps ==
  ASSUME BusSched, NEW t \in Bus!Threads, waits[t] # "none", Bus!Wake(t)
  PROVE  /\ BusSched' /\ waits'[t] = "none"
         /\ \A x \in Bus!Threads \ {t} : waits'[x] = waits[x]
<1>1. t # "none" /\ t # cpu
  BY DEF Bus!Threads, BusSched
<1>2. waits' = [waits EXCEPT ![t] = "none"]
  BY DEF Bus!Wake, Bus!None
<1>3. /\ waits'[t] = "none" /\ \A x \in Bus!Threads \ {t} : waits'[x] = waits[x]
      /\ waits' = [x \in Bus!Threads |-> waits'[x]]
  BY <1>2 DEF BusSched
<1>4. \A x \in Bus!Threads : waits'[x] = "bus" => x \in {"leds", "range"}
  BY <1>3 DEF BusSched
<1>5. \A i \in 1 .. Len(ready) : ready[i] \in Bus!Threads /\ ready[i] # t /\ waits'[ready[i]] = "none"
  BY <1>3 DEF BusSched
<1>6. CASE cpu = "none"
  <2>1. cpu' = t /\ ready' = ready
    BY <1>6 DEF Bus!Wake, Bus!None
  <2> QED
    BY <1>3, <1>4, <1>5, <2>1 DEF BusSched
<1>7. CASE cpu # "none"
  <2>1. cpu' = cpu /\ ready' = Append(ready, t)
    BY <1>7 DEF Bus!Wake, Bus!None
  <2>2. /\ Len(ready) \in Nat /\ ready' \in Seq(Bus!Threads) /\ Len(ready') = Len(ready) + 1
        /\ \A i \in 1 .. Len(ready) : ready'[i] = ready[i]
        /\ ready'[Len(ready) + 1] = t
    BY <2>1 DEF BusSched
  <2>3. cpu' \in Bus!Threads /\ waits'[cpu'] = "none"
    BY <1>1, <1>3, <1>7, <2>1 DEF BusSched
  <2>4. ASSUME NEW i \in 1 .. Len(ready') PROVE waits'[ready'[i]] = "none" /\ ready'[i] # cpu'
    <3>1. i \in 1 .. Len(ready) \/ i = Len(ready) + 1
      BY <2>2
    <3>2. CASE i \in 1 .. Len(ready)
      BY <1>5, <2>1, <2>2, <3>2 DEF BusSched
    <3>3. CASE i = Len(ready) + 1
      BY <1>1, <1>3, <2>1, <2>2, <3>3
    <3> QED
      BY <3>1, <3>2, <3>3
  <2>5. ASSUME NEW i \in 1 .. Len(ready'), NEW j \in 1 .. Len(ready'), ready'[i] = ready'[j]
        PROVE  i = j
    <3>1. /\ i \in 1 .. Len(ready) \/ i = Len(ready) + 1
          /\ j \in 1 .. Len(ready) \/ j = Len(ready) + 1
      BY <2>2
    <3>2. CASE i \in 1 .. Len(ready) /\ j \in 1 .. Len(ready)
      BY <2>2, <2>5, <3>2 DEF BusSched
    <3>3. CASE i = Len(ready) + 1 \/ j = Len(ready) + 1
      BY <1>5, <2>2, <2>5, <3>1, <3>3
    <3> QED
      BY <3>1, <3>2, <3>3
  <2> QED
    BY <1>3, <1>4, <2>2, <2>3, <2>4, <2>5 DEF BusSched
<1> QED
  BY <1>6, <1>7

\* A thread that goes on or is woken again.
LEMMA SameKeeps ==
  ASSUME BusSched, UNCHANGED <<cpu, ready, waits>>
  PROVE  SchedKept
BY DEF BusSched, SchedKept

\* The program counters of the other threads stay.
LEMMA GoesKeeps ==
  ASSUME BusStart, NEW t \in Bus!Threads, NEW to, Bus!Goes(t, to)
  PROVE  /\ pc'[t] = to /\ pc' = [x \in Bus!Threads |-> pc'[x]]
         /\ \A x \in Bus!Threads \ {t} : pc'[x] = pc[x]
BY DEF BusStart, Bus!Goes

\* i2cAcquireBus.
LEMMA AcquireKeeps ==
  ASSUME BusTypes, BusSched, NEW t \in {"leds", "range"}, NEW from, NEW to,
         Bus!i2cAcquireBus(t, from, to)
  PROVE  /\ SchedKept /\ Bus!Goes(t, to) /\ cpu = t /\ pc[t] = from
         /\ i2c_owner' \in {"none", "leds", "range"}
         /\ \A x \in Bus!Threads : (waits'[x] = "i2c") <=> (waits[x] = "i2c")
         /\ UNCHANGED <<Bus!ledvars, Bus!rangevars, Bus!imuvars, fails>>
<1>1. /\ cpu = t /\ pc[t] = from /\ t \in Bus!Threads
      /\ UNCHANGED <<Bus!ledvars, Bus!rangevars, Bus!imuvars, fails>>
  BY DEF Bus!i2cAcquireBus, Bus!At, Bus!Threads
<1>2. CASE i2c_owner = "none"
  <2>1. i2c_owner' = t /\ Bus!Goes(t, to) /\ UNCHANGED <<cpu, ready, waits>>
    BY <1>2 DEF Bus!i2cAcquireBus, Bus!None, Bus!Runs
  <2> QED
    BY <1>1, <2>1, SameKeeps
<1>3. CASE i2c_owner # "none"
  <2>1. i2c_owner' = i2c_owner /\ Bus!Waits(t, "bus", to)
    BY <1>3 DEF Bus!i2cAcquireBus, Bus!None
  <2>2. /\ SchedKept /\ Bus!Goes(t, to) /\ waits'[t] = "bus"
        /\ \A x \in Bus!Threads \ {t} : waits'[x] = waits[x]
    BY <1>1, <2>1, WaitsKeeps
  <2>3. waits[t] = "none"
    BY <1>1 DEF BusSched
  <2>4. i2c_owner' \in {"none", "leds", "range"}
    BY <2>1 DEF BusTypes, Bus!TypeOK, Bus!None
  <2> QED
    BY <1>1, <2>2, <2>3, <2>4
<1> QED
  BY <1>2, <1>3

\* i2cReleaseBus.
LEMMA ReleaseKeeps ==
  ASSUME BusSched, NEW t \in {"leds", "range"}, NEW to, cpu = t, Bus!release(t, to)
  PROVE  /\ SchedKept /\ Bus!Goes(t, to)
         /\ i2c_owner' \in {"none", "leds", "range"}
         /\ \A x \in Bus!Threads : (waits'[x] = "i2c") <=> (waits[x] = "i2c")
<1>1. CASE \E u \in Bus!Threads : waits[u] = "bus" /\ i2c_owner' = u /\ Bus!Wake(u) /\ Bus!Goes(t, to)
  <2>1. PICK u \in Bus!Threads : waits[u] = "bus" /\ i2c_owner' = u /\ Bus!Wake(u) /\ Bus!Goes(t, to)
    BY <1>1
  <2>2. /\ BusSched' /\ waits'[u] = "none"
        /\ \A x \in Bus!Threads \ {u} : waits'[x] = waits[x]
    BY <2>1, WakeKeeps
  <2>3. u \in {"leds", "range"}
    BY <2>1 DEF BusSched
  <2> QED
    BY <2>1, <2>2, <2>3 DEF SchedKept
<1>2. CASE i2c_owner' = "none" /\ Bus!Runs(t, to)
  <2>1. UNCHANGED <<cpu, ready, waits>> /\ Bus!Goes(t, to)
    BY <1>2 DEF Bus!Runs
  <2> QED
    BY <1>2, <2>1, SameKeeps
<1> QED
  BY <1>1, <1>2 DEF Bus!release, Bus!None

\* main stays where it is.
LEMMA StartKeeps ==
  ASSUME BusStart, SchedKept, pc' = [x \in Bus!Threads |-> pc'[x]], pc'["main"] = pc["main"]
  PROVE  BusStart'
<1>1. "leds" \in Bus!Threads /\ "range" \in Bus!Threads /\ "imu" \in Bus!Threads
  BY DEF Bus!Threads
<1> QED
  BY <1>1 DEF BusStart, SchedKept

-----------------------------------------------------------------------------

\* What the threads other than the range thread leave alone.
RangeKept ==
  /\ pc'["range"] = pc["range"]
  /\ (waits'["range"] = "i2c") <=> (waits["range"] = "i2c")
  /\ UNCHANGED <<dev, status, fresh>>
  /\ fails' = 0 => fails = 0

\* Steps that leave the range sensor and its thread alone keep what is known of them.
LEMMA RangeStays ==
  ASSUME RangeInv, RangeKept
  PROVE  RangeInv'
<1> SUFFICES ASSUME fails' = 0
             PROVE  RangeOK(pc["range"], Transfers("range"), dev, status, fresh)'
  BY DEF RangeInv
<1>1. RangeOK(pc["range"], Transfers("range"), dev, status, fresh)
  BY DEF RangeInv, RangeKept
<1>2. Transfers("range")' <=> Transfers("range")
  BY DEF RangeKept, Transfers
<1> QED
  BY <1>1, <1>2 DEF RangeKept, RangeOK

\* A failed transfer is counted.
LEMMA FailsCounted ==
  ASSUME BusTypes, Bus!Fails
  PROVE  fails' \in Nat /\ fails' # 0
BY DEF BusTypes, Bus!Fails

\* The bus and the variables of the LEDs and of the interrupts keep their types.
LEMMA TypesKeep ==
  ASSUME BusTypes, BusSched', i2c_owner' \in {"none", "leds", "range"},
         UNCHANGED <<led, topic, output, exti, fails>>,
         dev' \in [measuring : BOOLEAN, int : BOOLEAN], status' \in BOOLEAN
  PROVE  BusTypes'
BY DEF BusTypes, BusSched, Bus!TypeOK, Bus!None

\* main creates a thread.
LEMMA CreatesKeeps ==
  ASSUME BusInv, NEW from, NEW to, NEW t \in {"leds", "range", "imu"}, waits[t] = "created",
         Bus!Creates(from, to, t)
  PROVE  /\ BusTypes' /\ BusSched' /\ RangeInv'
         /\ pc["main"] = from /\ pc'["main"] = to /\ pc' = [x \in Bus!Threads |-> pc'[x]]
         /\ \A x \in {"leds", "range", "imu"} \ {t} : waits'[x] = waits[x]
<1>0. /\ {"main", "leds", "range", "imu"} = Bus!Threads
      /\ BusTypes /\ BusSched /\ BusStart /\ RangeInv
  BY DEF Bus!Threads, BusInv
<1>1. /\ cpu = "main" /\ pc["main"] = from /\ Bus!Goes("main", to) /\ Bus!Wake(t)
      /\ UNCHANGED <<i2c_owner, led, topic, output, pubs, dev, status, fresh, lost, exti, armed, event, fails>>
  BY DEF Bus!Creates, Bus!At, Bus!ledvars, Bus!rangevars, Bus!imuvars
<1>2. /\ BusSched' /\ waits'[t] = "none" /\ \A x \in Bus!Threads \ {t} : waits'[x] = waits[x]
  BY <1>0, <1>1, WakeKeeps
<1>3. /\ pc'["main"] = to /\ pc' = [x \in Bus!Threads |-> pc'[x]] /\ pc'["range"] = pc["range"]
  BY <1>0, <1>1, GoesKeeps
<1>4. RangeKept
  BY <1>0, <1>1, <1>2, <1>3 DEF RangeKept
<1>5. BusTypes'
  <2>1. i2c_owner' \in {"none", "leds", "range"}
    BY <1>0, <1>1 DEF BusTypes, Bus!TypeOK, Bus!None
  <2>2. dev' \in [measuring : BOOLEAN, int : BOOLEAN] /\ status' \in BOOLEAN
    BY <1>0, <1>1 DEF BusTypes
  <2> QED
    BY <1>0, <1>1, <1>2, <2>1, <2>2, TypesKeep
<1> QED
  BY <1>0, <1>1, <1>2, <1>3, <1>4, <1>5, RangeStays

\* A thread other than the range thread goes on or waits, and changes only its own state.
LEMMA OtherStep ==
  ASSUME BusInv, NEW t \in {"main", "leds", "imu"}, NEW to, Bus!Goes(t, to), SchedKept,
         t = "main" => pc["main"] \notin {"leds", "range", "imu"} /\ to \notin {"leds", "range", "imu"},
         (waits'["range"] = "i2c") <=> (waits["range"] = "i2c"),
         UNCHANGED <<dev, status, fresh>>, fails' = 0 => fails = 0, BusTypes'
  PROVE  BusInv'
<1>0. /\ {"main", "leds", "range", "imu"} = Bus!Threads
      /\ BusTypes /\ BusSched /\ BusStart /\ RangeInv
  BY DEF Bus!Threads, BusInv
<1>1. /\ pc'[t] = to /\ pc' = [x \in Bus!Threads |-> pc'[x]]
      /\ \A x \in Bus!Threads \ {t} : pc'[x] = pc[x]
  BY <1>0, GoesKeeps
<1>2. RangeInv'
  BY <1>0, <1>1, RangeStays DEF RangeKept
<1>3. BusStart'
  <2>1. CASE t = "main"
    BY <1>1, <2>1 DEF BusStart
  <2>2. CASE t # "main"
    BY <1>0, <1>1, <2>2, StartKeeps
  <2> QED
    BY <2>1, <2>2
<1> QED
  BY <1>2, <1>3 DEF BusInv, SchedKept

\* main.
LEMMA MainStep ==
  ASSUME BusInv, Bus!main
  PROVE  BusInv'
<1>0. /\ {"main", "leds", "range", "imu"} = Bus!Threads
      /\ BusTypes /\ BusSched /\ BusStart /\ RangeInv
  BY DEF Bus!Threads, BusInv
<1>1. CASE Bus!body_leds_start
  <2>1. Bus!Creates("leds", "range", "leds") /\ pc["main"] = "leds"
    BY <1>1 DEF Bus!body_leds_start, Bus!Creates, Bus!At
  <2>2. waits["leds"] = "created" /\ waits["range"] = "created" /\ waits["imu"] = "created"
    BY <1>0, <2>1 DEF BusStart
  <2>3. /\ BusTypes' /\ BusSched' /\ RangeInv'
        /\ pc'["main"] = "range" /\ pc' = [x \in Bus!Threads |-> pc'[x]]
        /\ waits'["range"] = waits["range"] /\ waits'["imu"] = waits["imu"]
    BY <2>1, <2>2, CreatesKeeps
  <2> QED
    BY <2>2, <2>3 DEF BusInv, BusStart
<1>2. CASE Bus!range_start
  <2>1. Bus!Creates("range", "imu", "range") /\ pc["main"] = "range"
    BY <1>2 DEF Bus!range_start, Bus!Creates, Bus!At
  <2>2. waits["range"] = "created" /\ waits["imu"] = "created"
    BY <1>0, <2>1 DEF BusStart
  <2>3. /\ BusTypes' /\ BusSched' /\ RangeInv'
        /\ pc'["main"] = "imu" /\ pc' = [x \in Bus!Threads |-> pc'[x]]
        /\ waits'["imu"] = waits["imu"]
    BY <2>1, <2>2, CreatesKeeps
  <2> QED
    BY <2>2, <2>3 DEF BusInv, BusStart
<1>3. CASE Bus!imu_start
  <2>1. Bus!Creates("imu", "exti", "imu") /\ pc["main"] = "imu"
    BY <1>3 DEF Bus!imu_start, Bus!Creates, Bus!At
  <2>2. waits["imu"] = "created"
    BY <1>0, <2>1 DEF BusStart
  <2>3. /\ BusTypes' /\ BusSched' /\ RangeInv'
        /\ pc'["main"] = "exti" /\ pc' = [x \in Bus!Threads |-> pc'[x]]
    BY <2>1, <2>2, CreatesKeeps
  <2> QED
    BY <2>3 DEF BusInv, BusStart
<1>4. CASE Bus!exti_start
  <2>1. /\ pc["main"] = "exti" /\ Bus!Goes("main", "sleep") /\ UNCHANGED <<cpu, ready, waits>>
        /\ exti' = [init |-> TRUE, listeners |-> {}]
        /\ UNCHANGED <<i2c_owner, led, topic, output, dev, status, fresh, fails>>
    BY <1>4 DEF Bus!exti_start, Bus!At, Bus!Runs, Bus!ledvars, Bus!rangevars
  <2>2. SchedKept
    BY <1>0, <2>1, SameKeeps
  <2>3. exti' \in [init : BOOLEAN, listeners : SUBSET {"imu"}]
    BY <2>1
  <2>4. BusTypes'
    BY <1>0, <2>1, <2>3 DEF BusTypes, Bus!TypeOK
  <2> QED
    BY <2>1, <2>2, <2>4, OtherStep
<1>5. CASE Bus!main_sleeps
  <2>1. /\ cpu = "main" /\ pc["main"] = "sleep" /\ Bus!Waits("main", "done", "sleep")
        /\ UNCHANGED <<i2c_owner, led, topic, output, dev, status, fresh, exti, fails>>
    BY <1>5 DEF Bus!main_sleeps, Bus!At, Bus!ledvars, Bus!rangevars, Bus!imuvars
  <2>2. /\ SchedKept /\ Bus!Goes("main", "sleep") /\ waits'["range"] = waits["range"]
    BY <1>0, <2>1, WaitsKeeps
  <2>3. BusTypes'
    BY <1>0, <2>1, <2>2 DEF SchedKept, BusSched, BusTypes, Bus!TypeOK, Bus!None
  <2> QED
    BY <2>1, <2>2, <2>3, OtherStep
<1> QED
  BY <1>1, <1>2, <1>3, <1>4, <1>5 DEF Bus!main

\* body_led_thd.
LEMMA LedStep ==
  ASSUME BusInv, Bus!body_led_thd
  PROVE  BusInv'
<1>0. /\ {"main", "leds", "range", "imu"} = Bus!Threads
      /\ BusTypes /\ BusSched /\ BusStart /\ RangeInv
  BY DEF Bus!Threads, BusInv
<1>1. led \in 1 .. Leds /\ Leds \in Nat \ {0}
  BY <1>0, SensorsAssumption DEF BusTypes, Bus!ConstantsOK
<1>2. ASSUME NEW from, NEW to, Bus!led_acquire(from, to) PROVE BusInv'
  <2>1. Bus!i2cAcquireBus("leds", from, to)
    BY <1>2 DEF Bus!led_acquire
  <2>2. /\ SchedKept /\ Bus!Goes("leds", to) /\ i2c_owner' \in {"none", "leds", "range"}
        /\ (waits'["range"] = "i2c") <=> (waits["range"] = "i2c")
        /\ UNCHANGED <<led, topic, output, dev, status, fresh, exti, fails>>
    BY <1>0, <2>1, AcquireKeeps DEF Bus!ledvars, Bus!rangevars, Bus!imuvars
  <2>3. BusTypes'
    BY <1>0, <2>2 DEF SchedKept, BusSched, BusTypes, Bus!TypeOK, Bus!None
  <2> QED
    BY <2>2, <2>3, OtherStep
<1>3. ASSUME NEW why \in {"i2c", "timer"}, NEW to, cpu = "leds", Bus!Waits("leds", why, to),
             UNCHANGED <<i2c_owner, led, topic, output, dev, status, fresh, exti, fails>>
      PROVE  BusInv'
  <2>1. SchedKept /\ Bus!Goes("leds", to) /\ waits'["range"] = waits["range"]
    BY <1>0, <1>3, WaitsKeeps
  <2>2. BusTypes'
    BY <1>0, <1>3, <2>1 DEF SchedKept, BusSched, BusTypes, Bus!TypeOK, Bus!None
  <2> QED
    BY <1>3, <2>1, <2>2, OtherStep
<1>4. ASSUME NEW from, NEW to, Bus!led_transmit(from, to) PROVE BusInv'
  BY <1>3, <1>4 DEF Bus!led_transmit, Bus!At, Bus!ledvars, Bus!rangevars, Bus!imuvars
<1>5. CASE Bus!led_sleeps
  BY <1>3, <1>5 DEF Bus!led_sleeps, Bus!At, Bus!ledvars, Bus!rangevars, Bus!imuvars
<1>6. ASSUME NEW from, NEW again, NEW end, Bus!led_next(from, again, end) PROVE BusInv'
  <2> DEFINE to == IF led = Leds THEN end ELSE again
  <2>1. /\ cpu = "leds" /\ Bus!release("leds", to)
        /\ led' = (IF led = Leds THEN 1 ELSE led + 1)
        /\ UNCHANGED <<topic, output, dev, status, fresh, exti, fails>>
    BY <1>6 DEF Bus!led_next, Bus!At, Bus!rangevars, Bus!imuvars
  <2> HIDE DEF to
  <2>2. /\ SchedKept /\ Bus!Goes("leds", to) /\ i2c_owner' \in {"none", "leds", "range"}
        /\ (waits'["range"] = "i2c") <=> (waits["range"] = "i2c")
    BY <1>0, <2>1, ReleaseKeeps
  <2>3. led' \in 1 .. Leds
    BY <1>1, <2>1
  <2>4. BusTypes'
    BY <1>0, <2>1, <2>2, <2>3 DEF SchedKept, BusSched, BusTypes, Bus!TypeOK, Bus!None
  <2> QED
    BY <2>1, <2>2, <2>4, OtherStep
<1>7. CASE Bus!led_read
  <2>1. PICK to \in {"acquire", "sleep", "loop"} : Bus!Runs("leds", to)
    BY <1>7 DEF Bus!led_read
  <2>2. UNCHANGED <<i2c_owner, topic, output, dev, status, fresh, exti, fails>>
    BY <1>7 DEF Bus!led_read, Bus!rangevars, Bus!imuvars
  <2>3. led' \in 1 .. Leds
    BY <1>1, <1>7 DEF Bus!led_read
  <2>4. SchedKept /\ Bus!Goes("leds", to) /\ waits' = waits
    BY <1>0, <2>1, SameKeeps DEF Bus!Runs
  <2>5. BusTypes'
    BY <1>0, <2>2, <2>3, <2>4 DEF SchedKept, BusSched, BusTypes, Bus!TypeOK, Bus!None
  <2> QED
    BY <2>2, <2>4, <2>5, OtherStep
<1> QED
  BY <1>2, <1>4, <1>5, <1>6, <1>7 DEF Bus!body_led_thd

\* imu_reader_thd.
LEMMA ImuStep ==
  ASSUME BusInv, Bus!imu_reader_thd
  PROVE  BusInv'
<1>0. /\ {"main", "leds", "range", "imu"} = Bus!Threads
      /\ BusTypes /\ BusSched /\ BusStart /\ RangeInv
  BY DEF Bus!Threads, BusInv
<1>1. ASSUME NEW why \in {"timer", "event", "spi"}, NEW to, cpu = "imu", Bus!Waits("imu", why, to),
             UNCHANGED <<i2c_owner, led, topic, output, dev, status, fresh, exti>>,
             fails' = fails \/ Bus!Fails
      PROVE  BusInv'
  <2>1. SchedKept /\ Bus!Goes("imu", to) /\ waits'["range"] = waits["range"]
    BY <1>0, <1>1, WaitsKeeps
  <2>2. fails' \in Nat /\ (fails' = 0 => fails = 0)
    BY <1>0, <1>1, FailsCounted DEF BusTypes
  <2>3. BusTypes'
    BY <1>0, <1>1, <2>1, <2>2 DEF SchedKept, BusSched, BusTypes, Bus!TypeOK, Bus!None
  <2> QED
    BY <1>1, <2>1, <2>2, <2>3, OtherStep
<1>2. ASSUME NEW to, Bus!Runs("imu", to),
             UNCHANGED <<i2c_owner, led, topic, output, dev, status, fresh, fails>>,
             exti' \in [init : BOOLEAN, listeners : SUBSET {"imu"}]
      PROVE  BusInv'
  <2>1. SchedKept /\ Bus!Goes("imu", to) /\ waits' = waits
    BY <1>0, <1>2, SameKeeps DEF Bus!Runs
  <2>2. BusTypes'
    BY <1>0, <1>2, <2>1 DEF SchedKept, BusSched, BusTypes, Bus!TypeOK, Bus!None
  <2> QED
    BY <1>2, <2>1, <2>2, OtherStep
<1>3. exti \in [init : BOOLEAN, listeners : SUBSET {"imu"}]
  BY <1>0 DEF BusTypes, Bus!TypeOK
<1> USE DEF Bus!At, Bus!imu_rest, Bus!imuvars, Bus!ledvars, Bus!rangevars
<1>4. CASE Bus!imu_ping
  BY <1>1, <1>4 DEF Bus!imu_ping
<1>5. CASE Bus!imu_setup
  BY <1>1, <1>5 DEF Bus!imu_setup
<1>6. CASE Bus!imu_register
  <2>1. exti' \in [init : BOOLEAN, listeners : SUBSET {"imu"}]
    BY <1>3, <1>6 DEF Bus!imu_register
  <2> QED
    BY <1>2, <1>6, <2>1 DEF Bus!imu_register
<1>7. CASE Bus!imu_wait
  <2>1. CASE event
    BY <1>2, <1>3, <1>7, <2>1 DEF Bus!imu_wait
  <2>2. CASE ~ event
    BY <1>1, <1>7, <2>2 DEF Bus!imu_wait
  <2> QED
    BY <2>1, <2>2
<1>8. CASE Bus!imu_read
  BY <1>1, <1>8 DEF Bus!imu_read
<1>9. CASE Bus!imu_publish
  BY <1>2, <1>3, <1>9 DEF Bus!imu_publish
<1> QED
  BY <1>4, <1>5, <1>6, <1>7, <1>8, <1>9 DEF Bus!imu_reader_thd

\* A brightness in percent, or the value of a topic that was never published, fits in the
\* 31 steps of the driver.
LEMMA PercentFits ==
  ASSUME NEW v \in 0 .. 101
  PROVE  Bus!Percent(v) \in 0 .. 31
<1>1. v * 31 \in 0 .. 3131
  OBVIOUS
<1>2. (v * 31) \div 100 \in 0 .. 31
  BY <1>1
<1> QED
  BY <1>2 DEF Bus!Percent

\* A timer, the interrupts of the LEDs' driver and of the IMU: a thread wakes.
LEMMA InterruptStep ==
  ASSUME BusInv,
         \/ \E t \in Bus!Threads : Bus!Timer(t)
         \/ Bus!led_interrupt \/ Bus!imu_interrupt \/ Bus!gpio_exti_callback
         \/ \E i \in 1 .. Leds, v \in Values : Bus!led_publish(i, v)
  PROVE  BusInv'
<1>0. /\ {"main", "leds", "range", "imu"} = Bus!Threads
      /\ BusTypes /\ BusSched /\ BusStart /\ RangeInv
  BY DEF Bus!Threads, BusInv
<1>1. ASSUME SchedKept, pc' = pc, (waits'["range"] = "i2c") <=> (waits["range"] = "i2c"),
             UNCHANGED <<dev, status, fresh>>, fails' = 0 => fails = 0, BusTypes'
      PROVE  BusInv'
  <2>1. RangeInv'
    BY <1>0, <1>1, RangeStays DEF RangeKept
  <2>2. BusStart'
    BY <1>0, <1>1, StartKeeps DEF BusStart
  <2> QED
    BY <1>1, <2>1, <2>2 DEF BusInv, SchedKept
<1>2. ASSUME NEW t \in Bus!Threads, waits[t] \in {"timer", "i2c", "spi", "event"}, Bus!Wake(t),
             t = "range" => waits[t] = "timer"
      PROVE  SchedKept /\ ((waits'["range"] = "i2c") <=> (waits["range"] = "i2c"))
  <2>1. /\ BusSched' /\ waits'[t] = "none" /\ \A x \in Bus!Threads \ {t} : waits'[x] = waits[x]
    BY <1>0, <1>2, WakeKeeps
  <2> QED
    BY <1>0, <1>2, <2>1 DEF SchedKept
<1> USE DEF Bus!imu_rest, Bus!imuvars, Bus!ledvars, Bus!rangevars
<1>3. ASSUME NEW t \in Bus!Threads, Bus!Timer(t) PROVE BusInv'
  <2>1. /\ SchedKept /\ ((waits'["range"] = "i2c") <=> (waits["range"] = "i2c"))
    BY <1>2, <1>3 DEF Bus!Timer
  <2>2. BusTypes'
    BY <1>0, <1>3, <2>1 DEF Bus!Timer, SchedKept, BusSched, BusTypes, Bus!TypeOK, Bus!None
  <2> QED
    BY <1>1, <1>3, <2>1, <2>2 DEF Bus!Timer
<1>4. CASE Bus!led_interrupt
  <2>1. /\ SchedKept /\ ((waits'["range"] = "i2c") <=> (waits["range"] = "i2c"))
    BY <1>0, <1>2, <1>4 DEF Bus!led_interrupt
  <2>2. fails' \in Nat /\ (fails' = 0 => fails = 0)
    BY <1>0, <1>4, FailsCounted DEF BusTypes, Bus!led_interrupt
  <2>3. output' \in [1 .. Leds -> 0 .. 31]
    <3>1. output \in [1 .. Leds -> 0 .. 31] /\ topic[led] \in 0 .. 101
      <4>1. /\ topic \in [1 .. Leds -> Values \cup {101}] /\ led \in 1 .. Leds
            /\ output \in [1 .. Leds -> 0 .. 31]
        BY <1>0 DEF BusTypes, Bus!TypeOK, Bus!Never
      <4>2. Values \subseteq 0 .. 100
        BY SensorsAssumption DEF Bus!ConstantsOK
      <4>3. topic[led] \in Values \/ topic[led] = 101
        BY <4>1
      <4>4. \A x \in 0 .. 100 : x \in 0 .. 101
        OBVIOUS
      <4>5. 101 \in 0 .. 101
        OBVIOUS
      <4>6. topic[led] \in 0 .. 101
        BY <4>2, <4>3, <4>4, <4>5, Zenon
      <4> QED
        BY <4>1, <4>6
    <3>2. Bus!Percent(topic[led]) \in 0 .. 31
      BY <3>1, PercentFits
    <3>3. \/ output' = output \/ output' = [output EXCEPT ![led] = 0]
          \/ output' = [output EXCEPT ![led] = Bus!Percent(topic[led])]
      BY <1>4 DEF Bus!led_interrupt
    <3>4. 0 \in 0 .. 31
      OBVIOUS
    <3> QED
      BY <3>1, <3>2, <3>3, <3>4
  <2>4. BusTypes'
    BY <1>0, <1>4, <2>1, <2>2, <2>3
       DEF Bus!led_interrupt, SchedKept, BusSched, BusTypes, Bus!TypeOK, Bus!None
  <2> QED
    BY <1>1, <1>4, <2>1, <2>2, <2>4 DEF Bus!led_interrupt
<1>5. CASE Bus!imu_interrupt
  <2>1. /\ SchedKept /\ ((waits'["range"] = "i2c") <=> (waits["range"] = "i2c"))
    BY <1>0, <1>2, <1>5 DEF Bus!imu_interrupt
  <2>2. BusTypes'
    BY <1>0, <1>5, <2>1 DEF Bus!imu_interrupt, SchedKept, BusSched, BusTypes, Bus!TypeOK, Bus!None
  <2> QED
    BY <1>1, <1>5, <2>1, <2>2 DEF Bus!imu_interrupt
<1>6. CASE Bus!gpio_exti_callback
  <2>1. /\ SchedKept /\ ((waits'["range"] = "i2c") <=> (waits["range"] = "i2c"))
    <3>1. CASE waits["imu"] = "event"
      BY <1>0, <1>2, <1>6, <3>1 DEF Bus!gpio_exti_callback
    <3>2. CASE waits["imu"] # "event"
      BY <1>0, <1>6, <3>2, SameKeeps DEF Bus!gpio_exti_callback
    <3> QED
      BY <3>1, <3>2
  <2>2. BusTypes'
    BY <1>0, <1>6, <2>1 DEF Bus!gpio_exti_callback, SchedKept, BusSched, BusTypes, Bus!TypeOK,
         Bus!None
  <2> QED
    BY <1>1, <1>6, <2>1, <2>2 DEF Bus!gpio_exti_callback
<1>7. ASSUME NEW i \in 1 .. Leds, NEW v \in Values, Bus!led_publish(i, v) PROVE BusInv'
  <2>1. SchedKept /\ waits' = waits
    BY <1>0, <1>7, SameKeeps DEF Bus!led_publish, Bus!sched
  <2>2. topic' \in [1 .. Leds -> Values \cup {Bus!Never}]
    BY <1>0, <1>7 DEF Bus!led_publish, BusTypes, Bus!TypeOK
  <2>3. BusTypes'
    BY <1>0, <1>7, <2>1, <2>2 DEF Bus!led_publish, Bus!sched, BusTypes, Bus!TypeOK
  <2> QED
    BY <1>1, <1>7, <2>1, <2>3 DEF Bus!led_publish, Bus!sched
<1> QED
  BY <1>3, <1>4, <1>5, <1>6, <1>7

\* range_reader_thd: the thread itself.
LEMMA RangeThreadStep ==
  ASSUME BusInv, Bus!range_reader_thd
  PROVE  BusInv'
<1>0. /\ {"main", "leds", "range", "imu"} = Bus!Threads
      /\ BusTypes /\ BusSched /\ BusStart /\ RangeInv
  BY DEF Bus!Threads, BusInv
<1>1. cpu = "range" => waits["range"] = "none"
  BY <1>0 DEF BusSched
<1> USE DEF Bus!At, Bus!ledvars, Bus!rangevars, Bus!imuvars
\* The thread goes from one point to another; RangeInv is left to be shown.
<1>2. ASSUME NEW to, Bus!Goes("range", to), SchedKept, i2c_owner' \in {"none", "leds", "range"},
             UNCHANGED <<led, topic, output, dev, status, exti, fails>>,
             fails = 0 => RangeOK(to, Transfers("range")', dev, status, fresh')
      PROVE  BusInv'
  <2>1. pc'["range"] = to /\ pc' = [x \in Bus!Threads |-> pc'[x]] /\ pc'["main"] = pc["main"]
    BY <1>0, <1>2, GoesKeeps
  <2>2. RangeInv'
    BY <1>2, <2>1 DEF RangeInv
  <2>3. BusStart'
    BY <1>0, <1>2, <2>1, StartKeeps
  <2>4. BusTypes'
    BY <1>0, <1>2 DEF SchedKept, BusSched, BusTypes, Bus!TypeOK, Bus!None
  <2> QED
    BY <1>2, <2>2, <2>3, <2>4 DEF BusInv, SchedKept
<1>3. ASSUME NEW from, NEW to, Bus!range_transmit(from, to),
             \A d, s, f : RangeOK(from, FALSE, d, s, f) => RangeOK(to, TRUE, d, s, f)
      PROVE  BusInv'
  <2>1. /\ cpu = "range" /\ pc["range"] = from /\ Bus!Waits("range", "i2c", to)
        /\ UNCHANGED <<i2c_owner, led, topic, output, dev, status, fresh, exti, fails>>
    BY <1>3 DEF Bus!range_transmit
  <2>2. SchedKept /\ Bus!Goes("range", to) /\ waits'["range"] = "i2c"
    BY <1>0, <2>1, WaitsKeeps
  <2>3. i2c_owner' \in {"none", "leds", "range"}
    BY <1>0, <2>1 DEF BusTypes, Bus!TypeOK, Bus!None
  <2>4. Transfers("range") = FALSE /\ Transfers("range")' = TRUE
    BY <1>1, <2>1, <2>2 DEF Transfers
  <2>5. fails = 0 => RangeOK(to, Transfers("range")', dev, status, fresh')
    BY <1>0, <1>3, <2>1, <2>4 DEF RangeInv
  <2> QED
    BY <1>2, <2>1, <2>2, <2>3, <2>5
<1>4. ASSUME NEW from, NEW again, NEW to, Bus!range_poll(from, again, to),
             \A d, s, f : s /\ RangeOK(from, FALSE, d, s, f) => RangeOK(to, FALSE, d, s, f),
             \A d, s, f : ~ s /\ RangeOK(from, FALSE, d, s, f) => RangeOK(again, FALSE, d, s, f)
      PROVE  BusInv'
  <2>1. /\ cpu = "range" /\ pc["range"] = from
        /\ UNCHANGED <<cpu, ready, waits, i2c_owner, led, topic, output, dev, status, fresh, exti, fails>>
    BY <1>4 DEF Bus!range_poll, Bus!Runs
  <2>2. SchedKept
    BY <1>0, <2>1, SameKeeps
  <2>3. i2c_owner' \in {"none", "leds", "range"}
    BY <1>0, <2>1 DEF BusTypes, Bus!TypeOK, Bus!None
  <2>4. Transfers("range") = FALSE /\ Transfers("range")' = FALSE
    BY <1>1, <2>1 DEF Transfers
  <2>5. CASE status
    <3>1. Bus!Goes("range", to)
      BY <1>4, <2>5 DEF Bus!range_poll, Bus!Runs
    <3>2. fails = 0 => RangeOK(to, Transfers("range")', dev, status, fresh')
      BY <1>0, <1>4, <2>1, <2>4, <2>5 DEF RangeInv
    <3> QED
      BY <1>2, <2>1, <2>2, <2>3, <3>1, <3>2
  <2>6. CASE ~ status
    <3>1. Bus!Goes("range", again)
      BY <1>4, <2>6 DEF Bus!range_poll, Bus!Runs
    <3>2. fails = 0 => RangeOK(again, Transfers("range")', dev, status, fresh')
      BY <1>0, <1>4, <2>1, <2>4, <2>6 DEF RangeInv
    <3> QED
      BY <1>2, <2>1, <2>2, <2>3, <3>1, <3>2
  <2> QED
    BY <2>5, <2>6
<1>5. ASSUME NEW from, NEW to, Bus!range_release(from, to) \/ Bus!i2cAcquireBus("range", from, to),
             \A d, s, f : RangeOK(from, FALSE, d, s, f) => RangeOK(to, FALSE, d, s, f)
      PROVE  BusInv'
  <2>1. /\ cpu = "range" /\ pc["range"] = from
        /\ UNCHANGED <<led, topic, output, dev, status, fresh, exti, fails>>
    BY <1>5 DEF Bus!range_release, Bus!i2cAcquireBus
  <2>2. /\ SchedKept /\ Bus!Goes("range", to) /\ i2c_owner' \in {"none", "leds", "range"}
        /\ (waits'["range"] = "i2c") <=> (waits["range"] = "i2c")
    <3>1. CASE Bus!range_release(from, to)
      BY <1>0, <2>1, <3>1, ReleaseKeeps DEF Bus!range_release
    <3>2. CASE Bus!i2cAcquireBus("range", from, to)
      BY <1>0, <3>2, AcquireKeeps
    <3> QED
      BY <1>5, <3>1, <3>2
  <2>3. Transfers("range") = FALSE /\ Transfers("range")' = FALSE
    BY <1>1, <2>1, <2>2 DEF Transfers
  <2>4. fails = 0 => RangeOK(to, Transfers("range")', dev, status, fresh')
    BY <1>0, <1>5, <2>1, <2>3 DEF RangeInv
  <2> QED
    BY <1>2, <2>1, <2>2, <2>4
<1>6. CASE Bus!range_power
  <2>1. /\ cpu = "range" /\ pc["range"] = "power" /\ Bus!Waits("range", "timer", "acquire")
        /\ UNCHANGED <<i2c_owner, led, topic, output, dev, status, fresh, exti, fails>>
    BY <1>6 DEF Bus!range_power
  <2>2. SchedKept /\ Bus!Goes("range", "acquire") /\ waits'["range"] = "timer"
    BY <1>0, <2>1, WaitsKeeps
  <2>3. i2c_owner' \in {"none", "leds", "range"}
    BY <1>0, <2>1 DEF BusTypes, Bus!TypeOK, Bus!None
  <2>4. fails = 0 => RangeOK("acquire", Transfers("range")', dev, status, fresh')
    BY <1>0, <2>1 DEF RangeInv, RangeOK
  <2> QED
    BY <1>2, <2>1, <2>2, <2>3, <2>4
<1>7. CASE Bus!range_publish
  <2>1. /\ cpu = "range" /\ pc["range"] = "publish" /\ Bus!Goes("range", "lock")
        /\ UNCHANGED <<cpu, ready, waits, i2c_owner, led, topic, output, dev, status, exti, fails>>
    BY <1>7 DEF Bus!range_publish, Bus!Runs
  <2>2. SchedKept
    BY <1>0, <2>1, SameKeeps
  <2>3. i2c_owner' \in {"none", "leds", "range"}
    BY <1>0, <2>1 DEF BusTypes, Bus!TypeOK, Bus!None
  <2>4. fails = 0 => RangeOK("lock", Transfers("range")', dev, status, fresh')
    BY <1>0, <2>1 DEF RangeInv, RangeOK
  <2> QED
    BY <1>2, <2>1, <2>2, <2>3, <2>4
<1>8. CASE \/ Bus!i2cAcquireBus("range", "acquire", "wake") \/ Bus!range_release("configured", "lock")
           \/ Bus!i2cAcquireBus("range", "lock", "poll1") \/ Bus!range_release("unlock", "publish")
  <2>1. \A d, s, f : RangeOK("acquire", FALSE, d, s, f) => RangeOK("wake", FALSE, d, s, f)
    BY DEF RangeOK
  <2>2. \A d, s, f : RangeOK("configured", FALSE, d, s, f) => RangeOK("lock", FALSE, d, s, f)
    BY DEF RangeOK
  <2>3. \A d, s, f : RangeOK("lock", FALSE, d, s, f) => RangeOK("poll1", FALSE, d, s, f)
    BY DEF RangeOK
  <2>4. \A d, s, f : RangeOK("unlock", FALSE, d, s, f) => RangeOK("publish", FALSE, d, s, f)
    BY DEF RangeOK
  <2> QED
    BY <1>5, <1>8, <2>1, <2>2, <2>3, <2>4
<1>9. CASE \/ Bus!range_transmit("wake", "fresh") \/ Bus!range_transmit("configure", "configured")
           \/ Bus!range_transmit("poll1", "ready1") \/ Bus!range_transmit("start", "started")
  <2>1. \A d, s, f : RangeOK("wake", FALSE, d, s, f) => RangeOK("fresh", TRUE, d, s, f)
    BY DEF RangeOK
  <2>2. \A d, s, f : RangeOK("configure", FALSE, d, s, f) => RangeOK("configured", TRUE, d, s, f)
    BY DEF RangeOK
  <2>3. \A d, s, f : RangeOK("poll1", FALSE, d, s, f) => RangeOK("ready1", TRUE, d, s, f)
    BY DEF RangeOK
  <2>4. \A d, s, f : RangeOK("start", FALSE, d, s, f) => RangeOK("started", TRUE, d, s, f)
    BY DEF RangeOK
  <2> QED
    BY <1>3, <1>9, <2>1, <2>2, <2>3, <2>4
<1>10. CASE \/ Bus!range_transmit("started", "int1") \/ Bus!range_transmit("value", "value1")
            \/ Bus!range_transmit("value1", "cleared") \/ Bus!range_transmit("cleared", "ready2")
  <2>1. \A d, s, f : RangeOK("started", FALSE, d, s, f) => RangeOK("int1", TRUE, d, s, f)
    BY DEF RangeOK
  <2>2. \A d, s, f : RangeOK("value", FALSE, d, s, f) => RangeOK("value1", TRUE, d, s, f)
    BY DEF RangeOK
  <2>3. \A d, s, f : RangeOK("value1", FALSE, d, s, f) => RangeOK("cleared", TRUE, d, s, f)
    BY DEF RangeOK
  <2>4. \A d, s, f : RangeOK("cleared", FALSE, d, s, f) => RangeOK("ready2", TRUE, d, s, f)
    BY DEF RangeOK
  <2> QED
    BY <1>3, <1>10, <2>1, <2>2, <2>3, <2>4
<1>11. CASE Bus!range_poll("fresh", "wake", "configure") \/ Bus!range_poll("ready1", "poll1", "start")
  <2>1. \A d, s, f : RangeOK("fresh", FALSE, d, s, f) =>
                       RangeOK("wake", FALSE, d, s, f) /\ RangeOK("configure", FALSE, d, s, f)
    BY DEF RangeOK
  <2>2. \A d, s, f : RangeOK("ready1", FALSE, d, s, f) =>
                       RangeOK("poll1", FALSE, d, s, f) /\ RangeOK("start", FALSE, d, s, f)
    BY DEF RangeOK
  <2> QED
    BY <1>4, <1>11, <2>1, <2>2
<1>12. CASE Bus!range_poll("int1", "started", "value") \/ Bus!range_poll("ready2", "cleared", "unlock")
  <2>1. \A d, s, f : s /\ RangeOK("int1", FALSE, d, s, f) => RangeOK("value", FALSE, d, s, f)
    BY DEF RangeOK
  <2>2. \A d, s, f : ~ s /\ RangeOK("int1", FALSE, d, s, f) => RangeOK("started", FALSE, d, s, f)
    BY DEF RangeOK
  <2>3. \A d, s, f : RangeOK("ready2", FALSE, d, s, f) =>
                       RangeOK("cleared", FALSE, d, s, f) /\ RangeOK("unlock", FALSE, d, s, f)
    BY DEF RangeOK
  <2> QED
    BY <1>4, <1>12, <2>1, <2>2, <2>3
<1> QED
  BY <1>6, <1>7, <1>8, <1>9, <1>10, <1>11, <1>12 DEF Bus!range_reader_thd

\* The end of a transfer of the range thread, and of a measurement.
LEMMA RangeDeviceStep ==
  ASSUME BusInv, Bus!range_interrupt \/ Bus!range_measured
  PROVE  BusInv'
<1>0. /\ {"main", "leds", "range", "imu"} = Bus!Threads
      /\ BusTypes /\ BusSched /\ BusStart /\ RangeInv
  BY DEF Bus!Threads, BusInv
<1>1. /\ dev \in [measuring : BOOLEAN, int : BOOLEAN] /\ status \in BOOLEAN
  BY <1>0 DEF BusTypes
<1> USE DEF Bus!ledvars, Bus!rangevars, Bus!imuvars
\* The thread wakes where it is; RangeInv is left to be shown.
<1>2. ASSUME waits["range"] = "i2c", Bus!Wake("range"), pc' = pc,
             UNCHANGED <<i2c_owner, led, topic, output, exti>>, fails' = fails \/ Bus!Fails,
             dev' \in [measuring : BOOLEAN, int : BOOLEAN], status' \in BOOLEAN,
             fails = 0 /\ fails' = 0 /\ RangeOK(pc["range"], TRUE, dev, status, fresh)
               => RangeOK(pc["range"], FALSE, dev', status', fresh')
      PROVE  BusInv'
  <2>1. /\ BusSched' /\ waits'["range"] = "none" /\ \A x \in Bus!Threads \ {"range"} : waits'[x] = waits[x]
    BY <1>0, <1>2, WakeKeeps
  <2>2. SchedKept
    BY <1>0, <1>2, <2>1 DEF SchedKept
  <2>3. BusStart'
    BY <1>0, <1>2, <2>2, StartKeeps DEF BusStart
  <2>4. fails' \in Nat /\ (fails' = 0 => fails = 0)
    BY <1>0, <1>2, FailsCounted DEF BusTypes
  <2>5. Transfers("range") = TRUE /\ Transfers("range")' = FALSE
    BY <1>2, <2>1 DEF Transfers
  <2>6. RangeInv'
    BY <1>0, <1>2, <2>4, <2>5 DEF RangeInv
  <2>7. BusTypes'
    BY <1>0, <1>2, <2>1, <2>4 DEF BusSched, BusTypes, Bus!TypeOK, Bus!None
  <2> QED
    BY <2>1, <2>3, <2>6, <2>7 DEF BusInv
<1>3. ASSUME NEW at, NEW r \in {"fresh", "ready", "interrupt"}, Bus!range_read(at, r),
             at \in {"fresh", "ready1", "int1", "ready2"}, at = "int1" => r = "interrupt"
      PROVE  BusInv'
  <2>1. /\ pc["range"] = at /\ waits["range"] = "i2c" /\ Bus!Wake("range") /\ pc' = pc
        /\ UNCHANGED <<i2c_owner, led, topic, output, dev, fresh, exti>>
    BY <1>3 DEF Bus!range_read
  <2>2. \/ status' = Bus!Register(r) /\ fails' = fails
        \/ status' \in BOOLEAN /\ Bus!Fails
    BY <1>3 DEF Bus!range_read
  <2>3. Bus!Register(r) \in BOOLEAN /\ (at = "int1" => Bus!Register(r) = dev.int)
    BY <1>1, <1>3 DEF Bus!Register
  <2>4. status' \in BOOLEAN /\ (fails' = fails \/ Bus!Fails)
    BY <2>2, <2>3
  <2>5. ASSUME fails = 0, fails' = 0, RangeOK(at, TRUE, dev, status, fresh)
        PROVE  RangeOK(at, FALSE, dev, status', fresh)
    <3>1. status' = Bus!Register(r)
      BY <1>0, <2>2, <2>5, FailsCounted
    <3>2. at = "int1" => status' = dev.int
      BY <2>3, <3>1
    <3> QED
      BY <1>3, <2>5, <3>2 DEF RangeOK
  <2> QED
    BY <1>1, <1>2, <2>1, <2>4, <2>5
<1>4. CASE Bus!range_value("value1")
  <2>1. /\ pc["range"] = "value1" /\ waits["range"] = "i2c" /\ Bus!Wake("range") /\ pc' = pc
        /\ UNCHANGED <<i2c_owner, led, topic, output, dev, status, exti>>
    BY <1>4 DEF Bus!range_value
  <2>2. \/ /\ fresh' = (IF "val" \in fresh THEN fresh \cup {"mm"} ELSE fresh \ {"mm"})
           /\ fails' = fails
        \/ Bus!Fails
    BY <1>4 DEF Bus!range_value
  <2>3. ASSUME fails = 0, fails' = 0, RangeOK("value1", TRUE, dev, status, fresh)
        PROVE  RangeOK("value1", FALSE, dev, status, fresh')
    <3>1. "val" \in fresh
      BY <2>3 DEF RangeOK
    <3>2. fresh' = fresh \cup {"mm"}
      BY <1>0, <2>2, <2>3, <3>1, FailsCounted
    <3> QED
      BY <2>3, <3>2 DEF RangeOK
  <2> QED
    BY <1>1, <1>2, <2>1, <2>2, <2>3
<1>5. ASSUME NEW at, NEW new \in [measuring : BOOLEAN, int : BOOLEAN], Bus!range_write(at, new),
             RangeOK(at, TRUE, dev, status, fresh) => RangeOK(at, FALSE, new, status, fresh)
      PROVE  BusInv'
  <2>1. /\ pc["range"] = at /\ waits["range"] = "i2c" /\ Bus!Wake("range") /\ pc' = pc
        /\ UNCHANGED <<i2c_owner, led, topic, output, status, fresh, exti>>
    BY <1>5 DEF Bus!range_write
  <2>2. (dev' = new /\ fails' = fails) \/ (dev' = dev /\ Bus!Fails)
    BY <1>5 DEF Bus!range_write
  <2>3. dev' \in [measuring : BOOLEAN, int : BOOLEAN] /\ (fails' = fails \/ Bus!Fails)
    BY <1>1, <2>2
  <2>4. ASSUME fails = 0, fails' = 0, RangeOK(at, TRUE, dev, status, fresh)
        PROVE  RangeOK(at, FALSE, dev', status, fresh)
    BY <1>0, <1>5, <2>2, <2>4, FailsCounted
  <2> QED
    BY <1>1, <1>2, <2>1, <2>3, <2>4
<1>6. CASE Bus!range_write("configured", dev)
  <2>1. RangeOK("configured", TRUE, dev, status, fresh) => RangeOK("configured", FALSE, dev, status, fresh)
    BY DEF RangeOK
  <2> QED
    BY <1>1, <1>5, <1>6, <2>1
<1>7. CASE Bus!range_write("started", Bus!Started)
  <2>1. Bus!Started \in [measuring : BOOLEAN, int : BOOLEAN] /\ Bus!Started.int = dev.int
    BY <1>1 DEF Bus!Started
  <2>2. ASSUME RangeOK("started", TRUE, dev, status, fresh)
        PROVE  RangeOK("started", FALSE, Bus!Started, status, fresh)
    BY <2>1, <2>2 DEF RangeOK
  <2> QED
    BY <1>5, <1>7, <2>1, <2>2
<1>8. CASE Bus!range_write("cleared", Bus!Cleared)
  <2>1. /\ Bus!Cleared \in [measuring : BOOLEAN, int : BOOLEAN] /\ ~ Bus!Cleared.int
        /\ Bus!Cleared.measuring = dev.measuring
    BY <1>1 DEF Bus!Cleared
  <2>2. ASSUME RangeOK("cleared", TRUE, dev, status, fresh)
        PROVE  RangeOK("cleared", FALSE, Bus!Cleared, status, fresh)
    BY <2>1, <2>2 DEF RangeOK
  <2> QED
    BY <1>5, <1>8, <2>1, <2>2
<1>9. CASE Bus!range_measured
  <2>1. /\ dev.measuring /\ dev' = [measuring |-> FALSE, int |-> TRUE] /\ fresh' = fresh \cup {"val"}
        /\ UNCHANGED <<cpu, ready, pc, waits, i2c_owner, led, topic, output, status, exti, fails>>
    BY <1>9 DEF Bus!range_measured, Bus!sched
  <2>2. SchedKept
    BY <1>0, <2>1, SameKeeps
  <2>3. dev' \in [measuring : BOOLEAN, int : BOOLEAN] /\ dev'.int /\ ~ dev'.measuring
    BY <2>1
  <2>4. BusTypes'
    BY <1>0, <2>1, <2>3 DEF BusTypes, Bus!TypeOK
  <2>5. BusStart'
    BY <1>0, <2>1, <2>2, StartKeeps DEF BusStart
  <2>6. Transfers("range")' = Transfers("range")
    BY <2>1 DEF Transfers
  <2>7. ASSUME fails = 0 PROVE RangeOK(pc["range"], Transfers("range"), dev', status, fresh')
    <3>1. RangeOK(pc["range"], Transfers("range"), dev, status, fresh)
      BY <1>0, <2>7 DEF RangeInv
    <3>2. (pc["range"] = "started" /\ ~ Transfers("range")) \/ pc["range"] = "int1"
      BY <2>1, <3>1 DEF RangeOK
    <3> QED
      BY <2>1, <2>3, <3>1, <3>2 DEF RangeOK
  <2>8. RangeInv'
    BY <2>1, <2>6, <2>7 DEF RangeInv
  <2> QED
    BY <2>2, <2>4, <2>5, <2>8 DEF BusInv, SchedKept
<1> QED
  BY <1>3, <1>4, <1>6, <1>7, <1>8, <1>9 DEF Bus!range_interrupt

\* The state of the ready list and the bus at boot.
LEMMA BusInit == Bus!Init => BusInv
<1> SUFFICES ASSUME Bus!Init PROVE BusInv
  OBVIOUS
<1>0. {"main", "leds", "range", "imu"} = Bus!Threads /\ Leds \in Nat \ {0}
  BY SensorsAssumption DEF Bus!Threads, Bus!ConstantsOK
<1>1. /\ cpu = "main" /\ ready = <<>> /\ Len(ready) = 0
      /\ waits = [t \in Bus!Threads |-> IF t = "main" THEN "none" ELSE "created"]
      /\ pc = [main |-> "leds", leds |-> "clear", range |-> "power", imu |-> "ping"]
  BY DEF Bus!Init, Bus!None
<1>2. /\ waits["main"] = "none" /\ waits["leds"] = "created" /\ waits["range"] = "created"
      /\ waits["imu"] = "created" /\ waits = [t \in Bus!Threads |-> waits[t]]
      /\ pc = [t \in Bus!Threads |-> pc[t]] /\ pc["main"] = "leds" /\ pc["range"] = "power"
  BY <1>0, <1>1
<1>3. BusSched
  BY <1>0, <1>1, <1>2 DEF BusSched
<1>4. BusStart
  BY <1>2 DEF BusStart
<1>5. RangeInv
  BY <1>2 DEF Bus!Init, RangeInv, RangeOK
<1>6. BusTypes
  <2>1. led = 1 /\ 1 \in 1 .. Leds /\ fails = 0
    BY <1>0 DEF Bus!Init
  <2>2. topic \in [1 .. Leds -> Values \cup {Bus!Never}]
    BY DEF Bus!Init
  <2>3. output \in [1 .. Leds -> 0 .. 31]
    BY DEF Bus!Init
  <2>4. exti \in [init : BOOLEAN, listeners : SUBSET {"imu"}] /\ i2c_owner = "none"
    BY DEF Bus!Init, Bus!None
  <2>5. dev \in [measuring : BOOLEAN, int : BOOLEAN] /\ status \in BOOLEAN
    BY DEF Bus!Init
  <2> QED
    BY <1>3, <2>1, <2>2, <2>3, <2>4, <2>5 DEF BusTypes, Bus!TypeOK, Bus!None, BusSched
<1> QED
  BY <1>3, <1>4, <1>5, <1>6 DEF BusInv

\* For any number of LEDs, messages and lost transfers, and every order in which the
\* threads run: without a lost transfer a published range was measured after the one
\* before it was published.
THEOREM RangesFresh == SensorsSpec => []RangeFresh
<1>1. SensorsInit => BusInv
  BY BusInit DEF SensorsInit
<1>2. BusInv /\ [SensorsNext]_<<part, vars, adcvars, busvars>> => BusInv'
  <2> SUFFICES ASSUME BusInv, [SensorsNext]_<<part, vars, adcvars, busvars>> PROVE BusInv'
    OBVIOUS
  <2>1. CASE Bus!Next
    BY <2>1, MainStep, LedStep, ImuStep, InterruptStep, RangeThreadStep, RangeDeviceStep
       DEF Bus!Next, Bus!ThreadStep
  <2>2. CASE UNCHANGED busvars
    BY <2>2 DEF busvars, BusInv, BusTypes, Bus!TypeOK, BusSched, BusStart, RangeInv, Transfers
  <2> QED
    BY <2>1, <2>2 DEF SensorsNext
<1>3. BusInv => RangeFresh
  BY DEF BusInv, BusTypes, RangeInv, RangeOK, RangeFresh, Bus!RangeFresh, Bus!At
<1> QED
  BY <1>1, <1>2, <1>3, PTL DEF SensorsSpec
================================================================================
