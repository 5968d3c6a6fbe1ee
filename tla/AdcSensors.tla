------------------------------ MODULE AdcSensors ------------------------------
(***************************************************************************)
(* Two ADCs shared by the proximity sensors and the battery level          *)
(* (sensors/proximity.c, sensors/battery_level.c), the timer that triggers *)
(* the proximity samples at a point of its cycle, and the low battery      *)
(* cutoff (battery_protection.c).                                          *)
(***************************************************************************)
EXTENDS Integers

CONSTANTS
  Samples3, Samples2,   \* samples until the callback of adcgrpcfg3 and of adcgrpcfg2
  Voltages              \* battery voltages, in tenths of a volt

ConstantsOK == Samples3 \in Nat \ {0} /\ Samples2 \in Nat \ {0} /\ Voltages \subseteq Nat

WARNING_LEVEL == 70
SHUTDOWN_LEVEL == 65
None == "none"
ADCs == {"ADCD2", "ADCD3"}

VARIABLES
  phase,       \* last point the timer has passed: "start" of the cycle, "on" (0.02), "off" (0.5)
  position,    \* compare value: where the timer triggers the ADCs
  preload,     \* compare value from the next cycle on
  adc,         \* conversion of each ADC: group, samples left, points of the samples so far
  owner,       \* mutex of each ADC's bus
  sem,         \* adc3_ready, adc2_ready, measurement_ready
  prox, goal,  \* proximity thread: where it is, the point it measures at
  value,       \* adc3_values, adc2_values: points they were sampled at
  delayed,     \* history: the timer passed a point while the proximity thread could run
  turn, stamp, \* history: measurement under way, measurement the values belong to
  battery,     \* battery thread: where it is
  voltage, battery_value, level,   \* the battery, the last measurement, the topic (-1: not published)
  protect,     \* battery protection thread
  warning, off \* the red LED, the shutdown line

timer == <<phase, position, preload>>
proximity == <<prox, goal, turn, delayed>>
cutoff == <<level, protect, warning, off>>
vars == <<phase, position, preload, adc, owner, sem, prox, goal, value, delayed, turn, stamp,
          battery, voltage, battery_value, level, protect, warning, off>>

Idle == [group |-> None, left |-> 0, at |-> {}]

\* The proximity thread has something to do now.
ProxRuns == ~ \/ prox = "wait3" /\ ~ sem.adc3
              \/ prox = "wait2" /\ ~ sem.adc2
              \/ prox = "blocked" /\ owner["ADCD2"] # "prox"

-----------------------------------------------------------------------------
(* Timer and ADC interrupts.                                                *)

SemOf(a) == IF a = "ADCD3" THEN "adc3" ELSE "adc2"

\* ADCs whose conversion the timer triggers at a point, and those it completes.
Triggered(p) == {a \in ADCs : position = p /\ adc[a].group = "proximity"}
Completed(p) == {a \in Triggered(p) : adc[a].left = 1}

\* proximity.c: average, stop the conversion, signal.
adc_cb(p) ==
  /\ adc' = [a \in ADCs |->
       IF a \notin Triggered(p) THEN adc[a]
       ELSE IF a \in Completed(p) THEN Idle
       ELSE [adc[a] EXCEPT !.left = @ - 1, !.at = @ \cup {p}]]
  /\ value' = [a \in ADCs |-> IF a \in Completed(p) THEN adc[a].at \cup {p} ELSE value[a]]
  /\ stamp' = [a \in ADCs |-> IF a \in Completed(p) THEN turn ELSE stamp[a]]
  /\ sem' = [s \in DOMAIN sem |-> sem[s] \/ \E a \in Completed(p) : s = SemOf(a)]

Following == [start |-> "on", on |-> "off", off |-> "start"]

\* The timer reaches the next point of its cycle; a new compare value is taken over
\* at the start of a cycle.
Tick ==
  /\ delayed' = (delayed \/ ProxRuns)
  /\ phase' = Following[phase]
  /\ position' = IF phase' = "start" THEN preload ELSE position
  /\ adc_cb(phase')
  /\ UNCHANGED <<preload, owner, prox, goal, turn, battery, voltage, battery_value, cutoff>>

\* battery_level.c: its conversions run on their own once started.
battery_adc_cb ==
  /\ adc["ADCD2"].group = "battery"
  /\ battery_value' = voltage
  /\ adc' = [adc EXCEPT !["ADCD2"] = Idle]
  /\ sem' = [sem EXCEPT !.battery = TRUE]
  /\ UNCHANGED <<timer, owner, proximity, value, stamp, battery, voltage, cutoff>>

-----------------------------------------------------------------------------
(* proximity_thd.                                                           *)

ProxGoes(from, to) == prox = from /\ prox' = to

\* Mutant: the position of the measurement before.
Mutset_measurement_position ==
  /\ ProxGoes("set", "lock3")
  /\ preload' = IF goal = "off" THEN "on" ELSE "off"
  /\ UNCHANGED <<phase, position, adc, owner, sem, goal, value, turn, stamp, battery, voltage, battery_value, delayed, cutoff>>

\* set_measurement_position, then the bus of ADC3, which nobody else uses.
set_measurement_position ==
  /\ ProxGoes("set", "lock3")
  /\ preload' = goal
  /\ UNCHANGED <<phase, position, adc, owner, sem, goal, value, turn, stamp, battery, voltage, battery_value, delayed, cutoff>>

AcquireBus3 ==
  /\ ProxGoes("lock3", "lock2") /\ owner["ADCD3"] = None
  /\ owner' = [owner EXCEPT !["ADCD3"] = "prox"]
  /\ UNCHANGED <<timer, adc, sem, goal, value, turn, stamp, battery, voltage, battery_value, delayed, cutoff>>

AcquireBus2 ==
  /\ prox = "lock2"
  /\ IF owner["ADCD2"] = None
     THEN prox' = "start3" /\ owner' = [owner EXCEPT !["ADCD2"] = "prox"]
     ELSE prox' = "blocked" /\ UNCHANGED owner
  /\ UNCHANGED <<timer, adc, sem, goal, value, turn, stamp, battery, voltage, battery_value, delayed, cutoff>>

GotBus2 ==
  /\ ProxGoes("blocked", "start3") /\ owner["ADCD2"] = "prox"
  /\ UNCHANGED <<timer, adc, owner, sem, goal, value, turn, stamp, battery, voltage, battery_value, delayed, cutoff>>

StartConversion3 ==
  /\ ProxGoes("start3", "start2")
  /\ turn' = 1 - turn
  /\ adc' = [adc EXCEPT !["ADCD3"] = [group |-> "proximity", left |-> Samples3, at |-> {}]]
  /\ UNCHANGED <<timer, owner, sem, goal, value, stamp, battery, voltage, battery_value, delayed, cutoff>>

StartConversion2 ==
  /\ ProxGoes("start2", "wait3")
  /\ adc' = [adc EXCEPT !["ADCD2"] = [group |-> "proximity", left |-> Samples2, at |-> {}]]
  /\ UNCHANGED <<timer, owner, sem, goal, value, turn, stamp, battery, voltage, battery_value, delayed, cutoff>>

WaitAdc(from, s, to) ==
  /\ ProxGoes(from, to) /\ sem[s]
  /\ sem' = [sem EXCEPT ![s] = FALSE]
  /\ UNCHANGED <<timer, adc, owner, goal, value, turn, stamp, battery, voltage, battery_value, delayed, cutoff>>

\* The results are copied, then the buses are released; a waiting battery thread gets
\* ADC2 at once.
\* Mutant: releasing a bus wakes nobody.
MutNextOwner(waits, thread) == None

NextOwner(waits, thread) == IF waits THEN thread ELSE None
ReleaseBus2 ==
  /\ ProxGoes("copy", "unlock3")
  /\ owner' = [owner EXCEPT !["ADCD2"] = NextOwner(battery = "blocked", "battery")]
  /\ UNCHANGED <<timer, adc, sem, goal, value, turn, stamp, battery, voltage, battery_value, delayed, cutoff>>

\* Then the other of the two measurements, without a pause.
ReleaseBus3 ==
  /\ ProxGoes("unlock3", "set")
  /\ owner' = [owner EXCEPT !["ADCD3"] = None]
  /\ goal' = IF goal = "off" THEN "on" ELSE "off"
  /\ UNCHANGED <<timer, adc, sem, value, turn, stamp, battery, voltage, battery_value, delayed, cutoff>>

proximity_thd ==
  \/ set_measurement_position \/ AcquireBus3 \/ AcquireBus2 \/ GotBus2
  \/ StartConversion3 \/ StartConversion2
  \/ WaitAdc("wait3", "adc3", "wait2") \/ WaitAdc("wait2", "adc2", "copy")
  \/ ReleaseBus2 \/ ReleaseBus3

-----------------------------------------------------------------------------
(* battery_thd.                                                             *)

others == <<timer, proximity, value, stamp, voltage>>
BatteryGoes(from, to) == battery = from /\ battery' = to

BatteryAcquires ==
  /\ battery = "sleep"
  /\ IF owner["ADCD2"] = None
     THEN battery' = "start" /\ owner' = [owner EXCEPT !["ADCD2"] = "battery"]
     ELSE battery' = "blocked" /\ UNCHANGED owner
  /\ UNCHANGED <<others, adc, sem, battery_value, cutoff>>

BatteryGotBus ==
  /\ BatteryGoes("blocked", "start") /\ owner["ADCD2"] = "battery"
  /\ UNCHANGED <<others, adc, owner, sem, battery_value, cutoff>>

BatteryStarts ==
  /\ BatteryGoes("start", "wait")
  /\ adc' = [adc EXCEPT !["ADCD2"] = [group |-> "battery", left |-> 1, at |-> {}]]
  /\ UNCHANGED <<others, owner, sem, battery_value, cutoff>>

BatteryReleases ==
  /\ BatteryGoes("wait", "publish") /\ sem.battery
  /\ sem' = [sem EXCEPT !.battery = FALSE]
  /\ owner' = [owner EXCEPT !["ADCD2"] = NextOwner(prox = "blocked", "prox")]
  /\ UNCHANGED <<others, adc, battery_value, cutoff>>

BatteryPublishes ==
  /\ BatteryGoes("publish", "sleep")
  /\ level' = battery_value
  /\ protect' = IF protect = "first" THEN "loop" ELSE protect
  /\ UNCHANGED <<others, adc, owner, sem, battery_value, warning, off>>

battery_thd == BatteryAcquires \/ BatteryGotBus \/ BatteryStarts \/ BatteryReleases \/ BatteryPublishes

-----------------------------------------------------------------------------

\* One turn of the loop; board_shutdown pulls a line, the supply decides when to go.
battery_protection_thd ==
  /\ protect = "loop"
  /\ warning' = IF level < WARNING_LEVEL THEN ~ warning ELSE warning
  /\ off' = (off \/ level < SHUTDOWN_LEVEL)
  /\ UNCHANGED <<timer, adc, owner, sem, proximity, value, stamp, battery, voltage, battery_value, level, protect>>

Discharge ==
  /\ voltage' \in {v \in Voltages : v < voltage}
  /\ UNCHANGED <<timer, adc, owner, sem, proximity, value, stamp, battery, battery_value, cutoff>>

\* Mutant: the semaphores of the proximity thread are signalled at the start.
MutInit ==
  /\ phase = "start" /\ position = None /\ preload = None
  /\ adc = [a \in ADCs |-> Idle] /\ owner = [a \in ADCs |-> None]
  /\ sem = [s \in {"adc3", "adc2", "battery"} |-> s # "battery"]
  /\ prox = "set" /\ goal = "off" /\ value = [a \in ADCs |-> {}]
  /\ delayed = FALSE /\ turn = 0 /\ stamp = [a \in ADCs |-> 0]
  /\ battery = "sleep" /\ voltage \in Voltages /\ battery_value = 0
  /\ level = -1 /\ protect = "first" /\ warning = FALSE /\ off = FALSE

Init ==
  /\ phase = "start" /\ position = None /\ preload = None
  /\ adc = [a \in ADCs |-> Idle] /\ owner = [a \in ADCs |-> None]
  /\ sem = [s \in {"adc3", "adc2", "battery"} |-> FALSE]
  /\ prox = "set" /\ goal = "off" /\ value = [a \in ADCs |-> {}]
  /\ delayed = FALSE /\ turn = 0 /\ stamp = [a \in ADCs |-> 0]
  /\ battery = "sleep" /\ voltage \in Voltages /\ battery_value = 0
  /\ level = -1 /\ protect = "first" /\ warning = FALSE /\ off = FALSE

Next == Tick \/ battery_adc_cb \/ proximity_thd \/ battery_thd \/ battery_protection_thd \/ Discharge

\* The timer runs; threads that can run do so in the end.
Fairness ==
  /\ WF_vars(Tick) /\ WF_vars(battery_adc_cb)
  /\ WF_vars(proximity_thd) /\ WF_vars(battery_thd) /\ WF_vars(battery_protection_thd)
Spec == Init /\ [][Next]_vars /\ Fairness

-----------------------------------------------------------------------------

\* What the timer, the ADCs and the threads range over.
TypeOK ==
  /\ phase \in {"start", "on", "off"} /\ {position, preload} \subseteq {"on", "off", None}
  /\ adc \in [ADCs -> [group : {None, "proximity", "battery"}, left : 0..(Samples2 + Samples3), at : SUBSET {"on", "off"}]]
  /\ owner \in [ADCs -> {None, "prox", "battery"}]
  /\ sem \in [{"adc3", "adc2", "battery"} -> BOOLEAN]
  /\ prox \in {"set", "lock3", "lock2", "blocked", "start3", "start2", "wait3", "wait2", "copy", "unlock3"}
  /\ goal \in {"on", "off"} /\ value \in [ADCs -> SUBSET {"on", "off"}]
  /\ delayed \in BOOLEAN /\ turn \in 0..1 /\ stamp \in [ADCs -> 0..1]
  /\ battery \in {"sleep", "blocked", "start", "wait", "publish"}
  /\ voltage \in Voltages /\ battery_value \in Voltages \cup {0} /\ level \in Voltages \cup {-1}
  /\ protect \in {"first", "loop"} /\ warning \in BOOLEAN /\ off \in BOOLEAN

\* "Wait for the conversions to be done": the values that are copied are those of this
\* measurement on both ADCs, whatever the battery thread does on one of them.
FreshValues == prox = "copy" => \A a \in ADCs : stamp[a] = turn

\* "Sets the position in the LED waveform at which the measurement will be taken": as long
\* as the proximity thread runs when it can, every sample behind the copied values was taken
\* at that point, although the timer takes it over only in its next cycle and the bus of
\* ADC2 may be given back at any point of a cycle.
AtPosition == prox = "copy" /\ ~ delayed => \A a \in ADCs : value[a] = {goal}

\* "Since this is used for safety": once the battery is below the level, the robot shuts
\* down, although the proximity thread asks for ADC2 without a pause.
CutsOff == (voltage < SHUTDOWN_LEVEL) ~> off
===============================================================================
