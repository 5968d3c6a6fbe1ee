------------------------------- MODULE MCSensors -------------------------------
(***************************************************************************)
(* Three parts of the board that share no state, in one run: the wheel     *)
(* encoders, the ADCs with the battery cutoff, and the threads on the I2C  *)
(* bus with the IMU.  A behaviour is one of the parts with all of its      *)
(* steps; the other two stay where they start.                             *)
(***************************************************************************)
EXTENDS Encoder, Sequences

CONSTANTS Samples3, Samples2, Voltages        \* AdcSensors
CONSTANTS Leds, Values, MaxPubs, MaxFails     \* Peripherals

VARIABLES part,
  phase, position, preload, adc, owner, sem, prox, goal, value, delayed, turn, stamp,
  battery, voltage, battery_value, level, protect, warning, off,             \* AdcSensors
  cpu, ready, pc, waits, i2c_owner, led, topic, output, dev, status, fresh, lost, exti,
  armed, event, pubs, fails                                                  \* Peripherals

adcvars == <<phase, position, preload, adc, owner, sem, prox, goal, value, delayed, turn, stamp,
             battery, voltage, battery_value, level, protect, warning, off>>
busvars == <<cpu, ready, pc, waits, i2c_owner, led, topic, output, dev, status, fresh, lost,
             exti, armed, event, pubs, fails>>

Adc == INSTANCE AdcSensors
Bus == INSTANCE Peripherals WITH owner <- i2c_owner

ASSUME SensorsAssumption == Adc!ConstantsOK /\ Bus!ConstantsOK

\* A part that does not run starts in one state, whatever it could start in.
SensorsInit ==
  /\ part \in {"encoder", "adc", "bus"}
  /\ Init /\ Adc!Init /\ Bus!Init
  /\ part # "encoder" => cnt = 0
  /\ part # "adc" => \A v \in Voltages : v <= voltage

SensorsNext ==
  \/ part = "encoder" /\ Next /\ UNCHANGED <<part, adcvars, busvars>>
  \/ part = "adc" /\ Adc!Next /\ UNCHANGED <<part, vars, busvars>>
  \/ part = "bus" /\ Bus!Next /\ UNCHANGED <<part, vars, adcvars>>

\* The fairness of AdcSensors and of Peripherals, for the part that runs.
SensorsFairness ==
  /\ WF_adcvars(part = "adc" /\ Adc!Tick) /\ WF_adcvars(part = "adc" /\ Adc!battery_adc_cb)
  /\ WF_adcvars(part = "adc" /\ Adc!proximity_thd) /\ WF_adcvars(part = "adc" /\ Adc!battery_thd)
  /\ WF_adcvars(part = "adc" /\ Adc!battery_protection_thd)
  /\ WF_busvars(part = "bus" /\ Bus!ThreadStep)
  /\ \A t \in Bus!Threads : WF_busvars(part = "bus" /\ Bus!Timer(t))
  /\ WF_busvars(part = "bus" /\ Bus!led_interrupt) /\ WF_busvars(part = "bus" /\ Bus!range_interrupt)
  /\ WF_busvars(part = "bus" /\ Bus!imu_interrupt) /\ WF_busvars(part = "bus" /\ Bus!gpio_exti_callback)
  /\ WF_busvars(part = "bus" /\ Bus!range_measured)

SensorsSpec ==
  SensorsInit /\ [][SensorsNext]_<<part, vars, adcvars, busvars>> /\ SensorsFairness

-----------------------------------------------------------------------------
(* What is checked, under one name each.                                   *)

\* The values that are copied belong to this measurement (take_measurement).
FreshValues == Adc!TypeOK /\ Adc!FreshValues
\* They were sampled at the point of the LED waveform that was asked for.
AtPosition == Adc!AtPosition
\* A low battery shuts the robot down (battery_protection_thd).
CutsOff == Adc!CutsOff
\* A published range is newer than the one before (vl6180x_measure_distance).
RangeFresh == Bus!TypeOK /\ Bus!RangeFresh
\* A published brightness reaches the LED unless the range thread hangs (body_led_thd).
LedsFollow == Bus!LedsFollow
\* The IMU is published for ever (imu_reader_thd, exti_start).
ImuAlive == Bus!ImuAlive
================================================================================
