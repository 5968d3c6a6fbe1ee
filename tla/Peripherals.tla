----------------------------- MODULE Peripherals ------------------------------
(***************************************************************************)
(* The threads that main() starts for the body LEDs (body_leds.c), the     *)
(* range sensor (sensors/range.c, sensors/vl6180x) and the IMU             *)
(* (sensors/imu.c, exti.c): the order in which they start, the I2C bus     *)
(* that two of them share, and the interrupt of the third.                 *)
(*                                                                         *)
(* All four threads have priority NORMALPRIO, and chconf.h sets the time   *)
(* quantum to 0: a thread runs until it waits for something, the next one  *)
(* is the head of the ready list, and a thread that is created or woken    *)
(* goes to its end.  A step is what a thread does between two calls that   *)
(* matter to the others.                                                   *)
(***************************************************************************)
EXTENDS Naturals, Sequences

CONSTANTS
  Leds,        \* number of LEDs
  Values,      \* brightness in percent that is published for an LED
  MaxPubs,     \* bound: messages to the LEDs
  MaxFails     \* bound: I2C transfers that fail

ConstantsOK ==
  /\ Leds \in Nat \ {0} /\ Values \subseteq 0 .. 100
  /\ MaxPubs \in Nat /\ MaxFails \in Nat

VARIABLES
  cpu, ready,    \* the running thread or "none"; the ready list
  pc, waits,     \* next step of each thread; what it waits for
  owner,         \* mutex of the I2C bus
  led, topic,    \* body_led_thd: its i; /body_leds/i: value or Never
  output,        \* brightness of each LED on the driver
  dev, status,   \* range sensor: measuring, interrupt flag; last bit read of it
  fresh,         \* history: which of RESULT_RANGE_VAL and out_mm are newer than the
                 \* last published range
  lost,          \* history: the command that starts a measurement was lost
  exti,          \* exti_events: is it initialised, its listeners
  armed, event,  \* the IMU interrupts; pending IMU_INTERRUPT_EVENT
  pubs, fails    \* messages and failed transfers so far

sched == <<cpu, ready, pc, waits>>
ledvars == <<led, topic, output, pubs>>
rangevars == <<dev, status, fresh, lost>>
imuvars == <<exti, armed, event>>
vars == <<sched, owner, ledvars, rangevars, imuvars, fails>>

Never == 101
None == "none"
Threads == {"main", "leds", "range", "imu"}

-----------------------------------------------------------------------------
(* The scheduler.  A thread goes on, waits for a reason, or wakes others.   *)

At(t, from) == cpu = t /\ pc[t] = from
Goes(t, to) == pc' = [pc EXCEPT ![t] = to]

Runs(t, to) == Goes(t, to) /\ UNCHANGED <<cpu, ready, waits>>

Waits(t, why, to) ==
  /\ Goes(t, to) /\ waits' = [waits EXCEPT ![t] = why]
  /\ IF ready = <<>> THEN cpu' = None /\ UNCHANGED ready
     ELSE cpu' = Head(ready) /\ ready' = Tail(ready)

\* From an interrupt or another thread.
Wake(t) ==
  /\ waits' = [waits EXCEPT ![t] = None]
  /\ IF cpu = None THEN cpu' = t /\ UNCHANGED ready
     ELSE ready' = Append(ready, t) /\ UNCHANGED cpu

\* The virtual timer of a sleeping thread.
Timer(t) ==
  /\ waits[t] = "timer" /\ Wake(t)
  /\ UNCHANGED <<pc, owner, ledvars, rangevars, imuvars, fails>>

-----------------------------------------------------------------------------
(* main.                                                                   *)

Creates(from, to, t) ==
  /\ At("main", from) /\ Goes("main", to) /\ Wake(t)
  /\ UNCHANGED <<owner, ledvars, rangevars, imuvars, fails>>

body_leds_start == Creates("leds", "range", "leds")
range_start == Creates("range", "imu", "range")

\* Mutant: main pauses before it starts the interrupts.
Mutimu_start ==
  /\ At("main", "imu") /\ Goes("main", "exti")
  /\ waits' = [waits EXCEPT !["main"] = "timer", !["imu"] = None]
  /\ cpu' = Head(Append(ready, "imu")) /\ ready' = Tail(Append(ready, "imu"))
  /\ UNCHANGED <<owner, ledvars, rangevars, imuvars, fails>>
imu_start == Creates("imu", "exti", "imu")

\* chEvtObjectInit empties the list of listeners.
exti_start ==
  /\ At("main", "exti") /\ Runs("main", "sleep") /\ exti' = [init |-> TRUE, listeners |-> {}]
  /\ UNCHANGED <<owner, ledvars, rangevars, armed, event, fails>>

\* chThdSleepMilliseconds(100) and the loop of main.
main_sleeps ==
  /\ At("main", "sleep") /\ Waits("main", "done", "sleep")
  /\ UNCHANGED <<owner, ledvars, rangevars, imuvars, fails>>

-----------------------------------------------------------------------------
(* The I2C bus.                                                            *)

i2cAcquireBus(t, from, to) ==
  /\ At(t, from)
  /\ IF owner = None THEN owner' = t /\ Runs(t, to)
     ELSE Waits(t, "bus", to) /\ UNCHANGED owner
  /\ UNCHANGED <<ledvars, rangevars, imuvars, fails>>

\* i2cReleaseBus: the bus goes to the thread that waits for it.
release(t, to) ==
  \/ /\ \E u \in Threads : waits[u] = "bus" /\ owner' = u /\ Wake(u)
     /\ Goes(t, to)
  \/ (\A u \in Threads : waits[u] # "bus") /\ owner' = None /\ Runs(t, to)

\* A failed i2cMasterTransmit; its result is never looked at.
Fails == fails < MaxFails /\ fails' = fails + 1

-----------------------------------------------------------------------------
(* body_led_thd.  All outputs are switched off first; then the topics.     *)

Percent(v) == (v * 31) \div 100            \* (int)(msg.value * LED_BRIGHNESS_MAX_VALUE)

led_acquire(from, to) == i2cAcquireBus("leds", from, to)

led_transmit(from, to) ==
  /\ At("leds", from) /\ Waits("leds", "i2c", to)
  /\ UNCHANGED <<owner, ledvars, rangevars, imuvars, fails>>

\* The driver's interrupt: the output has the value, or the transfer failed.
led_interrupt ==
  /\ waits["leds"] = "i2c" /\ Wake("leds")
  /\ \/ /\ output' = [output EXCEPT ![led] =
                        IF pc["leds"] = "cleared" THEN 0 ELSE Percent(topic[led])]
        /\ UNCHANGED fails
     \/ Fails /\ UNCHANGED output
  /\ UNCHANGED <<pc, owner, led, topic, pubs, rangevars, imuvars>>

\* On to the next LED.
led_next(from, again, end) ==
  /\ At("leds", from)
  /\ release("leds", IF led = Leds THEN end ELSE again)
  /\ led' = IF led = Leds THEN 1 ELSE led + 1
  /\ UNCHANGED <<topic, output, pubs, rangevars, imuvars, fails>>

\* Mutant: the first topic that was never published ends the loop.
Mutled_read ==
  /\ At("leds", "loop")
  /\ IF topic[led] # Never THEN Runs("leds", "acquire") /\ UNCHANGED led
     ELSE Runs("leds", "sleep") /\ led' = 1
  /\ UNCHANGED <<owner, topic, output, pubs, rangevars, imuvars, fails>>

\* An LED whose topic was never published is skipped.
led_read ==
  /\ At("leds", "loop")
  /\ IF topic[led] # Never THEN Runs("leds", "acquire") /\ UNCHANGED led
     ELSE /\ Runs("leds", IF led = Leds THEN "sleep" ELSE "loop")
          /\ led' = IF led = Leds THEN 1 ELSE led + 1
  /\ UNCHANGED <<owner, topic, output, pubs, rangevars, imuvars, fails>>

led_sleeps ==
  /\ At("leds", "sleep") /\ Waits("leds", "timer", "loop")
  /\ UNCHANGED <<owner, ledvars, rangevars, imuvars, fails>>

body_led_thd ==
  \/ led_acquire("clear", "clearing") \/ led_transmit("clearing", "cleared")
  \/ led_next("cleared", "clear", "loop")
  \/ led_read \/ led_acquire("acquire", "transmit") \/ led_transmit("transmit", "set")
  \/ led_next("set", "loop", "sleep") \/ led_sleeps

\* The shell or Aseba publishes a brightness.
led_publish(i, v) ==
  /\ pc["leds"] \notin {"clear", "clearing", "cleared"}     \* advertised
  /\ pubs < MaxPubs /\ pubs' = pubs + 1 /\ topic' = [topic EXCEPT ![i] = v]
  /\ UNCHANGED <<sched, owner, led, output, rangevars, imuvars, fails>>

-----------------------------------------------------------------------------
(* range_reader_thd and its sensor.                                        *)

\* The bit of a status register that is polled.
Register(r) ==
  CASE r = "fresh" -> TRUE [] r = "ready" -> ~ dev.measuring [] r = "interrupt" -> dev.int

\* vl6180x_read_register and vl6180x_write_register: the thread waits.
range_transmit(from, to) ==
  /\ At("range", from) /\ Waits("range", "i2c", to)
  /\ UNCHANGED <<owner, ledvars, rangevars, imuvars, fails>>

\* The end of a transfer: the byte is read, or ret is never set.
range_read(at, r) ==
  /\ pc["range"] = at /\ waits["range"] = "i2c" /\ Wake("range")
  /\ \/ status' = Register(r) /\ UNCHANGED fails
     \/ status' \in BOOLEAN /\ Fails
  /\ UNCHANGED <<pc, owner, ledvars, dev, fresh, lost, imuvars>>

range_value(at) ==
  /\ pc["range"] = at /\ waits["range"] = "i2c" /\ Wake("range")
  /\ \/ fresh' = (IF "val" \in fresh THEN fresh \cup {"mm"} ELSE fresh \ {"mm"}) /\ UNCHANGED fails
     \/ fresh' = fresh \ {"mm"} /\ Fails
  /\ UNCHANGED <<pc, owner, ledvars, dev, status, lost, imuvars>>

range_write(at, new) ==
  /\ pc["range"] = at /\ waits["range"] = "i2c" /\ Wake("range")
  /\ \/ dev' = new /\ UNCHANGED <<lost, fails>>
     \/ UNCHANGED dev /\ Fails /\ lost' = (lost \/ at = "started")
  /\ UNCHANGED <<pc, owner, ledvars, status, fresh, imuvars>>

\* do ... while: the register is read again until the bit is set.
range_poll(from, again, to) ==
  /\ At("range", from) /\ Runs("range", IF status THEN to ELSE again)
  /\ UNCHANGED <<owner, ledvars, rangevars, imuvars, fails>>

range_release(from, to) ==
  /\ At("range", from) /\ release("range", to)
  /\ UNCHANGED <<ledvars, rangevars, imuvars, fails>>

range_power ==
  /\ At("range", "power") /\ Waits("range", "timer", "acquire")
  /\ UNCHANGED <<owner, ledvars, rangevars, imuvars, fails>>

range_publish ==
  /\ At("range", "publish") /\ Runs("range", "lock") /\ fresh' = {}
  /\ UNCHANGED <<owner, ledvars, dev, status, lost, imuvars, fails>>

Started == [dev EXCEPT !.measuring = TRUE]
\* Mutant: the interrupt flag stays.
MutCleared == dev
Cleared == [dev EXCEPT !.int = FALSE]

range_interrupt ==
  \/ range_read("fresh", "fresh") \/ range_write("configured", dev)
  \/ range_read("ready1", "ready") \/ range_write("started", Started)
  \/ range_read("int1", "interrupt") \/ range_value("value1")
  \/ range_write("cleared", Cleared) \/ range_read("ready2", "ready")

range_reader_thd ==
  \/ range_power \/ i2cAcquireBus("range", "acquire", "wake")
  \/ range_transmit("wake", "fresh") \/ range_poll("fresh", "wake", "configure")
  \/ range_transmit("configure", "configured") \/ range_release("configured", "lock")
  \/ i2cAcquireBus("range", "lock", "poll1")
  \/ range_transmit("poll1", "ready1") \/ range_poll("ready1", "poll1", "start")
  \/ range_transmit("start", "started") \/ range_transmit("started", "int1")
  \/ range_poll("int1", "started", "value") \/ range_transmit("value", "value1")
  \/ range_transmit("value1", "cleared") \/ range_transmit("cleared", "ready2")
  \/ range_poll("ready2", "cleared", "unlock") \/ range_release("unlock", "publish")
  \/ range_publish

\* The sensor ends a measurement.
range_measured ==
  /\ dev.measuring /\ dev' = [measuring |-> FALSE, int |-> TRUE] /\ fresh' = fresh \cup {"val"}
  /\ UNCHANGED <<sched, owner, ledvars, status, lost, imuvars, fails>>

-----------------------------------------------------------------------------
(* imu_reader_thd, the IMU and its interrupt.                              *)

imu_rest == <<owner, ledvars, rangevars>>

\* The IMU is asked for its name until it answers.
imu_ping ==
  /\ At("imu", "ping")
  /\ \/ Waits("imu", "timer", "setup") /\ UNCHANGED fails
     \/ Waits("imu", "timer", "ping") /\ Fails
  /\ UNCHANGED <<imu_rest, imuvars>>

\* mpu60X0_setup: the interrupts come from now on.
imu_setup ==
  /\ At("imu", "setup") /\ Waits("imu", "timer", "register") /\ armed' = TRUE
  /\ UNCHANGED <<imu_rest, exti, event, fails>>

imu_register ==
  /\ At("imu", "register") /\ Runs("imu", "wait")
  /\ exti' = [exti EXCEPT !.listeners = @ \cup {"imu"}]
  /\ UNCHANGED <<imu_rest, armed, event, fails>>

\* chEvtWaitAny takes a pending event or waits for one.
imu_wait ==
  /\ At("imu", "wait")
  /\ IF event THEN Runs("imu", "read") /\ event' = FALSE
     ELSE Waits("imu", "event", "wait") /\ UNCHANGED event
  /\ UNCHANGED <<imu_rest, exti, armed, fails>>

imu_read ==
  /\ At("imu", "read") /\ Waits("imu", "spi", "publish")
  /\ UNCHANGED <<imu_rest, imuvars, fails>>

imu_publish ==
  /\ At("imu", "publish") /\ Runs("imu", "wait")
  /\ UNCHANGED <<imu_rest, imuvars, fails>>

imu_reader_thd ==
  imu_ping \/ imu_setup \/ imu_register \/ imu_wait \/ imu_read \/ imu_publish

imu_interrupt ==
  /\ waits["imu"] = "spi" /\ Wake("imu")
  /\ UNCHANGED <<pc, imu_rest, imuvars, fails>>

\* The pin of the IMU pulses, whether somebody listens or not.
gpio_exti_callback ==
  /\ armed /\ exti.init /\ "imu" \in exti.listeners
  /\ event' = TRUE
  /\ IF waits["imu"] = "event" THEN Wake("imu") ELSE UNCHANGED <<cpu, ready, waits>>
  /\ UNCHANGED <<pc, imu_rest, exti, armed, fails>>

-----------------------------------------------------------------------------

Init ==
  /\ cpu = "main" /\ ready = <<>>
  /\ pc = [main |-> "leds", leds |-> "clear", range |-> "power", imu |-> "ping"]
  /\ waits = [t \in Threads |-> IF t = "main" THEN None ELSE "created"]
  /\ owner = None
  /\ led = 1 /\ topic = [i \in 1 .. Leds |-> Never] /\ output = [i \in 1 .. Leds |-> 31]
  /\ dev = [measuring |-> FALSE, int |-> FALSE] /\ status = FALSE /\ fresh = {} /\ lost = FALSE
  /\ exti = [init |-> FALSE, listeners |-> {}] /\ armed = FALSE /\ event = FALSE
  /\ pubs = 0 /\ fails = 0

main == body_leds_start \/ range_start \/ imu_start \/ exti_start \/ main_sleeps
ThreadStep == main \/ body_led_thd \/ range_reader_thd \/ imu_reader_thd

Next ==
  \/ ThreadStep
  \/ \E t \in Threads : Timer(t)
  \/ led_interrupt \/ range_interrupt \/ imu_interrupt \/ gpio_exti_callback
  \/ range_measured
  \/ \E i \in 1 .. Leds, v \in Values : led_publish(i, v)

\* The processor runs, timers expire, drivers answer, the sensors measure.
Fairness ==
  /\ WF_vars(ThreadStep) /\ \A t \in Threads : WF_vars(Timer(t))
  /\ WF_vars(led_interrupt) /\ WF_vars(range_interrupt) /\ WF_vars(imu_interrupt)
  /\ WF_vars(gpio_exti_callback) /\ WF_vars(range_measured)

Spec == Init /\ [][Next]_vars /\ Fairness

-----------------------------------------------------------------------------

\* What the scheduler, the bus, the outputs and the listeners range over.
TypeOK ==
  /\ cpu \in Threads \cup {None} /\ ready \in Seq(Threads)
  /\ owner \in {None, "leds", "range"}
  /\ output \in [1 .. Leds -> 0 .. 31] /\ topic \in [1 .. Leds -> Values \cup {Never}]
  /\ exti \in [init : BOOLEAN, listeners : SUBSET {"imu"}]

\* The range that is published was measured after the one before it was published: the
\* flag of the last measurement, left over in the sensor, is not taken for the new one.
RangeFresh == At("range", "publish") /\ fails = 0 => "mm" \in fresh

\* A published brightness reaches the LED, in spite of a lost transfer and of the range
\* thread, which holds the shared bus for the whole of a measurement and asks for it again
\* without a pause.  One lost transfer does matter: without the command that starts a
\* measurement the range thread polls for its end for ever, and keeps the bus.
LedsFollow ==
  pubs = MaxPubs ~> lost \/ [](\A i \in 1 .. Leds : topic[i] # Never => output[i] = Percent(topic[i]))

\* Once its thread exists, the IMU is published again and again: the listener registered with
\* exti_events is not wiped out by chEvtObjectInit, which main calls after it created the
\* thread, and no event is lost.
ImuAlive == waits["imu"] # "created" ~> At("imu", "publish")
===============================================================================
