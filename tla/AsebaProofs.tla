------------------------------ MODULE AsebaProofs ------------------------------
(***************************************************************************)
(* Proofs about the Aseba virtual machine.                                 *)
(*                                                                         *)
(* Its variables (AsebaVariables, MotorPwm), for every set of wheels, LEDs *)
(* and parameters, every value and every loss of the conversions: the VM   *)
(* thread changes only what the script changed; for every set of duty      *)
(* cycles, the phases of a bridge cross only by way of a call of the VM    *)
(* that the control loop splits.                                           *)
(*                                                                         *)
(* Its bytecode (AsebaBytecode), for any programs, any size of the memory  *)
(* and any place of the bytecode on the chip: the right sector is erased,  *)
(* flash never holds a mixture of two programs, and a save that nothing    *)
(* cut or voided is what every later boot restores.                        *)
(***************************************************************************)
EXTENDS MCAsebaVariables, AsebaBytecode, TLAPS

-----------------------------------------------------------------------------
(* The variables of the virtual machine.                                   *)

\* The variables are a function of their group and index.
Shape ==
  /\ vm = [g \in Groups |-> vm[g]]
  /\ \A g \in Groups : vm[g] = [i \in Index(g) |-> vm[g][i]]

IInv == Shape /\ Tracked

\* The zeroed variables agree with their copy.
LEMMA InitInv == Init => IInv
BY DEF Init, IInv, Shape, Tracked, Zero

\* Assigning one variable leaves the others.
LEMMA AssignStep ==
  ASSUME IInv, NEW g \in Groups, NEW i \in Index(g), NEW x, Assign(g, i, x)
  PROVE  IInv'
<1>1. /\ vm' = [vm EXCEPT ![g] = [vm[g] EXCEPT ![i] = x]]
      /\ previous' = previous /\ pc = "script" /\ pc' = pc
  BY DEF Assign
<1>2. \A h \in Groups : vm'[h] = IF h = g THEN [vm[g] EXCEPT ![i] = x] ELSE vm[h]
  BY <1>1 DEF IInv, Shape
<1>3. Shape'
  BY <1>1, <1>2 DEF IInv, Shape
<1>4. ASSUME NEW h \in Groups, NEW j \in Index(h), vm'[h][j] # previous[h][j]
      PROVE  <<h, j>> \in touched'
  <2>1. CASE h = g /\ j = i
    <3>1. vm'[h][j] = x
      BY <1>2, <2>1 DEF IInv, Shape
    <3> QED BY <1>1, <1>4, <2>1, <3>1 DEF Assign, IInv, Tracked, VM_VAR_CHANGED
  <2>2. CASE ~ (h = g /\ j = i)
    <3>1. vm'[h][j] = vm[h][j]
      BY <1>2, <2>2 DEF IInv, Shape
    <3> QED BY <1>1, <1>4, <3>1 DEF Assign, IInv, Tracked, VM_VAR_CHANGED
  <2> QED BY <2>1, <2>2
<1> QED BY <1>1, <1>3, <1>4 DEF IInv, Tracked, VM_VAR_CHANGED

\* A reset counts as a change of the PWM and LED variables that were not 0.
LEMMA ResetStep ==
  ASSUME IInv, AsebaVMResetCB
  PROVE  IInv'
<1>1. /\ vm' = [vm EXCEPT !["pwm"] = [w \in Wheels |-> 0], !["led"] = [l \in Leds |-> 0]]
      /\ previous' = previous /\ pc = "script" /\ pc' = pc
  BY DEF AsebaVMResetCB
<1>2. /\ vm'["pwm"] = [w \in Wheels |-> 0] /\ vm'["led"] = [l \in Leds |-> 0]
      /\ \A h \in Groups \ {"pwm", "led"} : vm'[h] = vm[h]
      /\ vm' = [g \in Groups |-> vm'[g]]
  BY <1>1 DEF IInv, Shape, Groups
<1>3. Shape'
  BY <1>2 DEF IInv, Shape, Groups, Index
<1>4. ASSUME NEW h \in Groups, NEW j \in Index(h), vm'[h][j] # previous[h][j]
      PROVE  <<h, j>> \in touched'
  <2>1. CASE vm'[h][j] = vm[h][j]
    BY <1>1, <1>4, <2>1 DEF AsebaVMResetCB, IInv, Tracked, VM_VAR_CHANGED
  <2>2. CASE vm'[h][j] # vm[h][j]
    <3>1. <<h, j>> \in ({"pwm"} \X Wheels) \cup ({"led"} \X Leds) /\ vm[h][j] # 0
      BY <1>2, <2>2 DEF Groups, Index
    <3> QED BY <3>1 DEF AsebaVMResetCB
  <2> QED BY <2>1, <2>2
<1> QED BY <1>1, <1>3, <1>4 DEF IInv, Tracked, VM_VAR_CHANGED

\* Every step of every thread keeps the inductive invariant.
LEMMA Step == IInv /\ [Next]_vars => IInv'
<1> SUFFICES ASSUME IInv, [Next]_vars PROVE IInv'
  OBVIOUS
<1>1. CASE OtherThread
  BY <1>1 DEF OtherThread, IInv, Shape, Tracked, VM_VAR_CHANGED
<1>2. CASE ReadSetpoint
  BY <1>2 DEF ReadSetpoint, IInv, Shape, Tracked, Groups, Index
<1>3. CASE ReadParams
  BY <1>3 DEF ReadParams, IInv, Shape, Tracked, VM_VAR_CHANGED, Groups, Index
<1>4. CASE \E g \in Groups : \E i \in Index(g), x \in Inputs[g] : Assign(g, i, x)
  BY <1>4, AssignStep
<1>5. CASE AsebaVMResetCB
  BY <1>5, ResetStep
<1>6. CASE EndSlice \/ WritePwm \/ WriteLeds
  BY <1>6 DEF EndSlice, WritePwm, WriteLeds, IInv, Shape, Tracked, VM_VAR_CHANGED
<1>7. CASE WriteSetpoint
  BY <1>7 DEF WriteSetpoint, Modes, IInv, Shape, Tracked, VM_VAR_CHANGED
<1>8. CASE WriteParams
  BY <1>8 DEF WriteParams, IInv, Shape, Tracked
<1>9. CASE UNCHANGED vars
  BY <1>9 DEF vars, IInv, Shape, Tracked, VM_VAR_CHANGED
<1> QED
  BY <1>1, <1>2, <1>3, <1>4, <1>5, <1>6, <1>7, <1>8, <1>9 DEF Next, VmThread

\* What the copies of the variables hold, in every reachable state.
LEMMA Invariance == Spec => []IInv
BY InitInv, Step, PTL DEF Spec

\* For every set of wheels, LEDs and parameters, and every value that scripts, shell
\* commands and controllers use: the VM thread writes back nothing that the script did
\* not change in this turn, however the other threads interleave.
THEOREM VmDoesNotInterfere == Spec => NoInterference
<1> DEFINE OnlyTouched ==
      pc' # pc =>
       /\ setpoint' # setpoint => \E w \in Wheels : <<setpoint'.mode, w>> \in touched
       /\ \A w \in Wheels : duty'[w] # duty[w] => <<"pwm", w>> \in touched
       /\ \A l \in Leds : led'[l] # led[l] => <<"led", l>> \in touched
       /\ \A p \in Params : param'[p] # param[p] => <<"param", p>> \in touched
<1>1. IInv /\ [Next]_vars => [OnlyTouched]_vars
  <2> SUFFICES ASSUME IInv, Next PROVE OnlyTouched
    OBVIOUS
  <2>1. CASE OtherThread \/ ReadSetpoint \/ ReadParams \/ AsebaVMResetCB \/ EndSlice
    BY <2>1 DEF OtherThread, ReadSetpoint, ReadParams, AsebaVMResetCB, EndSlice, system
  <2>2. CASE \E g \in Groups : \E i \in Index(g), x \in Inputs[g] : Assign(g, i, x)
    BY <2>2 DEF Assign
  <2>3. CASE WritePwm
    BY <2>3 DEF WritePwm, IInv, Tracked, Groups, Index
  <2>4. CASE WriteSetpoint
    <3>1. CASE ~ Changed(pc)
      BY <2>4, <3>1 DEF WriteSetpoint
    <3>2. CASE Changed(pc)
      <4>1. PICK w \in Wheels : VM_VAR_CHANGED(pc, w)
        BY <2>4, <3>2 DEF WriteSetpoint, Changed, Modes, Index
      <4>2. <<pc, w>> \in touched
        BY <2>4, <4>1 DEF WriteSetpoint, IInv, Tracked, Modes, Groups, Index
      <4>3. setpoint'.mode = pc
        BY <2>4, <3>2 DEF WriteSetpoint
      <4> QED BY <2>4, <4>2, <4>3 DEF WriteSetpoint
    <3> QED BY <3>1, <3>2
  <2>5. CASE WriteLeds
    BY <2>5 DEF WriteLeds, IInv, Tracked, Groups, Index
  <2>6. CASE WriteParams
    BY <2>6 DEF WriteParams, IInv, Tracked, Groups, Index
  <2> QED BY <2>1, <2>2, <2>3, <2>4, <2>5, <2>6 DEF Next, VmThread
<1> QED
  BY Invariance, <1>1, PTL DEF Spec, NoInterference

-----------------------------------------------------------------------------
(* MotorPwm.                                                               *)

\* The widths that the clamp allows.
Phase == 0 .. Pwm!Width(Pwm!PWM_LIMIT)

\* Between its two writes, and unless a period fell between them, the VM's call has
\* switched phase A off if it is about to drive phase B.
HalfWritten ==
  call.left = 1 /\ ~ split[call.motor] /\ call.duty <= 0 => bridge[call.motor].A = 0
PwmInv == Pwm!TypeOK /\ HalfWritten /\ Pwm!CrossedBySplit

\* The two writes of one duty cycle: each stays within the clamp, and one of them is 0.
LEMMA Phases ==
  ASSUME NEW d \in -Pwm!PWM_LIMIT .. Pwm!PWM_LIMIT, NEW b \in [A : Phase, B : Phase]
  PROVE  /\ Pwm!PhaseA(b, d) \in [A : Phase, B : Phase] /\ Pwm!PhaseB(b, d) \in [A : Phase, B : Phase]
         /\ Pwm!PhaseA(b, d).B = b.B /\ (d <= 0 => Pwm!PhaseA(b, d).A = 0)
         /\ Pwm!PhaseB(b, d).A = b.A /\ (d > 0 => Pwm!PhaseB(b, d).B = 0)
<1> DEFINE x == IF d <= 0 THEN 0 ELSE Pwm!Width(d)
           y == IF d <= 0 THEN Pwm!Width(-d) ELSE 0
<1>1. x \in Phase /\ y \in Phase /\ (d <= 0 => x = 0) /\ (d > 0 => y = 0)
  BY DEF Phase, Pwm!Width, Pwm!PWM_LIMIT, Pwm!PWM_CYCLE
<1>2. Pwm!PhaseA(b, d) = [b EXCEPT !.A = x] /\ Pwm!PhaseB(b, d) = [b EXCEPT !.B = y]
  BY Zenon DEF Pwm!PhaseA, Pwm!PhaseB
<1> HIDE DEF x, y
<1>3. [b EXCEPT !.A = x] \in [A : Phase, B : Phase] /\ [b EXCEPT !.B = y] \in [A : Phase, B : Phase]
  BY <1>1, Zenon
<1>4. /\ [b EXCEPT !.A = x].A = x /\ [b EXCEPT !.A = x].B = b.B
      /\ [b EXCEPT !.B = y].B = y /\ [b EXCEPT !.B = y].A = b.A
  OBVIOUS
<1> QED BY <1>1, <1>2, <1>3, <1>4

\* The clamp, also of an inverted motor.
LEMMA SignedInRange ==
  ASSUME NEW w \in Pwm!Motors, NEW d \in Int
  PROVE  Pwm!Signed(w, d) \in -Pwm!PWM_LIMIT .. Pwm!PWM_LIMIT
<1>1. Pwm!Signed(w, d) \in {Pwm!clamp(d), -Pwm!clamp(d)}
  BY Zenon DEF Pwm!Signed
<1>2. Pwm!clamp(d) \in -Pwm!PWM_LIMIT .. Pwm!PWM_LIMIT
  BY DEF Pwm!clamp, Pwm!PWM_LIMIT
<1> QED BY <1>1, <1>2 DEF Pwm!PWM_LIMIT

\* No step of a motor call or of the control thread breaks the state of the bridges.
LEMMA PwmStep == PwmInv /\ [Pwm!Next]_pwmvars => PwmInv'
<1> SUFFICES ASSUME PwmInv, [Pwm!Next]_pwmvars PROVE PwmInv'
  OBVIOUS
<1>a. /\ bridge \in [Pwm!Motors -> [A : Phase, B : Phase]] /\ inverted \in [Pwm!Motors -> BOOLEAN]
      /\ call \in [motor : Pwm!Motors, duty : -Pwm!PWM_LIMIT .. Pwm!PWM_LIMIT, left : 0 .. 2]
      /\ split \in [Pwm!Motors -> BOOLEAN]
  BY DEF PwmInv, Pwm!TypeOK, Phase
<1>b. /\ call.motor \in Pwm!Motors /\ call.duty \in -Pwm!PWM_LIMIT .. Pwm!PWM_LIMIT
      /\ call.left \in 0 .. 2 /\ bridge[call.motor] \in [A : Phase, B : Phase]
  BY <1>a
<1>1. ASSUME NEW w \in Pwm!Motors, NEW d \in Duties, Pwm!vm_pwm_set(w, d) PROVE PwmInv'
  <2>1. Pwm!Signed(w, d) \in -Pwm!PWM_LIMIT .. Pwm!PWM_LIMIT
    BY PwmAssumption, SignedInRange DEF Pwm!ConstantsOK
  <2> QED BY <1>1, <2>1 DEF Pwm!vm_pwm_set, PwmInv, Pwm!TypeOK, HalfWritten, Pwm!CrossedBySplit, Pwm!Crossed
<1>2. CASE Pwm!vm_phase_a
  <2> DEFINE b == Pwm!PhaseA(bridge[call.motor], call.duty)
  <2>1. b \in [A : Phase, B : Phase] /\ (call.duty <= 0 => b.A = 0)
    BY <1>b, Phases
  <2>2. bridge' = [bridge EXCEPT ![call.motor] = b] /\ UNCHANGED <<inverted, split>>
    BY <1>2, Zenon DEF Pwm!vm_phase_a
  <2>3. call' = [call EXCEPT !.left = 1]
    BY <1>2 DEF Pwm!vm_phase_a
  <2>4. call' \in [motor : Pwm!Motors, duty : -Pwm!PWM_LIMIT .. Pwm!PWM_LIMIT, left : 0 .. 2]
        /\ call'.motor = call.motor /\ call'.duty = call.duty /\ call'.left = 1 /\ call.left = 2
    BY <1>2, <1>a, <2>3 DEF Pwm!vm_phase_a
  <2> HIDE DEF b
  <2> QED BY <1>a, <1>b, <2>1, <2>2, <2>4 DEF PwmInv, Pwm!TypeOK, HalfWritten, Pwm!CrossedBySplit, Pwm!Crossed, Phase
<1>3. CASE Pwm!vm_phase_b
  <2> DEFINE b == Pwm!PhaseB(bridge[call.motor], call.duty)
  <2>1. b \in [A : Phase, B : Phase] /\ (call.duty > 0 => b.B = 0) /\ b.A = bridge[call.motor].A
    BY <1>b, Phases
  <2>2. bridge' = [bridge EXCEPT ![call.motor] = b] /\ UNCHANGED <<inverted, split>>
    BY <1>3, Zenon DEF Pwm!vm_phase_b
  <2>3. call'.left = 0 /\ call' \in [motor : Pwm!Motors, duty : -Pwm!PWM_LIMIT .. Pwm!PWM_LIMIT, left : 0 .. 2]
    BY <1>3 DEF Pwm!vm_phase_b, Pwm!NoCall, Pwm!Motors, Pwm!PWM_LIMIT
  <2>4. call.left = 1
    BY <1>3 DEF Pwm!vm_phase_b
  <2> HIDE DEF b
  <2> QED BY <1>a, <1>b, <2>1, <2>2, <2>3, <2>4 DEF PwmInv, Pwm!TypeOK, HalfWritten, Pwm!CrossedBySplit, Pwm!Crossed, Phase
<1>4. ASSUME NEW duty_ \in [Pwm!Motors -> Duties], Pwm!pid_period(duty_) PROVE PwmInv'
  <2>1. ASSUME NEW w \in Pwm!Motors
        PROVE  bridge'[w] \in [A : Phase, B : Phase] /\ (bridge'[w].A = 0 \/ bridge'[w].B = 0)
    <3> DEFINE d == Pwm!Signed(w, duty_[w]) b == Pwm!PhaseA(bridge[w], d)
    <3>1. d \in -Pwm!PWM_LIMIT .. Pwm!PWM_LIMIT /\ bridge[w] \in [A : Phase, B : Phase]
      BY <1>a, PwmAssumption, SignedInRange DEF Pwm!ConstantsOK
    <3>2. bridge'[w] = Pwm!PhaseB(b, d)
      BY <1>4, Zenon DEF Pwm!pid_period, Pwm!Set
    <3> HIDE DEF d
    <3>3. b \in [A : Phase, B : Phase] /\ (d <= 0 => b.A = 0)
      BY <3>1, Phases
    <3> HIDE DEF b
    <3> QED BY <3>1, <3>2, <3>3, Phases
  <2>2. bridge' = [w \in Pwm!Motors |-> bridge'[w]] /\ UNCHANGED <<inverted, call>>
    BY <1>4, Zenon DEF Pwm!pid_period
  <2>3. split' \in [Pwm!Motors -> BOOLEAN] /\ (call.left = 1 => split'[call.motor])
    BY <1>4, <1>b, Zenon DEF Pwm!pid_period
  <2> QED BY <1>a, <1>b, <2>1, <2>2, <2>3 DEF PwmInv, Pwm!TypeOK, HalfWritten, Pwm!CrossedBySplit, Pwm!Crossed, Phase
<1>5. ASSUME NEW w \in Pwm!Motors, Pwm!set_inverted(w) PROVE PwmInv'
  <2>1. inverted' \in [Pwm!Motors -> BOOLEAN] /\ UNCHANGED <<bridge, call, split>>
    BY <1>5, <1>a, Zenon DEF Pwm!set_inverted
  <2> QED BY <2>1 DEF PwmInv, Pwm!TypeOK, HalfWritten, Pwm!CrossedBySplit, Pwm!Crossed
<1>6. CASE UNCHANGED pwmvars
  BY <1>6 DEF pwmvars, PwmInv, Pwm!TypeOK, HalfWritten, Pwm!CrossedBySplit, Pwm!Crossed
<1> QED BY <1>1, <1>2, <1>3, <1>4, <1>5, <1>6 DEF Pwm!Next

\* For every set of duty cycles: both phases of a bridge drive at once only between the two
\* writes of a call of the VM or after a period of the control loop fell between them, and
\* no phase is on for longer than the clamp allows.
THEOREM CrossedOnlyBySplit == VmSpec => []CrossedBySplit
<1>1. VmInit => PwmInv
  <2> SUFFICES ASSUME Pwm!Init PROVE PwmInv
    BY DEF VmInit
  <2>1. inverted \in [Pwm!Motors -> BOOLEAN] /\ split \in [Pwm!Motors -> BOOLEAN]
    BY Zenon DEF Pwm!Init
  <2>2. /\ bridge = [w \in Pwm!Motors |-> [A |-> 0, B |-> 0]] /\ call = Pwm!NoCall
        /\ 0 \in 0 .. Pwm!Width(Pwm!PWM_LIMIT) /\ 0 \in -Pwm!PWM_LIMIT .. Pwm!PWM_LIMIT
    BY DEF Pwm!Init, Pwm!Width, Pwm!PWM_LIMIT, Pwm!PWM_CYCLE
  <2> QED BY <2>1, <2>2 DEF PwmInv, Pwm!TypeOK, HalfWritten, Pwm!CrossedBySplit, Pwm!Crossed,
                            Pwm!NoCall, Pwm!Motors
<1>2. PwmInv /\ [VmNext]_<<part, vars, pwmvars>> => PwmInv'
  BY PwmStep DEF VmNext
<1>3. PwmInv => CrossedBySplit
  BY DEF PwmInv, CrossedBySplit
<1> QED BY <1>1, <1>2, <1>3, PTL DEF VmSpec

-----------------------------------------------------------------------------
(* Sector numbers.                                                          *)

\* What flash_addr_to_sector computes in the first bank, without the mask.
LEMMA SectorOfOffset ==
  ASSUME NEW o \in 0 .. 255
  PROVE  flash_addr_to_sector(Base + o) =
           IF o < 16 THEN o \div 4 ELSE IF o < 32 THEN 3 + o \div 16 ELSE 4 + o \div 32
<1>1. (Base + o) % 4096 = o
  BY SMT DEF Base
<1>2. ~ (Base + o >= Base + Bank)
  BY SMT DEF Base, Bank
<1> QED
  BY SMT, <1>1, <1>2 DEF flash_addr_to_sector

\* flash_addr_to_sector names the sector that holds the address, at every page.
LEMMA SectorHoldsAddress ==
  ASSUME NEW a \in Pages
  PROVE  InSector(a, flash_addr_to_sector(a))
<1> DEFINE o == a - Base
<1>1. o \in 0 .. 255 /\ a = Base + o
  BY SMT, PagesAssumption DEF Base, Bank
<1> HIDE DEF o
<1>2. flash_addr_to_sector(a) =
        IF o < 16 THEN o \div 4 ELSE IF o < 32 THEN 3 + o \div 16 ELSE 4 + o \div 32
  BY <1>1, SectorOfOffset
<1>3. a - Base = o
  BY SMT, <1>1 DEF Base
<1>4. CASE o < 16
  BY SMT, <1>1, <1>2, <1>3, <1>4 DEF InSector, Start
<1>5. CASE o >= 16 /\ o < 32
  BY SMT, <1>1, <1>2, <1>3, <1>5 DEF InSector, Start
<1>6. CASE o >= 32
  BY SMT, <1>1, <1>2, <1>3, <1>6 DEF InSector, Start
<1> QED
  BY SMT, <1>1, <1>4, <1>5, <1>6

SectorInv == page \in Pages /\ ErasesItsSector

\* Wherever the bytecode is on the chip, AsebaWriteBytecode erases its sector and no other.
THEOREM ErasesOnlyItsSector == BytecodeSpec => []ErasesItsSector
<1>1. BytecodeInit => SectorInv
  BY DEF BytecodeInit, SectorInv, ErasesItsSector
<1>2. SectorInv /\ [BytecodeNext]_bytecodevars => SectorInv'
  <2> SUFFICES ASSUME SectorInv, [BytecodeNext]_bytecodevars
               PROVE  SectorInv'
    OBVIOUS
  <2>1. page' = page /\ (sector' = sector \/ sector' = flash_addr_to_sector(page))
    BY DEF BytecodeNext, bytecodevars, SetBytecode, AsebaWriteBytecode, Erase, WriteSize,
           WriteBytecode, SaveDone, ShellCommand, PowerLoss, aseba_vm_init
  <2>2. InSector(page, flash_addr_to_sector(page))
    BY SectorHoldsAddress DEF SectorInv
  <2> QED
    BY <2>1, <2>2 DEF SectorInv, ErasesItsSector
<1>3. SectorInv => ErasesItsSector
  BY DEF SectorInv
<1> QED
  BY <1>1, <1>2, <1>3, PTL DEF BytecodeSpec

-----------------------------------------------------------------------------
(* Programs.                                                                *)

\* All bytes that are not blank come from the program p.
Only(f, p) == f \in [Bytes -> {p, Blank}]

\* Memory and flash each hold one program; while a save writes, the same one, unless the
\* flash was locked under it; without power memory holds none.
OneProgram ==
  /\ \E p \in Programs \cup {Blank} : Only(memory, p)
  /\ \E p \in Programs \cup {Blank} : Only(data, p)
  /\ step \in {"size", "data"} /\ unlocked =>
       \E p \in Programs \cup {Blank} : Only(memory, p) /\ Only(data, p)
  /\ step = "off" => Only(memory, Blank)

\* Memory and flash never mix two programs, whatever is written, saved or cut.
LEMMA OneProgramHolds == BytecodeSpec => []OneProgram
<1>1. BytecodeInit => OneProgram
  BY DEF BytecodeInit, OneProgram, Only
<1>2. OneProgram /\ [BytecodeNext]_bytecodevars => OneProgram'
  <2> SUFFICES ASSUME OneProgram, [BytecodeNext]_bytecodevars
               PROVE  OneProgram'
    OBVIOUS
  <2>1. ASSUME NEW p \in Programs, SetBytecode(p)
        PROVE  OneProgram'
    <3>1. Only(memory', p)
      BY <2>1 DEF SetBytecode, Only
    <3> QED
      BY <2>1, <3>1 DEF SetBytecode, OneProgram
  <2>2. CASE AsebaWriteBytecode
    BY <2>2 DEF AsebaWriteBytecode, OneProgram
  <2>3. CASE Erase
    <3>1. PICK p \in Programs \cup {Blank} : Only(memory, p)
      BY DEF OneProgram
    <3>2. memory' = memory /\ step' = "size" /\ unlocked' = unlocked
      BY <2>3 DEF Erase
    <3>3. CASE unlocked
      <4>1. Only(data', p)
        BY <2>3, <3>3 DEF Erase, Only, OneProgram
      <4> QED
        BY <3>1, <3>2, <4>1 DEF OneProgram
    <3>4. CASE ~ unlocked
      BY <2>3, <3>2, <3>4 DEF Erase, OneProgram
    <3> QED
      BY <3>3, <3>4
  <2>4. CASE WriteSize
    BY <2>4 DEF WriteSize, OneProgram
  <2>5. CASE WriteBytecode /\ ~ unlocked
    BY <2>5 DEF WriteBytecode, OneProgram
  <2>10. CASE ShellCommand
    BY <2>10 DEF ShellCommand, OneProgram
  <2>11. CASE WriteBytecode /\ unlocked
    <3>1. PICK p \in Programs \cup {Blank} : Only(memory, p) /\ Only(data, p)
      BY <2>11 DEF WriteBytecode, OneProgram
    <3>2. CASE next \in Bytes
      <4>1. data[next] \in {p, Blank} /\ memory[next] \in {p, Blank}
        BY <3>1, <3>2 DEF Only
      <4>2. Program(data[next], memory[next]) \in {p, Blank}
        BY <4>1 DEF Program
      <4>3. Only(data', p)
        BY <2>11, <3>1, <4>2 DEF WriteBytecode, Only
      <4> QED
        BY <2>11, <3>1, <4>3 DEF WriteBytecode, OneProgram
    <3>3. CASE next \notin Bytes
      <4>1. Only(data', p)
        BY <2>11, <3>1, <3>3 DEF WriteBytecode, Only
      <4> QED
        BY <2>11, <3>1, <4>1 DEF WriteBytecode, OneProgram
    <3> QED
      BY <3>2, <3>3
  <2>6. CASE SaveDone
    BY <2>6 DEF SaveDone, OneProgram
  <2>7. CASE PowerLoss
    <3>1. PICK p \in Programs \cup {Blank} : Only(data, p)
      BY DEF OneProgram
    <3>2. Only(data', p) /\ Only(memory', Blank)
      BY <2>7, <3>1 DEF PowerLoss, Only
    <3> QED
      BY <2>7, <3>2 DEF PowerLoss, OneProgram
  <2>8. CASE aseba_vm_init
    <3>1. PICK p \in Programs \cup {Blank} : Only(data, p)
      BY DEF OneProgram
    <3>2. Only(memory, Blank)
      BY <2>8 DEF aseba_vm_init, OneProgram
    <3>3. memory' = memory \/ \E n \in Int : Copy(n)
      BY <2>8, BytecodeAssumption DEF aseba_vm_init
    <3>5. UNCHANGED data
      BY <2>8 DEF aseba_vm_init
    <3>6. memory' = memory => Only(memory', p)
      BY <3>2 DEF Only
    <3>7. ASSUME NEW n \in Int, Copy(n) PROVE Only(memory', p)
      BY <3>1, <3>2, <3>7 DEF Copy, Only
    <3>4. Only(memory', p) /\ step' \in {"idle", "overrun"}
      BY <2>8, <3>3, <3>6, <3>7 DEF aseba_vm_init
    <3> QED
      BY <3>1, <3>4, <3>5 DEF OneProgram
  <2>9. CASE UNCHANGED bytecodevars
    BY <2>9 DEF bytecodevars, OneProgram
  <2> QED
    BY <2>1, <2>2, <2>3, <2>4, <2>5, <2>6, <2>7, <2>8, <2>9, <2>10, <2>11
       DEF BytecodeNext
<1> QED
  BY <1>1, <1>2, PTL DEF BytecodeSpec

\* After any number of saves cut at any byte, or voided from any byte on by the lock: flash never mixes two programs.
THEOREM FlashNeverMixed == BytecodeSpec => []NeverMixed
<1>1. OneProgram => NeverMixed
  BY BytecodeAssumption DEF OneProgram, Only, NeverMixed
<1> QED
  BY <1>1, OneProgramHolds, PTL

-----------------------------------------------------------------------------
(* Boots.                                                                   *)

\* What is in flash of the program while it is saved with the flash unlocked, and after
\* that: a complete save stays until the next one begins.
Copied(m) == \A b \in 0 .. VM_BYTECODE_SIZE - 1 : data[b] = m[b]

SavedInFlash ==
  /\ data = [b \in Bytes |-> data[b]] /\ sizeBytes \in [0 .. 1 -> BOOLEAN] /\ next \in Nat
  /\ step = "size" => next \in 0 .. 1
  /\ step = "size" /\ unlocked => /\ next = 1 => sizeBytes[0] = TRUE
                                  /\ \A b \in Bytes : data[b] = Blank
  /\ step = "data" /\ unlocked =>
       /\ sizeBytes[0] = TRUE /\ sizeBytes[1] = TRUE
       /\ \A b \in Bytes : IF b < next THEN data[b] = memory[b] ELSE data[b] = Blank
  /\ saved # <<>> => /\ step \in {"idle", "off"}
                     /\ sizeBytes[0] = TRUE /\ sizeBytes[1] = TRUE /\ Copied(saved)

\* No step loses track of how far a save has come.
LEMMA SavedStep == SavedInFlash /\ [BytecodeNext]_bytecodevars => SavedInFlash'
<1> SUFFICES ASSUME SavedInFlash, [BytecodeNext]_bytecodevars PROVE SavedInFlash'
  OBVIOUS
<1>0. VM_BYTECODE_SIZE \in Nat \ {0} /\ \A b \in 0 .. VM_BYTECODE_SIZE - 1 : b \in Bytes
  BY BytecodeAssumption DEF Bytes
<1>1. CASE (\E p \in Programs : SetBytecode(p)) \/ AsebaWriteBytecode
  BY <1>1 DEF SetBytecode, AsebaWriteBytecode, SavedInFlash, Copied
<1>2. CASE Erase
  <2>1. saved = <<>> /\ step' = "size" /\ next' = 0 /\ UNCHANGED <<memory, unlocked, saved>>
    BY <1>2 DEF Erase, SavedInFlash
  <2>2. CASE unlocked
    <3>1. sizeBytes' \in [0 .. 1 -> BOOLEAN]
      BY <1>2, <2>2 DEF Erase
    <3>2. data' = [b \in Bytes |-> data'[b]] /\ \A b \in Bytes : data'[b] = Blank
      BY <1>2, <2>2 DEF Erase, SavedInFlash
    <3> QED
      BY <2>1, <3>1, <3>2 DEF SavedInFlash
  <2>3. CASE ~ unlocked
    <3>1. UNCHANGED <<sizeBytes, data>>
      BY <1>2, <2>3 DEF Erase
    <3> QED
      BY <2>1, <2>3, <3>1 DEF SavedInFlash
  <2> QED
    BY <2>2, <2>3
<1>3. CASE WriteSize /\ ~ unlocked
  <2>1. /\ saved = <<>> /\ next' \in 0 .. 1 /\ step' \in {"size", "data"}
        /\ UNCHANGED <<sizeBytes, data, unlocked, saved>>
    BY <1>3 DEF WriteSize, SavedInFlash
  <2> QED
    BY <1>3, <2>1 DEF SavedInFlash
<1>9. CASE WriteSize /\ unlocked
  <2>1. /\ saved = <<>> /\ next \in 0 .. 1 /\ sizeBytes \in [0 .. 1 -> BOOLEAN]
        /\ next = 1 => sizeBytes[0] = TRUE
        /\ \A b \in Bytes : data[b] = Blank
    BY <1>9 DEF WriteSize, SavedInFlash
  <2>2. sizeBytes' = [sizeBytes EXCEPT ![next] = TRUE]
    BY <1>9 DEF WriteSize
  <2>3. /\ sizeBytes' \in [0 .. 1 -> BOOLEAN] /\ sizeBytes'[next] = TRUE
        /\ next # 0 => sizeBytes'[0] = sizeBytes[0]
    BY <2>1, <2>2
  <2>4. CASE next = 0
    <3>1. step' = "size" /\ next' = 1 /\ data' = data /\ saved' = saved
      BY <1>9, <2>4 DEF WriteSize
    <3> QED
      BY <2>1, <2>3, <2>4, <3>1 DEF SavedInFlash
  <2>5. CASE next = 1
    <3>1. step' = "data" /\ next' = 0 /\ data' = data /\ saved' = saved /\ memory' = memory
      BY <1>9, <2>5 DEF WriteSize
    <3>2. sizeBytes'[0] = TRUE /\ sizeBytes'[1] = TRUE
      BY <2>1, <2>3, <2>5
    <3>3. \A b \in Bytes : ~ (b < 0)
      BY <1>0 DEF Bytes
    <3> QED
      BY <2>1, <2>3, <3>1, <3>2, <3>3 DEF SavedInFlash
  <2> QED
    BY <2>1, <2>4, <2>5
<1>4. CASE WriteBytecode /\ ~ unlocked
  <2>1. /\ saved = <<>> /\ next' \in Nat /\ step' = "data"
        /\ UNCHANGED <<sizeBytes, data, unlocked, saved>>
    BY <1>4 DEF WriteBytecode, SavedInFlash
  <2> QED
    BY <1>4, <2>1 DEF SavedInFlash
<1>10. CASE WriteBytecode /\ unlocked
  <2>1. /\ saved = <<>> /\ next \in Nat /\ next < VM_BYTECODE_SIZE /\ next \in Bytes
        /\ data = [b \in Bytes |-> data[b]]
        /\ \A b \in Bytes : IF b < next THEN data[b] = memory[b] ELSE data[b] = Blank
    BY <1>0, <1>10 DEF WriteBytecode, SavedInFlash
  <2>2. data[next] = Blank
    BY <2>1
  <2>3. Program(data[next], memory[next]) = memory[next]
    BY <2>2 DEF Program
  <2>4. data' = [data EXCEPT ![next] = memory[next]]
    BY <1>10, <2>3 DEF WriteBytecode
  <2>5. /\ data' = [b \in Bytes |-> data'[b]] /\ data'[next] = memory[next]
        /\ \A b \in Bytes : b # next => data'[b] = data[b]
    BY <2>1, <2>4
  <2>6. \A b \in Bytes : IF b < next + 1 THEN data'[b] = memory[b] ELSE data'[b] = Blank
    <3> SUFFICES ASSUME NEW b \in Bytes
                 PROVE  IF b < next + 1 THEN data'[b] = memory[b] ELSE data'[b] = Blank
      OBVIOUS
    <3>1. b \in Nat /\ (b < next + 1 <=> b < next \/ b = next)
      BY <1>0, <2>1 DEF Bytes
    <3> QED
      BY <2>1, <2>5, <3>1
  <2> QED
    BY <1>10, <2>1, <2>5, <2>6 DEF WriteBytecode, SavedInFlash
<1>5. CASE SaveDone
  <2>1. \A b \in 0 .. VM_BYTECODE_SIZE - 1 : b \in Bytes /\ b < next
    BY <1>0, <1>5 DEF SaveDone
  <2>2. unlocked => /\ sizeBytes[0] = TRUE /\ sizeBytes[1] = TRUE
                    /\ \A b \in 0 .. VM_BYTECODE_SIZE - 1 : data[b] = memory[b]
    BY <1>5, <2>1 DEF SaveDone, SavedInFlash
  <2>3. /\ step' = "idle" /\ next' = 0 /\ UNCHANGED <<memory, sizeBytes, data>>
        /\ saved' = IF unlocked THEN memory ELSE <<>>
    BY <1>5 DEF SaveDone
  <2>4. saved' # <<>> => sizeBytes'[0] = TRUE /\ sizeBytes'[1] = TRUE /\ Copied(saved)'
    BY <2>2, <2>3 DEF Copied
  <2> QED
    BY <2>3, <2>4 DEF SavedInFlash
<1>11. CASE ShellCommand
  <2>1. unlocked' = FALSE /\ UNCHANGED <<memory, sizeBytes, data, step, next, saved>>
    BY <1>11 DEF ShellCommand
  <2> QED
    BY <2>1 DEF SavedInFlash, Copied
<1>6. CASE PowerLoss
  <2>1. PICK s \in SUBSET DOMAIN sizeBytes, d \in SUBSET DOMAIN data :
          /\ ~ (step = "erase" /\ unlocked) => s = {} /\ d = {}
          /\ sizeBytes' = [b \in DOMAIN sizeBytes |-> b \notin s /\ sizeBytes[b]]
          /\ data' = [b \in DOMAIN data |-> IF b \in d THEN Blank ELSE data[b]]
    BY <1>6 DEF PowerLoss
  <2>2. /\ step' = "off" /\ next' = 0 /\ saved' = saved
    BY <1>6 DEF PowerLoss
  <2>3. DOMAIN sizeBytes = 0 .. 1 /\ DOMAIN data = Bytes
    BY DEF SavedInFlash
  <2>4. sizeBytes' \in [0 .. 1 -> BOOLEAN] /\ data' = [b \in Bytes |-> data'[b]]
    BY <2>1, <2>3
  <2>5. ASSUME saved # <<>> PROVE sizeBytes'[0] = TRUE /\ sizeBytes'[1] = TRUE /\ Copied(saved)'
    <3>1. step # "erase" /\ sizeBytes[0] = TRUE /\ sizeBytes[1] = TRUE /\ Copied(saved)
      BY <2>5 DEF SavedInFlash
    <3>2. s = {} /\ d = {} /\ 0 \in 0 .. 1 /\ 1 \in 0 .. 1
      BY <2>1, <3>1
    <3>3. sizeBytes'[0] = TRUE /\ sizeBytes'[1] = TRUE
      BY <2>1, <2>3, <3>1, <3>2
    <3>4. \A b \in Bytes : data'[b] = data[b]
      BY <2>1, <2>3, <3>2
    <3> QED
      BY <1>0, <2>2, <3>1, <3>3, <3>4 DEF Copied
  <2> QED
    BY <2>2, <2>4, <2>5 DEF SavedInFlash
<1>7. CASE aseba_vm_init
  <2>1. step = "off" /\ step' \in {"idle", "overrun"} /\ UNCHANGED <<sizeBytes, data, next, saved>>
    BY <1>7 DEF aseba_vm_init
  <2>2. saved # <<>> => step' = "idle"
    BY <1>7 DEF aseba_vm_init, SavedInFlash
  <2> QED
    BY <2>1, <2>2 DEF SavedInFlash, Copied
<1>8. CASE UNCHANGED bytecodevars
  BY <1>8 DEF bytecodevars, SavedInFlash, Copied
<1> QED
  BY <1>1, <1>2, <1>3, <1>4, <1>5, <1>6, <1>7, <1>8, <1>9, <1>10, <1>11 DEF BytecodeNext

\* For every size of the memory: a save that neither a power loss cut nor a command of the
\* shell voided is restored by every boot until the next save begins, however often power
\* is lost and the shell locks the flash in between.
THEOREM BootRestoresSaved == BytecodeSpec => BootRestores
<1>1. BytecodeInit => SavedInFlash
  BY DEF BytecodeInit, SavedInFlash
<1>2. SavedInFlash /\ [BytecodeNext]_bytecodevars =>
        [step = "off" /\ step' # "off" /\ saved # <<>> =>
           step' = "idle" /\ \A b \in 0..(VM_BYTECODE_SIZE - 1) : memory'[b] = saved[b]]_bytecodevars
  <2> SUFFICES ASSUME SavedInFlash, BytecodeNext, step = "off", step' # "off", saved # <<>>
               PROVE  step' = "idle" /\ \A b \in 0..(VM_BYTECODE_SIZE - 1) : memory'[b] = saved[b]
    OBVIOUS
  <2>1. aseba_vm_init
    BY DEF BytecodeNext, SetBytecode, AsebaWriteBytecode, Erase, WriteSize, WriteBytecode,
         SaveDone, ShellCommand, PowerLoss
  <2>2. sizeBytes[0] = TRUE /\ sizeBytes[1] = TRUE /\ Copied(saved)
    BY DEF SavedInFlash
  <2>3. step' = "idle"
    BY <2>1, <2>2 DEF aseba_vm_init
  <2>4. ASSUME NEW b \in 0..(VM_BYTECODE_SIZE - 1) PROVE memory'[b] = data[b]
    <3>1. b \in Bytes /\ b < VM_BYTECODE_SIZE
      BY BytecodeAssumption DEF Bytes
    <3> QED
      BY <2>1, <2>2, <3>1 DEF aseba_vm_init, Copy
  <2> QED
    BY <2>2, <2>3, <2>4 DEF Copied
<1> QED
  BY <1>1, <1>2, SavedStep, PTL DEF BytecodeSpec, BootRestores
================================================================================
