------------------------------- MODULE MCMotor -------------------------------
(* Small instances of MotorController.                                      *)
EXTENDS MotorController

AllModes == {CURRENT, VELOCITY, POSITION}
VelocityOnly == {VELOCITY}
\* Every output of the PID filters asks for more current than the limit.
Output == {2}
None == {0}
Targets == {-30, 17, 45}
Rest == {0}
Speeds == {-3, 2}
==============================================================================
