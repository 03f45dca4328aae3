------------------------------ MODULE RegServo ------------------------------
(***************************************************************************)
(* The regulator's servo behind its adapter. NRCRemoteServo and            *)
(* RemoteActuatorAdapter belong to librrc, which is not in this            *)
(* repository: what follows is the part of their behaviour the states of   *)
(* NRCGreg rely on.                                                        *)
(*                                                                         *)
(* Fields of the board: servoArmed, and angle, the position the PWM signal *)
(* asks for. The signal stays when the servo is disarmed; the valve itself *)
(* follows the signal only while the converter powers the motor.           *)
(***************************************************************************)
EXTENDS GregControl

CONSTANT regClosedAngle

ASSUME ServoAssumption ==
    regClosedAngle \in 0 .. regMinOpenAngle

\* The limits NRCGreg::setup gives the servo.
AngleLims == 0 .. regMaxOpenAngle

servoArm(b) == [b EXCEPT !.servoArmed = TRUE]

servoDisarm(b) == [b EXCEPT !.servoArmed = FALSE]

\* A disarmed servo ignores the command; an armed one stays in its limits.
servoExecute(b, target) ==
    IF b.servoArmed
    THEN [b EXCEPT !.angle = Clamp(target, 0, regMaxOpenAngle)]
    ELSE b

\* What Default, Shutdown and Halfabort do on entry.
driveTo(b, target) == servoDisarm(servoExecute(servoArm(b), target))
=============================================================================
