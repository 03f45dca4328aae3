---------------------------- MODULE GregControl ----------------------------
(***************************************************************************)
(* The control law of the electronic regulator: NRCGreg::feedforward,      *)
(* NRCGreg::Kp and NRCGreg::nextAngle, as operators on one feedback and    *)
(* one nitrogen pressure.                                                  *)
(*                                                                         *)
(* The code computes in single precision floats; here every quantity is an *)
(* integer in a unit fine enough for the properties:                       *)
(*   pressures in tenths of a bar, gains in thousandths, feed-forward      *)
(*   angles in thousandths of a degree, servo angles in tenths of a degree *)
(*   (the unit the code itself uses for them).                             *)
(***************************************************************************)
EXTENDS Integers

CONSTANTS
    FF_min, FF_max, FF_0, FF_Alpha,   \* feed-forward curve and its bounds
    Kp_min, Kp_max, Kp_0, Kp_Beta,    \* proportional gain curve and its bounds
    P_setpoint,                       \* running pressure
    N2_floor,                         \* nitrogen pressure too low to divide by
    regMinOpenAngle, regMaxOpenAngle, \* limits of the angle while controlling
    regMaxOpenFirstStart              \* upper limit just after the start

ASSUME ControlAssumption ==
    /\ FF_min \in Int /\ FF_max \in Int /\ FF_0 \in Int /\ FF_Alpha \in Int
    /\ Kp_min \in Int /\ Kp_max \in Int /\ Kp_0 \in Int /\ Kp_Beta \in Int
    /\ 0 <= FF_min /\ FF_min <= FF_max
    /\ 0 <= Kp_min /\ Kp_min <= Kp_max
    /\ P_setpoint \in Int
    /\ N2_floor \in Nat
    /\ regMinOpenAngle \in Nat /\ regMaxOpenAngle \in Nat
    /\ regMaxOpenFirstStart \in Nat
    /\ regMinOpenAngle <= regMaxOpenFirstStart
    /\ regMaxOpenFirstStart <= regMaxOpenAngle

\* std::clamp, and std::max(std::min(x, hi), lo).
Clamp(x, lo, hi) == IF x < lo THEN lo ELSE IF x > hi THEN hi ELSE x

\* std::min on angles.
AngleMin(a, b) == IF a <= b THEN a ELSE b

\* The nitrogen reading is too low for the division the curves need.
N2Exhausted(n2) == n2 <= N2_floor

\* Faults: the curve without its upper bound, and the lower bound returned
\* for an exhausted bottle.
feedforward_unbounded(n2) ==
    IF N2Exhausted(n2) THEN FF_max ELSE FF_0 + (FF_Alpha \div n2)
feedforward_exhaustedLow(n2) ==
    IF N2Exhausted(n2) THEN FF_min
    ELSE Clamp(FF_0 + (FF_Alpha \div n2), FF_min, FF_max)

\* The feed-forward angle for a nitrogen pressure.
feedforward(n2) ==
    IF N2Exhausted(n2) THEN FF_max
    ELSE Clamp(FF_0 + (FF_Alpha \div n2), FF_min, FF_max)

\* The proportional gain for a nitrogen pressure. With the nitrogen
\* exhausted the code returns the feed-forward bound, not a gain.
Kp(n2) ==
    IF N2Exhausted(n2) THEN FF_max
    ELSE Clamp(Kp_0 + (Kp_Beta \div n2), Kp_min, Kp_max)

\* Fault: the error with the wrong sign.
TargetAngle_wrongSign(fb, n2) ==
    (Kp(n2) * (fb - P_setpoint) + 10 * feedforward(n2)) \div 1000

\* The angle before it is clamped: gain times error plus feed-forward. The
\* error is in tenths of a bar, so the feed-forward term is scaled by ten,
\* and the sum divided down from thousandths to tenths of a degree.
TargetAngle(fb, n2) ==
    (Kp(n2) * (P_setpoint - fb) + 10 * feedforward(n2)) \div 1000

\* The angle the controller asks the servo for.
nextAngle(fb, n2) ==
    Clamp(TargetAngle(fb, n2), regMinOpenAngle, regMaxOpenAngle)

\* The angle Controlled::update sends: limited further just after the start.
ControlledAngle(fb, n2, starting) ==
    IF starting THEN AngleMin(nextAngle(fb, n2), regMaxOpenFirstStart)
                ELSE nextAngle(fb, n2)
=============================================================================
