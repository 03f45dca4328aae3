----------------------------- MODULE GregSweep -----------------------------
(***************************************************************************)
(* The control law on its own: the angle Controlled::update asks for while *)
(* the two pressures move in any way over a grid of readings. The state    *)
(* machine is left out, so that the law can be checked on many readings.   *)
(***************************************************************************)
EXTENDS GregControl, FiniteSets

CONSTANTS
    FeedbackGrid,   \* readings of the feedback transducer
    N2Grid,         \* readings of the nitrogen transducer
    P_full_abort    \* above it the regulator shuts down

(* How the constants of the control law fit each other. The curves fall as *)
(* the nitrogen pressure rises; the value that both return for exhausted   *)
(* nitrogen is not below the largest gain; and above the full abort the    *)
(* smallest gain outweighs the largest feed-forward angle.                 *)
ASSUME TuningAssumption ==
    /\ FeedbackGrid \subseteq Int /\ N2Grid \subseteq Int
    /\ FF_Alpha >= 0 /\ Kp_Beta >= 0
    /\ Kp_max <= FF_max
    /\ P_full_abort \in Int /\ P_setpoint <= P_full_abort
    /\ Kp_min * (P_setpoint - P_full_abort - 1) + 10 * FF_max
            < 1000 * (regMinOpenAngle + 1)

VARIABLES
    fb, n2,         \* the readings
    starting,       \* Controlled was entered less than half a second ago
    angle           \* the angle asked for

vars == <<fb, n2, starting, angle>>

Init ==
    /\ fb \in FeedbackGrid /\ n2 \in N2Grid
    /\ starting = TRUE
    /\ angle = ControlledAngle(fb, n2, TRUE)

\* One update with new readings; only one of them changes in a step, so that
\* the properties can tell their effects apart.
FeedbackMoves ==
    /\ fb' \in FeedbackGrid
    /\ angle' = ControlledAngle(fb', n2, starting)
    /\ UNCHANGED <<n2, starting>>

NitrogenMoves ==
    /\ n2' \in N2Grid
    /\ angle' = ControlledAngle(fb, n2', starting)
    /\ UNCHANGED <<fb, starting>>

\* The first update after the start period.
StartEnds ==
    /\ starting
    /\ starting' = FALSE
    /\ angle' = ControlledAngle(fb, n2, FALSE)
    /\ UNCHANGED <<fb, n2>>

Next == FeedbackMoves \/ NitrogenMoves \/ StartEnds

Spec == Init /\ [][Next]_vars

-----------------------------------------------------------------------------
\* A rising feedback pressure never opens the valve further: the loop's
\* feedback stays negative in every branch of the gain curves.
RisingPressureNeverOpens ==
    [][fb' > fb /\ n2' = n2 /\ starting' = starting => angle' <= angle]_vars

\* Below the setpoint a falling nitrogen pressure never closes the valve,
\* not even when it falls through the point where the curves are left.
FallingNitrogenNeverCloses ==
    [][n2' < n2 /\ fb' = fb /\ fb <= P_setpoint /\ starting' = starting
           => angle' >= angle]_vars

\* Above the full abort pressure the controller has the valve at its minimum
\* whatever the nitrogen: gain bounds, feed-forward bounds and threshold fit.
MinimumOpenAtFullAbort == fb > P_full_abort => angle = regMinOpenAngle

=============================================================================
