----------------------------- MODULE MCNRCGreg -----------------------------
(* Small instances of the regulator for TLC: the code's pressures and      *)
(* angles, a few readings of each kind, and a scaled clock.                *)
EXTENDS NRCGreg

\* Disconnected, below the setpoint, in the half abort band, and above the
\* full abort pressure; all in tenths of a bar.
MCFeedback == {-101, 400, 580, 640}
MCFeedbackFew == {400, 640}
\* Disconnected, and full.
MCN2 == {-101, 2000}
MCN2Few == {2000}
\* Exhausted, and full enough for the curves to leave their bounds.
MCN2Report == {5, 4000}
MCFeedbackReport == {480, 640}
MCPressArgs == {430}
MCDebugArgs == {580, -5}
MCDebugArgsFew == {580}
MCServoArgs == {580}
MCNone == {}
MCDisconnect == -100
=============================================================================
