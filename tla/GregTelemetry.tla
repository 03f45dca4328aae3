---------------------------- MODULE GregTelemetry ----------------------------
(***************************************************************************)
(* What the ground is told of the regulator. Two channels: the status word *)
(* of the service itself (_value, answered to a state request), which      *)
(* update copies before it does anything else, and the packet of           *)
(* TelemetryCommand, put together from readings, the servo's value and     *)
(* the two gains that the control law saves when it computes them.         *)
(***************************************************************************)
EXTENDS MCNRCGreg

VARIABLES
    value,      \* NRCGreg::_value, the status word the network sees
    saved       \* m_savedFF and m_savedKp

tvars == <<vars, value, saved>>

\* Unit of both fields as in GregControl; zero until the law has run.
NothingSaved == [FF |-> 0, Kp |-> 0]

-----------------------------------------------------------------------------
\* The state's update calls nextAngle: the regulator is in Controlled and is
\* not sent to Default by the same update for being disarmed.
Controls(b, on) == b.state = "STATE_CONTROLLED" /\ on

\* Fault: the gain is never saved.
saveGains_onlyFF(s, n) ==
    IF N2Exhausted(n) THEN s ELSE [s EXCEPT !.FF = feedforward(n)]

\* feedforward and Kp save what they return, except that both return early,
\* and save nothing, for an exhausted bottle.
saveGains(s, n) ==
    IF N2Exhausted(n) THEN s ELSE [FF |-> feedforward(n), Kp |-> Kp(n)]

\* Fault: the status is not copied while the regulator is active.
copyStatus_whenClosed(b) ==
    IF b.state \in ActiveStates THEN value ELSE b.status

\* The first statement of update: the status as the last iteration and the
\* commands since then have left it.
copyStatus(b) == b.status

ReportInit == Init /\ value = {} /\ saved = NothingSaved

\* update with the writes that only telemetry reads.
ReportUpdate ==
    /\ Update
    /\ value' = copyStatus(greg)
    /\ saved' = IF Controls(greg, armed) THEN saveGains(saved, n2') ELSE saved

ReportCommand == Command /\ UNCHANGED <<value, saved>>
ReportTick    == Tick /\ UNCHANGED <<value, saved>>
ReportReboot  == Reboot /\ value' = {} /\ saved' = NothingSaved

ReportNext == ReportUpdate \/ ReportCommand \/ ReportTick \/ ReportReboot

\* TelemetryCommand changes nothing: the packet it would send now.
TelemetryPacket ==
    [FF_angle |-> saved.FF, Kp |-> saved.Kp, fuel_tankP |-> fb,
     n2_tankP |-> n2, regAngle |-> greg.angle]

ReportSpec == ReportInit /\ [][ReportNext]_tvars

-----------------------------------------------------------------------------
\* A packet sent while Controlled runs explains itself: its angle is the one
\* the control law gives for its pressures and, while there is nitrogen, its
\* gains are the ones that angle was computed with.
PacketExplains ==
    LET p == TelemetryPacket
    IN  updated /\ greg.state = "STATE_CONTROLLED" /\ ~greg.manual =>
            /\ p.regAngle = ControlledAngle(p.fuel_tankP, p.n2_tankP,
                                Elapsed(now, greg.stateEntry) < StartPeriod)
            /\ ~N2Exhausted(p.n2_tankP) =>
                  p.FF_angle = feedforward(p.n2_tankP) /\ p.Kp = Kp(p.n2_tankP)

\* The status is copied before the aborts of the update that sends it, yet
\* errs on one side only: after an update, a report of a closed state comes
\* from a closed regulator, and a reported trip has not been forgotten.
ReportConservative ==
    updated =>
        /\ value \cap ClosedStates # {} => Closed
        /\ "ERROR_CRITICALOVP" \in value => Tripped

\* A report that names a trip and an active state at once, which the
\* regulator never stays in, lasts for one update: the next one reports it
\* closed, unless a command came in between.
ImpossibleReportEnds ==
    [][ReportUpdate /\ updated
       /\ "ERROR_CRITICALOVP" \in value /\ value \cap ActiveStates # {}
           => value' \cap ActiveStates = {}]_tvars
=============================================================================
