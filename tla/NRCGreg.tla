------------------------------- MODULE NRCGreg -------------------------------
(***************************************************************************)
(* The electronic regulator (NRCGreg): its state machine of six states,    *)
(* the pressure checks that abort it, the converter that powers the servo, *)
(* and the commands that reach it from the network, interleaved with its   *)
(* periodic update and with the passing of time.                           *)
(*                                                                         *)
(* The object is one record, the board. Every method is an operator from   *)
(* board to board, so a handler that calls several of them is the          *)
(* composition of theirs, in the code's order, in one action.              *)
(***************************************************************************)
EXTENDS RegServo, BuckPower, FiniteSets

CONSTANTS
    P_press_extra,      \* pressure above the setpoint that ends pressurisation
    P_disconnect,       \* below it a transducer counts as disconnected
    P_half_abort,       \* half abort threshold
    P_full_abort,       \* full abort threshold
    StartPeriod,        \* how long the angle is limited further in Controlled
    regPressuriseAngle, \* pressurising angle after a boot
    PressAngleStep,     \* how far one command may raise it
    FeedbackReadings,   \* values the feedback transducer may report
    N2Readings,         \* values the nitrogen transducer may report
    PressAngleArgs,     \* arguments of the command that sets that angle
    DebugArgs,          \* arguments of the debug command that moves the servo
    ServoArgs,          \* arguments of the servo's own execute command
    AgeCap,             \* bound of the history fields sinceEntry and dark
    MaxBoots            \* bound on the restarts of the board

ASSUME GregAssumption ==
    /\ P_press_extra \in Nat
    /\ {P_disconnect, P_half_abort, P_full_abort} \subseteq Int
    /\ P_disconnect < P_setpoint
    /\ P_setpoint + P_press_extra < P_half_abort
    /\ P_half_abort <= P_full_abort
    /\ StartPeriod \in Nat
    /\ regPressuriseAngle \in Nat /\ PressAngleStep \in Nat
    /\ FeedbackReadings \subseteq Int /\ N2Readings \subseteq Int
    /\ PressAngleArgs \subseteq Nat
    /\ DebugArgs \subseteq Int /\ ServoArgs \subseteq Int
    /\ AgeCap \in Nat /\ MaxBoots \in Nat

VARIABLES
    greg,       \* the board
    armed,      \* NRCGreg itself is not DISARMED
    fb, n2,     \* transducer readings of the last loop iteration
    now,        \* millis(), in ticks
    updated,    \* update has run since the clock or a command moved
    valve,      \* where the valve really is
    boots       \* restarts so far

vars == <<greg, armed, fb, n2, now, updated, valve, boots>>

-----------------------------------------------------------------------------
(* Flags and states.                                                       *)

ActiveStates == {"STATE_PRESSURISE", "STATE_CONTROLLED", "STATE_DEBUG"}
StateFlags ==
    ActiveStates \cup {"STATE_DEFAULT", "STATE_SHUTDOWN", "STATE_HALFABORT"}
ErrorFlags ==
    {"ERROR_CRITICALOVP", "ERROR_HALFABORT", "ERROR_FEEDBACK_P",
     "ERROR_FBP_DC", "ERROR_FBP_COVP", "ERROR_FBP_HOVP",
     "ERROR_N2_P", "ERROR_N2P_DC"}

(* The board. state is the state object the machine holds, status the flag *)
(* word m_GregStatus. Three fields are history: manual is TRUE from a      *)
(* direct servo command until the code next positions the servo by itself  *)
(* on entering a closed state, sinceEntry counts ticks since a state was   *)
(* entered, and dark the ticks in a row that found the converter off, both *)
(* up to AgeCap.                                                           *)
Boards ==
    [state : StateFlags, status : SUBSET (StateFlags \cup ErrorFlags),
     DC_count : 0 .. 255, stateEntry : Time, pressAngle : Nat,
     servoArmed : BOOLEAN, angle : AngleLims,
     buckEN : BOOLEAN, buckOffTime : Time, prevBuckTime : Time,
     manual : BOOLEAN, sinceEntry : 0 .. AgeCap, dark : 0 .. AgeCap]

flagSet(b, f) == f \in b.status
newFlag(b, f) == [b EXCEPT !.status = @ \cup {f}]
deleteFlag(b, f) == [b EXCEPT !.status = @ \ {f}]

-----------------------------------------------------------------------------
(* The six states: what entering, running and leaving each of them does at *)
(* clock value t.                                                          *)

\* State::initialize, State::exit of the base class.
stateInitialize(b, s) ==
    [newFlag(b, s) EXCEPT !.state = s, !.sinceEntry = 0]
stateExit(b) == deleteFlag(b, b.state)

\* A closed state positions the servo itself, whoever moved it before.
enterClosed(b, s, target) ==
    [driveTo(stateInitialize(b, s), target) EXCEPT !.manual = FALSE]

enterDefault(b, t) ==
    buckOff(enterClosed(b, "STATE_DEFAULT", regClosedAngle), t, BuckHold)
enterShutdown(b, t) ==
    buckOff(enterClosed(b, "STATE_SHUTDOWN", regClosedAngle), t, BuckHold)
enterHalfabort(b, t) ==
    enterClosed(b, "STATE_HALFABORT", FF_min \div 100)
enterPressurise(b, t) ==
    buckOn(servoArm(stateInitialize(b, "STATE_PRESSURISE")), t)
enterControlled(b, t) ==
    buckOn([servoArm(stateInitialize(b, "STATE_CONTROLLED"))
                EXCEPT !.stateEntry = t], t)
enterDebug(b, t) ==
    buckOn(servoArm(stateInitialize(b, "STATE_DEBUG")), t)

exitPressurise(b, t) == buckOff(stateExit(b), t, BuckExit)
exitControlled(b, t) == buckOff(stateExit(servoDisarm(b)), t, BuckHold)
exitDebug(b, t)      == stateExit(servoDisarm(b))

leave(b, t) ==
    CASE b.state = "STATE_PRESSURISE" -> exitPressurise(b, t)
      [] b.state = "STATE_CONTROLLED" -> exitControlled(b, t)
      [] b.state = "STATE_DEBUG"      -> exitDebug(b, t)
      [] OTHER                        -> stateExit(b)

enter(b, s, t) ==
    CASE s = "STATE_DEFAULT"    -> enterDefault(b, t)
      [] s = "STATE_SHUTDOWN"   -> enterShutdown(b, t)
      [] s = "STATE_HALFABORT"  -> enterHalfabort(b, t)
      [] s = "STATE_PRESSURISE" -> enterPressurise(b, t)
      [] s = "STATE_CONTROLLED" -> enterControlled(b, t)
      [] s = "STATE_DEBUG"      -> enterDebug(b, t)

\* StateMachine::changeState: the old state exits before the new one enters.
changeState(b, s, t) == enter(leave(b, t), s, t)

\* Pressurise::update, with the feedback pressure f.
pressuriseUpdate(b, f, t) ==
    LET opened == servoExecute(b, b.pressAngle)
    IN  IF f >= P_setpoint + P_press_extra
        THEN changeState(opened, "STATE_DEFAULT", t)
        ELSE opened

\* Fault: the limit of the start period comes after it.
controlledUpdate_lateLimit(b, f, n, t) ==
    servoExecute(b, ControlledAngle(f, n, Elapsed(t, b.stateEntry) >= StartPeriod))

\* Controlled::update.
controlledUpdate(b, f, n, t) ==
    servoExecute(b, ControlledAngle(f, n, Elapsed(t, b.stateEntry) < StartPeriod))

\* StateMachine::update: the other states stay as they are.
machineUpdate(b, f, n, t) ==
    CASE b.state = "STATE_PRESSURISE" -> pressuriseUpdate(b, f, t)
      [] b.state = "STATE_CONTROLLED" -> controlledUpdate(b, f, n, t)
      [] OTHER                        -> b

-----------------------------------------------------------------------------
(* The pressure checks.                                                    *)

\* Fault: the counter moves on every update.
checkDisconnect_countsUpdates(b, value, flag) ==
    IF value < P_disconnect
    THEN [newFlag(b, flag) EXCEPT !.DC_count = (@ + 1) % 256]
    ELSE deleteFlag(b, flag)

\* One byte counts the disconnected transducers.
checkDisconnect(b, value, flag) ==
    IF value < P_disconnect /\ ~flagSet(b, flag)
    THEN [newFlag(b, flag) EXCEPT !.DC_count = (@ + 1) % 256]
    ELSE IF value > P_disconnect /\ flagSet(b, flag)
    THEN [deleteFlag(b, flag) EXCEPT !.DC_count = (@ - 1) % 256]
    ELSE b

checkThreshold(b, value, threshold, flag) ==
    IF value > threshold THEN newFlag(b, flag)
    ELSE IF value < threshold THEN deleteFlag(b, flag)
    ELSE b

checkCOverPressure(b, value, flag) == checkThreshold(b, value, P_full_abort, flag)
\* Fault: the half abort check is given the half abort flag, on which nothing
\* acts: there is neither a full nor a half abort.
checkHOverPressure_ownFlag(b, value, flag) ==
    checkThreshold(b, value, P_half_abort, "ERROR_FBP_HOVP")

checkHOverPressure(b, value, flag) == checkThreshold(b, value, P_half_abort, flag)

checkGenericPTFlag(b, generic, specific) ==
    IF b.status \cap specific # {} THEN newFlag(b, generic)
                                   ELSE deleteFlag(b, generic)

\* The flags after the checks. Both overpressure checks are handed the
\* critical flag, the half abort one last.
checkFlags(b, f, n) ==
    LET dc   == checkDisconnect(checkDisconnect(b, f, "ERROR_FBP_DC"),
                                n, "ERROR_N2P_DC")
        covp == checkCOverPressure(dc, f, "ERROR_FBP_COVP")
        hovp == checkHOverPressure(covp, f, "ERROR_FBP_COVP")
        gen  == checkGenericPTFlag(hovp, "ERROR_FEEDBACK_P",
                    {"ERROR_FBP_COVP", "ERROR_FBP_DC", "ERROR_FBP_HOVP"})
        n2f  == checkGenericPTFlag(gen, "ERROR_N2_P", {"ERROR_N2P_DC"})
    IN  IF flagSet(n2f, "ERROR_FBP_COVP")
        THEN newFlag(n2f, "ERROR_CRITICALOVP") ELSE n2f

\* Faults: Pressurise and Debug forgotten, and the abort taken only while the
\* pressure is high.
mustShutdown_controlledOnly(b) ==
    flagSet(b, "ERROR_CRITICALOVP") /\ flagSet(b, "STATE_CONTROLLED")
mustShutdown_unlatched(b) ==
    /\ flagSet(b, "ERROR_FBP_COVP")
    /\ ~flagSet(b, "STATE_SHUTDOWN")
    /\ ~flagSet(b, "STATE_DEFAULT")

mustShutdown(b) ==
    /\ flagSet(b, "ERROR_CRITICALOVP")
    /\ ~flagSet(b, "STATE_SHUTDOWN")
    /\ ~flagSet(b, "STATE_DEFAULT")

mustHalfabort(b) ==
    /\ flagSet(b, "ERROR_HALFABORT")
    /\ flagSet(b, "STATE_CONTROLLED")
    /\ ~flagSet(b, "STATE_DEFAULT")

checkPressures(b, f, n, t) ==
    LET c == checkFlags(b, f, n)
    IN  IF mustShutdown(c) THEN changeState(c, "STATE_SHUTDOWN", t)
        ELSE IF mustHalfabort(c) THEN changeState(c, "STATE_HALFABORT", t)
        ELSE c

-----------------------------------------------------------------------------
(* The handlers.                                                           *)

\* A board as its member initialisers leave it, before setup.
blankBoard ==
    [state |-> "STATE_DEFAULT", status |-> {}, DC_count |-> 0,
     stateEntry |-> 0, pressAngle |-> regPressuriseAngle,
     servoArmed |-> FALSE, angle |-> regClosedAngle,
     buckEN |-> FALSE, buckOffTime |-> 0, prevBuckTime |-> 0,
     manual |-> FALSE, sinceEntry |-> 0, dark |-> 0]

\* NRCGreg::setup, at clock value 0.
setup == enterDefault(buckOff(buckOn(blankBoard, 0), 0, BuckExit), 0)

\* Fault: disarming does not return to Default.
update_ignoresDisarm(b, on, f, n, t) ==
    checkPressures(machineUpdate(buckManager(b, t), f, n, t), f, n, t)

\* NRCGreg::update: the converter first, then the way back to Default, the
\* state's own update, and the pressure checks.
update(b, on, f, n, t) ==
    LET powered == buckManager(b, t)
        allowed == IF ~on /\ ~flagSet(powered, "STATE_DEFAULT")
                   THEN changeState(powered, "STATE_DEFAULT", t)
                   ELSE powered
    IN  checkPressures(machineUpdate(allowed, f, n, t), f, n, t)

Init ==
    /\ greg = setup
    /\ armed = FALSE
    /\ fb = 0 /\ n2 = 0
    /\ now = 0
    /\ updated = FALSE
    /\ valve \in {regClosedAngle, regMinOpenAngle, regMaxOpenAngle}
    /\ boots = 0

\* One iteration of the loop: the transducers are read, then Heimdall.update.
Update ==
    /\ \E f \in FeedbackReadings, n \in N2Readings :
          /\ fb' = f /\ n2' = n
          /\ greg' = update(greg, armed, f, n, now)
    /\ updated' = TRUE
    /\ UNCHANGED <<armed, now, valve, boots>>

(* A command packet is handled at the start of an iteration of the loop,   *)
(* whose update follows before the valve can have moved.                   *)
Handled == updated' = FALSE /\ UNCHANGED <<fb, n2, now, valve, boots>>

Arm    == armed' = TRUE /\ UNCHANGED greg /\ Handled
Disarm == armed' = FALSE /\ UNCHANGED greg /\ Handled

\* execute_impl reaches the switch only when NRCGreg is armed.
execute(s) ==
    /\ armed
    /\ greg' = changeState(greg, s, now)
    /\ UNCHANGED armed /\ Handled

ExecuteControlled == flagSet(greg, "STATE_DEFAULT") /\ execute("STATE_CONTROLLED")
ExecuteShutdown   == execute("STATE_SHUTDOWN")
ExecuteDebug      == flagSet(greg, "STATE_DEFAULT") /\ execute("STATE_DEBUG")
ExecutePressurise == flagSet(greg, "STATE_DEFAULT") /\ execute("STATE_PRESSURISE")

\* Extended command 6: move the servo, in Debug.
DebugExecute ==
    /\ flagSet(greg, "STATE_DEBUG")
    /\ \E arg \in DebugArgs : greg' = servoExecute(greg, arg)
    /\ UNCHANGED armed /\ Handled

\* Extended command 7: set the pressurising angle, from any state.
SetPressAngle ==
    /\ \E arg \in PressAngleArgs :
          /\ arg <= greg.pressAngle + PressAngleStep
          /\ greg' = [greg EXCEPT !.pressAngle = arg]
    /\ UNCHANGED armed /\ Handled

(* The servo is a network service of its own (Reg_Servo): the ground can   *)
(* arm, disarm and move it without the regulator knowing.                  *)
directServo(b) ==
    /\ ServoArgs # {}
    /\ greg' = [b EXCEPT !.manual = TRUE]
    /\ UNCHANGED armed /\ Handled

ServoArmCommand     == directServo(servoArm(greg))
ServoDisarmCommand  == directServo(servoDisarm(greg))
ServoExecuteCommand ==
    \E arg \in ServoArgs : directServo(servoExecute(greg, arg))

Command ==
    \/ Arm \/ Disarm
    \/ ExecuteControlled \/ ExecuteShutdown \/ ExecuteDebug \/ ExecutePressurise
    \/ DebugExecute \/ SetPressAngle
    \/ ServoArmCommand \/ ServoDisarmCommand \/ ServoExecuteCommand

\* One tick more of a history field.
Older(age) == IF age < AgeCap THEN age + 1 ELSE age

(* A tick is long against the period of the loop and long enough for the   *)
(* servo to reach its angle, if its motor has power.                       *)
Tick ==
    /\ updated
    /\ now' = (now + 1) % WORD
    /\ valve' = IF greg.buckEN THEN greg.angle ELSE valve
    /\ greg' = [greg EXCEPT !.sinceEntry = Older(@),
                            !.dark = IF greg.buckEN THEN 0 ELSE Older(@)]
    /\ updated' = FALSE
    /\ UNCHANGED <<armed, fb, n2, boots>>

\* A reset of the processor: everything but the valve starts over.
Reboot ==
    /\ boots < MaxBoots
    /\ boots' = boots + 1
    /\ greg' = setup
    /\ armed' = FALSE
    /\ fb' = 0 /\ n2' = 0
    /\ now' = 0
    /\ updated' = FALSE
    /\ UNCHANGED valve

Next == Update \/ Command \/ Tick \/ Reboot

Spec == Init /\ [][Next]_vars

(* The loop task runs for ever, and the clock advances whatever the loop   *)
(* is doing: it cannot be held back by a stream of commands, hence SF. No  *)
(* fairness is assumed of the operator or of resets.                       *)
Fairness == []<>updated /\ SF_vars(Tick)
FairSpec == Spec /\ Fairness

-----------------------------------------------------------------------------
(* Properties.                                                             *)

ClosedStates == {"STATE_DEFAULT", "STATE_SHUTDOWN"}
Active == greg.state \in ActiveStates
Closed == greg.state \in ClosedStates
Tripped == flagSet(greg, "ERROR_CRITICALOVP")

\* Every variable keeps its type.
TypeOK ==
    /\ greg \in Boards
    /\ armed \in BOOLEAN /\ updated \in BOOLEAN
    /\ fb \in Int /\ n2 \in Int
    /\ now \in Time
    /\ valve \in AngleLims
    /\ boots \in 0 .. MaxBoots

\* The flag word holds exactly one state flag, that of the state the machine
\* is in: the guards of every command read the flags, never the machine.
StateFlagIsState == greg.status \cap StateFlags = {greg.state}

\* m_DC_count is the number of disconnect flags set, so it never wraps.
DisconnectsCounted ==
    greg.DC_count = Cardinality(greg.status \cap {"ERROR_FBP_DC", "ERROR_N2P_DC"})

\* In Default and Shutdown the servo is told to be closed and is disarmed,
\* unless somebody commanded the servo directly.
ClosedStatesClose ==
    Closed /\ ~greg.manual => greg.angle = regClosedAngle /\ ~greg.servoArmed

\* In Pressurise, Controlled and Debug the servo is armed, or the state would
\* steer a servo that ignores it.
ActiveStatesDrive == Active /\ ~greg.manual => greg.servoArmed

\* Once Controlled has been updated the servo is within the limits of the
\* controller, and within the lower one while Controlled starts up.
ControlledLimited ==
    greg.state = "STATE_CONTROLLED" /\ updated /\ ~greg.manual =>
        /\ regMinOpenAngle <= greg.angle
        /\ greg.angle <= IF Elapsed(now, greg.stateEntry) < StartPeriod
                         THEN regMaxOpenFirstStart ELSE regMaxOpenAngle

\* Once update has run, a latched overpressure leaves no active state.
TrippedMeansClosed == updated /\ Tripped => ~Active

\* The servo is not without power for longer than a period between two
\* pulses. Where the clock wraps the time stored to switch off may already
\* be passed, so that the next look undoes a switch-on before it has moved
\* anything: then it is less than two periods and the longest hold.
DarkBounded ==
    /\ greg.dark <= 2 * BuckPeriod + BuckLongest
    /\ BuckPeriod < now /\ now < WORD - BuckLongest => greg.dark <= BuckPeriod

\* A closed state that nobody disturbs has its valve closed after a period,
\* and after two if the clock wrapped on the way.
CloseBound == 2 * BuckPeriod + 1
ClosesInTime ==
    Closed /\ ~greg.manual /\ greg.sinceEntry > CloseBound
        => valve = regClosedAngle

\* An update that reads more than the full abort pressure ends with the
\* regulator closed, and so does one that finds it disarmed; one that reads
\* more than the half abort pressure leaves Controlled. (nrcgreg.h has it leave
\* for Halfabort: the code shuts down, and never sets ERROR_HALFABORT.)
UpdateCloses ==
    [][Update => /\ fb' > P_full_abort \/ ~armed => Closed'
                 /\ fb' > P_half_abort => greg'.state # "STATE_CONTROLLED"]_vars

\* Once an overpressure is latched, a closed valve does not open again
\* before a reset, in whatever order commands and updates come.
TrippedStaysClosed ==
    [][Tripped /\ ~greg.manual /\ valve = regClosedAngle
           => valve' = regClosedAngle]_vars

\* Shutdown is left only by an update of a disarmed regulator, to Default,
\* or by a reset.
ShutdownHeld ==
    [][greg.state = "STATE_SHUTDOWN" /\ greg'.state # "STATE_SHUTDOWN"
           => /\ greg'.state = "STATE_DEFAULT"
              /\ ~armed \/ boots' # boots]_vars

\* An active state is entered only from Default, while armed.
ActiveFromDefault ==
    [][Active' /\ greg'.state # greg.state
           => greg.state = "STATE_DEFAULT" /\ armed]_vars

\* A latched overpressure is cleared by a reset only.
TripLatched == [][Tripped /\ ~Tripped' => boots' # boots]_vars

\* A regulator that stays disarmed returns to Default.
DisarmReturns == ~armed ~> (armed \/ greg.state = "STATE_DEFAULT")

\* A regulator that goes to a closed state gets its valve closed, unless it
\* is made active again or somebody moves the servo directly.
ClosedEventually ==
    Closed ~> (valve = regClosedAngle \/ ~Closed \/ greg.manual)

(* The promise of EregLifecycle, and how the board keeps it.               *)
Mode == CASE greg.state = "STATE_DEFAULT"  -> "closed"
          [] greg.state = "STATE_SHUTDOWN" -> "locked"
          [] OTHER                         -> "active"

Lifecycle ==
    INSTANCE EregLifecycle WITH
        mode <- Mode, enabled <- armed, tripped <- Tripped,
        manual <- greg.manual, open <- valve # regClosedAngle,
        resets <- boots, MaxResets <- MaxBoots

\* The regulator implements the promise: it becomes active, trips, locks and
\* opens its valve only in the steps that EregLifecycle allows.
LifecycleKept == Lifecycle!Spec
=============================================================================
