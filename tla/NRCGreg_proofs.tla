--------------------------- MODULE NRCGreg_proofs ---------------------------
(***************************************************************************)
(* Theorems about the regulator for every value of its constants. The      *)
(* lemmas follow the methods of the code: what each of them keeps of a     *)
(* board, then what an update and a command keep, then the specification.  *)
(* After its invariants, action properties and promise come the power of   *)
(* the servo and what the ground is told.                                  *)
(***************************************************************************)
EXTENDS GregTelemetry, FiniteSetTheorems, TLAPS

\* The two boards differ in the fields of the converter only.
SameButPower(b, c) ==
    /\ c.state = b.state /\ c.status = b.status /\ c.DC_count = b.DC_count
    /\ c.stateEntry = b.stateEntry /\ c.pressAngle = b.pressAngle
    /\ c.servoArmed = b.servoArmed /\ c.angle = b.angle
    /\ c.manual = b.manual /\ c.sinceEntry = b.sinceEntry /\ c.dark = b.dark

\* The converter and what is remembered about it have not moved.
SamePower(b, c) ==
    /\ c.buckEN = b.buckEN /\ c.buckOffTime = b.buckOffTime
    /\ c.prevBuckTime = b.prevBuckTime /\ c.dark = b.dark

\* A time that buckOff stores at clock value t.
OffTimes(t) == {(t + d) % WORD : d \in {BuckPulse, BuckHold, BuckExit}}

\* A transition at clock value t leaves the converter alone or switches it
\* on, and may store another time to switch it off; it never does so itself.
PowerKept(b, c, t) ==
    /\ c.dark = b.dark
    /\ \/ /\ c.buckEN = b.buckEN /\ c.prevBuckTime = b.prevBuckTime
          /\ c.buckOffTime \in {b.buckOffTime} \cup OffTimes(t)
       \/ /\ c.buckEN /\ c.prevBuckTime = t
          /\ c.buckOffTime \in {Never} \cup OffTimes(t)

\* Clock arithmetic stays in the range of the clock.
LEMMA ClockWraps ==
    ASSUME NEW i \in Int PROVE i % WORD \in Time
  BY BuckAssumption DEF BuckAssumption, Time

\* Switching the converter on leaves the rest of the board alone.
LEMMA BuckOnKeeps ==
    ASSUME NEW b \in Boards, NEW t \in Time
    PROVE  /\ buckOn(b, t) \in Boards
           /\ SameButPower(b, buckOn(b, t)) /\ PowerKept(b, buckOn(b, t), t)
  <1>1. Never \in Time
    BY BuckAssumption DEF BuckAssumption, Time, Never
  <1> QED
    BY <1>1 DEF buckOn, Boards, SameButPower, PowerKept

\* So does storing the time at which it goes off.
LEMMA BuckOffKeeps ==
    ASSUME NEW b \in Boards, NEW t \in Time, NEW d \in Nat
    PROVE  /\ buckOff(b, t, d) \in Boards
           /\ SameButPower(b, buckOff(b, t, d))
           /\ d \in {BuckPulse, BuckHold, BuckExit}
                 => PowerKept(b, buckOff(b, t, d), t)
  <1>1. (t + d) % WORD \in Time
    BY ClockWraps DEF Time
  <1> QED
    BY <1>1 DEF buckOff, Boards, SameButPower, PowerKept, OffTimes

\* Transitions one after the other at one clock value.
LEMMA PowerKeptTransitive ==
    ASSUME NEW t, NEW a, NEW b, NEW c, PowerKept(a, b, t), PowerKept(b, c, t)
    PROVE  PowerKept(a, c, t)
  BY DEF PowerKept

\* The pulse leaves the rest of the board alone. It comes when the period is
\* over; otherwise the converter goes off when its stored time is passed.
LEMMA BuckManagerKeeps ==
    ASSUME NEW b \in Boards, NEW t \in Time
    PROVE  /\ buckManager(b, t) \in Boards
           /\ SameButPower(b, buckManager(b, t))
           /\ \/ /\ Elapsed(t, b.prevBuckTime) > BuckPeriod
                 /\ PowerKept(b, buckManager(b, t), t)
                 /\ buckManager(b, t).prevBuckTime = t
              \/ /\ ~(Elapsed(t, b.prevBuckTime) > BuckPeriod)
                 /\ buckManager(b, t).prevBuckTime = b.prevBuckTime
                 /\ buckManager(b, t).buckOffTime = b.buckOffTime
                 /\ t <= b.buckOffTime => buckManager(b, t).buckEN = b.buckEN
  <1>1. CASE Elapsed(t, b.prevBuckTime) > BuckPeriod
    <2> DEFINE o == buckOn(b, t)
               p == buckOff(o, t, BuckPulse)
    <2>1. o \in Boards /\ SameButPower(b, o) /\ PowerKept(b, o, t)
      BY BuckOnKeeps
    <2>2. o.prevBuckTime = t
      BY DEF buckOn, Boards
    <2> HIDE DEF o
    <2>3. p \in Boards /\ SameButPower(o, p) /\ PowerKept(o, p, t)
      BY <2>1, BuckOffKeeps, BuckAssumption DEF BuckAssumption
    <2>4. p.prevBuckTime = t
      BY <2>1, <2>2 DEF buckOff, Boards
    <2>5. buckManager(b, t) = p
      BY <1>1 DEF buckManager, o
    <2> HIDE DEF p
    <2> QED
      BY <1>1, <2>1, <2>3, <2>4, <2>5, PowerKeptTransitive DEF SameButPower
  <1>2. CASE ~(Elapsed(t, b.prevBuckTime) > BuckPeriod)
    <2> DEFINE off == b.buckEN /\ ~(t > b.buckOffTime)
    <2>1. buckManager(b, t) = [b EXCEPT !.buckEN = off]
      BY <1>2 DEF buckManager
    <2>2. off \in BOOLEAN
      BY DEF Boards
    <2>3. t <= b.buckOffTime => off = b.buckEN
      BY DEF Boards, Time
    <2> HIDE DEF off
    <2> QED
      BY <1>2, <2>1, <2>2, <2>3 DEF Boards, SameButPower
  <1> QED
    BY <1>1, <1>2

\* The angle the servo is left at is within its limits.
LEMMA ServoExecuteKeeps ==
    ASSUME NEW b \in Boards, NEW a \in Int
    PROVE  LET e == servoExecute(b, a) IN
           /\ e \in Boards
           /\ e.state = b.state /\ e.status = b.status
           /\ e.DC_count = b.DC_count
           /\ e.servoArmed = b.servoArmed /\ e.manual = b.manual
           /\ e.stateEntry = b.stateEntry
           /\ e.sinceEntry = b.sinceEntry /\ SamePower(b, e)
  <1>1. Clamp(a, 0, regMaxOpenAngle) \in AngleLims
    BY ControlAssumption DEF ControlAssumption, Clamp, AngleLims
  <1> QED
    BY <1>1 DEF servoExecute, Boards, SamePower

-----------------------------------------------------------------------------
(* The transitions of the state machine.                                   *)

\* What is left of a board when its state has exited, and not entered yet.
LEMMA LeaveKeeps ==
    ASSUME NEW b \in Boards, NEW t \in Time
    PROVE  /\ leave(b, t) \in Boards
           /\ leave(b, t).status = b.status \ {b.state}
           /\ leave(b, t).DC_count = b.DC_count
           /\ leave(b, t).angle = b.angle
           /\ leave(b, t).manual = b.manual
           /\ PowerKept(b, leave(b, t), t)
  <1> DEFINE gone(c) == /\ c \in Boards
                        /\ c.status = b.status \ {b.state}
                        /\ c.DC_count = b.DC_count
                        /\ c.angle = b.angle
                        /\ c.manual = b.manual
                        /\ PowerKept(b, c, t)
  <1>1. gone(stateExit(b))
    BY DEF stateExit, deleteFlag, Boards, PowerKept
  <1>2. /\ servoDisarm(b) \in Boards
        /\ servoDisarm(b).state = b.state
        /\ gone(stateExit(servoDisarm(b)))
    BY DEF servoDisarm, stateExit, deleteFlag, Boards, PowerKept
  <1>3. gone(exitPressurise(b, t))
    <2> DEFINE d == stateExit(b)
    <2>1. /\ buckOff(d, t, BuckExit) \in Boards
          /\ SameButPower(d, buckOff(d, t, BuckExit))
          /\ PowerKept(d, buckOff(d, t, BuckExit), t)
      BY <1>1, BuckOffKeeps, BuckAssumption DEF BuckAssumption
    <2>2. gone(d)
      BY <1>1
    <2>3. PowerKept(b, buckOff(d, t, BuckExit), t)
      BY <2>1, <2>2, PowerKeptTransitive
    <2> QED
      BY <2>1, <2>2, <2>3 DEF exitPressurise, SameButPower
  <1>4. gone(exitControlled(b, t))
    <2> DEFINE d == stateExit(servoDisarm(b))
    <2>1. d \in Boards
      BY <1>2
    <2>2. /\ buckOff(d, t, BuckHold) \in Boards
          /\ SameButPower(d, buckOff(d, t, BuckHold))
          /\ PowerKept(d, buckOff(d, t, BuckHold), t)
      BY <2>1, BuckOffKeeps, BuckAssumption DEF BuckAssumption
    <2>3. gone(d)
      BY <1>2
    <2>4. PowerKept(b, buckOff(d, t, BuckHold), t)
      BY <2>2, <2>3, PowerKeptTransitive
    <2> QED
      BY <2>2, <2>3, <2>4 DEF exitControlled, SameButPower
  <1>5. gone(exitDebug(b, t))
    BY <1>2 DEF exitDebug
  <1> QED
    BY <1>1, <1>3, <1>4, <1>5 DEF leave

\* What entering a state does to a board whose last state has exited.
Entered(b, s, t, c) ==
    /\ c \in Boards
    /\ c.state = s
    /\ c.status = b.status \cup {s}
    /\ c.DC_count = b.DC_count
    /\ c.sinceEntry = 0 /\ PowerKept(b, c, t)
    /\ s \in ClosedStates =>
          /\ c.angle = regClosedAngle /\ ~c.servoArmed /\ ~c.manual
    /\ s \in ActiveStates =>
          /\ c.servoArmed /\ c.manual = b.manual /\ c.angle = b.angle

\* A state's flag is set and the servo armed, and nothing else moves.
LEMMA InitializeArmed ==
    ASSUME NEW b \in Boards, NEW s \in StateFlags
    PROVE  LET m == servoArm(stateInitialize(b, s)) IN
           /\ m \in Boards /\ m.state = s /\ m.status = b.status \cup {s}
           /\ m.DC_count = b.DC_count /\ m.servoArmed
           /\ m.manual = b.manual /\ m.angle = b.angle
           /\ m.sinceEntry = 0 /\ SamePower(b, m)
  <1> DEFINE i == stateInitialize(b, s)
  <1>1. /\ i \in Boards /\ i.state = s /\ i.status = b.status \cup {s}
        /\ i.DC_count = b.DC_count
        /\ i.manual = b.manual /\ i.angle = b.angle
        /\ i.sinceEntry = 0 /\ SamePower(b, i)
    <2> DEFINE g == newFlag(b, s)
    <2>1. 0 \in 0 .. AgeCap /\ b.status \cup {s} \in SUBSET (StateFlags \cup ErrorFlags)
      BY GregAssumption DEF GregAssumption, Boards
    <2>2. /\ g \in Boards /\ g.status = b.status \cup {s}
          /\ g.DC_count = b.DC_count
          /\ g.manual = b.manual /\ g.angle = b.angle
          /\ SamePower(b, g)
      BY <2>1 DEF newFlag, Boards, SamePower
    <2>3. i = [g EXCEPT !.state = s, !.sinceEntry = 0]
      BY DEF stateInitialize
    <2> HIDE DEF g, i
    <2>4. i \in Boards
      <3> DEFINE m == [g EXCEPT !.state = s]
      <3>1. m \in Boards
        BY <2>2 DEF Boards
      <3>2. i = [m EXCEPT !.sinceEntry = 0]
        BY <2>2, <2>3 DEF Boards
      <3> HIDE DEF m
      <3> QED
        BY <2>1, <3>1, <3>2 DEF Boards
    <2>5. i.state = s /\ i.sinceEntry = 0
      BY <2>2, <2>3 DEF Boards
    <2>6. /\ i.status = g.status /\ i.DC_count = g.DC_count
          /\ i.manual = g.manual /\ i.angle = g.angle /\ SamePower(g, i)
      BY <2>2, <2>3, SMTT(30) DEF Boards, SamePower
    <2> QED
      BY <2>2, <2>4, <2>5, <2>6 DEF SamePower
  <1> HIDE DEF i
  <1>2. /\ servoArm(i) \in Boards /\ servoArm(i).servoArmed
        /\ servoArm(i).state = i.state /\ servoArm(i).status = i.status
        /\ servoArm(i).DC_count = i.DC_count
        /\ servoArm(i).manual = i.manual /\ servoArm(i).angle = i.angle
        /\ servoArm(i).sinceEntry = i.sinceEntry
    <2>1. i \in Boards
      BY <1>1
    <2> QED
      BY <2>1 DEF servoArm, Boards
  <1>3. SamePower(i, servoArm(i))
    BY <1>1 DEF servoArm, Boards, SamePower
  <1>4. SamePower(b, servoArm(i))
    BY <1>1, <1>3 DEF SamePower
  <1> QED
    BY <1>1, <1>2, <1>4 DEF i

\* A closed state arms the servo, moves it to its target and disarms it.
LEMMA EnterClosedKeeps ==
    ASSUME NEW b \in Boards, NEW s \in StateFlags, NEW a \in AngleLims
    PROVE  /\ enterClosed(b, s, a) \in Boards
           /\ enterClosed(b, s, a).state = s
           /\ enterClosed(b, s, a).status = b.status \cup {s}
           /\ enterClosed(b, s, a).DC_count = b.DC_count
           /\ enterClosed(b, s, a).angle = a
           /\ ~enterClosed(b, s, a).servoArmed
           /\ ~enterClosed(b, s, a).manual
           /\ enterClosed(b, s, a).sinceEntry = 0
           /\ SamePower(b, enterClosed(b, s, a))
  <1> DEFINE i == stateInitialize(b, s)
             e == servoExecute(servoArm(i), a)
  <1>2. /\ servoArm(i) \in Boards /\ servoArm(i).servoArmed
        /\ servoArm(i).state = s /\ servoArm(i).status = b.status \cup {s}
        /\ servoArm(i).DC_count = b.DC_count
        /\ servoArm(i).sinceEntry = 0 /\ SamePower(b, servoArm(i))
    BY InitializeArmed
  <1>3. Clamp(a, 0, regMaxOpenAngle) = a
    BY ControlAssumption DEF ControlAssumption, Clamp, AngleLims
  <1> HIDE DEF i
  <1>4. e = [servoArm(i) EXCEPT !.angle = a]
    BY <1>2, <1>3 DEF servoExecute
  <1>5. /\ e \in Boards /\ e.angle = a
        /\ e.state = s /\ e.status = b.status \cup {s}
        /\ e.DC_count = b.DC_count
        /\ e.sinceEntry = 0 /\ SamePower(b, e)
    BY <1>2, <1>4 DEF Boards, SamePower
  <1> HIDE DEF e
  <1>6. enterClosed(b, s, a) =
            [[e EXCEPT !.servoArmed = FALSE] EXCEPT !.manual = FALSE]
    BY DEF enterClosed, driveTo, servoDisarm, e, i
  <1> DEFINE c == enterClosed(b, s, a)
  <1>e. e \in Boards
    BY <1>5
  <1>7. /\ c \in Boards /\ c.state = e.state /\ c.status = e.status
        /\ c.DC_count = e.DC_count /\ c.angle = e.angle
        /\ ~c.servoArmed /\ ~c.manual /\ c.sinceEntry = e.sinceEntry
    BY <1>e, <1>6 DEF Boards
  <1>8. SamePower(e, c)
    BY <1>e, <1>6 DEF Boards, SamePower
  <1>9. SamePower(b, c)
    BY <1>5, <1>8 DEF SamePower
  <1> QED
    BY <1>5, <1>7, <1>9

\* Each of the six states sets its flag; the closed ones close the servo and
\* the active ones arm it.
LEMMA EnterKeeps ==
    ASSUME NEW b \in Boards, NEW t \in Time, NEW s \in StateFlags
    PROVE  Entered(b, s, t, enter(b, s, t))
  <1> DEFINE i == stateInitialize(b, s)
             m == servoArm(i)
  <1>0. regClosedAngle \in AngleLims
    BY ServoAssumption, ControlAssumption
    DEF ServoAssumption, ControlAssumption, AngleLims
  <1>1. /\ m \in Boards /\ m.state = s /\ m.status = b.status \cup {s}
        /\ m.DC_count = b.DC_count /\ m.servoArmed
        /\ m.manual = b.manual /\ m.angle = b.angle
        /\ m.sinceEntry = 0 /\ PowerKept(b, m, t)
    BY InitializeArmed DEF SamePower, PowerKept
  <1> HIDE DEF m
  <1>2. CASE s \in ClosedStates
    <2> DEFINE c == enterClosed(b, s, regClosedAngle)
    <2>1. /\ c \in Boards /\ c.state = s /\ c.status = b.status \cup {s}
          /\ c.DC_count = b.DC_count
          /\ c.angle = regClosedAngle /\ ~c.servoArmed /\ ~c.manual
          /\ c.sinceEntry = 0 /\ PowerKept(b, c, t)
      BY <1>0, EnterClosedKeeps DEF SamePower, PowerKept
    <2> HIDE DEF c
    <2>2. /\ buckOff(c, t, BuckHold) \in Boards
          /\ SameButPower(c, buckOff(c, t, BuckHold))
          /\ PowerKept(b, buckOff(c, t, BuckHold), t)
      BY <2>1, BuckOffKeeps, PowerKeptTransitive, BuckAssumption
      DEF BuckAssumption
    <2>3. enter(b, s, t) = buckOff(c, t, BuckHold)
      BY <1>2 DEF enter, enterDefault, enterShutdown, ClosedStates, c
    <2>4. s \notin ActiveStates
      BY <1>2 DEF ClosedStates, ActiveStates
    <2> QED
      BY <2>1, <2>2, <2>3, <2>4 DEF Entered, SameButPower
  <1>3. CASE s \in {"STATE_PRESSURISE", "STATE_DEBUG"}
    <2>1. /\ buckOn(m, t) \in Boards /\ SameButPower(m, buckOn(m, t))
          /\ PowerKept(b, buckOn(m, t), t)
      BY <1>1, BuckOnKeeps, PowerKeptTransitive
    <2>2. enter(b, s, t) = buckOn(m, t)
      BY <1>3 DEF enter, enterPressurise, enterDebug, m
    <2>3. s \notin ClosedStates
      BY <1>3 DEF ClosedStates
    <2> QED
      BY <1>1, <2>1, <2>2, <2>3 DEF Entered, SameButPower
  <1>4. CASE s = "STATE_CONTROLLED"
    <2> DEFINE c == [m EXCEPT !.stateEntry = t]
    <2>1. /\ c \in Boards /\ c.state = s /\ c.status = b.status \cup {s}
          /\ c.DC_count = b.DC_count /\ c.servoArmed
          /\ c.manual = b.manual /\ c.angle = b.angle
          /\ c.sinceEntry = 0 /\ PowerKept(b, c, t)
      BY <1>1 DEF Boards, PowerKept
    <2> HIDE DEF c
    <2>2. /\ buckOn(c, t) \in Boards /\ SameButPower(c, buckOn(c, t))
          /\ PowerKept(b, buckOn(c, t), t)
      BY <2>1, BuckOnKeeps, PowerKeptTransitive
    <2>3. enter(b, s, t) = buckOn(c, t)
      BY <1>4 DEF enter, enterControlled, m, c
    <2>4. s \notin ClosedStates
      BY <1>4 DEF ClosedStates
    <2> QED
      BY <2>1, <2>2, <2>3, <2>4 DEF Entered, SameButPower
  <1>5. CASE s = "STATE_HALFABORT"
    <2> DEFINE h == servoExecute(m, FF_min \div 100)
    <2>0. FF_min \div 100 \in Int
      BY ControlAssumption DEF ControlAssumption
    <2>m. m \in Boards
      BY <1>1
    <2>1. /\ h \in Boards
          /\ h.state = m.state /\ h.status = m.status
          /\ h.DC_count = m.DC_count
          /\ h.sinceEntry = m.sinceEntry /\ SamePower(m, h)
      BY <2>0, <2>m, ServoExecuteKeeps
    <2> HIDE DEF h
    <2> DEFINE k == [h EXCEPT !.servoArmed = FALSE]
    <2>3. enter(b, s, t) = [k EXCEPT !.manual = FALSE]
      BY <1>5
      DEF enter, enterHalfabort, enterClosed, driveTo, servoDisarm, h, m
    <2>4. s \notin ClosedStates /\ s \notin ActiveStates
      BY <1>5 DEF ClosedStates, ActiveStates
    <2>h. h \in Boards
      BY <2>1
    <2>5. /\ k \in Boards /\ k.state = h.state /\ k.status = h.status
          /\ k.DC_count = h.DC_count /\ k.sinceEntry = h.sinceEntry
      BY <2>h DEF Boards
    <2>7. SamePower(h, k)
      BY <2>h DEF Boards, SamePower
    <2>k. k \in Boards
      BY <2>5
    <2> HIDE DEF k
    <2> DEFINE c == enter(b, s, t)
    <2>6. /\ c \in Boards /\ c.state = k.state /\ c.status = k.status
          /\ c.DC_count = k.DC_count /\ c.sinceEntry = k.sinceEntry
      BY <2>3, <2>k DEF Boards
    <2>8. SamePower(k, c)
      BY <2>3, <2>k DEF Boards, SamePower
    <2>9. SamePower(m, c)
      BY <2>1, <2>7, <2>8 DEF SamePower
    <2>10. PowerKept(b, c, t)
      BY <1>1, <2>9 DEF SamePower, PowerKept
    <2> QED
      BY <1>1, <2>1, <2>4, <2>5, <2>6, <2>10 DEF Entered
  <1> QED
    BY <1>2, <1>3, <1>4, <1>5 DEF StateFlags, ActiveStates, ClosedStates

(* The parts of the invariant that speak of one board.                     *)

\* The flag word holds the flag of the state and no other state flag.
FlagIsState(b) == b.status \cap StateFlags = {b.state}

\* Nothing sets the half abort flag, so Halfabort is never entered.
NoHalfabort(b) == "ERROR_HALFABORT" \notin b.status /\ b.state # "STATE_HALFABORT"

\* The counter, flag by flag.
One(b, f) == IF flagSet(b, f) THEN 1 ELSE 0
Counted(b) == b.DC_count = One(b, "ERROR_FBP_DC") + One(b, "ERROR_N2P_DC")

\* The servo is where its state wants it.
ServoFollows(b) ==
    ~b.manual =>
        /\ b.state \in ClosedStates => b.angle = regClosedAngle /\ ~b.servoArmed
        /\ b.state \in ActiveStates => b.servoArmed

GoodBoard(b) ==
    /\ b \in Boards
    /\ FlagIsState(b) /\ NoHalfabort(b) /\ Counted(b) /\ ServoFollows(b)

\* A transition to any state but Halfabort keeps a board good, and changes
\* no error flag.
LEMMA ChangeStateGood ==
    ASSUME NEW b, GoodBoard(b), NEW t \in Time,
           NEW s \in ActiveStates \cup ClosedStates
    PROVE  LET c == changeState(b, s, t) IN
           /\ GoodBoard(c)
           /\ c.state = s
           /\ c.status \ StateFlags = b.status \ StateFlags
           /\ s \in ClosedStates => ~c.manual
           /\ s \in ActiveStates => c.manual = b.manual /\ c.angle = b.angle
           /\ c.sinceEntry = 0 /\ PowerKept(b, c, t)
  <1> DEFINE g == leave(b, t)
             c == enter(g, s, t)
  <1>1. /\ g \in Boards /\ g.status = b.status \ {b.state}
        /\ g.DC_count = b.DC_count /\ g.angle = b.angle /\ g.manual = b.manual
        /\ PowerKept(b, g, t)
    BY LeaveKeeps DEF GoodBoard
  <1>2. s \in StateFlags /\ s # "STATE_HALFABORT"
    BY DEF StateFlags, ActiveStates, ClosedStates
  <1>3. Entered(g, s, t, c)
    BY <1>1, <1>2, EnterKeeps
  <1>4. changeState(b, s, t) = c
    BY DEF changeState
  <1> HIDE DEF g, c
  <1>5. c.status = (b.status \ {b.state}) \cup {s}
    BY <1>1, <1>3 DEF Entered
  <1>6. FlagIsState(c) /\ c.status \ StateFlags = b.status \ StateFlags
    BY <1>2, <1>3, <1>5 DEF GoodBoard, FlagIsState, Entered
  <1>7. b.state \in StateFlags /\ b.state \notin ErrorFlags /\ s \notin ErrorFlags
    BY <1>2 DEF GoodBoard, Boards, StateFlags, ActiveStates, ErrorFlags
  <1>8. \A f \in ErrorFlags : f \in c.status <=> f \in b.status
    BY <1>5, <1>7
  <1>9. NoHalfabort(c)
    BY <1>2, <1>3, <1>8 DEF NoHalfabort, ErrorFlags, Entered, GoodBoard
  <1>10. Counted(c)
    <2>1. c.DC_count = b.DC_count
      BY <1>1, <1>3 DEF Entered
    <2>2. "ERROR_FBP_DC" \in ErrorFlags /\ "ERROR_N2P_DC" \in ErrorFlags
      BY DEF ErrorFlags
    <2> QED
      BY <1>8, <2>1, <2>2 DEF Counted, One, flagSet, GoodBoard
  <1>11. ServoFollows(c)
    BY <1>3 DEF Entered, ServoFollows
  <1>12. PowerKept(b, c, t)
    BY <1>1, <1>3, PowerKeptTransitive DEF Entered
  <1> QED
    BY <1>1, <1>3, <1>4, <1>6, <1>9, <1>10, <1>11, <1>12 DEF GoodBoard, Entered

-----------------------------------------------------------------------------
(* The steps of one update.                                                *)

\* What buckManager and the servo's own commands leave alone.
LEMMA BuckManagerGood ==
    ASSUME NEW b, GoodBoard(b), NEW t \in Time
    PROVE  LET c == buckManager(b, t) IN
           GoodBoard(c) /\ SameButPower(b, c)
  BY BuckManagerKeeps
  DEF GoodBoard, SameButPower, FlagIsState, NoHalfabort, Counted, One, flagSet,
      ServoFollows

\* Every quantity of the control law is an integer, and the angle it asks for
\* is within the controller's limits.
LEMMA ControlledAngleBounded ==
    ASSUME NEW f \in Int, NEW n \in Int, NEW starting \in BOOLEAN
    PROVE  /\ ControlledAngle(f, n, starting) \in regMinOpenAngle .. regMaxOpenAngle
           /\ starting => ControlledAngle(f, n, starting) <= regMaxOpenFirstStart
  <1>1. feedforward(n) \in Int /\ Kp(n) \in Int
    BY ControlAssumption
    DEF ControlAssumption, feedforward, Kp, N2Exhausted, Clamp
  <1>2. TargetAngle(f, n) \in Int
    <2>1. Kp(n) * (P_setpoint - f) \in Int
      BY <1>1, ControlAssumption DEF ControlAssumption
    <2> QED
      BY <1>1, <2>1 DEF TargetAngle
  <1>3. nextAngle(f, n) \in regMinOpenAngle .. regMaxOpenAngle
    BY <1>2, ControlAssumption DEF ControlAssumption, nextAngle, Clamp
  <1> QED
    BY <1>3, ControlAssumption DEF ControlAssumption, ControlledAngle, AngleMin

\* An active state may move its servo.
LEMMA ServoExecuteGood ==
    ASSUME NEW b, GoodBoard(b), NEW a \in Int, b.state \in ActiveStates
    PROVE  LET e == servoExecute(b, a) IN
           GoodBoard(e) /\ e.state = b.state /\ e.status = b.status
           /\ e.manual = b.manual
  <1> DEFINE e == servoExecute(b, a)
  <1>1. /\ e \in Boards /\ e.state = b.state /\ e.status = b.status
        /\ e.DC_count = b.DC_count
        /\ e.servoArmed = b.servoArmed /\ e.manual = b.manual
    BY ServoExecuteKeeps DEF GoodBoard
  <1> HIDE DEF e
  <1>2. e.state \notin ClosedStates
    BY <1>1 DEF ClosedStates, ActiveStates
  <1>3. GoodBoard(e)
    BY <1>1, <1>2
    DEF GoodBoard, FlagIsState, NoHalfabort, Counted, One, flagSet, ServoFollows
  <1> QED
    BY <1>1, <1>3 DEF e

\* The state's own update stays in its state, or ends pressurisation.
LEMMA MachineUpdateGood ==
    ASSUME NEW b, GoodBoard(b), NEW t \in Time, NEW f \in Int, NEW n \in Int
    PROVE  LET c == machineUpdate(b, f, n, t) IN
           /\ GoodBoard(c)
           /\ c.status \ StateFlags = b.status \ StateFlags
           /\ \/ c.state = b.state /\ c.manual = b.manual
              \/ /\ b.state = "STATE_PRESSURISE" /\ c.state = "STATE_DEFAULT"
                 /\ ~c.manual
           /\ b.state \notin ActiveStates => c = b
  <1>1. CASE b.state = "STATE_PRESSURISE"
    <2> DEFINE e == servoExecute(b, b.pressAngle)
    <2>0. b.pressAngle \in Int /\ b.state \in ActiveStates
      BY <1>1 DEF GoodBoard, Boards, ActiveStates
    <2>1. GoodBoard(e) /\ e.state = b.state /\ e.status = b.status /\ e.manual = b.manual
      BY <2>0, ServoExecuteGood
    <2>2. machineUpdate(b, f, n, t) =
              IF f >= P_setpoint + P_press_extra
              THEN changeState(e, "STATE_DEFAULT", t) ELSE e
      BY <1>1 DEF machineUpdate, pressuriseUpdate
    <2> HIDE DEF e
    <2>3. LET c == changeState(e, "STATE_DEFAULT", t) IN
          /\ GoodBoard(c) /\ c.state = "STATE_DEFAULT" /\ ~c.manual
          /\ c.status \ StateFlags = e.status \ StateFlags
      BY <2>1, ChangeStateGood DEF ClosedStates
    <2> QED
      BY <1>1, <2>0, <2>1, <2>2, <2>3
  <1>2. CASE b.state = "STATE_CONTROLLED"
    <2> DEFINE a == ControlledAngle(f, n, Elapsed(t, b.stateEntry) < StartPeriod)
    <2>1. a \in Int
      <3>1. (Elapsed(t, b.stateEntry) < StartPeriod) \in BOOLEAN
        OBVIOUS
      <3>2. a \in regMinOpenAngle .. regMaxOpenAngle
        BY <3>1, ControlledAngleBounded
      <3> QED
        BY <3>2
    <2>2. machineUpdate(b, f, n, t) = servoExecute(b, a)
      BY <1>2 DEF machineUpdate, controlledUpdate
    <2> HIDE DEF a
    <2>3. b.state \in ActiveStates
      BY <1>2 DEF ActiveStates
    <2> QED
      BY <2>1, <2>2, <2>3, ServoExecuteGood
  <1>3. CASE b.state \notin {"STATE_PRESSURISE", "STATE_CONTROLLED"}
    BY <1>3 DEF machineUpdate
  <1> QED
    BY <1>1, <1>2, <1>3

\* What a pressure check leaves of a board: everything but its error flags
\* and the counter; it neither sets the half abort flag nor clears a latch.
Checked(b, c) ==
    /\ c \in Boards
    /\ c.state = b.state /\ c.servoArmed = b.servoArmed
    /\ c.angle = b.angle /\ c.manual = b.manual
    /\ c.stateEntry = b.stateEntry /\ c.sinceEntry = b.sinceEntry
    /\ SamePower(b, c)
    /\ c.status \cap StateFlags = b.status \cap StateFlags
    /\ "ERROR_HALFABORT" \in c.status => "ERROR_HALFABORT" \in b.status
    /\ "ERROR_CRITICALOVP" \in b.status => "ERROR_CRITICALOVP" \in c.status

\* The disconnects are as before.
SameDisconnects(b, c) ==
    /\ c.DC_count = b.DC_count
    /\ \A f \in {"ERROR_FBP_DC", "ERROR_N2P_DC"} : f \in c.status <=> f \in b.status

\* Setting an error flag other than the half abort one is such a check.
LEMMA NewFlagChecked ==
    ASSUME NEW b \in Boards, NEW f \in ErrorFlags \ {"ERROR_HALFABORT"}
    PROVE  /\ Checked(b, newFlag(b, f))
           /\ newFlag(b, f).status = b.status \cup {f}
           /\ newFlag(b, f).DC_count = b.DC_count
  <1>1. f \notin StateFlags
    BY DEF ErrorFlags, StateFlags, ActiveStates
  <1>2. b.status \cup {f} \in SUBSET (StateFlags \cup ErrorFlags)
    BY DEF Boards
  <1>3. /\ newFlag(b, f) \in Boards
        /\ newFlag(b, f).status = b.status \cup {f}
        /\ newFlag(b, f).state = b.state
        /\ newFlag(b, f).servoArmed = b.servoArmed
        /\ newFlag(b, f).angle = b.angle
        /\ newFlag(b, f).manual = b.manual
        /\ newFlag(b, f).DC_count = b.DC_count
        /\ newFlag(b, f).stateEntry = b.stateEntry
        /\ newFlag(b, f).sinceEntry = b.sinceEntry
        /\ SamePower(b, newFlag(b, f))
    BY <1>2 DEF newFlag, Boards, SamePower
  <1> QED
    BY <1>1, <1>3 DEF Checked

\* Clearing an error flag other than the latch is such a check.
LEMMA DeleteFlagChecked ==
    ASSUME NEW b \in Boards, NEW f \in ErrorFlags \ {"ERROR_CRITICALOVP"}
    PROVE  /\ Checked(b, deleteFlag(b, f))
           /\ deleteFlag(b, f).status = b.status \ {f}
           /\ deleteFlag(b, f).DC_count = b.DC_count
  <1>1. f \notin StateFlags
    BY DEF ErrorFlags, StateFlags, ActiveStates
  <1>2. /\ deleteFlag(b, f) \in Boards
        /\ deleteFlag(b, f).status = b.status \ {f}
        /\ deleteFlag(b, f).state = b.state
        /\ deleteFlag(b, f).servoArmed = b.servoArmed
        /\ deleteFlag(b, f).angle = b.angle
        /\ deleteFlag(b, f).manual = b.manual
        /\ deleteFlag(b, f).DC_count = b.DC_count
        /\ deleteFlag(b, f).stateEntry = b.stateEntry
        /\ deleteFlag(b, f).sinceEntry = b.sinceEntry
        /\ SamePower(b, deleteFlag(b, f))
    BY DEF deleteFlag, Boards, SamePower
  <1> QED
    BY <1>1, <1>2 DEF Checked

\* The disconnect check moves the counter exactly when it moves its flag.
LEMMA CheckDisconnectKeeps ==
    ASSUME NEW b \in Boards, Counted(b), NEW v \in Int,
           NEW f \in {"ERROR_FBP_DC", "ERROR_N2P_DC"}
    PROVE  LET c == checkDisconnect(b, v, f) IN Checked(b, c) /\ Counted(c)
  <1> DEFINE p == newFlag(b, f)
             q == deleteFlag(b, f)
  <1>0. f \in ErrorFlags \ {"ERROR_HALFABORT", "ERROR_CRITICALOVP"}
    BY DEF ErrorFlags
  <1>1. CASE v < P_disconnect /\ ~flagSet(b, f)
    <2>1. Checked(b, p) /\ p.status = b.status \cup {f} /\ p.DC_count = b.DC_count
      BY <1>0, NewFlagChecked
    <2>2. p.DC_count \in {0, 1}
      BY <1>1, <2>1 DEF Counted, One, flagSet
    <2>3. checkDisconnect(b, v, f) = [p EXCEPT !.DC_count = (@ + 1) % 256]
      BY <1>1 DEF checkDisconnect
    <2> HIDE DEF p
    <2>4. /\ checkDisconnect(b, v, f) = [p EXCEPT !.DC_count = p.DC_count + 1]
          /\ p.DC_count + 1 \in 0 .. 255
      BY <2>2, <2>3
    <2>5. checkDisconnect(b, v, f).DC_count = p.DC_count + 1
      BY <2>1, <2>4 DEF Checked, Boards
    <2>6. /\ Checked(b, checkDisconnect(b, v, f))
          /\ checkDisconnect(b, v, f).status = p.status
      BY <2>1, <2>4 DEF Checked, Boards, SamePower
    <2> QED
      BY <1>1, <2>1, <2>5, <2>6 DEF Counted, One, flagSet
  <1>2. CASE v > P_disconnect /\ flagSet(b, f)
    <2>1. Checked(b, q) /\ q.status = b.status \ {f} /\ q.DC_count = b.DC_count
      BY <1>0, DeleteFlagChecked
    <2>2. q.DC_count \in {1, 2}
      BY <1>2, <2>1 DEF Counted, One, flagSet
    <2>3. checkDisconnect(b, v, f) = [q EXCEPT !.DC_count = (@ - 1) % 256]
      BY <1>2, GregAssumption DEF GregAssumption, checkDisconnect
    <2> HIDE DEF q
    <2>4. /\ checkDisconnect(b, v, f) = [q EXCEPT !.DC_count = q.DC_count - 1]
          /\ q.DC_count - 1 \in 0 .. 255
      BY <2>2, <2>3
    <2>5. checkDisconnect(b, v, f).DC_count = q.DC_count - 1
      BY <2>1, <2>4 DEF Checked, Boards
    <2>6. /\ Checked(b, checkDisconnect(b, v, f))
          /\ checkDisconnect(b, v, f).status = q.status
      BY <2>1, <2>4 DEF Checked, Boards, SamePower
    <2> QED
      BY <1>2, <2>1, <2>5, <2>6 DEF Counted, One, flagSet
  <1>3. CASE /\ ~(v < P_disconnect /\ ~flagSet(b, f))
             /\ ~(v > P_disconnect /\ flagSet(b, f))
    BY <1>3 DEF checkDisconnect, Checked, SamePower
  <1> QED
    BY <1>1, <1>2, <1>3

\* The other checks set or clear one flag that is none of those.
LEMMA CheckFlagKeeps ==
    ASSUME NEW b \in Boards,
           NEW f \in {"ERROR_FBP_COVP", "ERROR_FEEDBACK_P", "ERROR_N2_P"},
           NEW c \in {b, newFlag(b, f), deleteFlag(b, f)}
    PROVE  /\ Checked(b, c) /\ SameDisconnects(b, c)
           /\ c.status \ {f} = b.status \ {f}
  <1>1. f \in ErrorFlags \ {"ERROR_HALFABORT", "ERROR_CRITICALOVP"}
    BY DEF ErrorFlags
  <1>2. f \notin {"ERROR_FBP_DC", "ERROR_N2P_DC"}
    OBVIOUS
  <1>3. Checked(b, newFlag(b, f)) /\ Checked(b, deleteFlag(b, f)) /\ Checked(b, b)
    BY <1>1, NewFlagChecked, DeleteFlagChecked DEF Checked, SamePower
  <1>4. /\ newFlag(b, f).status = b.status \cup {f}
        /\ newFlag(b, f).DC_count = b.DC_count
        /\ deleteFlag(b, f).status = b.status \ {f}
        /\ deleteFlag(b, f).DC_count = b.DC_count
    BY <1>1, NewFlagChecked, DeleteFlagChecked
  <1> QED
    BY <1>2, <1>3, <1>4 DEF SameDisconnects

\* The checks of one update run one after the other.
LEMMA CheckedTransitive ==
    ASSUME NEW a, NEW b, NEW c, Checked(a, b), Checked(b, c)
    PROVE  Checked(a, c)
  BY DEF Checked, SamePower

\* A board that has passed all checks: good, and latched when the feedback
\* pressure was over the half abort threshold.
LEMMA CheckFlagsGood ==
    ASSUME NEW b, GoodBoard(b), NEW f \in Int, NEW n \in Int
    PROVE  LET c == checkFlags(b, f, n) IN
           /\ GoodBoard(c) /\ Checked(b, c)
           /\ f > P_half_abort => flagSet(c, "ERROR_CRITICALOVP")
  <1> DEFINE d1   == checkDisconnect(b, f, "ERROR_FBP_DC")
             d2   == checkDisconnect(d1, n, "ERROR_N2P_DC")
             covp == checkCOverPressure(d2, f, "ERROR_FBP_COVP")
             hovp == checkHOverPressure(covp, f, "ERROR_FBP_COVP")
             gen  == checkGenericPTFlag(hovp, "ERROR_FEEDBACK_P",
                         {"ERROR_FBP_COVP", "ERROR_FBP_DC", "ERROR_FBP_HOVP"})
             n2f  == checkGenericPTFlag(gen, "ERROR_N2_P", {"ERROR_N2P_DC"})
             c    == IF flagSet(n2f, "ERROR_FBP_COVP")
                     THEN newFlag(n2f, "ERROR_CRITICALOVP") ELSE n2f
  <1>1. Checked(b, d1) /\ Counted(d1)
    BY CheckDisconnectKeeps DEF GoodBoard
  <1> HIDE DEF d1
  <1>2. Checked(d1, d2) /\ Counted(d2)
    BY <1>1, CheckDisconnectKeeps DEF Checked
  <1> HIDE DEF d2
  <1>3. Checked(d2, covp) /\ SameDisconnects(d2, covp)
    <2>1. covp \in {d2, newFlag(d2, "ERROR_FBP_COVP"), deleteFlag(d2, "ERROR_FBP_COVP")}
      BY DEF checkCOverPressure, checkThreshold
    <2> QED
      BY <1>2, <2>1, CheckFlagKeeps DEF Checked
  <1> HIDE DEF covp
  <1>4. /\ Checked(covp, hovp) /\ SameDisconnects(covp, hovp)
        /\ f > P_half_abort => "ERROR_FBP_COVP" \in hovp.status
    <2>1. hovp \in {covp, newFlag(covp, "ERROR_FBP_COVP"), deleteFlag(covp, "ERROR_FBP_COVP")}
      BY DEF checkHOverPressure, checkThreshold
    <2>2. newFlag(covp, "ERROR_FBP_COVP").status = covp.status \cup {"ERROR_FBP_COVP"}
      BY <1>3, NewFlagChecked DEF Checked, ErrorFlags
    <2>3. f > P_half_abort => hovp = newFlag(covp, "ERROR_FBP_COVP")
      BY DEF checkHOverPressure, checkThreshold
    <2> QED
      BY <1>3, <2>1, <2>2, <2>3, CheckFlagKeeps DEF Checked
  <1> HIDE DEF hovp
  <1>5. /\ Checked(hovp, gen) /\ SameDisconnects(hovp, gen)
        /\ gen.status \ {"ERROR_FEEDBACK_P"} = hovp.status \ {"ERROR_FEEDBACK_P"}
    <2>1. gen \in {hovp, newFlag(hovp, "ERROR_FEEDBACK_P"), deleteFlag(hovp, "ERROR_FEEDBACK_P")}
      BY DEF checkGenericPTFlag
    <2> QED
      BY <1>4, <2>1, CheckFlagKeeps DEF Checked
  <1> HIDE DEF gen
  <1>6. /\ Checked(gen, n2f) /\ SameDisconnects(gen, n2f)
        /\ n2f.status \ {"ERROR_N2_P"} = gen.status \ {"ERROR_N2_P"}
    <2>1. n2f \in {gen, newFlag(gen, "ERROR_N2_P"), deleteFlag(gen, "ERROR_N2_P")}
      BY DEF checkGenericPTFlag
    <2> QED
      BY <1>5, <2>1, CheckFlagKeeps DEF Checked
  <1> HIDE DEF n2f
  <1>7. /\ Checked(n2f, newFlag(n2f, "ERROR_CRITICALOVP"))
        /\ newFlag(n2f, "ERROR_CRITICALOVP").status = n2f.status \cup {"ERROR_CRITICALOVP"}
        /\ newFlag(n2f, "ERROR_CRITICALOVP").DC_count = n2f.DC_count
    BY <1>6, NewFlagChecked DEF Checked, ErrorFlags
  <1>8. /\ Checked(n2f, c) /\ SameDisconnects(n2f, c)
        /\ flagSet(n2f, "ERROR_FBP_COVP") => flagSet(c, "ERROR_CRITICALOVP")
    BY <1>6, <1>7 DEF SameDisconnects, Checked, SamePower, flagSet
  <1>9. f > P_half_abort => flagSet(n2f, "ERROR_FBP_COVP")
    BY <1>4, <1>5, <1>6 DEF flagSet
  <1>10. checkFlags(b, f, n) = c
    BY DEF checkFlags, c, n2f, gen, hovp, covp, d2, d1
  <1> HIDE DEF c
  <1>11. Checked(b, c)
    <2>1. Checked(b, covp)
      BY <1>1, <1>2, <1>3, CheckedTransitive
    <2>2. Checked(b, n2f)
      BY <2>1, <1>4, <1>5, <1>6, CheckedTransitive
    <2> QED
      BY <2>2, <1>8, CheckedTransitive
  <1>12. Counted(c)
    BY <1>2, <1>3, <1>4, <1>5, <1>6, <1>8
    DEF SameDisconnects, Counted, One, flagSet
  <1>13. GoodBoard(c)
    BY <1>11, <1>12
    DEF GoodBoard, Checked, FlagIsState, NoHalfabort, ServoFollows
  <1> QED
    BY <1>8, <1>9, <1>10, <1>11, <1>13

\* After the checks a board with the latch set is in a closed state.
LEMMA CheckPressuresGood ==
    ASSUME NEW b, GoodBoard(b), NEW t \in Time, NEW f \in Int, NEW n \in Int
    PROVE  LET c == checkPressures(b, f, n, t) IN
           /\ GoodBoard(c)
           /\ flagSet(b, "ERROR_CRITICALOVP") \/ f > P_half_abort
                 => flagSet(c, "ERROR_CRITICALOVP")
           /\ flagSet(c, "ERROR_CRITICALOVP") => c.state \notin ActiveStates
           /\ \/ Checked(b, c)
              \/ /\ b.state \in ActiveStates /\ c.state = "STATE_SHUTDOWN"
                 /\ flagSet(c, "ERROR_CRITICALOVP") /\ ~c.manual
  <1> DEFINE g == checkFlags(b, f, n)
             s == changeState(g, "STATE_SHUTDOWN", t)
  <1>1. /\ GoodBoard(g) /\ Checked(b, g)
        /\ f > P_half_abort => flagSet(g, "ERROR_CRITICALOVP")
    BY CheckFlagsGood
  <1>2. checkPressures(b, f, n, t) =
            IF mustShutdown(g) THEN s
            ELSE IF mustHalfabort(g) THEN changeState(g, "STATE_HALFABORT", t)
            ELSE g
    BY DEF checkPressures
  <1> HIDE DEF g
  <1>3. /\ GoodBoard(s) /\ s.state = "STATE_SHUTDOWN" /\ ~s.manual
        /\ s.status \ StateFlags = g.status \ StateFlags
    BY <1>1, ChangeStateGood DEF ClosedStates
  <1> HIDE DEF s
  <1>4. ~mustHalfabort(g)
    BY <1>1 DEF mustHalfabort, GoodBoard, NoHalfabort, flagSet
  <1>5. "ERROR_CRITICALOVP" \notin StateFlags
    BY DEF StateFlags, ActiveStates
  <1>6. \A h \in StateFlags : flagSet(g, h) <=> g.state = h
    BY <1>1 DEF GoodBoard, FlagIsState, flagSet
  <1>7. CASE mustShutdown(g)
    <2>1. g.state \in ActiveStates
      BY <1>1, <1>6, <1>7
      DEF mustShutdown, GoodBoard, NoHalfabort, Boards, StateFlags
    <2>2. flagSet(s, "ERROR_CRITICALOVP")
      BY <1>3, <1>5, <1>7 DEF mustShutdown, flagSet
    <2> QED
      BY <1>1, <1>2, <1>3, <1>7, <2>1, <2>2 DEF Checked, ActiveStates
  <1>8. CASE ~mustShutdown(g)
    <2>1. flagSet(g, "ERROR_CRITICALOVP") => g.state \notin ActiveStates
      BY <1>6, <1>8 DEF mustShutdown, StateFlags, ActiveStates
    <2> QED
      BY <1>1, <1>2, <1>4, <1>8, <2>1 DEF Checked, flagSet
  <1> QED
    BY <1>7, <1>8

\* NRCGreg::update as a whole.
LEMMA UpdateGood ==
    ASSUME NEW b, GoodBoard(b), NEW on \in BOOLEAN, NEW t \in Time,
           NEW f \in Int, NEW n \in Int
    PROVE  LET c == update(b, on, f, n, t) IN
           /\ GoodBoard(c)
           /\ flagSet(b, "ERROR_CRITICALOVP") \/ f > P_half_abort
                 => flagSet(c, "ERROR_CRITICALOVP")
           /\ flagSet(c, "ERROR_CRITICALOVP") => c.state \notin ActiveStates
           /\ ~on => c.state = "STATE_DEFAULT"
           /\ \/ c.state = b.state /\ c.manual = b.manual
              \/ c.state = "STATE_DEFAULT" /\ ~c.manual
                    /\ b.state # "STATE_DEFAULT"
                    /\ (~on \/ b.state \in ActiveStates)
              \/ /\ c.state = "STATE_SHUTDOWN" /\ ~c.manual
                 /\ on /\ b.state \in ActiveStates
                 /\ flagSet(c, "ERROR_CRITICALOVP")
  <1> DEFINE p == buckManager(b, t)
             a == IF ~on /\ ~flagSet(p, "STATE_DEFAULT")
                  THEN changeState(p, "STATE_DEFAULT", t) ELSE p
             m == machineUpdate(a, f, n, t)
             c == checkPressures(m, f, n, t)
  <1>1. GoodBoard(p) /\ SameButPower(b, p)
    BY BuckManagerGood
  <1>2. /\ GoodBoard(a)
        /\ a.status \ StateFlags = b.status \ StateFlags
        /\ on => a.state = b.state /\ a.manual = b.manual
        /\ ~on => a.state = "STATE_DEFAULT"
        /\ \/ a.state = b.state /\ a.manual = b.manual
           \/ ~a.manual /\ b.state # "STATE_DEFAULT"
    <2>1. CASE ~on /\ ~flagSet(p, "STATE_DEFAULT")
      <3>1. a = changeState(p, "STATE_DEFAULT", t)
        BY <2>1
      <3> HIDE DEF a, p
      <3>2. p.state # "STATE_DEFAULT"
        BY <1>1, <2>1 DEF GoodBoard, FlagIsState, flagSet
      <3> QED
        BY <1>1, <2>1, <3>1, <3>2, ChangeStateGood DEF ClosedStates, SameButPower
    <2>2. CASE ~(~on /\ ~flagSet(p, "STATE_DEFAULT"))
      <3>1. a = p
        BY <2>2
      <3>2. flagSet(p, "STATE_DEFAULT") => p.state = "STATE_DEFAULT"
        BY <1>1 DEF GoodBoard, FlagIsState, flagSet, StateFlags
      <3> HIDE DEF a, p
      <3> QED
        BY <1>1, <2>2, <3>1, <3>2 DEF SameButPower
    <2> QED
      BY <2>1, <2>2
  <1>3. update(b, on, f, n, t) = c
    BY DEF update
  <1> HIDE DEF p, a
  <1>4. /\ GoodBoard(m)
        /\ m.status \ StateFlags = a.status \ StateFlags
        /\ \/ m.state = a.state /\ m.manual = a.manual
           \/ /\ a.state = "STATE_PRESSURISE" /\ m.state = "STATE_DEFAULT"
              /\ ~m.manual
        /\ a.state \notin ActiveStates => m = a
    BY <1>2, MachineUpdateGood
  <1> HIDE DEF m
  <1>5. /\ GoodBoard(c)
        /\ flagSet(m, "ERROR_CRITICALOVP") \/ f > P_half_abort
              => flagSet(c, "ERROR_CRITICALOVP")
        /\ flagSet(c, "ERROR_CRITICALOVP") => c.state \notin ActiveStates
        /\ \/ c.state = m.state /\ c.manual = m.manual
           \/ /\ m.state \in ActiveStates /\ c.state = "STATE_SHUTDOWN"
              /\ flagSet(c, "ERROR_CRITICALOVP") /\ ~c.manual
    BY <1>4, CheckPressuresGood DEF Checked
  <1> HIDE DEF c
  <1>6. flagSet(b, "ERROR_CRITICALOVP") => flagSet(m, "ERROR_CRITICALOVP")
    <2>1. "ERROR_CRITICALOVP" \notin StateFlags
      BY DEF StateFlags, ActiveStates
    <2> QED
      BY <1>2, <1>4, <2>1 DEF flagSet
  <1>7. "STATE_DEFAULT" \notin ActiveStates /\ "STATE_PRESSURISE" \in ActiveStates
    BY DEF ActiveStates
  <1> QED
    BY <1>2, <1>3, <1>4, <1>5, <1>6, <1>7

\* An update that ends in Controlled, with nobody else moving the servo, found
\* an enabled regulator in Controlled and leaves the servo where the control
\* law wants it for the pressures it read.
LEMMA UpdateControls ==
    ASSUME NEW b, GoodBoard(b), NEW on \in BOOLEAN, NEW t \in Time,
           NEW f \in Int, NEW n \in Int, NEW c, c = update(b, on, f, n, t),
           c.state = "STATE_CONTROLLED", ~c.manual
    PROVE  /\ on /\ b.state = "STATE_CONTROLLED"
           /\ c.angle = ControlledAngle(f, n, Elapsed(t, c.stateEntry) < StartPeriod)
  <1> DEFINE p == buckManager(b, t)
             m == machineUpdate(p, f, n, t)
             a == ControlledAngle(f, n, Elapsed(t, p.stateEntry) < StartPeriod)
  <1>1. on /\ b.state = "STATE_CONTROLLED" /\ ~b.manual
    BY UpdateGood DEF ActiveStates
  <1>2. GoodBoard(p) /\ SameButPower(b, p)
    BY BuckManagerGood
  <1>3. c = checkPressures(m, f, n, t)
    BY <1>1 DEF update
  <1>4. p \in Boards /\ p.servoArmed /\ p.state = "STATE_CONTROLLED"
    BY <1>1, <1>2 DEF GoodBoard, ServoFollows, SameButPower, ActiveStates
  <1>5. GoodBoard(m)
    BY <1>2, MachineUpdateGood
  <1>6. m = servoExecute(p, a)
    BY <1>4 DEF machineUpdate, controlledUpdate
  <1> HIDE DEF p
  <1>7. a \in regMinOpenAngle .. regMaxOpenAngle
    <2>1. (Elapsed(t, p.stateEntry) < StartPeriod) \in BOOLEAN
      OBVIOUS
    <2> QED
      BY <2>1, ControlledAngleBounded
  <1> HIDE DEF a
  <1>8. m = [p EXCEPT !.angle = a]
    <2>1. Clamp(a, 0, regMaxOpenAngle) = a
      BY <1>7, ControlAssumption DEF ControlAssumption, Clamp
    <2> QED
      BY <1>4, <1>6, <2>1 DEF servoExecute
  <1>9. m.angle = a /\ m.stateEntry = p.stateEntry
    BY <1>4, <1>8 DEF Boards
  <1> HIDE DEF m
  <1>10. Checked(m, c)
    BY <1>3, <1>5, CheckPressuresGood
  <1> QED
    BY <1>1, <1>9, <1>10 DEF Checked, a

-----------------------------------------------------------------------------
(* The specification.                                                      *)

\* After an update in Controlled the servo is where the law wants it.
LawFollowed ==
    updated /\ greg.state = "STATE_CONTROLLED" /\ ~greg.manual =>
        greg.angle =
            ControlledAngle(fb, n2, Elapsed(now, greg.stateEntry) < StartPeriod)

\* The inductive invariant: types, a good board, and between an update and the
\* next command no active state with the latch set, and the law followed.
Inv == TypeOK /\ GoodBoard(greg) /\ TrippedMeansClosed /\ LawFollowed

\* A board after setup is good, in Default, untripped and not in manual.
LEMMA SetupGood ==
    /\ GoodBoard(setup)
    /\ setup.state = "STATE_DEFAULT"
    /\ ~flagSet(setup, "ERROR_CRITICALOVP")
    /\ ~setup.manual
  <1> DEFINE p == buckOn(blankBoard, 0)
             q == buckOff(p, 0, BuckExit)
             c == enter(q, "STATE_DEFAULT", 0)
  <1>1. 0 \in Time /\ BuckExit \in Nat
    BY BuckAssumption DEF BuckAssumption, Time
  <1>2. blankBoard \in Boards /\ blankBoard.status = {} /\ blankBoard.DC_count = 0
    BY <1>1, ServoAssumption, ControlAssumption, GregAssumption
    DEF ServoAssumption, ControlAssumption, GregAssumption, blankBoard, Boards,
        AngleLims, StateFlags
  <1>3. p \in Boards /\ SameButPower(blankBoard, p)
    BY <1>1, <1>2, BuckOnKeeps
  <1> HIDE DEF p
  <1>4. q \in Boards /\ SameButPower(p, q)
    BY <1>1, <1>3, BuckOffKeeps
  <1> HIDE DEF q
  <1>5. q.status = {} /\ q.DC_count = 0
    BY <1>2, <1>3, <1>4 DEF SameButPower
  <1>6. Entered(q, "STATE_DEFAULT", 0, c)
    BY <1>1, <1>4, EnterKeeps DEF StateFlags
  <1>7. setup = c
    BY DEF setup, enter, c, q, p
  <1> HIDE DEF c
  <1>8. /\ c \in Boards /\ c.state = "STATE_DEFAULT"
        /\ c.status = {"STATE_DEFAULT"} /\ c.DC_count = 0
        /\ c.angle = regClosedAngle /\ ~c.servoArmed /\ ~c.manual
    BY <1>5, <1>6 DEF Entered, ClosedStates
  <1>9. "STATE_DEFAULT" \in StateFlags /\ "STATE_DEFAULT" \notin ActiveStates
    BY DEF StateFlags, ActiveStates
  <1>10. GoodBoard(c)
    BY <1>8, <1>9
    DEF GoodBoard, FlagIsState, NoHalfabort, Counted, One, flagSet, ServoFollows
  <1> QED
    BY <1>7, <1>8, <1>10 DEF flagSet

\* The invariant holds at the start.
LEMMA InitInv == Init => Inv
  <1> SUFFICES ASSUME Init PROVE Inv
    OBVIOUS
  <1>1. GoodBoard(greg) /\ ~updated
    BY SetupGood DEF Init
  <1>2. valve \in AngleLims
    BY ServoAssumption, ControlAssumption
    DEF ServoAssumption, ControlAssumption, Init, AngleLims
  <1>3. now \in Time /\ boots \in 0 .. MaxBoots
    BY BuckAssumption, GregAssumption DEF BuckAssumption, GregAssumption, Init, Time
  <1>4. ~armed /\ fb = 0 /\ n2 = 0
    BY DEF Init
  <1>5. TypeOK
    <2>1. armed \in BOOLEAN
      BY DEF Init
    <2>2. updated \in BOOLEAN
      BY DEF Init
    <2> QED
      BY <1>1, <1>2, <1>3, <1>4, <2>1, <2>2 DEF TypeOK, GoodBoard
  <1> QED
    BY <1>1, <1>5 DEF Inv, TrippedMeansClosed, LawFollowed

\* A direct servo command leaves a good board: it says so in manual.
LEMMA DirectServoGood ==
    ASSUME NEW b, GoodBoard(b), NEW c \in Boards,
           c.state = b.state, c.status = b.status, c.DC_count = b.DC_count
    PROVE  /\ GoodBoard([c EXCEPT !.manual = TRUE])
           /\ [c EXCEPT !.manual = TRUE].state = b.state
           /\ [c EXCEPT !.manual = TRUE].status = b.status
           /\ [c EXCEPT !.manual = TRUE].manual
  <1> DEFINE d == [c EXCEPT !.manual = TRUE]
  <1>1. /\ d \in Boards /\ d.manual
        /\ d.state = b.state /\ d.status = b.status /\ d.DC_count = b.DC_count
    BY DEF Boards
  <1> HIDE DEF d
  <1>2. GoodBoard(d)
    BY <1>1
    DEF GoodBoard, FlagIsState, NoHalfabort, Counted, One, flagSet, ServoFollows
  <1> QED
    BY <1>1, <1>2 DEF d

\* What the servo's own commands can do to the board.
DirectServo ==
    /\ GoodBoard(greg')
    /\ greg'.state = greg.state /\ greg'.status = greg.status
    /\ greg'.manual

\* The three commands of the servo's own service are such commands.
LEMMA DirectServoStep ==
    ASSUME Inv,
           ServoArmCommand \/ ServoDisarmCommand \/ ServoExecuteCommand
    PROVE  DirectServo /\ UNCHANGED armed /\ Handled
  <1>1. CASE ServoArmCommand
    <2>1. /\ servoArm(greg) \in Boards
          /\ servoArm(greg).state = greg.state
          /\ servoArm(greg).status = greg.status
          /\ servoArm(greg).DC_count = greg.DC_count
      BY DEF Inv, TypeOK, servoArm, Boards
    <2> QED
      BY <1>1, <2>1, DirectServoGood DEF Inv, DirectServo, ServoArmCommand, directServo
  <1>2. CASE ServoDisarmCommand
    <2>1. /\ servoDisarm(greg) \in Boards
          /\ servoDisarm(greg).state = greg.state
          /\ servoDisarm(greg).status = greg.status
          /\ servoDisarm(greg).DC_count = greg.DC_count
      BY DEF Inv, TypeOK, servoDisarm, Boards
    <2> QED
      BY <1>2, <2>1, DirectServoGood DEF Inv, DirectServo, ServoDisarmCommand, directServo
  <1>3. CASE ServoExecuteCommand
    <2>1. PICK a \in ServoArgs : directServo(servoExecute(greg, a))
      BY <1>3 DEF ServoExecuteCommand
    <2>2. a \in Int
      BY GregAssumption DEF GregAssumption
    <2>3. /\ servoExecute(greg, a) \in Boards
          /\ servoExecute(greg, a).state = greg.state
          /\ servoExecute(greg, a).status = greg.status
          /\ servoExecute(greg, a).DC_count = greg.DC_count
      BY <2>2, ServoExecuteKeeps DEF Inv, TypeOK
    <2> QED
      BY <2>1, <2>3, DirectServoGood DEF Inv, DirectServo, directServo
  <1> QED
    BY <1>1, <1>2, <1>3

\* Execution of a state command.
LEMMA ExecuteStep ==
    ASSUME Inv, NEW s \in ActiveStates \cup {"STATE_SHUTDOWN"}, execute(s)
    PROVE  /\ GoodBoard(greg') /\ greg'.state = s
           /\ Tripped' <=> Tripped
           /\ s = "STATE_SHUTDOWN" => ~greg'.manual
           /\ s \in ActiveStates => greg'.manual = greg.manual
           /\ armed /\ UNCHANGED armed /\ Handled
  <1>1. greg' = changeState(greg, s, now)
    BY DEF execute
  <1>2. /\ GoodBoard(greg') /\ greg'.state = s
        /\ greg'.status \ StateFlags = greg.status \ StateFlags
        /\ s \in ClosedStates => ~greg'.manual
        /\ s \in ActiveStates => greg'.manual = greg.manual
    BY <1>1, ChangeStateGood DEF Inv, TypeOK, ClosedStates
  <1>3. "ERROR_CRITICALOVP" \notin StateFlags
    BY DEF StateFlags, ActiveStates
  <1> QED
    BY <1>2, <1>3 DEF execute, Tripped, flagSet, ClosedStates

\* The two extended commands move the servo or set the pressurising angle.
LEMMA ExtendedStep ==
    ASSUME Inv, DebugExecute \/ SetPressAngle
    PROVE  /\ GoodBoard(greg')
           /\ greg'.state = greg.state /\ greg'.status = greg.status
           /\ greg'.manual = greg.manual
           /\ UNCHANGED armed /\ Handled
  <1>1. CASE DebugExecute
    <2>1. PICK a \in DebugArgs : greg' = servoExecute(greg, a)
      BY <1>1 DEF DebugExecute
    <2>2. greg.state \in ActiveStates
      BY <1>1
      DEF DebugExecute, Inv, GoodBoard, FlagIsState, flagSet, StateFlags, ActiveStates
    <2>3. a \in Int
      BY GregAssumption DEF GregAssumption
    <2> QED
      BY <1>1, <2>1, <2>2, <2>3, ServoExecuteGood DEF Inv, DebugExecute
  <1>2. CASE SetPressAngle
    <2>1. PICK a \in PressAngleArgs : greg' = [greg EXCEPT !.pressAngle = a]
      BY <1>2 DEF SetPressAngle
    <2>2. a \in Nat
      BY GregAssumption DEF GregAssumption
    <2>3. /\ greg' \in Boards
          /\ greg'.state = greg.state /\ greg'.status = greg.status
          /\ greg'.manual = greg.manual /\ greg'.servoArmed = greg.servoArmed
          /\ greg'.angle = greg.angle /\ greg'.DC_count = greg.DC_count
      BY <2>1, <2>2 DEF Inv, TypeOK, Boards
    <2>4. GoodBoard(greg')
      BY <2>3
      DEF Inv, GoodBoard, FlagIsState, NoHalfabort, Counted, One, flagSet, ServoFollows
    <2> QED
      BY <1>2, <2>3, <2>4 DEF SetPressAngle
  <1> QED
    BY <1>1, <1>2

\* A tick moves the valve and the clock.
LEMMA TickStep ==
    ASSUME Inv, Tick
    PROVE  /\ GoodBoard(greg')
           /\ greg'.state = greg.state /\ greg'.status = greg.status
           /\ greg'.manual = greg.manual
           /\ valve' \in {valve, greg.angle}
           /\ now' \in Time
  <1>1. /\ greg' \in Boards
        /\ greg'.state = greg.state /\ greg'.status = greg.status
        /\ greg'.manual = greg.manual /\ greg'.servoArmed = greg.servoArmed
        /\ greg'.angle = greg.angle /\ greg'.DC_count = greg.DC_count
    <2> DEFINE k == Older(greg.sinceEntry)
               d == IF greg.buckEN THEN 0 ELSE Older(greg.dark)
    <2>1. k \in 0 .. AgeCap /\ d \in 0 .. AgeCap
      BY GregAssumption DEF GregAssumption, Inv, TypeOK, Boards, Older
    <2>2. greg' = [greg EXCEPT !.sinceEntry = k, !.dark = d]
      BY DEF Tick
    <2> HIDE DEF k, d
    <2> QED
      BY <2>1, <2>2 DEF Inv, TypeOK, Boards
  <1>2. GoodBoard(greg')
    BY <1>1
    DEF Inv, GoodBoard, FlagIsState, NoHalfabort, Counted, One, flagSet, ServoFollows
  <1>3. now' \in Time
    BY ClockWraps DEF Tick, Inv, TypeOK, Time
  <1> QED
    BY <1>1, <1>2, <1>3 DEF Tick

\* One iteration of the loop.
LEMMA UpdateStep ==
    ASSUME Inv, Update
    PROVE  /\ GoodBoard(greg')
           /\ fb' \in Int /\ n2' \in Int /\ updated'
           /\ Tripped \/ fb' > P_half_abort => Tripped'
           /\ Tripped' => ~Active'
           /\ ~armed => greg'.state = "STATE_DEFAULT"
           /\ \/ greg'.state = greg.state /\ greg'.manual = greg.manual
              \/ greg'.state = "STATE_DEFAULT" /\ ~greg'.manual
                    /\ greg.state # "STATE_DEFAULT" /\ (~armed \/ Active)
              \/ /\ greg'.state = "STATE_SHUTDOWN" /\ ~greg'.manual
                 /\ armed /\ Active /\ Tripped'
           /\ UNCHANGED <<armed, now, valve, boots>>
  <1>1. PICK f \in FeedbackReadings, n \in N2Readings :
            fb' = f /\ n2' = n /\ greg' = update(greg, armed, f, n, now)
    BY DEF Update
  <1>2. f \in Int /\ n \in Int
    BY GregAssumption DEF GregAssumption
  <1>3. GoodBoard(greg) /\ armed \in BOOLEAN /\ now \in Time
    BY DEF Inv, TypeOK
  <1> QED
    BY <1>1, <1>2, <1>3, UpdateGood DEF Update, Tripped, Active

\* A command guarded by a state's flag is guarded by the state.
LEMMA FlagTellsState ==
    ASSUME Inv, NEW s \in StateFlags, flagSet(greg, s)
    PROVE  greg.state = s
  BY DEF Inv, GoodBoard, FlagIsState, flagSet

\* A reset starts from setup again, and leaves the valve where it was.
LEMMA RebootStep ==
    ASSUME Inv, Reboot
    PROVE  /\ GoodBoard(greg') /\ greg'.state = "STATE_DEFAULT"
           /\ ~Tripped' /\ ~greg'.manual
           /\ boots' = boots + 1 /\ boots' \in 0 .. MaxBoots
           /\ ~armed' /\ ~updated' /\ now' \in Time
           /\ fb' = 0 /\ n2' = 0 /\ valve' = valve
  <1>1. /\ greg' = setup /\ ~armed' /\ ~updated'
        /\ boots' = boots + 1 /\ boots < MaxBoots
        /\ now' = 0 /\ fb' = 0 /\ n2' = 0 /\ valve' = valve
    BY DEF Reboot
  <1>2. boots' \in 0 .. MaxBoots
    BY <1>1, GregAssumption DEF GregAssumption, Inv, TypeOK
  <1>3. now' \in Time
    BY <1>1, BuckAssumption DEF BuckAssumption, Time
  <1> QED
    BY <1>1, <1>2, <1>3, SetupGood DEF Tripped

\* The part of the invariant every handled command leaves: a good board is
\* enough, for updated is FALSE after it.
LEMMA HandledInv ==
    ASSUME Inv, Handled, GoodBoard(greg'), armed' \in BOOLEAN
    PROVE  Inv'
  <1>1. TypeOK'
    <2>1. updated' \in BOOLEAN /\ ~updated'
      BY DEF Handled
    <2> QED
      BY <2>1 DEF Inv, TypeOK, Handled, GoodBoard
  <1>2. TrippedMeansClosed' /\ LawFollowed'
    BY DEF Handled, TrippedMeansClosed, LawFollowed
  <1> QED
    BY <1>1, <1>2 DEF Inv

\* Every command keeps the invariant.
LEMMA CommandInv == Inv /\ Command => Inv'
  <1> SUFFICES ASSUME Inv, Command PROVE Inv'
    OBVIOUS
  <1> USE HandledInv
  <1>0. GoodBoard(greg) /\ armed \in BOOLEAN
    BY DEF Inv, TypeOK
  <1>1. CASE Arm \/ Disarm
    <2>1. greg' = greg /\ Handled /\ armed' \in BOOLEAN
      BY <1>1 DEF Arm, Disarm
    <2> QED
      BY <1>0, <2>1
  <1>2. CASE ExecuteControlled
    BY <1>0, <1>2, ExecuteStep DEF ExecuteControlled, ActiveStates
  <1>3. CASE ExecuteShutdown
    BY <1>0, <1>3, ExecuteStep DEF ExecuteShutdown
  <1>4. CASE ExecuteDebug
    BY <1>0, <1>4, ExecuteStep DEF ExecuteDebug, ActiveStates
  <1>5. CASE ExecutePressurise
    BY <1>0, <1>5, ExecuteStep DEF ExecutePressurise, ActiveStates
  <1>6. CASE DebugExecute \/ SetPressAngle
    BY <1>0, <1>6, ExtendedStep
  <1>7. CASE ServoArmCommand \/ ServoDisarmCommand \/ ServoExecuteCommand
    BY <1>0, <1>7, DirectServoStep DEF DirectServo
  <1> QED
    BY <1>1, <1>2, <1>3, <1>4, <1>5, <1>6, <1>7 DEF Command

\* Every step keeps the invariant.
LEMMA StepInv == Inv /\ [Next]_vars => Inv'
  <1> SUFFICES ASSUME Inv, [Next]_vars PROVE Inv'
    OBVIOUS
  <1>1. CASE Update
    <2>1. TypeOK'
      <3>1. updated' \in BOOLEAN
        BY <1>1 DEF Update
      <3> QED
        BY <1>1, <3>1, UpdateStep DEF Inv, TypeOK, GoodBoard
    <2>2. TrippedMeansClosed'
      BY <1>1, UpdateStep DEF TrippedMeansClosed
    <2>3. LawFollowed'
      <3>1. PICK f \in FeedbackReadings, n \in N2Readings :
                fb' = f /\ n2' = n /\ greg' = update(greg, armed, f, n, now)
        BY <1>1 DEF Update
      <3>2. f \in Int /\ n \in Int
        BY GregAssumption DEF GregAssumption
      <3>3. now' = now
        BY <1>1 DEF Update
      <3> QED
        BY <3>1, <3>2, <3>3, UpdateControls DEF LawFollowed, Inv, TypeOK
    <2> QED
      BY <1>1, <2>1, <2>2, <2>3, UpdateStep DEF Inv
  <1>2. CASE Command
    BY <1>2, CommandInv
  <1>3. CASE Tick
    <2>1. /\ ~updated' /\ updated' \in BOOLEAN
          /\ armed' = armed /\ fb' = fb /\ n2' = n2 /\ boots' = boots
      BY <1>3 DEF Tick
    <2>2. valve' \in AngleLims
      BY <1>3, TickStep DEF Inv, TypeOK, Boards
    <2>3. TypeOK'
      BY <1>3, <2>1, <2>2, TickStep DEF Inv, TypeOK, GoodBoard
    <2> QED
      BY <1>3, <2>1, <2>3, TickStep DEF Inv, TrippedMeansClosed, LawFollowed
  <1>4. CASE Reboot
    <2>1. armed' \in BOOLEAN /\ updated' \in BOOLEAN
      BY <1>4 DEF Reboot
    <2>2. valve' \in AngleLims
      BY <1>4, RebootStep DEF Inv, TypeOK
    <2>3. TypeOK'
      BY <1>4, <2>1, <2>2, RebootStep DEF TypeOK, GoodBoard
    <2> QED
      BY <1>4, <2>3, RebootStep DEF Inv, TrippedMeansClosed, LawFollowed
  <1>5. CASE UNCHANGED vars
    BY <1>5 DEF vars, Inv, TypeOK, TrippedMeansClosed, Active, Tripped, LawFollowed
  <1> QED
    BY <1>1, <1>2, <1>3, <1>4, <1>5 DEF Next

\* The inductive invariant holds in every reachable state.
LEMMA Invariance == Spec => []Inv
  BY InitInv, StepInv, PTL DEF Spec

-----------------------------------------------------------------------------
(* The theorems: the invariants of the runs.                               *)

\* Every variable keeps its type: the angle within the servo's limits, the
\* clock values within the clock, the counter within its byte.
THEOREM TypesCorrect == Spec => []TypeOK
  <1>1. Inv => TypeOK
    BY DEF Inv
  <1> QED
    BY <1>1, Invariance, PTL

\* The flag word and the state machine never disagree on the state: each
\* transition clears the flag of the state it leaves and sets that of the
\* state it enters, and no check touches either.
THEOREM FlagsFollowState == Spec => []StateFlagIsState
  <1>1. Inv => StateFlagIsState
    BY DEF Inv, GoodBoard, FlagIsState, StateFlagIsState
  <1> QED
    BY <1>1, Invariance, PTL

\* The flag by flag count is the number of flags.
LEMMA CountedIsCardinality ==
    ASSUME NEW b, Counted(b)
    PROVE  b.DC_count = Cardinality(b.status \cap {"ERROR_FBP_DC", "ERROR_N2P_DC"})
  <1> DEFINE S == b.status \cap {"ERROR_FBP_DC", "ERROR_N2P_DC"}
  <1>1. S \in {{}, {"ERROR_FBP_DC"}, {"ERROR_N2P_DC"},
               {"ERROR_FBP_DC"} \cup {"ERROR_N2P_DC"}}
    OBVIOUS
  <1>2. /\ Cardinality({}) = 0
        /\ Cardinality({"ERROR_FBP_DC"}) = 1
        /\ Cardinality({"ERROR_N2P_DC"}) = 1
    BY FS_EmptySet, FS_Singleton
  <1>3. Cardinality({"ERROR_FBP_DC"} \cup {"ERROR_N2P_DC"}) = 2
    <2>1. IsFiniteSet({"ERROR_FBP_DC"})
      BY FS_Singleton
    <2>2. Cardinality({"ERROR_FBP_DC"} \cup {"ERROR_N2P_DC"})
              = Cardinality({"ERROR_FBP_DC"}) + 1
      BY <2>1, FS_AddElement
    <2> QED
      BY <1>2, <2>2
  <1>4. CASE S = {}
    BY <1>2, <1>4 DEF Counted, One, flagSet
  <1>5. CASE S = {"ERROR_FBP_DC"}
    BY <1>2, <1>5 DEF Counted, One, flagSet
  <1>6. CASE S = {"ERROR_N2P_DC"}
    BY <1>2, <1>6 DEF Counted, One, flagSet
  <1>7. CASE S = {"ERROR_FBP_DC"} \cup {"ERROR_N2P_DC"}
    BY <1>3, <1>7 DEF Counted, One, flagSet
  <1> QED
    BY <1>1, <1>4, <1>5, <1>6, <1>7

\* The counter of disconnects is the number of disconnect flags after every
\* sequence of readings, so it never passes two nor wraps below zero.
THEOREM CounterExact == Spec => []DisconnectsCounted
  <1>1. Inv => DisconnectsCounted
    BY CountedIsCardinality DEF Inv, GoodBoard, DisconnectsCounted
  <1> QED
    BY <1>1, Invariance, PTL

\* However a closed state was reached, the servo was told to be closed and is
\* disarmed.
THEOREM ClosedStatesSafe == Spec => []ClosedStatesClose
  <1>1. Inv => ClosedStatesClose
    BY DEF Inv, GoodBoard, ServoFollows, ClosedStatesClose, Closed
  <1> QED
    BY <1>1, Invariance, PTL

\* However an active state was reached, its servo is armed.
THEOREM ActiveStatesArmed == Spec => []ActiveStatesDrive
  <1>1. Inv => ActiveStatesDrive
    BY DEF Inv, GoodBoard, ServoFollows, ActiveStatesDrive, Active
  <1> QED
    BY <1>1, Invariance, PTL

\* No update ends in an active state with the overpressure latch set.
THEOREM TripCloses == Spec => []TrippedMeansClosed
  <1>1. Inv => TrippedMeansClosed
    BY DEF Inv
  <1> QED
    BY <1>1, Invariance, PTL

\* In Controlled every update leaves the servo within the limits of the
\* controller, the lower upper limit while Controlled starts up.
THEOREM ControlledStaysLimited == Spec => []ControlledLimited
  <1>1. Inv => ControlledLimited
    <2> SUFFICES ASSUME Inv, greg.state = "STATE_CONTROLLED", updated, ~greg.manual
                 PROVE  /\ regMinOpenAngle <= greg.angle
                        /\ greg.angle <=
                              IF Elapsed(now, greg.stateEntry) < StartPeriod
                              THEN regMaxOpenFirstStart ELSE regMaxOpenAngle
      BY DEF ControlledLimited
    <2> DEFINE starting == Elapsed(now, greg.stateEntry) < StartPeriod
    <2>1. greg.angle = ControlledAngle(fb, n2, starting)
      BY DEF Inv, LawFollowed
    <2>2. starting \in BOOLEAN /\ fb \in Int /\ n2 \in Int
      BY DEF Inv, TypeOK
    <2> HIDE DEF starting
    <2>3. greg.angle \in regMinOpenAngle .. regMaxOpenAngle
      BY <2>1, <2>2, ControlledAngleBounded
    <2>4. starting => greg.angle <= regMaxOpenFirstStart
      BY <2>1, <2>2, ControlledAngleBounded
    <2> QED
      BY <2>3, <2>4 DEF starting
  <1> QED
    BY <1>1, Invariance, PTL

-----------------------------------------------------------------------------
(* The action properties, from the same invariant.                         *)

\* An update that reads more than the full abort pressure, or that finds the
\* regulator disarmed, ends closed; above the half abort pressure it leaves
\* Controlled.
THEOREM UpdatesClose == Spec => UpdateCloses
  <1>1. ASSUME Inv, Update, fb' > P_half_abort \/ ~armed
        PROVE  Closed'
    <2>1. CASE ~armed
      BY <1>1, <2>1, UpdateStep DEF Closed, ClosedStates
    <2>2. CASE fb' > P_half_abort
      <3>1. ~Active' /\ GoodBoard(greg')
        BY <1>1, <2>2, UpdateStep
      <3> QED
        BY <3>1
        DEF Active, Closed, GoodBoard, NoHalfabort, Boards, StateFlags,
            ActiveStates, ClosedStates
    <2> QED
      BY <1>1, <2>1, <2>2
  <1>2. ASSUME Inv, Update
        PROVE  fb' > P_full_abort => fb' > P_half_abort
    <2>1. fb' \in Int
      BY <1>2, GregAssumption DEF GregAssumption, Update
    <2> QED
      BY <2>1, GregAssumption DEF GregAssumption
  <1>3. Closed' => greg'.state # "STATE_CONTROLLED"
    BY DEF Closed, ClosedStates
  <1>4. Inv /\ [Next]_vars
            => [Update => /\ fb' > P_full_abort \/ ~armed => Closed'
                          /\ fb' > P_half_abort => greg'.state # "STATE_CONTROLLED"]_vars
    BY <1>1, <1>2, <1>3
  <1> QED
    BY <1>4, Invariance, PTL DEF Spec, UpdateCloses

\* What a step can do to the state of the machine.
LEMMA StateMoves ==
    ASSUME Inv, [Next]_vars, greg'.state # greg.state
    PROVE  \/ Update
           \/ armed /\ UNCHANGED boots /\ greg'.state = "STATE_SHUTDOWN"
           \/ armed /\ greg.state = "STATE_DEFAULT" /\ greg'.state \in ActiveStates
           \/ boots' # boots /\ greg'.state = "STATE_DEFAULT"
  <1>0. "STATE_DEFAULT" \in StateFlags
    BY DEF StateFlags
  <1>1. CASE Command
    <2>1. CASE Arm \/ Disarm
      BY <2>1 DEF Arm, Disarm
    <2>2. CASE ExecuteShutdown
      BY <2>2, ExecuteStep DEF ExecuteShutdown, Handled
    <2>3. CASE ExecuteControlled
      BY <1>0, <2>3, ExecuteStep, FlagTellsState DEF ExecuteControlled, ActiveStates
    <2>4. CASE ExecuteDebug
      BY <1>0, <2>4, ExecuteStep, FlagTellsState DEF ExecuteDebug, ActiveStates
    <2>5. CASE ExecutePressurise
      BY <1>0, <2>5, ExecuteStep, FlagTellsState DEF ExecutePressurise, ActiveStates
    <2>6. CASE DebugExecute \/ SetPressAngle
      BY <2>6, ExtendedStep
    <2>7. CASE ServoArmCommand \/ ServoDisarmCommand \/ ServoExecuteCommand
      BY <2>7, DirectServoStep DEF DirectServo
    <2> QED
      BY <1>1, <2>1, <2>2, <2>3, <2>4, <2>5, <2>6, <2>7 DEF Command
  <1>2. CASE Tick
    BY <1>2, TickStep
  <1>3. CASE Reboot
    <2>1. boots \in Int
      BY DEF Inv, TypeOK
    <2> QED
      BY <1>3, <2>1, RebootStep
  <1>4. CASE UNCHANGED vars
    BY <1>4 DEF vars
  <1> QED
    BY <1>1, <1>2, <1>3, <1>4 DEF Next

\* Shutdown is left only for Default, by an update of a disarmed regulator
\* or a reset.
THEOREM ShutdownHolds == Spec => ShutdownHeld
  <1>1. Inv /\ [Next]_vars
            => [greg.state = "STATE_SHUTDOWN" /\ greg'.state # "STATE_SHUTDOWN"
                   => /\ greg'.state = "STATE_DEFAULT"
                      /\ ~armed \/ boots' # boots]_vars
    <2> SUFFICES ASSUME Inv, [Next]_vars, greg.state = "STATE_SHUTDOWN",
                        greg'.state # "STATE_SHUTDOWN"
                 PROVE  /\ greg'.state = "STATE_DEFAULT"
                        /\ ~armed \/ boots' # boots
      OBVIOUS
    <2>1. ~Active
      BY DEF Active, ActiveStates
    <2> QED
      BY <2>1, StateMoves, UpdateStep
  <1> QED
    BY <1>1, Invariance, PTL DEF Spec, ShutdownHeld

\* An active state is entered only from Default, while armed.
THEOREM ActiveOnlyFromDefault == Spec => ActiveFromDefault
  <1>1. Inv /\ [Next]_vars
            => [Active' /\ greg'.state # greg.state
                   => greg.state = "STATE_DEFAULT" /\ armed]_vars
    <2> SUFFICES ASSUME Inv, [Next]_vars, Active', greg'.state # greg.state
                 PROVE  greg.state = "STATE_DEFAULT" /\ armed
      OBVIOUS
    <2>1. greg'.state \notin {"STATE_DEFAULT", "STATE_SHUTDOWN"}
      BY DEF Active, ActiveStates
    <2> QED
      BY <2>1, StateMoves, UpdateStep
  <1> QED
    BY <1>1, Invariance, PTL DEF Spec, ActiveFromDefault

\* What a step can do to the latch: only an update sets it, only a reset
\* clears it.
LEMMA TripMoves ==
    ASSUME Inv, [Next]_vars
    PROVE  /\ (Tripped' <=> Tripped) \/ (Update /\ Tripped') \/ (Reboot /\ ~Tripped')
           /\ Reboot => boots' # boots
  <1>1. (Tripped' <=> Tripped) \/ (Update /\ Tripped') \/ (Reboot /\ ~Tripped')
    <2>1. CASE Update
      BY <2>1, UpdateStep
    <2>2. CASE Command
      <3>1. CASE Arm \/ Disarm
        BY <3>1 DEF Arm, Disarm, Tripped
      <3>2. CASE ExecuteShutdown
        BY <3>2, ExecuteStep DEF ExecuteShutdown
      <3>3. CASE ExecuteControlled
        BY <3>3, ExecuteStep DEF ExecuteControlled, ActiveStates
      <3>4. CASE ExecuteDebug
        BY <3>4, ExecuteStep DEF ExecuteDebug, ActiveStates
      <3>5. CASE ExecutePressurise
        BY <3>5, ExecuteStep DEF ExecutePressurise, ActiveStates
      <3>6. CASE DebugExecute \/ SetPressAngle
        BY <3>6, ExtendedStep DEF Tripped, flagSet
      <3>7. CASE ServoArmCommand \/ ServoDisarmCommand \/ ServoExecuteCommand
        BY <3>7, DirectServoStep DEF DirectServo, Tripped, flagSet
      <3> QED
        BY <2>2, <3>1, <3>2, <3>3, <3>4, <3>5, <3>6, <3>7 DEF Command
    <2>3. CASE Tick
      BY <2>3, TickStep DEF Tripped, flagSet
    <2>4. CASE Reboot
      BY <2>4, RebootStep
    <2>5. CASE UNCHANGED vars
      BY <2>5 DEF vars, Tripped
    <2> QED
      BY <2>1, <2>2, <2>3, <2>4, <2>5 DEF Next
  <1>2. Reboot => boots' # boots
    <2>1. boots \in Int
      BY DEF Inv, TypeOK
    <2> QED
      BY <2>1, RebootStep
  <1> QED
    BY <1>1, <1>2

\* A latched overpressure outlives every command and every update.
THEOREM TripHolds == Spec => TripLatched
  <1>1. Inv /\ [Next]_vars => [Tripped /\ ~Tripped' => boots' # boots]_vars
    BY TripMoves
  <1> QED
    BY <1>1, Invariance, PTL DEF Spec, TripLatched

\* What a step can do to the valve: only a tick moves it, to the angle of the
\* servo, after an update that found no latch or a closed state.
LEMMA ValveMoves ==
    ASSUME Inv, [Next]_vars, valve = regClosedAngle, valve' # regClosedAngle
    PROVE  Tick /\ (greg.manual \/ (Active /\ ~Tripped))
  <1>1. CASE Tick
    <2>1. updated /\ greg.angle # regClosedAngle
      BY <1>1, TickStep DEF Tick
    <2>2. CASE ~greg.manual
      <3>1. ~Closed
        BY <2>1, <2>2 DEF Inv, GoodBoard, ServoFollows, Closed
      <3>2. Active
        BY <3>1
        DEF Active, Closed, Inv, GoodBoard, NoHalfabort, Boards, StateFlags,
            ActiveStates, ClosedStates
      <3> QED
        BY <1>1, <2>1, <3>2 DEF Inv, TrippedMeansClosed
    <2> QED
      BY <1>1, <2>2
  <1>2. CASE Update
    BY <1>2 DEF Update
  <1>3. CASE Command
    BY <1>3
    DEF Command, Arm, Disarm, ExecuteControlled, ExecuteShutdown, ExecuteDebug,
        ExecutePressurise, execute, DebugExecute, SetPressAngle, ServoArmCommand,
        ServoDisarmCommand, ServoExecuteCommand, directServo, Handled
  <1>4. CASE Reboot
    BY <1>4 DEF Reboot
  <1>5. CASE UNCHANGED vars
    BY <1>5 DEF vars
  <1> QED
    BY <1>1, <1>2, <1>3, <1>4, <1>5 DEF Next

\* Once an overpressure is latched a closed valve stays closed: commands can
\* make the regulator active again, but the update that closes it comes
\* before the valve can have moved.
THEOREM TrippedHoldsValve == Spec => TrippedStaysClosed
  <1>1. Inv /\ [Next]_vars
            => [Tripped /\ ~greg.manual /\ valve = regClosedAngle
                   => valve' = regClosedAngle]_vars
    BY ValveMoves
  <1> QED
    BY <1>1, Invariance, PTL DEF Spec, TrippedStaysClosed

-----------------------------------------------------------------------------
(* The regulator implements EregLifecycle.                                 *)

\* A board after setup is where the promise starts.
LEMMA LifecycleInit == Init => Lifecycle!Init
  <1> SUFFICES ASSUME Init PROVE Lifecycle!Init
    OBVIOUS
  <1>1. greg = setup /\ ~armed /\ boots = 0
    BY DEF Init
  <1>2. Mode = "closed" /\ ~Tripped /\ ~greg.manual
    BY <1>1, SetupGood DEF Mode, Tripped
  <1> QED
    BY <1>1, <1>2 DEF Lifecycle!Init

\* The mode as the machine's state gives it, without Halfabort.
LEMMA ModeOf ==
    ASSUME NEW b, GoodBoard(b)
    PROVE  /\ b.state \in ClosedStates \cup ActiveStates
           /\ b.state = "STATE_DEFAULT" \/ b.state = "STATE_SHUTDOWN"
                  \/ b.state \in ActiveStates
  BY DEF GoodBoard, NoHalfabort, Boards, StateFlags, ActiveStates, ClosedStates

\* The three modes are the states they stand for.
LEMMA ModeIs ==
    ASSUME Inv
    PROVE  /\ Mode = "closed" <=> greg.state = "STATE_DEFAULT"
           /\ Mode = "locked" <=> greg.state = "STATE_SHUTDOWN"
           /\ Mode = "active" <=> Active
           /\ Mode \in {"closed", "locked", "active"}
  BY ModeOf DEF Inv, Mode, Active, ActiveStates

\* An update is a supervision.
LEMMA SuperviseStep == Inv /\ Inv' /\ Update => Lifecycle!Supervise
  <1> SUFFICES ASSUME Inv, Inv', Update PROVE Lifecycle!Supervise
    OBVIOUS
  <1>1. /\ Mode = "closed" <=> greg.state = "STATE_DEFAULT"
        /\ Mode = "locked" <=> greg.state = "STATE_SHUTDOWN"
        /\ Mode = "active" <=> Active
        /\ Mode \in {"closed", "locked", "active"}
    BY ModeIs
  <1>2. /\ Mode' = "closed" <=> greg'.state = "STATE_DEFAULT"
        /\ Mode' = "locked" <=> greg'.state = "STATE_SHUTDOWN"
        /\ Mode' = "active" <=> Active'
        /\ Mode' \in {"closed", "locked", "active"}
    BY ModeOf DEF Inv, Mode, Active, ActiveStates
  <1>3. Tripped' \in BOOLEAN /\ (Tripped => Tripped')
    BY UpdateStep DEF Tripped, flagSet
  <1>4. Mode' \in {m \in Lifecycle!Modes : Lifecycle!Supervised(m)}
    <2>1. CASE Mode' = "active"
      BY <1>1, <1>2, <2>1, UpdateStep
      DEF Lifecycle!Modes, Lifecycle!Supervised, Active, ActiveStates
    <2>2. CASE Mode' = "locked"
      BY <1>1, <1>2, <2>2, UpdateStep
      DEF Lifecycle!Modes, Lifecycle!Supervised
    <2>3. CASE Mode' = "closed"
      <3>1. greg.state # "STATE_SHUTDOWN" \/ ~armed
        BY <1>2, <2>3, UpdateStep DEF Active, ActiveStates
      <3> QED
        BY <1>1, <2>3, <3>1 DEF Lifecycle!Modes, Lifecycle!Supervised
    <2> QED
      BY <1>2, <2>1, <2>2, <2>3
  <1>5. greg'.manual \in IF Mode' = Mode THEN {greg.manual} ELSE {FALSE}
    <2>1. CASE greg'.state = greg.state /\ greg'.manual = greg.manual
      <3>1. Mode' = Mode
        BY <2>1 DEF Mode
      <3> QED
        BY <2>1, <3>1
    <2>2. CASE greg'.state # greg.state /\ ~greg'.manual
      <3>1. greg'.manual = FALSE
        BY <2>2 DEF Inv, TypeOK, Boards
      <3>2. Mode' # Mode
        BY <1>1, <1>2, <2>2, UpdateStep DEF Active, ActiveStates
      <3> QED
        BY <3>1, <3>2
    <2> QED
      BY <2>1, <2>2, UpdateStep DEF Active, ActiveStates
  <1>6. UNCHANGED <<armed, valve, boots>>
    BY UpdateStep
  <1> QED
    BY <1>3, <1>4, <1>5, <1>6 DEF Lifecycle!Supervise

\* The three commands that start an active state activate.
LEMMA ActivateStep ==
    ASSUME Inv, NEW s \in ActiveStates, flagSet(greg, "STATE_DEFAULT"), execute(s)
    PROVE  Lifecycle!Activate
  <1>1. greg.state = "STATE_DEFAULT"
    BY FlagTellsState DEF StateFlags
  <1>2. /\ greg'.state = s /\ greg'.manual = greg.manual
        /\ armed /\ UNCHANGED <<armed, valve, boots>>
    BY ExecuteStep DEF Handled
  <1>3. Tripped' = Tripped
    BY ExecuteStep DEF Tripped, flagSet
  <1>4. Mode = "closed" /\ Mode' = "active"
    BY <1>1, <1>2 DEF Mode, ActiveStates
  <1> QED
    BY <1>2, <1>3, <1>4 DEF Lifecycle!Activate

\* The shutdown command locks.
LEMMA LockStep == Inv /\ ExecuteShutdown => Lifecycle!Lock
  <1> SUFFICES ASSUME Inv, ExecuteShutdown PROVE Lifecycle!Lock
    OBVIOUS
  <1>1. /\ greg'.state = "STATE_SHUTDOWN" /\ ~greg'.manual
        /\ armed /\ UNCHANGED <<armed, valve, boots>>
        /\ GoodBoard(greg')
    BY ExecuteStep DEF ExecuteShutdown, Handled
  <1>2. Tripped' = Tripped
    BY ExecuteStep DEF ExecuteShutdown, Tripped, flagSet
  <1>3. greg'.manual = FALSE
    BY <1>1 DEF GoodBoard, Boards
  <1>4. Mode' = "locked"
    BY <1>1 DEF Mode
  <1> QED
    BY <1>1, <1>2, <1>3, <1>4 DEF Lifecycle!Lock

\* A direct servo command takes over.
LEMMA TakeOverStep ==
    ASSUME Inv, ServoArmCommand \/ ServoDisarmCommand \/ ServoExecuteCommand
    PROVE  Lifecycle!TakeOver
  <1>1. DirectServo /\ UNCHANGED <<armed, valve, boots>>
    BY DirectServoStep DEF Handled
  <1>2. greg'.manual = TRUE
    BY <1>1 DEF DirectServo, GoodBoard, Boards
  <1>3. Mode' = Mode /\ Tripped' = Tripped
    BY <1>1 DEF DirectServo, Mode, Tripped, flagSet
  <1> QED
    BY <1>1, <1>2, <1>3 DEF Lifecycle!TakeOver

\* A tick moves the valve as the promise allows.
LEMMA MoveStep == Inv /\ [Next]_vars /\ Tick => Lifecycle!Move
  <1> SUFFICES ASSUME Inv, [Next]_vars, Tick PROVE Lifecycle!Move
    OBVIOUS
  <1>1. /\ greg'.manual = greg.manual /\ UNCHANGED <<armed, boots>>
        /\ greg'.state = greg.state /\ greg'.status = greg.status
    BY TickStep DEF Tick
  <1>2. Mode' = Mode /\ Tripped' = Tripped
    BY <1>1 DEF Mode, Tripped, flagSet
  <1>3. valve' # regClosedAngle
            => \/ valve # regClosedAngle \/ greg.manual
               \/ Mode = "active" /\ ~Tripped
    BY ValveMoves, ModeIs
  <1> QED
    BY <1>1, <1>2, <1>3 DEF Lifecycle!Move

\* A reset is a reset.
LEMMA ResetStep == Inv /\ Reboot => Lifecycle!Reset
  <1> SUFFICES ASSUME Inv, Reboot PROVE Lifecycle!Reset
    OBVIOUS
  <1>1. /\ GoodBoard(greg') /\ greg'.state = "STATE_DEFAULT"
        /\ ~Tripped' /\ ~greg'.manual /\ valve' = valve
    BY RebootStep
  <1>2. boots < MaxBoots /\ boots' = boots + 1 /\ armed' = FALSE
    BY DEF Reboot
  <1>3. greg'.manual = FALSE /\ Tripped' = FALSE
    BY <1>1 DEF GoodBoard, Boards, Tripped, flagSet
  <1>4. Mode' = "closed"
    BY <1>1 DEF Mode
  <1> QED
    BY <1>1, <1>2, <1>3, <1>4 DEF Lifecycle!Reset

\* Each step of the regulator is a step of the promise, or invisible to it.
LEMMA LifecycleStep ==
    Inv /\ Inv' /\ [Next]_vars => [Lifecycle!Next]_(Lifecycle!vars)
  <1> SUFFICES ASSUME Inv, Inv', [Next]_vars
               PROVE  Lifecycle!Next \/ UNCHANGED Lifecycle!vars
    OBVIOUS
  <1>1. CASE Update
    BY <1>1, SuperviseStep DEF Lifecycle!Next
  <1>2. CASE Command
    <2>1. CASE Arm \/ Disarm
      <3>1. /\ armed' \in BOOLEAN /\ UNCHANGED <<greg, valve, boots>>
        BY <2>1 DEF Arm, Disarm, Handled
      <3>2. Mode' = Mode /\ Tripped' = Tripped /\ greg'.manual = greg.manual
        BY <3>1 DEF Mode, Tripped
      <3>3. Lifecycle!SetEnabled
        BY <3>1, <3>2 DEF Lifecycle!SetEnabled
      <3> QED
        BY <3>3 DEF Lifecycle!Next
    <2>2. CASE ExecuteShutdown
      BY <2>2, LockStep DEF Lifecycle!Next
    <2>3. CASE ExecuteControlled
      BY <2>3, ActivateStep DEF ExecuteControlled, ActiveStates, Lifecycle!Next
    <2>4. CASE ExecuteDebug
      BY <2>4, ActivateStep DEF ExecuteDebug, ActiveStates, Lifecycle!Next
    <2>5. CASE ExecutePressurise
      BY <2>5, ActivateStep DEF ExecutePressurise, ActiveStates, Lifecycle!Next
    <2>6. CASE DebugExecute \/ SetPressAngle
      <3>1. /\ greg'.state = greg.state /\ greg'.status = greg.status
            /\ greg'.manual = greg.manual /\ UNCHANGED <<armed, valve, boots>>
        BY <2>6, ExtendedStep DEF Handled
      <3>2. Mode' = Mode /\ Tripped' = Tripped
        BY <3>1 DEF Mode, Tripped, flagSet
      <3> QED
        BY <3>1, <3>2 DEF Lifecycle!vars
    <2>7. CASE ServoArmCommand \/ ServoDisarmCommand \/ ServoExecuteCommand
      BY <2>7, TakeOverStep DEF Lifecycle!Next
    <2> QED
      BY <1>2, <2>1, <2>2, <2>3, <2>4, <2>5, <2>6, <2>7 DEF Command
  <1>3. CASE Tick
    BY <1>3, MoveStep DEF Lifecycle!Next
  <1>4. CASE Reboot
    BY <1>4, ResetStep DEF Lifecycle!Next
  <1>5. CASE UNCHANGED vars
    <2>1. Mode' = Mode /\ Tripped' = Tripped
      BY <1>5 DEF vars, Mode, Tripped
    <2> QED
      BY <1>5, <2>1 DEF vars, Lifecycle!vars
  <1> QED
    BY <1>1, <1>2, <1>3, <1>4, <1>5 DEF Next

\* The regulator keeps the promise of EregLifecycle: it is active only after
\* being commanded while enabled and closed, it stops once tripped, and its
\* valve opens in no other way.
THEOREM RegulatorKeepsLifecycle == Spec => LifecycleKept
  <1>1. Init => Lifecycle!Init
    BY LifecycleInit
  <1>2. Inv /\ Inv' /\ [Next]_vars => [Lifecycle!Next]_(Lifecycle!vars)
    BY LifecycleStep
  <1> QED
    BY <1>1, <1>2, Invariance, PTL DEF Spec, LifecycleKept, Lifecycle!Spec

-----------------------------------------------------------------------------
(* Power: how long the servo can be without it, and how long a closed      *)
(* state can leave its valve open, for every period, pulse, hold and width *)
(* of the clock. The argument follows the clock value of the last          *)
(* switch-on: no loop goes by a period after it without another one, and   *)
(* one is undone before the servo has moved only close before the clock    *)
(* wraps.                                                                  *)

\* A switch-on at this clock value may be lost: a time stored to switch off
\* again wraps, and is passed at once.
NearWrap(t) == WORD - BuckLongest <= t

\* Anywhere else a board that was switched on at t is still on at t, and the
\* next look leaves it on.
Fresh(b, t) ==
    b.prevBuckTime = t /\ ~NearWrap(t) => b.buckEN /\ t <= b.buckOffTime

\* Ticks since the last switch-on.
Since == Elapsed(now, greg.prevBuckTime)

\* Every update finds or starts a period that is not over.
PeriodKept ==
    /\ Since <= BuckPeriod + 1
    /\ updated => Since <= BuckPeriod

\* What the last switch-on says of the ticks in the dark.
DarkKept ==
    /\ NearWrap(greg.prevBuckTime)
          => greg.dark <= BuckPeriod + Elapsed(now, WORD - BuckLongest)
    /\ ~NearWrap(greg.prevBuckTime) /\ Since > 0 => greg.dark <= Since - 1
    /\ ~NearWrap(greg.prevBuckTime) /\ Since = 0 =>
          /\ greg.dark <= 2 * BuckPeriod + BuckLongest
          /\ BuckPeriod < now => greg.dark <= BuckPeriod

\* How long a closed state can have had its valve open: since the last
\* switch-on, or since the one before it, if that one was lost.
CloseLimit ==
    IF NearWrap(greg.prevBuckTime) THEN BuckPeriod + Since
    ELSE IF Since > 0 THEN Since - 1 ELSE CloseBound
ClosingKept ==
    Closed /\ ~greg.manual /\ valve # regClosedAngle
        => greg.sinceEntry <= CloseLimit

PowerInv == PeriodKept /\ Fresh(greg, now) /\ DarkKept /\ ClosingKept

-----------------------------------------------------------------------------
(* Clock arithmetic.                                                       *)

\* The remainder of a value that is less than one turn away.
LEMMA OneTurn ==
    ASSUME NEW i \in Int
    PROVE  /\ 0 <= i /\ i < WORD => i % WORD = i
           /\ -WORD <= i /\ i < 0 => i % WORD = i + WORD
           /\ WORD <= i /\ i < 2 * WORD => i % WORD = i - WORD
  BY BuckAssumption DEF BuckAssumption

\* The time elapsed between two clock values.
LEMMA ElapsedIs ==
    ASSUME NEW a \in Time, NEW b \in Time
    PROVE  /\ Elapsed(a, b) = IF b <= a THEN a - b ELSE a - b + WORD
           /\ Elapsed(a, b) \in Time
  <1>1. a - b \in Int
    BY BuckAssumption DEF BuckAssumption, Time
  <1> QED
    BY <1>1, OneTurn, BuckAssumption DEF BuckAssumption, Time, Elapsed

\* The longest hold bounds the others and is less than a period.
LEMMA LongestIs ==
    /\ BuckLongest \in Nat \ {0}
    /\ BuckPulse <= BuckLongest /\ BuckHold <= BuckLongest /\ BuckExit <= BuckLongest
    /\ BuckLongest < BuckPeriod
  <1> DEFINE longest(d) == BuckPulse <= d /\ BuckHold <= d /\ BuckExit <= d
             S == {BuckPulse, BuckHold, BuckExit}
  <1>1. \E d \in S : longest(d)
    BY BuckAssumption DEF BuckAssumption
  <1>2. BuckLongest \in S /\ longest(BuckLongest)
    BY <1>1 DEF BuckLongest
  <1> QED
    BY <1>2, BuckAssumption DEF BuckAssumption

\* The clock values of a good board.
LEMMA BoardTimes ==
    ASSUME NEW b \in Boards
    PROVE  /\ b.prevBuckTime \in Time /\ b.buckOffTime \in Time
           /\ b.buckEN \in BOOLEAN /\ b.manual \in BOOLEAN
           /\ b.dark \in Nat /\ b.sinceEntry \in Nat
           /\ b.dark \in 0 .. AgeCap /\ b.sinceEntry \in 0 .. AgeCap
  BY GregAssumption DEF GregAssumption, Boards

-----------------------------------------------------------------------------
(* What a handler at clock value t can do to the power.                    *)

Moves(b, c, t) ==
    /\ c.dark = b.dark
    /\ \/ c.prevBuckTime = b.prevBuckTime
       \/ /\ c.prevBuckTime = t
          /\ Elapsed(t, b.prevBuckTime) > BuckPeriod \/ c.sinceEntry = 0
    /\ Fresh(b, t) => Fresh(c, t)
    /\ \/ c.sinceEntry = 0
       \/ /\ c.sinceEntry = b.sinceEntry /\ c.state = b.state
          /\ b.manual => c.manual

\* Away from the wrap a time stored to switch off is not passed yet.
LEMMA OffTimesAhead ==
    ASSUME NEW t \in Time, ~NearWrap(t), NEW o \in OffTimes(t) \cup {Never}
    PROVE  t <= o
  <1>1. CASE o = Never
    BY <1>1, BuckAssumption DEF BuckAssumption, Time, Never
  <1>2. CASE o \in OffTimes(t)
    <2>1. PICK d \in {BuckPulse, BuckHold, BuckExit} : o = (t + d) % WORD
      BY <1>2 DEF OffTimes
    <2>2. d \in Nat /\ d <= BuckLongest /\ BuckLongest \in Nat
      BY LongestIs, BuckAssumption DEF BuckAssumption
    <2>3. t + d \in Int /\ 0 <= t + d /\ t + d < WORD
      BY <2>2, BuckAssumption DEF BuckAssumption, NearWrap, Time
    <2>4. o = t + d
      BY <2>1, <2>3, OneTurn
    <2> QED
      BY <2>2, <2>4 DEF Time
  <1> QED
    BY <1>1, <1>2

\* A transition keeps a fresh board fresh.
LEMMA PowerKeptFresh ==
    ASSUME NEW b, NEW c, NEW t \in Time, PowerKept(b, c, t), Fresh(b, t)
    PROVE  Fresh(c, t)
  <1> SUFFICES ASSUME c.prevBuckTime = t, ~NearWrap(t)
               PROVE  c.buckEN /\ t <= c.buckOffTime
    BY DEF Fresh
  <1> QED
    BY OffTimesAhead DEF PowerKept, Fresh

\* A handler that leaves power, state and history alone.
LEMMA SameMoves ==
    ASSUME NEW b, NEW c, NEW t, SamePower(b, c), c.sinceEntry = b.sinceEntry,
           c.state = b.state, b.manual => c.manual
    PROVE  Moves(b, c, t)
  BY DEF SamePower, Moves, Fresh

\* A change of state.
LEMMA ChangeStateMoves ==
    ASSUME NEW b, GoodBoard(b), NEW t \in Time,
           NEW s \in ActiveStates \cup ClosedStates
    PROVE  Moves(b, changeState(b, s, t), t)
  <1> DEFINE c == changeState(b, s, t)
  <1>1. c.sinceEntry = 0 /\ PowerKept(b, c, t)
    BY ChangeStateGood
  <1> HIDE DEF c
  <1>2. Fresh(b, t) => Fresh(c, t)
    BY <1>1, PowerKeptFresh
  <1> QED
    BY <1>1, <1>2 DEF Moves, PowerKept, c

\* The converter's own update; after it the period is not over.
LEMMA BuckManagerMoves ==
    ASSUME NEW b, GoodBoard(b), NEW t \in Time
    PROVE  LET c == buckManager(b, t) IN
           /\ Moves(b, c, t)
           /\ Elapsed(t, c.prevBuckTime) <= BuckPeriod
  <1> DEFINE c == buckManager(b, t)
  <1>1. /\ SameButPower(b, c) /\ c \in Boards
        /\ \/ /\ Elapsed(t, b.prevBuckTime) > BuckPeriod
              /\ PowerKept(b, c, t) /\ c.prevBuckTime = t
           \/ /\ ~(Elapsed(t, b.prevBuckTime) > BuckPeriod)
              /\ c.prevBuckTime = b.prevBuckTime
              /\ c.buckOffTime = b.buckOffTime
              /\ t <= b.buckOffTime => c.buckEN = b.buckEN
    BY BuckManagerKeeps DEF GoodBoard
  <1> HIDE DEF c
  <1>2. Fresh(b, t) => Fresh(c, t)
    <2>1. CASE PowerKept(b, c, t)
      BY <2>1, PowerKeptFresh
    <2>2. CASE ~PowerKept(b, c, t)
      BY <1>1, <2>2 DEF Fresh
    <2> QED
      BY <2>1, <2>2
  <1>3. Elapsed(t, t) = 0 /\ Elapsed(t, b.prevBuckTime) \in Time
    BY ElapsedIs, BoardTimes DEF GoodBoard, Time
  <1>4. Elapsed(t, c.prevBuckTime) <= BuckPeriod
    BY <1>1, <1>3, BuckAssumption DEF BuckAssumption, Time
  <1>5. Moves(b, c, t)
    BY <1>1, <1>2 DEF Moves, SameButPower
  <1> QED
    BY <1>4, <1>5 DEF c

\* One handler after the other, at one clock value.
LEMMA MovesTransitive ==
    ASSUME NEW a \in Boards, NEW b \in Boards, NEW c \in Boards, NEW t \in Time,
           Moves(a, b, t), Moves(b, c, t)
    PROVE  Moves(a, c, t)
  <1>1. Elapsed(t, t) = 0
    BY ElapsedIs DEF Time
  <1>2. ~(Elapsed(t, t) > BuckPeriod)
    BY <1>1, BuckAssumption DEF BuckAssumption
  <1> QED
    BY <1>2 DEF Moves

\* The state's own update.
LEMMA MachineUpdateMoves ==
    ASSUME NEW b, GoodBoard(b), NEW t \in Time, NEW f \in Int, NEW n \in Int
    PROVE  Moves(b, machineUpdate(b, f, n, t), t)
  <1>1. CASE b.state = "STATE_PRESSURISE"
    <2> DEFINE e == servoExecute(b, b.pressAngle)
               d == changeState(e, "STATE_DEFAULT", t)
    <2>0. b \in Boards /\ b.pressAngle \in Int /\ b.state \in ActiveStates
      BY <1>1 DEF GoodBoard, Boards, ActiveStates
    <2>1. GoodBoard(e) /\ e.state = b.state /\ e.manual = b.manual
      BY <2>0, ServoExecuteGood
    <2>2. SamePower(b, e) /\ e.sinceEntry = b.sinceEntry
      BY <2>0, ServoExecuteKeeps
    <2>3. machineUpdate(b, f, n, t) \in {e, d}
      BY <1>1 DEF machineUpdate, pressuriseUpdate
    <2> HIDE DEF e
    <2>4. Moves(b, e, t)
      BY <2>1, <2>2, SameMoves
    <2>5. GoodBoard(d) /\ Moves(e, d, t)
      BY <2>1, ChangeStateGood, ChangeStateMoves DEF ClosedStates
    <2> HIDE DEF d
    <2>6. Moves(b, d, t)
      BY <2>0, <2>1, <2>4, <2>5, MovesTransitive DEF GoodBoard
    <2> QED
      BY <2>3, <2>4, <2>6
  <1>2. CASE b.state = "STATE_CONTROLLED"
    <2> DEFINE starting == Elapsed(t, b.stateEntry) < StartPeriod
               a == ControlledAngle(f, n, starting)
               e == servoExecute(b, a)
    <2>1. starting \in BOOLEAN
      OBVIOUS
    <2> HIDE DEF starting
    <2>2. a \in Int
      <3>1. a \in regMinOpenAngle .. regMaxOpenAngle
        BY <2>1, ControlledAngleBounded
      <3> QED
        BY <3>1
    <2>3. machineUpdate(b, f, n, t) = e
      BY <1>2 DEF machineUpdate, controlledUpdate, starting
    <2> HIDE DEF a
    <2>4. /\ SamePower(b, e) /\ e.sinceEntry = b.sinceEntry
          /\ e.state = b.state /\ e.manual = b.manual
      BY <2>2, ServoExecuteKeeps DEF GoodBoard
    <2> QED
      BY <2>3, <2>4, SameMoves
  <1>3. CASE b.state \notin {"STATE_PRESSURISE", "STATE_CONTROLLED"}
    BY <1>3 DEF machineUpdate, Moves
  <1> QED
    BY <1>1, <1>2, <1>3

\* The pressure checks move flags, or change to Shutdown.
LEMMA CheckPressuresMoves ==
    ASSUME NEW b, GoodBoard(b), NEW t \in Time, NEW f \in Int, NEW n \in Int
    PROVE  Moves(b, checkPressures(b, f, n, t), t)
  <1> DEFINE g == checkFlags(b, f, n)
             s == changeState(g, "STATE_SHUTDOWN", t)
  <1>1. GoodBoard(g) /\ Checked(b, g)
    BY CheckFlagsGood
  <1>2. checkPressures(b, f, n, t) =
            IF mustShutdown(g) THEN s
            ELSE IF mustHalfabort(g) THEN changeState(g, "STATE_HALFABORT", t)
            ELSE g
    BY DEF checkPressures
  <1> HIDE DEF g
  <1>3. ~mustHalfabort(g)
    BY <1>1 DEF mustHalfabort, GoodBoard, NoHalfabort, flagSet
  <1>4. Moves(b, g, t)
    BY <1>1, SameMoves DEF Checked
  <1>5. GoodBoard(s) /\ Moves(g, s, t)
    BY <1>1, ChangeStateGood, ChangeStateMoves DEF ClosedStates
  <1> HIDE DEF s
  <1>6. Moves(b, s, t)
    BY <1>1, <1>4, <1>5, MovesTransitive DEF GoodBoard
  <1> QED
    BY <1>2, <1>3, <1>4, <1>6

\* NRCGreg::update as a whole; after it the period is not over.
LEMMA UpdateMoves ==
    ASSUME NEW b, GoodBoard(b), NEW on \in BOOLEAN, NEW t \in Time,
           NEW f \in Int, NEW n \in Int
    PROVE  LET c == update(b, on, f, n, t) IN
           Moves(b, c, t) /\ Elapsed(t, c.prevBuckTime) <= BuckPeriod
  <1> DEFINE p == buckManager(b, t)
             d == changeState(p, "STATE_DEFAULT", t)
             a == IF ~on /\ ~flagSet(p, "STATE_DEFAULT") THEN d ELSE p
             m == machineUpdate(a, f, n, t)
             c == checkPressures(m, f, n, t)
  <1>1. /\ GoodBoard(p) /\ Moves(b, p, t)
        /\ Elapsed(t, p.prevBuckTime) <= BuckPeriod
    BY BuckManagerGood, BuckManagerMoves
  <1>c. update(b, on, f, n, t) = c
    BY DEF update
  <1> HIDE DEF p
  <1>2. GoodBoard(a) /\ Moves(p, a, t)
    <2>1. GoodBoard(d) /\ Moves(p, d, t)
      BY <1>1, ChangeStateGood, ChangeStateMoves DEF ClosedStates
    <2>2. Moves(p, p, t)
      BY DEF Moves
    <2> HIDE DEF d
    <2> QED
      BY <1>1, <2>1, <2>2
  <1> HIDE DEF a
  <1>3. GoodBoard(m) /\ Moves(a, m, t)
    BY <1>2, MachineUpdateGood, MachineUpdateMoves
  <1> HIDE DEF m
  <1>4. GoodBoard(c) /\ Moves(m, c, t)
    BY <1>3, CheckPressuresGood, CheckPressuresMoves
  <1> HIDE DEF c
  <1>5. Moves(p, c, t)
    <2>1. Moves(p, m, t)
      BY <1>1, <1>2, <1>3, MovesTransitive DEF GoodBoard
    <2> QED
      BY <1>1, <1>3, <1>4, <2>1, MovesTransitive DEF GoodBoard
  <1>6. Moves(b, c, t)
    BY <1>1, <1>4, <1>5, MovesTransitive DEF GoodBoard
  <1>7. Elapsed(t, c.prevBuckTime) <= BuckPeriod
    <2>1. Elapsed(t, t) = 0
      BY ElapsedIs DEF Time
    <2> QED
      BY <1>1, <1>5, <2>1, BuckAssumption DEF Moves, BuckAssumption
  <1> QED
    BY <1>6, <1>7, <1>c

\* Every command.
LEMMA CommandMoves == Inv /\ Command => Moves(greg, greg', now)
  <1> SUFFICES ASSUME Inv, Command PROVE Moves(greg, greg', now)
    OBVIOUS
  <1>0. greg \in Boards /\ GoodBoard(greg) /\ now \in Time
    BY DEF Inv, TypeOK
  <1>1. CASE Arm \/ Disarm
    BY <1>1 DEF Arm, Disarm, Moves
  <1>2. ASSUME NEW s \in ActiveStates \cup ClosedStates, execute(s)
        PROVE  Moves(greg, greg', now)
    BY <1>0, <1>2, ChangeStateMoves DEF execute
  <1>3. CASE ExecuteControlled \/ ExecuteShutdown \/ ExecuteDebug \/ ExecutePressurise
    BY <1>2, <1>3
    DEF ExecuteControlled, ExecuteShutdown, ExecuteDebug, ExecutePressurise,
        ActiveStates, ClosedStates
  <1>4. CASE DebugExecute
    <2>1. PICK a \in DebugArgs : greg' = servoExecute(greg, a)
      BY <1>4 DEF DebugExecute
    <2>2. a \in Int
      BY GregAssumption DEF GregAssumption
    <2>3. /\ SamePower(greg, greg') /\ greg'.sinceEntry = greg.sinceEntry
          /\ greg'.state = greg.state /\ greg'.manual = greg.manual
      BY <1>0, <2>1, <2>2, ServoExecuteKeeps
    <2> QED
      BY <2>3, SameMoves
  <1>5. CASE SetPressAngle
    <2>1. PICK a \in PressAngleArgs : greg' = [greg EXCEPT !.pressAngle = a]
      BY <1>5 DEF SetPressAngle
    <2>2. /\ SamePower(greg, greg') /\ greg'.sinceEntry = greg.sinceEntry
          /\ greg'.state = greg.state /\ greg'.manual = greg.manual
      BY <1>0, <2>1 DEF Boards, SamePower
    <2> QED
      BY <2>2, SameMoves
  <1>6. ASSUME NEW b \in Boards, SamePower(greg, b), b.state = greg.state,
               b.sinceEntry = greg.sinceEntry, directServo(b)
        PROVE  Moves(greg, greg', now)
    <2>1. greg' = [b EXCEPT !.manual = TRUE]
      BY <1>6 DEF directServo
    <2>2. /\ SamePower(b, greg') /\ greg'.sinceEntry = b.sinceEntry
          /\ greg'.state = b.state /\ greg'.manual
      BY <2>1 DEF Boards, SamePower
    <2>3. SamePower(greg, greg')
      BY <1>6, <2>2 DEF SamePower
    <2> QED
      BY <1>6, <2>2, <2>3, SameMoves
  <1>7. CASE ServoArmCommand
    <2> DEFINE b == servoArm(greg)
    <2>1. /\ b \in Boards /\ SamePower(greg, b) /\ b.state = greg.state
          /\ b.sinceEntry = greg.sinceEntry
      BY <1>0 DEF servoArm, Boards, SamePower
    <2> QED
      BY <1>6, <1>7, <2>1 DEF ServoArmCommand
  <1>8. CASE ServoDisarmCommand
    <2> DEFINE b == servoDisarm(greg)
    <2>1. /\ b \in Boards /\ SamePower(greg, b) /\ b.state = greg.state
          /\ b.sinceEntry = greg.sinceEntry
      BY <1>0 DEF servoDisarm, Boards, SamePower
    <2> QED
      BY <1>6, <1>8, <2>1 DEF ServoDisarmCommand
  <1>9. CASE ServoExecuteCommand
    <2>1. PICK a \in ServoArgs : directServo(servoExecute(greg, a))
      BY <1>9 DEF ServoExecuteCommand
    <2>2. a \in Int
      BY GregAssumption DEF GregAssumption
    <2> DEFINE b == servoExecute(greg, a)
    <2>3. /\ b \in Boards /\ SamePower(greg, b) /\ b.state = greg.state
          /\ b.sinceEntry = greg.sinceEntry
      BY <1>0, <2>2, ServoExecuteKeeps
    <2> QED
      BY <1>6, <2>1, <2>3
  <1> QED
    BY <1>1, <1>3, <1>4, <1>5, <1>7, <1>8, <1>9 DEF Command

-----------------------------------------------------------------------------
(* The steps.                                                              *)

\* What a handler leaves, at the clock value at which it found it.
LEMMA HandlerKeeps ==
    ASSUME Inv, PowerInv, greg' \in Boards, Moves(greg, greg', now),
           UNCHANGED <<now, valve>>, updated' => Since' <= BuckPeriod
    PROVE  PowerInv'
  <1> DEFINE e == Since
             p == greg.prevBuckTime
  <1>1. /\ p \in Time /\ greg'.prevBuckTime \in Time /\ now \in Time
        /\ greg.dark \in Nat /\ greg.sinceEntry \in Nat
        /\ greg'.sinceEntry \in Nat
    BY BoardTimes DEF Inv, TypeOK
  <1>2. /\ BuckLongest \in Nat \ {0} /\ BuckLongest < BuckPeriod
        /\ BuckPeriod \in Nat /\ 2 * BuckPeriod < WORD /\ WORD \in Nat
    BY LongestIs, BuckAssumption DEF BuckAssumption
  <1>3. /\ e = IF p <= now THEN now - p ELSE now - p + WORD
        /\ e <= BuckPeriod + 1
    BY <1>1, ElapsedIs DEF Since, PowerInv, PeriodKept
  <1>4. /\ Elapsed(now, WORD - BuckLongest) =
               IF WORD - BuckLongest <= now THEN now - (WORD - BuckLongest)
               ELSE now + BuckLongest
    <2> DEFINE w == WORD - BuckLongest
    <2>1. w \in Time /\ w \in Int
      BY <1>2 DEF Time
    <2>2. w + BuckLongest = WORD
      BY <1>2
    <2> HIDE DEF w
    <2>3. Elapsed(now, w) = IF w <= now THEN now - w ELSE now - w + WORD
      BY <1>1, <2>1, ElapsedIs
    <2>4. now - w + WORD = now + BuckLongest
      BY <1>1, <1>2, <2>1, <2>2 DEF Time
    <2> QED
      BY <2>3, <2>4 DEF w
  <1>5. Elapsed(now, now) = 0
    BY <1>1, ElapsedIs DEF Time
  <1>6. Since' = Elapsed(now, greg'.prevBuckTime)
    BY DEF Since
  <1>7. PeriodKept'
    <2>1. Since' <= BuckPeriod + 1
      BY <1>2, <1>3, <1>5, <1>6 DEF Moves, Since
    <2> QED
      BY <2>1 DEF PeriodKept
  <1>8. Fresh(greg', now)
    BY DEF PowerInv, Moves
  <1>9. DarkKept'
    <2>1. CASE greg'.prevBuckTime = p
      BY <1>6, <2>1 DEF PowerInv, DarkKept, Moves, Since
    <2>2. CASE greg'.prevBuckTime = now /\ p # now
      <3>1. Since' = 0 /\ e > 0 /\ greg'.dark = greg.dark
        BY <1>1, <1>2, <1>3, <1>5, <1>6, <2>2 DEF Moves, Time
      <3>2. CASE ~NearWrap(p)
        <4>1. greg.dark <= BuckPeriod
          BY <1>1, <1>2, <1>3, <3>1, <3>2 DEF PowerInv, DarkKept, Since, Time
        <4> QED
          BY <1>1, <1>2, <1>4, <2>2, <3>1, <4>1 DEF DarkKept, Time
      <3>3. CASE NearWrap(p)
        <4>1. greg.dark <= BuckPeriod + Elapsed(now, WORD - BuckLongest)
          BY <3>3 DEF PowerInv, DarkKept
        <4>2. NearWrap(now) \/ now <= BuckPeriod
          BY <1>1, <1>2, <1>3, <2>2, <3>3 DEF NearWrap, Time
        <4> QED
          BY <1>1, <1>2, <1>4, <2>2, <3>1, <4>1, <4>2
          DEF DarkKept, NearWrap, Time
      <3> QED
        BY <3>2, <3>3
    <2> QED
      BY <2>1, <2>2 DEF Moves
  <1>10. ClosingKept'
    <2> SUFFICES ASSUME Closed', ~greg'.manual, valve # regClosedAngle,
                        greg'.sinceEntry # 0
                 PROVE  greg'.sinceEntry <= CloseLimit'
      <3>0. Since' \in Time
        BY <1>1, <1>6, ElapsedIs
      <3>1. 0 <= CloseLimit'
        <4> DEFINE q == Since'
        <4>1. \/ CloseLimit' = BuckPeriod + q
              \/ q > 0 /\ CloseLimit' = q - 1
              \/ CloseLimit' = CloseBound
          BY DEF CloseLimit
        <4>2. q \in Nat
          BY <1>2, <3>0 DEF Time
        <4> HIDE DEF q
        <4>3. 0 <= BuckPeriod + q /\ (q > 0 => 0 <= q - 1) /\ 0 <= CloseBound
          BY <1>2, <4>2 DEF CloseBound
        <4> QED
          BY <4>1, <4>3
      <3> QED
        BY <1>1, <3>1 DEF ClosingKept
    <2>1. /\ greg'.sinceEntry = greg.sinceEntry /\ Closed
          /\ ~greg.manual
      BY DEF Moves, Closed
    <2>2. greg.sinceEntry <= CloseLimit
      BY <2>1 DEF PowerInv, ClosingKept
    <2>3. CASE greg'.prevBuckTime = p
      BY <1>6, <2>1, <2>2, <2>3 DEF CloseLimit, Since
    <2>4. CASE greg'.prevBuckTime = now /\ p # now
      <3>1. Since' = 0 /\ e > BuckPeriod
        BY <1>1, <1>5, <1>6, <2>4 DEF Moves, Since
      <3>2. NearWrap(p) => ~NearWrap(now)
        BY <1>1, <1>2, <1>3, <3>1 DEF NearWrap, Time
      <3>3. greg.sinceEntry <= CloseBound /\ (~NearWrap(p) => greg.sinceEntry <= BuckPeriod)
        BY <1>1, <1>2, <1>3, <2>2, <3>1 DEF CloseLimit, CloseBound
      <3>4. CloseLimit' = IF NearWrap(now) THEN BuckPeriod ELSE CloseBound
        BY <1>2, <2>4, <3>1 DEF CloseLimit
      <3> QED
        BY <2>1, <3>2, <3>3, <3>4
    <2> QED
      BY <2>3, <2>4 DEF Moves
  <1> QED
    BY <1>7, <1>8, <1>9, <1>10 DEF PowerInv

\* A tick: the clock leaves the last switch-on one further behind.
LEMMA TickKeeps == Inv /\ PowerInv /\ Tick => PowerInv'
  <1> SUFFICES ASSUME Inv, PowerInv, Tick PROVE PowerInv'
    OBVIOUS
  <1> DEFINE e == Since
             p == greg.prevBuckTime
             w == WORD - BuckLongest
             k == Older(greg.sinceEntry)
             d == IF greg.buckEN THEN 0 ELSE Older(greg.dark)
  <1>1. /\ p \in Time /\ now \in Time /\ greg.buckEN \in BOOLEAN
        /\ greg.dark \in Nat /\ greg.sinceEntry \in Nat /\ greg \in Boards
    BY BoardTimes DEF Inv, TypeOK
  <1>2. /\ BuckLongest \in Nat \ {0} /\ BuckLongest < BuckPeriod
        /\ BuckPeriod \in Nat /\ 2 * BuckPeriod < WORD /\ WORD \in Nat
    BY LongestIs, BuckAssumption DEF BuckAssumption
  <1>3. /\ e = IF p <= now THEN now - p ELSE now - p + WORD
        /\ e <= BuckPeriod
    BY <1>1, ElapsedIs DEF Since, PowerInv, PeriodKept, Tick
  <1>4. now' = IF now = WORD - 1 THEN 0 ELSE now + 1
    <2>1. now' = (now + 1) % WORD /\ now + 1 \in Int
      BY <1>1 DEF Tick, Time
    <2>2. 0 <= now + 1 /\ now + 1 <= WORD
      BY <1>1, <1>2 DEF Time
    <2> QED
      BY <1>1, <1>2, <2>1, <2>2, OneTurn DEF Time
  <1>5. now' \in Time
    BY <1>1, <1>2, <1>4 DEF Time
  <1>6. /\ greg'.prevBuckTime = p /\ greg'.dark = d /\ greg'.sinceEntry = k
        /\ greg'.state = greg.state /\ greg'.manual = greg.manual
    <2>1. greg' = [greg EXCEPT !.sinceEntry = k, !.dark = d]
      BY DEF Tick
    <2> HIDE DEF k, d
    <2> QED
      BY <1>1, <2>1 DEF Boards
  <1>7. Since' = e + 1
    <2>1. Since' = IF p <= now' THEN now' - p ELSE now' - p + WORD
      BY <1>1, <1>5, <1>6, ElapsedIs DEF Since
    <2> QED
      BY <1>1, <1>2, <1>3, <1>4, <2>1 DEF Time
  <1>8. e \in Nat
    BY <1>1, <1>2, <1>3 DEF Time
  <1>9. k <= greg.sinceEntry + 1 /\ d <= greg.dark + 1 /\ (greg.buckEN => d = 0)
    BY <1>1 DEF Older
  <1>10. NearWrap(p) => Elapsed(now', w) = Elapsed(now, w) + 1
    <2>1. w \in Time
      BY <1>2 DEF Time
    <2>2. /\ Elapsed(now, w) = IF w <= now THEN now - w ELSE now - w + WORD
          /\ Elapsed(now', w) = IF w <= now' THEN now' - w ELSE now' - w + WORD
      BY <1>1, <1>5, <2>1, ElapsedIs
    <2>3. NearWrap(p) => w <= p
      BY DEF NearWrap
    <2> QED
      BY <1>1, <1>2, <1>3, <1>4, <2>1, <2>2, <2>3 DEF Time
  <1>11. ~NearWrap(p) /\ e = 0 => greg.buckEN
    <2>1. e = 0 => p = now
      BY <1>1, <1>2, <1>3 DEF Time
    <2> QED
      BY <2>1 DEF PowerInv, Fresh
  <1> HIDE DEF e, p, w, k, d
  <1>12. PeriodKept'
    <2>1. ~updated'
      BY DEF Tick
    <2> QED
      BY <1>2, <1>3, <1>7, <1>8, <2>1 DEF PeriodKept
  <1>13. Fresh(greg, now)'
    <2>1. greg'.prevBuckTime # now'
      BY <1>1, <1>2, <1>3, <1>4, <1>6, <1>8 DEF Time
    <2> QED
      BY <2>1 DEF Fresh
  <1>14. DarkKept'
    <2>1. /\ NearWrap(p) => greg.dark <= BuckPeriod + Elapsed(now, w)
          /\ ~NearWrap(p) /\ e > 0 => greg.dark <= e - 1
      BY DEF PowerInv, DarkKept, p, e, w
    <2>2. CASE NearWrap(p)
      <3>1. Elapsed(now, w) \in Nat /\ d \in Nat
        <4>1. w \in Time
          BY <1>2 DEF Time, w
        <4>2. Elapsed(now, w) \in Time
          BY <1>1, <4>1, ElapsedIs
        <4> QED
          BY <1>1, <1>2, <4>2 DEF Time, d, Older
      <3>2. d <= BuckPeriod + Elapsed(now', w)
        BY <1>1, <1>2, <1>9, <1>10, <2>1, <2>2, <3>1
      <3> QED
        BY <1>6, <2>2, <3>2 DEF DarkKept, w
    <2>3. CASE ~NearWrap(p)
      <3>1. d <= e
        <4>1. CASE e = 0
          BY <1>9, <1>11, <2>3, <4>1
        <4>2. CASE e # 0
          <5>1. d \in Nat
            BY <1>1 DEF d, Older
          <5> QED
            BY <1>1, <1>8, <1>9, <2>1, <2>3, <4>2, <5>1
        <4> QED
          BY <4>1, <4>2
      <3>2. Since' > 0 /\ Since' - 1 = e
        BY <1>7, <1>8
      <3> QED
        BY <1>6, <2>3, <3>1, <3>2 DEF DarkKept
    <2> QED
      BY <2>2, <2>3
  <1>15. ClosingKept'
    <2> SUFFICES ASSUME Closed', ~greg'.manual, valve' # regClosedAngle
                 PROVE  greg'.sinceEntry <= CloseLimit'
      BY DEF ClosingKept
    <2>1. Closed /\ ~greg.manual /\ greg.angle = regClosedAngle
      BY <1>6 DEF Closed, Inv, GoodBoard, ServoFollows
    <2>2. ~greg.buckEN /\ valve # regClosedAngle
      BY <2>1 DEF Tick
    <2>3. greg.sinceEntry <= CloseLimit
      BY <2>1, <2>2 DEF PowerInv, ClosingKept
    <2>4. k \in Nat
      BY <1>1 DEF k, Older
    <2>5. CASE NearWrap(p)
      <3>1. CloseLimit = BuckPeriod + e /\ CloseLimit' = BuckPeriod + (e + 1)
        BY <1>6, <1>7, <2>5 DEF CloseLimit, p, e
      <3> QED
        BY <1>1, <1>2, <1>6, <1>8, <1>9, <2>3, <2>4, <3>1
    <2>6. CASE ~NearWrap(p)
      <3>1. e > 0
        BY <1>8, <1>11, <2>2, <2>6
      <3>2. CloseLimit = e - 1 /\ CloseLimit' = e
        <4>1. CloseLimit = e - 1
          BY <2>6, <3>1 DEF CloseLimit, p, e
        <4>2. CloseLimit' = (e + 1) - 1
          BY <1>6, <1>7, <1>8, <2>6 DEF CloseLimit, p
        <4> QED
          BY <1>8, <4>1, <4>2
      <3> QED
        BY <1>1, <1>6, <1>8, <1>9, <2>3, <2>4, <3>2
    <2> QED
      BY <2>5, <2>6
  <1> QED
    BY <1>12, <1>13, <1>14, <1>15 DEF PowerInv

\* A board after setup has just been switched on, at clock value zero.
LEMMA SetupPower ==
    /\ setup.prevBuckTime = 0 /\ setup.dark = 0 /\ setup.sinceEntry = 0
    /\ Fresh(setup, 0)
  <1> DEFINE p == buckOn(blankBoard, 0)
             q == buckOff(p, 0, BuckExit)
             c == enter(q, "STATE_DEFAULT", 0)
  <1>1. 0 \in Time /\ BuckExit \in Nat
    BY BuckAssumption DEF BuckAssumption, Time
  <1>2. blankBoard \in Boards
    BY <1>1, ServoAssumption, ControlAssumption, GregAssumption
    DEF ServoAssumption, ControlAssumption, GregAssumption, blankBoard, Boards,
        AngleLims, StateFlags
  <1>3. p \in Boards /\ p.prevBuckTime = 0 /\ p.dark = 0 /\ Fresh(p, 0)
    <2>1. p \in Boards
      BY <1>1, <1>2, BuckOnKeeps
    <2>2. /\ p.prevBuckTime = 0 /\ p.dark = 0 /\ p.buckEN
          /\ p.buckOffTime = Never
      BY DEF buckOn, blankBoard
    <2>3. 0 <= Never
      BY BuckAssumption DEF BuckAssumption, Never
    <2> QED
      BY <2>1, <2>2, <2>3 DEF Fresh
  <1> HIDE DEF p
  <1>4. q \in Boards /\ PowerKept(p, q, 0)
    BY <1>1, <1>3, BuckOffKeeps
  <1> HIDE DEF q
  <1>5. c.sinceEntry = 0 /\ PowerKept(q, c, 0)
    BY <1>1, <1>4, EnterKeeps DEF Entered, StateFlags
  <1>6. setup = c
    BY DEF setup, enter, c, q, p
  <1> HIDE DEF c
  <1>7. PowerKept(p, c, 0)
    BY <1>4, <1>5, PowerKeptTransitive
  <1>8. Fresh(c, 0)
    BY <1>1, <1>3, <1>7, PowerKeptFresh
  <1> QED
    BY <1>3, <1>5, <1>6, <1>7, <1>8 DEF PowerKept

\* A boot or a reset has just happened.
JustSetUp == greg = setup /\ now = 0

\* Where the board has just been set up the bounds hold.
LEMMA SetupKeeps == JustSetUp => PowerInv
  <1> SUFFICES ASSUME JustSetUp PROVE PowerInv
    OBVIOUS
  <1> USE DEF JustSetUp
  <1>1. Since = 0
    <2>1. 0 \in Time
      BY BuckAssumption DEF BuckAssumption, Time
    <2> QED
      BY <2>1, SetupPower, ElapsedIs DEF Since
  <1>2. ~NearWrap(0) /\ BuckLongest \in Nat /\ BuckPeriod \in Nat
    BY LongestIs, BuckAssumption DEF BuckAssumption, NearWrap
  <1>3. PeriodKept
    BY <1>1, <1>2 DEF PeriodKept
  <1>4. DarkKept
    BY <1>1, <1>2, SetupPower DEF DarkKept
  <1>5. ClosingKept
    BY <1>1, <1>2, SetupPower DEF ClosingKept, CloseLimit, CloseBound
  <1> QED
    BY <1>3, <1>4, <1>5, SetupPower DEF PowerInv

\* Every step keeps the bounds.
LEMMA PowerStep == Inv /\ Inv' /\ PowerInv /\ [Next]_vars => PowerInv'
  <1> SUFFICES ASSUME Inv, Inv', PowerInv, [Next]_vars PROVE PowerInv'
    OBVIOUS
  <1>0. greg' \in Boards /\ GoodBoard(greg) /\ now \in Time /\ armed \in BOOLEAN
    BY DEF Inv, TypeOK
  <1>1. CASE Update
    <2>1. PICK f \in FeedbackReadings, n \in N2Readings :
              greg' = update(greg, armed, f, n, now)
      BY <1>1 DEF Update
    <2>2. f \in Int /\ n \in Int
      BY GregAssumption DEF GregAssumption
    <2>3. /\ Moves(greg, greg', now)
          /\ Elapsed(now, greg'.prevBuckTime) <= BuckPeriod
      BY <1>0, <2>1, <2>2, UpdateMoves
    <2>4. UNCHANGED <<now, valve>>
      BY <1>1 DEF Update
    <2>5. Since' <= BuckPeriod
      BY <2>3, <2>4 DEF Since
    <2> QED
      BY <1>0, <2>3, <2>4, <2>5, HandlerKeeps
  <1>2. CASE Command
    <2>1. ~updated' /\ UNCHANGED <<now, valve>>
      BY <1>2
      DEF Command, Arm, Disarm, ExecuteControlled, ExecuteShutdown, ExecuteDebug,
          ExecutePressurise, execute, DebugExecute, SetPressAngle,
          ServoArmCommand, ServoDisarmCommand, ServoExecuteCommand, directServo,
          Handled
    <2> QED
      BY <1>0, <1>2, <2>1, CommandMoves, HandlerKeeps
  <1>3. CASE Tick
    BY <1>3, TickKeeps
  <1>4. CASE Reboot
    <2>1. JustSetUp'
      BY <1>4 DEF Reboot, JustSetUp
    <2>2. JustSetUp' => PowerInv'
      BY SetupKeeps, PTL
    <2> QED
      BY <2>1, <2>2
  <1>5. CASE UNCHANGED vars
    BY <1>5
    DEF vars, PowerInv, PeriodKept, Since, Fresh, DarkKept, ClosingKept,
        CloseLimit, Closed
  <1> QED
    BY <1>1, <1>2, <1>3, <1>4, <1>5 DEF Next

\* The bounds hold in every reachable state.
LEMMA PowerInvariance == Spec => [](Inv /\ PowerInv)
  <1>1. Init => PowerInv
    BY SetupKeeps DEF Init, JustSetUp
  <1> QED
    BY <1>1, Invariance, PowerStep, PTL DEF Spec

-----------------------------------------------------------------------------
(* The theorems about the power.                                           *)

\* The servo is not without power for longer than a period, and where the
\* clock wraps not for longer than two periods and the longest hold.
THEOREM DarknessBounded == Spec => []DarkBounded
  <1>1. Inv /\ PowerInv => DarkBounded
    <2> SUFFICES ASSUME Inv, PowerInv PROVE DarkBounded
      OBVIOUS
    <2> DEFINE e == Since
               p == greg.prevBuckTime
               w == WORD - BuckLongest
    <2>1. p \in Time /\ now \in Time /\ greg.dark \in Nat
      BY BoardTimes DEF Inv, TypeOK
    <2>2. /\ BuckLongest \in Nat \ {0} /\ BuckLongest < BuckPeriod
          /\ BuckPeriod \in Nat /\ 2 * BuckPeriod < WORD /\ WORD \in Nat
      BY LongestIs, BuckAssumption DEF BuckAssumption
    <2>3. /\ e = IF p <= now THEN now - p ELSE now - p + WORD
          /\ e <= BuckPeriod + 1
      BY <2>1, ElapsedIs DEF Since, PowerInv, PeriodKept
    <2>4. e \in Nat
      BY <2>1, <2>2, <2>3 DEF Time
    <2>5. Elapsed(now, w) = IF w <= now THEN now - w ELSE now - w + WORD
      <3>1. w \in Time
        BY <2>2 DEF Time
      <3> QED
        BY <2>1, <3>1, ElapsedIs
    <2>6. /\ NearWrap(p) => w <= p /\ greg.dark <= BuckPeriod + Elapsed(now, w)
          /\ ~NearWrap(p) /\ e > 0 => greg.dark <= e - 1
          /\ ~NearWrap(p) /\ e = 0 =>
                /\ greg.dark <= 2 * BuckPeriod + BuckLongest
                /\ BuckPeriod < now => greg.dark <= BuckPeriod
      BY DEF PowerInv, DarkKept, NearWrap
    <2>7. w \in Int
      BY <2>2
    <2> HIDE DEF e, p
    <2>8. CASE NearWrap(p)
      <3>1. Elapsed(now, w) <= BuckPeriod + BuckLongest
        BY <2>1, <2>2, <2>3, <2>5, <2>6, <2>8 DEF Time
      <3>2. ~(BuckPeriod < now /\ now < w)
        BY <2>1, <2>2, <2>3, <2>6, <2>8 DEF Time
      <3> QED
        BY <2>1, <2>2, <2>5, <2>6, <2>8, <3>1, <3>2 DEF DarkBounded, Time
    <2>9. CASE ~NearWrap(p)
      BY <2>1, <2>2, <2>3, <2>4, <2>6, <2>9 DEF DarkBounded
    <2> QED
      BY <2>8, <2>9
  <1> QED
    BY <1>1, PowerInvariance, PTL

\* A closed state that nobody disturbs has its valve closed within two
\* periods, wherever the clock wraps and whatever state came before.
THEOREM ClosingBounded == Spec => []ClosesInTime
  <1>1. Inv /\ PowerInv => ClosesInTime
    <2> SUFFICES ASSUME Inv, PowerInv, Closed, ~greg.manual,
                        valve # regClosedAngle
                 PROVE  greg.sinceEntry <= CloseBound
      BY BoardTimes, BuckAssumption
      DEF ClosesInTime, CloseBound, Inv, TypeOK, BuckAssumption
    <2>1. greg.sinceEntry <= CloseLimit /\ Since <= BuckPeriod + 1
      BY DEF PowerInv, ClosingKept, PeriodKept
    <2>2. Since \in Time /\ greg.sinceEntry \in Nat
      BY BoardTimes, ElapsedIs DEF Inv, TypeOK, Since
    <2>3. BuckPeriod \in Nat /\ WORD \in Nat
      BY BuckAssumption DEF BuckAssumption
    <2> HIDE DEF Since
    <2>4. \/ CloseLimit = BuckPeriod + Since
          \/ CloseLimit = Since - 1
          \/ CloseLimit = CloseBound
      BY DEF CloseLimit
    <2> QED
      BY <2>1, <2>2, <2>3, <2>4 DEF CloseBound, Time
  <1> QED
    BY <1>1, PowerInvariance, PTL

-----------------------------------------------------------------------------
(* Telemetry: each step of the two channels is a step of the regulator, so *)
(* its invariant holds here too; what is added is how the copies relate to *)
(* the board they were taken from.                                         *)

\* The regulator's invariant, and what the two copies promise.
ReportInv == Inv /\ PacketExplains /\ ReportConservative

\* The channels never hold the regulator up.
LEMMA ReportRefines == [ReportNext]_tvars => [Next]_vars
  BY DEF ReportNext, tvars, ReportUpdate, ReportCommand, ReportTick, ReportReboot,
         Next

\* Before the first update nothing is promised.
LEMMA ReportInitInv == ReportInit => ReportInv
  <1> SUFFICES ASSUME ReportInit PROVE ReportInv
    OBVIOUS
  <1>1. Inv
    BY InitInv DEF ReportInit
  <1>2. ~updated
    BY DEF ReportInit, Init
  <1> QED
    BY <1>1, <1>2 DEF ReportInv, PacketExplains, ReportConservative

\* An update copies the status as it found it, and the update that follows
\* goes from a closed state to a closed one and forgets no trip.
LEMMA CopyConservative ==
    ASSUME Inv, ReportUpdate
    PROVE  ReportConservative'
  <1>1. Update /\ value' = greg.status
    BY DEF ReportUpdate, copyStatus
  <1>2. greg.status \cap StateFlags = {greg.state}
    BY DEF Inv, GoodBoard, FlagIsState
  <1>3. value' \cap ClosedStates # {} => Closed'
    <2>1. ClosedStates \subseteq StateFlags
      BY DEF ClosedStates, StateFlags
    <2>2. value' \cap ClosedStates # {} => greg.state \in ClosedStates
      BY <1>1, <1>2, <2>1
    <2>3. greg'.state \in ClosedStates \cup {greg.state}
      BY <1>1, UpdateStep DEF ClosedStates
    <2> QED
      BY <2>2, <2>3 DEF Closed
  <1>4. "ERROR_CRITICALOVP" \in value' => Tripped'
    BY <1>1, UpdateStep DEF Tripped, flagSet
  <1> QED
    BY <1>3, <1>4 DEF ReportConservative

\* An update that ends in Controlled has run the control law, and saved the
\* gains it ran with.
LEMMA PacketAfterUpdate ==
    ASSUME Inv, ReportUpdate, greg'.state = "STATE_CONTROLLED", ~greg'.manual
    PROVE  /\ greg'.angle = ControlledAngle(fb', n2',
                                Elapsed(now', greg'.stateEntry) < StartPeriod)
           /\ ~N2Exhausted(n2') =>
                  saved'.FF = feedforward(n2') /\ saved'.Kp = Kp(n2')
  <1>1. Update /\ saved' = IF Controls(greg, armed) THEN saveGains(saved, n2') ELSE saved
    BY DEF ReportUpdate
  <1>2. PICK f \in FeedbackReadings, n \in N2Readings :
            fb' = f /\ n2' = n /\ greg' = update(greg, armed, f, n, now)
    BY <1>1 DEF Update
  <1>3. f \in Int /\ n \in Int
    BY GregAssumption DEF GregAssumption
  <1>4. now' = now
    BY <1>1 DEF Update
  <1>5. /\ armed /\ greg.state = "STATE_CONTROLLED"
        /\ greg'.angle = ControlledAngle(f, n, Elapsed(now, greg'.stateEntry) < StartPeriod)
    BY <1>2, <1>3, UpdateControls DEF Inv, TypeOK
  <1>6. saved' = saveGains(saved, n2')
    BY <1>1, <1>5 DEF Controls
  <1> QED
    BY <1>2, <1>4, <1>5, <1>6 DEF saveGains

\* Every step keeps what the copies promise.
LEMMA ReportStepInv == ReportInv /\ [ReportNext]_tvars => ReportInv'
  <1> SUFFICES ASSUME ReportInv, [ReportNext]_tvars PROVE ReportInv'
    OBVIOUS
  <1>1. Inv'
    BY ReportRefines, StepInv DEF ReportInv
  <1>2. CASE ReportUpdate
    <2>1. ReportConservative'
      BY <1>2, CopyConservative DEF ReportInv
    <2>2. PacketExplains'
      BY <1>2, PacketAfterUpdate DEF ReportInv, PacketExplains, TelemetryPacket
    <2> QED
      BY <1>1, <2>1, <2>2 DEF ReportInv
  <1>3. CASE ReportCommand \/ ReportTick \/ ReportReboot
    <2>1. ~updated'
      BY <1>3
      DEF ReportCommand, ReportTick, ReportReboot, Tick, Reboot, Command, Arm,
          Disarm, ExecuteControlled, ExecuteShutdown, ExecuteDebug,
          ExecutePressurise, execute, DebugExecute, SetPressAngle,
          ServoArmCommand, ServoDisarmCommand, ServoExecuteCommand, directServo,
          Handled
    <2> QED
      BY <1>1, <2>1 DEF ReportInv, PacketExplains, ReportConservative
  <1>4. CASE UNCHANGED tvars
    BY <1>1, <1>4
    DEF tvars, vars, ReportInv, PacketExplains, ReportConservative,
        TelemetryPacket, Closed, Tripped
  <1> QED
    BY <1>2, <1>3, <1>4 DEF ReportNext

\* What the copies promise holds in every reachable state.
LEMMA ReportInvariance == ReportSpec => []ReportInv
  BY ReportInitInv, ReportStepInv, PTL DEF ReportSpec

-----------------------------------------------------------------------------
(* The theorems about the two channels.                                    *)

\* A packet sent while Controlled runs carries the angle its own pressures
\* give, and the gains that angle was computed with.
THEOREM PacketsExplain == ReportSpec => []PacketExplains
  <1>1. ReportInv => PacketExplains
    BY DEF ReportInv
  <1> QED
    BY <1>1, ReportInvariance, PTL

\* A report of a closed state comes from a closed regulator and a reported
\* trip is still latched, although the report is older than the update.
THEOREM ReportsConservative == ReportSpec => []ReportConservative
  <1>1. ReportInv => ReportConservative
    BY DEF ReportInv
  <1> QED
    BY <1>1, ReportInvariance, PTL

\* A report of a trip and an active state at once is gone with the next
\* update.
THEOREM ImpossibleReportsEnd == ReportSpec => ImpossibleReportEnds
  <1>1. ReportInv /\ [ReportNext]_tvars
            => [ReportUpdate /\ updated
                /\ "ERROR_CRITICALOVP" \in value /\ value \cap ActiveStates # {}
                    => value' \cap ActiveStates = {}]_tvars
    <2> SUFFICES ASSUME ReportInv, ReportUpdate, updated,
                        "ERROR_CRITICALOVP" \in value
                 PROVE  value' \cap ActiveStates = {}
      OBVIOUS
    <2>1. Tripped
      BY DEF ReportInv, ReportConservative
    <2>2. greg.state \notin ActiveStates
      BY <2>1 DEF ReportInv, Inv, TrippedMeansClosed, Active
    <2>3. value' = greg.status /\ greg.status \cap StateFlags = {greg.state}
      BY DEF ReportUpdate, copyStatus, ReportInv, Inv, GoodBoard, FlagIsState
    <2>4. ActiveStates \subseteq StateFlags
      BY DEF StateFlags
    <2> QED
      BY <2>2, <2>3, <2>4
  <1> QED
    BY <1>1, ReportInvariance, PTL DEF ReportSpec, ImpossibleReportEnds
=============================================================================
