------------------------ MODULE TelemetryLog_proofs ------------------------
(***************************************************************************)
(* Theorems about the telemetry log, for every size of the stored time,    *)
(* every spacing of the frames and every bound on the clock.               *)
(***************************************************************************)
EXTENDS TelemetryLog, TLAPS

-----------------------------------------------------------------------------
(* The inductive invariant.                                                *)

\* The times: the stored time is what is left of the time of the last frame.
Times ==
    /\ now \in 0 .. MaxTime /\ logged \in 0 .. MaxTime
    /\ prevLogTime \in 0 .. WORD - 1
    /\ boots \in 0 .. MaxBoots
    /\ prevLogTime = stored(logged) /\ logged <= now

\* In setup nothing has happened yet.
Fresh ==
    phase = "setup" =>
        /\ ~initialized /\ ~errorSD /\ ~looped
        /\ store = "NOMINAL"

\* The flag has a cause, and a store that was not set up has the flag.
FlagHasCause ==
    /\ errorSD => sdError \/ store = "ERROR_SETUP"
    /\ store = "ERROR_SETUP" => errorSD

\* What the firmware, the card and the logger are doing.
Modes ==
    /\ phase \in {"setup", "loop", "dead"}
    /\ store \in {"NOMINAL", "ERROR_SETUP"}
    /\ file \in {"none", "open", "closed"}
    /\ sdError \in BOOLEAN /\ errorSD \in BOOLEAN
    /\ initialized \in BOOLEAN /\ looped \in BOOLEAN
    /\ Fresh /\ StoppedLogger /\ FlagHasCause /\ CardErrorFlagged

LogInv == Times /\ Modes /\ NoGap

-----------------------------------------------------------------------------
\* The stored time never exceeds the time, and is the time until it wraps.
LEMMA StoredBounds ==
    ASSUME NEW t \in Nat
    PROVE  /\ stored(t) \in 0 .. WORD - 1
           /\ stored(t) <= t
           /\ t < WORD => stored(t) = t
  BY LogAssumption DEF LogAssumption, stored

\* Zero is stored as it is, and every counter starts within its bound.
LEMMA ZeroTimes ==
    /\ stored(0) = 0 /\ 0 \in 0 .. WORD - 1
    /\ 0 \in 0 .. MaxTime /\ 0 \in 0 .. MaxBoots
    /\ 0 - 0 <= telemetry_log_delta
  BY StoredBounds, LogAssumption DEF LogAssumption

\* A board that has just been switched on.
LEMMA InitLog == Init => LogInv
  <1> SUFFICES ASSUME Init PROVE LogInv
    OBVIOUS
  <1>1. Times
    BY ZeroTimes DEF Init, Times
  <1>2. Modes
    BY Zenon DEF Init, Modes, Fresh, StoppedLogger, FlagHasCause, CardErrorFlagged
  <1>3. NoGap
    BY ZeroTimes DEF Init, NoGap
  <1> QED
    BY <1>1, <1>2, <1>3 DEF LogInv

\* The three outcomes of setup leave the times alone.
LEMMA SetupStep ==
    ASSUME LogInv, SetupNoCard \/ SetupLogger \/ SetupHeaderFails
    PROVE  LogInv'
  <1>1. Started /\ phase = "setup" /\ ~looped /\ ~looped'
    BY DEF LogInv, Modes, Fresh, SetupNoCard, SetupLogger, SetupHeaderFails,
           Started
  <1>2. Times'
    BY <1>1 DEF Started, LogInv, Times, stored
  <1>3. Modes'
    <2>1. CASE SetupNoCard
      BY <1>1, <2>1, Zenon
      DEF LogInv, Modes, SetupNoCard, Started, Fresh, StoppedLogger,
          FlagHasCause, CardErrorFlagged
    <2>2. CASE SetupLogger
      BY <1>1, <2>2, Zenon
      DEF LogInv, Modes, SetupLogger, Started, Fresh, StoppedLogger,
          FlagHasCause, CardErrorFlagged
    <2>3. CASE SetupHeaderFails
      BY <1>1, <2>3, Zenon
      DEF LogInv, Modes, SetupHeaderFails, Started, Fresh, StoppedLogger,
          FlagHasCause, CardErrorFlagged
    <2> QED
      BY <2>1, <2>2, <2>3
  <1>4. NoGap'
    BY <1>1 DEF NoGap
  <1> QED
    BY <1>2, <1>3, <1>4 DEF LogInv

\* What the end of logReadings, or an exception on the way to it, leaves.
Ends ==
    \/ reportCard
    \/ thrown /\ UNCHANGED errorSD

\* What TelemetryLogger::log leaves, whether or not the card fails.
LEMMA LogKeeps ==
    ASSUME LogInv, phase = "loop", log
    PROVE  /\ Ends
           /\ file' \in {"none", "open", "closed"} /\ initialized' \in BOOLEAN
           /\ initialized' => file' = "open"
  <1>1. Ends /\ file' \in {"none", "open", "closed"}
    BY DEF log, appendFails, Ends, LogInv, Modes
  <1>2. initialized' \in BOOLEAN
    BY DEF log, appendFails, LogInv, Modes
  <1>3. initialized' => file' = "open"
    BY DEF log, appendFails, LogInv, Modes, StoppedLogger
  <1> QED
    BY <1>1, <1>2, <1>3

\* What an iteration does to the flag, given what it leaves of the logger.
LEMMA LoopModes ==
    ASSUME LogInv, LogReadings, Ends,
           file' \in {"none", "open", "closed"}, initialized' \in BOOLEAN,
           initialized' => file' = "open"
    PROVE  Modes'
  <1>1. /\ phase = "loop" /\ store' = store
        /\ sdError' \in BOOLEAN /\ (sdError => sdError')
    BY Zenon DEF LogReadings
  <1>2. errorSD \in BOOLEAN /\ FlagHasCause /\ store \in {"NOMINAL", "ERROR_SETUP"}
    BY Zenon DEF LogInv, Modes
  <1>3. /\ phase' \in {"loop", "dead"} /\ looped' \in BOOLEAN
        /\ errorSD' \in BOOLEAN
    BY <1>1, <1>2, Zenon DEF Ends, reportCard, thrown
  <1>4. Fresh' /\ StoppedLogger'
    BY <1>3, Zenon DEF Fresh, StoppedLogger
  <1>5. FlagHasCause' /\ CardErrorFlagged'
    <2>1. CASE reportCard
      BY <1>1, <1>2, <2>1, Zenon DEF reportCard, FlagHasCause, CardErrorFlagged
    <2>2. CASE thrown /\ UNCHANGED errorSD
      BY <1>1, <1>2, <2>2, Zenon DEF thrown, FlagHasCause, CardErrorFlagged
    <2> QED
      BY <2>1, <2>2 DEF Ends
  <1> QED
    BY <1>1, <1>2, <1>3, <1>4, <1>5, Zenon DEF Modes

\* One iteration of the loop: a frame is due or it is not.
LEMMA LogReadingsStep ==
    ASSUME LogInv, LogReadings
    PROVE  LogInv'
  <1>1. CASE due(now)
    <2>1. PICK t \in now .. now + 1 :
              /\ t <= MaxTime
              /\ now' = t /\ prevLogTime' = stored(t) /\ logged' = t
              /\ log
      BY <1>1 DEF LogReadings
    <2>2. t \in Nat /\ t \in 0 .. MaxTime
      BY <2>1, LogAssumption DEF LogAssumption, LogInv, Times
    <2>3. Times'
      BY <2>1, <2>2, StoredBounds DEF LogReadings, LogInv, Times, stored
    <2>4. NoGap'
      BY <2>1, <2>2, LogAssumption DEF LogAssumption, NoGap
    <2>5. phase = "loop"
      BY DEF LogReadings
    <2>6. Modes'
      BY <2>1, <2>5, LogKeeps, LoopModes
    <2> QED
      BY <2>3, <2>4, <2>6 DEF LogInv
  <1>2. CASE ~due(now)
    <2>1. Ends /\ UNCHANGED <<now, prevLogTime, logged, file, initialized>>
      BY <1>2 DEF LogReadings, Ends
    <2>2. Times'
      BY <2>1 DEF LogReadings, LogInv, Times, stored
    <2>3. prevLogTime <= logged
      BY StoredBounds, LogAssumption DEF LogAssumption, LogInv, Times
    <2>4. NoGap'
      BY <1>2, <2>1, <2>3, LogAssumption
      DEF LogAssumption, due, NoGap, LogInv, Times
    <2>5. /\ file' \in {"none", "open", "closed"} /\ initialized' \in BOOLEAN
          /\ initialized' => file' = "open"
      BY <2>1, Zenon DEF LogReadings, LogInv, Modes, StoppedLogger
    <2> QED
      BY <2>1, <2>2, <2>4, <2>5, LoopModes DEF LogInv
  <1> QED
    BY <1>1, <1>2

\* Time passes, or nothing happens.
LEMMA TickStep ==
    ASSUME LogInv, Tick \/ UNCHANGED vars
    PROVE  LogInv'
  <1>1. CASE Tick
    <2>1. Times'
      BY <1>1, LogAssumption DEF LogAssumption, Tick, LogInv, Times, stored
    <2>2. Modes'
      BY <1>1, Zenon DEF Tick, LogInv, Modes, Fresh, StoppedLogger,
                         FlagHasCause, CardErrorFlagged
    <2>3. NoGap'
      BY <1>1 DEF Tick, NoGap
    <2> QED
      BY <2>1, <2>2, <2>3 DEF LogInv
  <1>2. CASE UNCHANGED vars
    BY <1>2 DEF vars, LogInv, Times, stored, Modes, NoGap, Fresh,
                StoppedLogger, FlagHasCause, CardErrorFlagged
  <1> QED
    BY <1>1, <1>2

\* A reset starts over.
LEMMA ResetStep ==
    ASSUME LogInv, Reset
    PROVE  LogInv'
  <1>1. boots' \in 0 .. MaxBoots
    BY LogAssumption DEF LogAssumption, LogInv, Times, Reset
  <1>2. Times'
    BY <1>1, ZeroTimes DEF Reset, Times, stored
  <1>3. Modes'
    BY Zenon DEF Reset, Modes, Fresh, StoppedLogger, FlagHasCause, CardErrorFlagged
  <1>4. NoGap'
    BY DEF Reset, NoGap
  <1> QED
    BY <1>2, <1>3, <1>4 DEF LogInv

\* The invariant holds of every reachable state.
LEMMA LogInvariance == Spec => []LogInv
  <1>1. LogInv /\ [Next]_vars => LogInv'
    BY SetupStep, LogReadingsStep, TickStep, ResetStep DEF Next
  <1> QED
    BY InitLog, <1>1, PTL DEF Spec

-----------------------------------------------------------------------------
(* The theorems.                                                           *)

\* Every variable of the log keeps its type: what is stored of a time fits
\* the bits it is stored in.
THEOREM LogTypes == Spec => []TypeOK
  <1>1. LogInv => TypeOK
    BY Zenon DEF LogInv, Times, Modes, TypeOK
  <1> QED
    BY <1>1, LogInvariance, PTL

\* After every iteration of the loop the last frame is no older than the
\* spacing, on both sides of every wrap of the stored time.
THEOREM NoGaps == Spec => []NoGap
  <1>1. LogInv => NoGap
    BY DEF LogInv
  <1> QED
    BY <1>1, LogInvariance, PTL

\* A logger in the loop that is still initialised has an open file: it has
\* never gone on after an append that failed.
THEOREM LoggerStops == Spec => []StoppedLogger
  <1>1. LogInv => StoppedLogger
    BY Zenon DEF LogInv, Modes
  <1> QED
    BY <1>1, LogInvariance, PTL

\* After every iteration the system flag tells of the card's error, and is
\* not raised without one.
THEOREM ErrorsFlagged == Spec => []CardErrorFlagged
  <1>1. LogInv => CardErrorFlagged
    BY Zenon DEF LogInv, Modes
  <1> QED
    BY <1>1, LogInvariance, PTL

\* Until the stored time wraps, two frames are further apart than the
\* spacing: logReadings compares with the time it stored for the last one.
THEOREM FramesAreSpaced == Spec => FramesSpaced
  <1>1. ASSUME LogInv, [Next]_vars, logged' # logged, boots' = boots,
               logged < WORD
        PROVE  logged' - logged > telemetry_log_delta
    <2>1. LogReadings
      <3>1. boots' # boots + 1
        BY <1>1 DEF LogInv, Times
      <3> QED
        BY <1>1, <3>1
        DEF Next, vars, SetupNoCard, SetupLogger, SetupHeaderFails, Started,
            Tick, Reset
    <2>2. due(now)
      BY <1>1, <2>1 DEF LogReadings
    <2>3. PICK t \in now .. now + 1 : logged' = t
      BY <2>1, <2>2 DEF LogReadings
    <2>4. prevLogTime = logged
      BY <1>1, StoredBounds, LogAssumption DEF LogAssumption, LogInv, Times
    <2> QED
      BY <1>1, <2>2, <2>3, <2>4, LogAssumption
      DEF LogAssumption, due, LogInv, Times
  <1>2. LogInv /\ [Next]_vars
            => [logged' # logged /\ boots' = boots /\ logged < WORD
                    => logged' - logged > telemetry_log_delta]_vars
    BY <1>1
  <1> QED
    BY <1>2, LogInvariance, PTL DEF Spec, FramesSpaced
=============================================================================
