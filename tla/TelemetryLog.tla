---------------------------- MODULE TelemetryLog ----------------------------
(***************************************************************************)
(* The telemetry log on the SD card: how System sets the store and the     *)
(* logger up, when an iteration of the loop logs a frame, and what a       *)
(* failing card does to the logger and to the firmware around it.          *)
(*                                                                         *)
(* WrappedFile and StoreBase belong to libriccore, which is not in this    *)
(* repository: appending to a file may throw, as TelemetryLogger::log      *)
(* expects of it, and so may writing to the system log, which is a file of *)
(* the same card: nothing around the loop catches that.                    *)
(***************************************************************************)
EXTENDS Integers

CONSTANTS
    WORD,                   \* the stored time is kept modulo WORD
    telemetry_log_delta,    \* frames are at least this far apart
    MaxTime,                \* bound on the clock
    MaxBoots                \* bound on the restarts of the board

ASSUME LogAssumption ==
    /\ WORD \in Nat \ {0}
    /\ telemetry_log_delta \in Nat /\ telemetry_log_delta < WORD
    /\ MaxTime \in Nat /\ MaxBoots \in Nat

VARIABLES
    phase,          \* "setup", "loop", or "dead" after an uncaught exception
    store,          \* state of the store
    sdError,        \* the card reports an error code
    errorSD,        \* the system flag ERROR_SD
    file,           \* the telemetry file: "none", "open", or "closed"
    initialized,    \* of TelemetryLogger
    now,            \* esp_timer_get_time(), which does not wrap
    prevLogTime,    \* prev_telemetry_log_time, which is kept in 32 bits
    logged,         \* history: clock at the end of the last frame
    looped,         \* an iteration has run since the clock moved
    boots           \* restarts so far

vars == <<phase, store, sdError, errorSD, file, initialized,
          now, prevLogTime, logged, looped, boots>>

Init ==
    /\ phase = "setup"
    /\ store = "NOMINAL"
    /\ sdError = FALSE /\ errorSD = FALSE
    /\ file = "none" /\ initialized = FALSE
    /\ now = 0 /\ prevLogTime = 0 /\ logged = 0
    /\ looped = FALSE
    /\ boots = 0

-----------------------------------------------------------------------------
(* Setup: the store first, then the loggers, then the regulator.           *)

Started == UNCHANGED <<now, prevLogTime, logged, looped, boots>>

\* filesys.begin fails: the error is flagged and no log file is opened.
SetupNoCard ==
    /\ phase = "setup"
    /\ store' = "ERROR_SETUP" /\ errorSD' = TRUE
    /\ phase' = "loop"
    /\ sdError' \in BOOLEAN
    /\ UNCHANGED <<file, initialized>> /\ Started

\* The file is handed to the logger, which writes its header.
SetupLogger ==
    /\ phase = "setup"
    /\ phase' = "loop"
    /\ file' = "open" /\ initialized' = TRUE
    /\ sdError' \in BOOLEAN
    /\ UNCHANGED <<store, errorSD>> /\ Started

\* The header cannot be written, be it that the file was not opened at all:
\* initialize does not catch what append throws.
SetupHeaderFails ==
    /\ phase = "setup"
    /\ phase' = "dead"
    /\ file' = "closed" /\ initialized' = TRUE
    /\ sdError' \in BOOLEAN
    /\ UNCHANGED <<store, errorSD>> /\ Started

-----------------------------------------------------------------------------
(* The loop.                                                               *)

\* What 32 bits keep of a time.
stored(t) == t % WORD

\* Faults: both times in 32 bits, whose difference is negative after a wrap,
\* and a stored time that is never brought up to date.
due_signed(t) == (t % WORD) - prevLogTime > telemetry_log_delta
due_neverStored(t) == t > telemetry_log_delta

\* logReadings compares a 64 bit time with the stored 32 bits.
due(t) == t - prevLogTime > telemetry_log_delta

\* What leaves log or newFlag ends the loop and what was to follow in it.
thrown == phase' = "dead" /\ looped' = FALSE

\* The end of logReadings: the flag of the system, which nothing clears. The
\* system log, a file of the same card, is told when it is raised.
reportCard ==
    /\ errorSD' = (errorSD \/ sdError')
    /\ \/ UNCHANGED phase /\ looped' = TRUE
       \/ errorSD' # errorSD /\ thrown

\* Fault: the logger is not stopped.
appendFails_goesOn == file' = "closed" /\ UNCHANGED initialized

\* What an append that fails leaves: the file closed and the logger stopped.
appendFails == file' = "closed" /\ initialized' = FALSE

\* TelemetryLogger::log and what follows it. The callback of a failed append
\* writes to the system log, inside the catch block.
log ==
    \/ initialized /\ file = "open" /\ UNCHANGED <<file, initialized>> /\ reportCard
    \/ initialized /\ appendFails /\ (reportCard \/ (thrown /\ UNCHANGED errorSD))
    \/ ~initialized /\ UNCHANGED <<file, initialized>> /\ reportCard

\* One iteration: logReadings. The clock is read again after the frame is
\* made, when it may have moved on; the stored time is that of the last read.
LogReadings ==
    /\ phase = "loop"
    /\ sdError' \in (IF sdError THEN {TRUE} ELSE BOOLEAN)
    /\ IF due(now)
       THEN \E t \in now .. now + 1 :
               /\ t <= MaxTime
               /\ now' = t
               /\ prevLogTime' = stored(t)
               /\ logged' = t
               /\ log
       ELSE /\ reportCard
            /\ UNCHANGED <<now, prevLogTime, logged, file, initialized>>
    /\ UNCHANGED <<store, boots>>

\* The loop takes no longer than a tick.
Tick ==
    /\ phase = "loop" /\ looped
    /\ now < MaxTime
    /\ now' = now + 1
    /\ looped' = FALSE
    /\ UNCHANGED <<phase, store, sdError, errorSD, file, initialized,
                   prevLogTime, logged, boots>>

\* A reset, by the watchdog after an uncaught exception or at any other time.
Reset ==
    /\ boots < MaxBoots
    /\ boots' = boots + 1
    /\ phase' = "setup"
    /\ store' = "NOMINAL"
    /\ sdError' = FALSE /\ errorSD' = FALSE
    /\ file' = "none" /\ initialized' = FALSE
    /\ now' = 0 /\ prevLogTime' = 0 /\ logged' = 0
    /\ looped' = FALSE

Next ==
    \/ SetupNoCard \/ SetupLogger \/ SetupHeaderFails
    \/ LogReadings \/ Tick \/ Reset

Spec == Init /\ [][Next]_vars

-----------------------------------------------------------------------------
(* Properties.                                                             *)

\* Every variable keeps its type.
TypeOK ==
    /\ phase \in {"setup", "loop", "dead"}
    /\ store \in {"NOMINAL", "ERROR_SETUP"}
    /\ file \in {"none", "open", "closed"}
    /\ sdError \in BOOLEAN /\ errorSD \in BOOLEAN
    /\ initialized \in BOOLEAN /\ looped \in BOOLEAN
    /\ now \in 0 .. MaxTime /\ logged \in 0 .. MaxTime
    /\ prevLogTime \in 0 .. WORD - 1
    /\ boots \in 0 .. MaxBoots

\* A frame is logged more than telemetry_log_delta after the one before, as
\* long as that one's time fits the 32 bits it is stored in.
FramesSpaced ==
    [][logged' # logged /\ boots' = boots /\ logged < WORD
           => logged' - logged > telemetry_log_delta]_vars

\* No gap: after every iteration the last frame is no older than
\* telemetry_log_delta, before and after the stored time wraps.
NoGap == looped => now - logged <= telemetry_log_delta

\* A file that an append has failed on, and that WrappedFile has closed by
\* itself, is not appended to again.
StoppedLogger == phase = "loop" /\ initialized => file = "open"

\* After an iteration an error of the card has been flagged, whether or not
\* anything is still logged; and there is no flag without an error.
CardErrorFlagged ==
    looped => (errorSD <=> sdError \/ store = "ERROR_SETUP")
=============================================================================
