----------------------------- MODULE BuckPower -----------------------------
(***************************************************************************)
(* The servo's buck converter as NRCGreg drives it: buckOn, buckOff and    *)
(* buckManager, and SiC43x::setEN underneath.                              *)
(*                                                                         *)
(* A board is a record; these operators read and write its fields          *)
(*   buckEN        the enable pin of the converter                         *)
(*   buckOffTime   the clock value after which the pin is cleared          *)
(*   prevBuckTime  the clock value of the last buckOn                      *)
(* Clock values are millis() in ticks. They wrap at WORD, as uint32_t does,*)
(* and the largest one is the code's "never".                              *)
(***************************************************************************)
EXTENDS Integers

CONSTANTS
    WORD,         \* clock values are 0 .. WORD - 1
    BuckPeriod,   \* the converter is switched on again after this long
    BuckPulse,    \* and then stays on this long
    BuckHold,     \* power kept after entering Default or Shutdown
    BuckExit      \* power kept after setup and after Pressurise

ASSUME BuckAssumption ==
    /\ WORD \in Nat
    /\ BuckPeriod \in Nat /\ BuckPulse \in Nat \ {0}
    /\ BuckHold \in Nat /\ BuckExit \in Nat
    /\ BuckPulse < BuckPeriod
    /\ BuckHold < BuckPeriod /\ BuckExit < BuckPeriod
    /\ 2 * BuckPeriod < WORD

Time == 0 .. WORD - 1

\* std::numeric_limits<uint32_t>::max()
Never == WORD - 1

\* The longest time for which buckOff is ever asked to leave the power on.
BuckLongest ==
    CHOOSE d \in {BuckPulse, BuckHold, BuckExit} :
        BuckPulse <= d /\ BuckHold <= d /\ BuckExit <= d

\* later - earlier in uint32_t arithmetic.
Elapsed(later, earlier) == (later - earlier) % WORD

buckOn(b, now) ==
    [b EXCEPT !.buckEN = TRUE, !.buckOffTime = Never, !.prevBuckTime = now]

buckOff(b, now, deadline) ==
    [b EXCEPT !.buckOffTime = (now + deadline) % WORD]

\* Faults: no pulse, and a pulse that ends as soon as it is looked at again.
buckManager_noPulse(b, now) ==
    [b EXCEPT !.buckEN = @ /\ ~(now > b.buckOffTime)]
buckManager_emptyPulse(b, now) ==
    IF Elapsed(now, b.prevBuckTime) > BuckPeriod
    THEN [buckOff(buckOn(b, now), now, BuckPulse) EXCEPT !.buckEN = FALSE]
    ELSE [b EXCEPT !.buckEN = @ /\ ~(now > b.buckOffTime)]

\* Called on every update, whatever the state: a pulse of power once per
\* period, and power off when the stored time is passed.
buckManager(b, now) ==
    IF Elapsed(now, b.prevBuckTime) > BuckPeriod
    THEN buckOff(buckOn(b, now), now, BuckPulse)
    ELSE [b EXCEPT !.buckEN = @ /\ ~(now > b.buckOffTime)]
=============================================================================
