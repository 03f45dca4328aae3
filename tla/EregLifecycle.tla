--------------------------- MODULE EregLifecycle ---------------------------
(***************************************************************************)
(* What the regulator promises whoever stands next to it, without its      *)
(* readings, flags, clock and power: whether it may move the valve, and    *)
(* when the valve can open.                                                *)
(*                                                                         *)
(*   mode    "closed" in Default, "locked" in Shutdown, "active" otherwise *)
(*   enabled the operator has armed it                                     *)
(*   tripped it has seen an overpressure since the last reset              *)
(*   manual  the operator moves the servo directly                         *)
(*   open    the valve is not closed                                       *)
(***************************************************************************)
EXTENDS Integers

CONSTANT MaxResets

VARIABLES mode, enabled, tripped, manual, open, resets

vars == <<mode, enabled, tripped, manual, open, resets>>

Modes == {"closed", "active", "locked"}

Init ==
    /\ mode = "closed" /\ ~enabled /\ ~tripped /\ ~manual
    /\ open \in BOOLEAN
    /\ resets = 0

SetEnabled ==
    /\ enabled' \in BOOLEAN
    /\ UNCHANGED <<mode, tripped, manual, open, resets>>

\* Only an enabled regulator in its closed mode becomes active, even one that
\* has tripped: the trip acts in the supervision that follows.
Activate ==
    /\ enabled /\ mode = "closed"
    /\ mode' = "active"
    /\ UNCHANGED <<enabled, tripped, manual, open, resets>>

\* The operator can always lock an enabled regulator.
Lock ==
    /\ enabled
    /\ mode' = "locked" /\ manual' = FALSE
    /\ UNCHANGED <<enabled, tripped, open, resets>>

\* A mode the supervision can end in: not active without being enabled or
\* once tripped; locked only if it was, or by a trip while active.
Supervised(m) ==
    CASE m = "active" -> enabled /\ mode = "active" /\ ~tripped'
      [] m = "locked" -> enabled /\ (mode = "locked" \/ (mode = "active" /\ tripped'))
      [] m = "closed" -> mode # "locked" \/ ~enabled

Supervise ==
    /\ tripped' \in BOOLEAN /\ (tripped => tripped')
    /\ mode' \in {m \in Modes : Supervised(m)}
    /\ manual' \in (IF mode' = mode THEN {manual} ELSE {FALSE})
    /\ UNCHANGED <<enabled, open, resets>>

TakeOver ==
    /\ manual' = TRUE
    /\ UNCHANGED <<mode, enabled, tripped, open, resets>>

\* The valve opens only while the regulator is active and has not tripped,
\* or by the operator's own hand.
Move ==
    /\ open' \in BOOLEAN
    /\ open' => open \/ manual \/ (mode = "active" /\ ~tripped)
    /\ UNCHANGED <<mode, enabled, tripped, manual, resets>>

Reset ==
    /\ resets < MaxResets
    /\ resets' = resets + 1
    /\ mode' = "closed"
    /\ enabled' = FALSE /\ tripped' = FALSE /\ manual' = FALSE
    /\ UNCHANGED open

Next ==
    \/ SetEnabled \/ Activate \/ Lock \/ Supervise \/ TakeOver \/ Move \/ Reset

Spec == Init /\ [][Next]_vars
=============================================================================
