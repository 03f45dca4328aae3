---------------------------- MODULE MCGregSweep ----------------------------
(* The control law on a grid of readings that holds every threshold the    *)
(* code compares them with, and their neighbours.                          *)
EXTENDS GregSweep

\* From disconnected to above the full abort, in steps of 2 bar.
MCFeedback ==
    {-101, 0} \cup {20 * i : i \in 18 .. 34} \cup {499, 500, 501, 515, 575, 630, 631}
\* Disconnected, exhausted, just not, and every part of the curves.
MCN2 == {-101, 10, 11, 100, 374, 1200, 1201, 2000, 2600, 2601, 3000, 4500}
=============================================================================
