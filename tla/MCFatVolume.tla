----------------------------- MODULE MCFatVolume -----------------------------
(* A card of four clusters of two sectors of two words each; the root      *)
(* directory has the first of them.                                        *)
EXTENDS FatVolume

CONSTANTS a1, a2, a3, z1, z2, z3     \* bytes

MCLetter == <<<<a1, a2, a3>>, <<z1, z2, z3>>>>
\* A short name, and two long ones that are shortened to the same.
MCNameOrd == [LOG |-> 0, LOGGED |-> 1, LOGGER |-> 1, D |-> 0]
MCShort == [LOG |-> "LOG", LOGGED |-> "LOG~1", LOGGER |-> "LOG~1", D |-> "D"]
MCFiles == {<<"LOG">>, <<"LOGGED">>}
MCTree == {<<"LOGGED">>, <<"LOGGER">>, <<"D", "LOG">>}
MCModes == {AtEnd, Anew, ForUpdate}
MCTreeModes == {AtEnd}
MCNoFault == {NoFault}
=============================================================================
