--------------------------- MODULE MCExFatVolume ---------------------------
(* A card of nine clusters of two sectors of two words each: three for the *)
(* bitmap, one for the root, five for files.                               *)
EXTENDS ExFatVolume

CONSTANTS a1, a2, a3, z1, z2, z3     \* bytes

MCLetter == <<<<a1, a2, a3>>, <<z1, z2, z3>>>>
\* Names of one part and of two; two of the same length, hash and first part.
MCParts == [LOG |-> <<"LOG">>, LOGGED |-> <<"LOGG", "ED">>,
            LOGGER |-> <<"LOGG", "ER">>, D |-> <<"D">>]
MCHash == [LOG |-> "3", LOGGED |-> "6", LOGGER |-> "6", D |-> "1"]
MCPaths == {<<"LOGGED">>, <<"D", "LOG">>}
MCModes == {AtEnd, Anew}
=============================================================================
