----------------------------- MODULE MCFatPower -----------------------------
(* The card of MCFatVolume, as the loggers use it.                         *)
EXTENDS FatPower, TLC

CONSTANTS log, tel,                  \* the two loggers' objects
          a1, a2, a3, z1, z2, z3     \* bytes

MCLetter == (log :> <<a1, a2, a3>>) @@ (tel :> <<z1, z2, z3>>)
\* The two objects are alike, but for the bytes they write.
MCSwaps(p) == /\ p[log] = tel /\ p[a1] = z1 /\ p[a2] = z2 /\ p[a3] = z3
              /\ \A x \in DOMAIN p : p[p[x]] = x
MCAlike == {p \in Permutations({log, tel, a1, a2, a3, z1, z2, z3}) :
               MCSwaps(p) \/ \A x \in DOMAIN p : p[x] = x}
MCNameOrd == [LOG |-> 0, LOGGED |-> 1, D |-> 0]
MCShort == [LOG |-> "LOG", LOGGED |-> "LOG~1", D |-> "D"]
MCLogs == {<<"LOG">>, <<"D", "LOGGED">>}
MCModes == {AtEnd}
\* What comes for a sector that cannot be read: nothing, zeros or ones.
AllSectors(entry, record) ==
    [s \in 0 .. LastSector |->
        [w \in Words |-> IF s < DataStartSector THEN entry ELSE record]]
MCNoise ==
    {<<>>, AllSectors(Free, freeEntry),
     AllSectors(EOC, [freeEntry EXCEPT !.kind = "deleted"])}
MCFaults == {NoFault} \cup [io : {0, 1, 3}, noise : MCNoise]
=============================================================================
