----------------------------- MODULE BlockDevice -----------------------------
(***************************************************************************)
(* What the file system takes the SD card for: numbered sectors that are   *)
(* read and written a run at a time. A call that succeeds has done what it *)
(* was asked; one that fails has at most written some of the sectors it    *)
(* was given, and no others.                                               *)
(***************************************************************************)
EXTENDS Integers, Sequences

CONSTANTS Sectors, Blocks, Erased

VARIABLES
    dev,        \* content of each sector
    last        \* the last call: op, sector, blocks, ok

bvars == <<dev, last>>

AbstractInit == dev = [s \in Sectors |-> Erased] /\ last.op = "none"

Run(first, n) == first .. first + n - 1
\* Some of the sectors of a run got what was for them.
Partly(first, blocks) ==
    \A s \in Sectors :
        \/ dev'[s] = dev[s]
        \/ s \in Run(first, Len(blocks)) /\ dev'[s] = blocks[1 + s - first]

ARead ==
    /\ last'.op = "read"
    /\ last'.ok => /\ Run(last'.sector, Len(last'.blocks)) \subseteq Sectors
                   /\ \A i \in DOMAIN last'.blocks :
                         last'.blocks[i] = dev[last'.sector + i - 1]
    /\ dev' = dev

AWrite ==
    /\ last'.op = "write"
    /\ Partly(last'.sector, last'.blocks)
    /\ last'.ok => /\ Run(last'.sector, Len(last'.blocks)) \subseteq Sectors
                   /\ \A i \in DOMAIN last'.blocks :
                         dev'[last'.sector + i - 1] = last'.blocks[i]

AErase ==
    /\ last'.op = "erase"
    /\ Partly(last'.sector, last'.blocks)
    /\ \A i \in DOMAIN last'.blocks : last'.blocks[i] = Erased
    /\ last'.ok => \A i \in DOMAIN last'.blocks : dev'[last'.sector + i - 1] = Erased

\* Starting, ending, asking for a register: nothing on the card changes.
AOther == last'.op \in {"begin", "other"} /\ dev' = dev

AbstractSpec == AbstractInit /\ [][ARead \/ AWrite \/ AErase \/ AOther]_bvars
=============================================================================
