------------------------------- MODULE SdDevice -------------------------------
(***************************************************************************)
(* The SD card driver in use: the file system calls it, one call after the *)
(* other, while the card may be taken out and put back and a fault may     *)
(* strike any exchange of a call.                                          *)
(***************************************************************************)
EXTENDS SdSpiCard

CONSTANTS
    Cards,          \* cards there may be: their type, "SD1", "SD2" or "SDHC",
                    \* and whether they take a command amid a transfer
    DedicatedSpi,   \* values of the option of begin (the firmware's is FALSE)
    Runs,           \* the numbers of sectors that a call is given
    Kinds,          \* faults that may strike
    Starts          \* what the clock may show when a call begins

ASSUME DeviceAssumption ==
    /\ Cards \subseteq [type : {"SD1", "SD2", "SDHC"}, obeys : BOOLEAN]
    /\ DedicatedSpi \subseteq BOOLEAN /\ Runs \subseteq Nat \ {0}
    /\ Kinds \subseteq {"lost", "garbled", "stuck", "slow"}
    /\ Starts \subseteq 0 .. ClockRange - 1

VARIABLES
    drv,            \* members of the driver
    card,           \* the card
    mounted,        \* the last begin succeeded; the file system calls only then
    last            \* the last call: what it was, and what came of it

dvars == <<drv, card, mounted, last>>

Untroubled == [kind |-> "none", at |-> 0]

\* A call as it begins; what it has come to, for every fault that meets one of
\* its exchanges.
Call(fault, start) ==
    [active |-> drv.active, state |-> drv.state, cur |-> drv.cur,
     error |-> drv.error, type |-> drv.type, dedicated |-> drv.dedicated,
     began |-> drv.began, card |-> card, fault |-> fault, n |-> 1, now |-> start,
     r |-> "none", ok |-> TRUE, val |-> <<>>]
driverOf(s) ==
    [active |-> s.active, state |-> s.state, cur |-> s.cur, error |-> s.error,
     type |-> s.type, dedicated |-> s.dedicated, began |-> s.began]
Result(s) == [drv |-> driverOf(s), card |-> s.card, ok |-> s.ok, val |-> s.val]
FaultsAmong(exchanges) == {Untroubled} \cup [kind : Kinds, at : 1 .. exchanges]
Outcomes(Run(_)) ==
    UNION {{Result(Run(Call(f, t))) : f \in FaultsAmong(Run(Call(Untroubled, t)).n - 1)}
           : t \in Starts}

Uneventful == [op |-> "other", sector |-> 0, blocks |-> <<>>, ok |-> TRUE]

Called(s, what, sector, blocks) ==
    /\ drv' = s.drv /\ card' = s.card
    /\ last' = [op |-> what, sector |-> sector, blocks |-> blocks, ok |-> s.ok]
    /\ mounted' = IF what = "begin" THEN s.ok ELSE mounted /\ s.drv.began

Init ==
    /\ drv = Created /\ mounted = FALSE
    /\ \E c \in Cards : card = NewCard(c.type, c.obeys)
    /\ last = [Uneventful EXCEPT !.op = "none"]

-----------------------------------------------------------------------------
(* The calls.                                                              *)

Begin(dedicated) ==
    \E s \in Outcomes(LAMBDA c : begin(c, dedicated)) :
        Called(s, "begin", 0, <<>>)

\* One that moves no sectors of a file.
Done(Run(_)) == mounted /\ \E s \in Outcomes(Run) : Called(s, "other", 0, <<>>)
End == Done(finish)
Sync == Done(syncDevice)
SetDedicated(value) == Done(LAMBDA c : setDedicatedSpi(c, value))
IsBusy == Done(isBusy)
Register(cmd) == Done(LAMBDA c : readRegister(c, cmd))

ReadSectors(sector, n) ==
    /\ mounted
    /\ \E s \in Outcomes(LAMBDA c : readSectors(c, sector, n)) :
          Called(s, "read", sector, s.val)

Written(Run(_), sector, src) ==
    mounted /\ \E s \in Outcomes(Run) :
        Called(s, "write", sector, src)
WriteSector(sector, b) == Written(LAMBDA c : writeSector(c, sector, b), sector, <<b>>)
WriteSectors(sector, src) == Written(LAMBDA c : writeSectors(c, sector, src), sector, src)

Erase(first, n) ==
    mounted /\ \E s \in Outcomes(LAMBDA c : erase(c, first, first + n - 1)) :
        Called(s, "erase", first, [i \in 1 .. n |-> Erased])

\* The card is pulled out, and put back as it was but for being off.
Pull == /\ card.mode # "absent" /\ card' = [card EXCEPT !.mode = "absent"]
        /\ last' = Uneventful /\ UNCHANGED <<drv, mounted>>
Insert == /\ card.mode = "absent"
          /\ card' = [NewCard(card.type, card.obeys) EXCEPT !.dev = card.dev]
          /\ last' = Uneventful /\ UNCHANGED <<drv, mounted>>

Next ==
    \/ \E d \in DedicatedSpi : Begin(d) \/ SetDedicated(d)
    \/ End \/ Sync \/ IsBusy \/ Pull \/ Insert
    \/ \E cmd \in {13, 58} : Register(cmd)
    \/ \E n \in Runs, sector \in Sectors :
          /\ sector + n - 1 \in Sectors
          /\ \/ ReadSectors(sector, n) \/ Erase(sector, n)
             \/ \E b \in Blocks : WriteSectors(sector, [i \in 1 .. n |-> b])
    \/ \E sector \in Sectors, b \in Blocks : WriteSector(sector, b)

Spec == Init /\ [][Next]_dvars
-----------------------------------------------------------------------------
(* Properties.                                                             *)

\* A file system is mounted only over a driver that gives sectors the numbers
\* the card knows them by, though a lost answer can make it take a card for an
\* older one.
AddressesAgree == mounted => ((drv.type = "SDHC") <=> (card.type = "SDHC"))

\* Between calls the chip is selected only for a transfer of dedicated SPI, so
\* that a shared bus is free, whatever has failed.
ChipReleased == drv.active => drv.dedicated /\ drv.state # "IDLE"

\* A card that works can be used: it starts, if it is in, whatever state it
\* and the driver were left in and even if it takes its time; and once the
\* open transfer is given up it can be read, if it is one that takes commands.
Slowly == [kind |-> "slow", at |-> 1]
Recovers ==
    \A f \in {Untroubled, Slowly}, t \in Starts : card.mode # "absent" =>
        /\ begin(Call(f, t), FALSE).ok
        /\ mounted /\ card.obeys /\ card.mode \notin {"off", "idle"} =>
              \A sector \in Sectors :
                  readSectors(syncDevice(Call(f, t)), sector, 1).ok

\* A failed call leaves an error code, from which the firmware tells that the
\* card has failed, and only begin takes it back.
FailureFlagged ==
    [][/\ ~last'.ok => drv'.error # "NONE"
       /\ drv.error # "NONE" /\ drv'.error = "NONE" =>
             last'.op = "begin"]_dvars

\* The driver and the card together are the device the file system expects.
Device == INSTANCE BlockDevice WITH dev <- card.dev
IsBlockDevice == Device!AbstractSpec
=============================================================================
