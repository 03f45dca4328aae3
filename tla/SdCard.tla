-------------------------------- MODULE SdCard --------------------------------
(***************************************************************************)
(* The card at the other end of the SPI wires, and the wires. Both are     *)
(* outside the repository: what is said here is what SdSpiCard expects of  *)
(* them, with the ways they can fail it.                                   *)
(*                                                                         *)
(* A call s of the driver uses these fields here                           *)
(*   card    the card                                                      *)
(*   active  the chip is selected                                          *)
(*   n       exchanges so far (a command, a block, a wait for the card)    *)
(*   fault   at and kind of what goes wrong                                *)
(*   r       the card's response                                           *)
(* Kinds of fault                                                          *)
(*   lost     bits of what is sent at exchange n change on the way to the  *)
(*            card; of a block from the card, its start                    *)
(*   garbled  bits of what the card sends at exchange n change             *)
(*   stuck    from exchange n on the card is busy or silent                *)
(*   slow     from exchange n on it takes all the time it has              *)
(***************************************************************************)
EXTENDS Integers, Sequences, FiniteSets

CONSTANTS Sectors,      \* 0 .. the card's last sector
          Blocks,       \* contents of a sector, sequences of bytes
          Erased,       \* content of a sector after erasing
          Damaged,      \* what becomes of a block when its bits change
          FrameChecksum,\* the checksums the card expects of a command with
          Checksum      \* its argument, and of a block

\* Commands (an application command is sent behind a CMD55).
Commands == {0, 6, 8, 9, 10, 12, 13, 17, 18, 24, 25, 32, 33, 38, 41, 51, 55, 58, 59}
BytesPerSector == 512
HostCapacity == 2 ^ 30                  \* the argument of ACMD41, bit 30
Args == {0, 1, 426, HostCapacity} \cup {s * BytesPerSector : s \in Sectors} \cup Sectors

\* The blocks that may be on the wires.
Contents == Blocks \cup {Erased}
OnTheWire == Contents \cup {Damaged[b] : b \in Contents}

\* The sectors are numbered without a gap; no change of its bits gives a block
\* the checksum of the one that was sent.
ASSUME CardAssumption ==
    /\ \E highest \in Sectors : highest \in Nat /\ Sectors = 0 .. highest
    /\ \A b \in Contents : Damaged[b] # b /\ Checksum[Damaged[b]] # Checksum[b]

\* A card as it comes; obeys: it takes a command in the middle of a transfer.
NewCard(type, obeys) ==
    [mode |-> "off", type |-> type, obeys |-> obeys, crc |-> FALSE, pos |-> 0,
     from |-> 0, to |-> 0, dev |-> [s \in Sectors |-> Erased]]

Hit(s, kind) == s.fault.kind = kind /\ s.fault.at = s.n
From(s, kind) == s.fault.kind = kind /\ s.fault.at <= s.n
Heard(s) == s.active /\ s.card.mode # "absent"
answer(s, card, r) == [s EXCEPT !.card = card, !.r = r, !.n = @ + 1]

\* No transfer is open, and no range given to erase.
idle(card) == [card EXCEPT !.mode = "ready", !.pos = 0, !.from = 0, !.to = 0]

\* The sector an argument stands for.
AddressOf(card, arg) ==
    IF card.type = "SDHC" THEN arg
    ELSE IF arg % BytesPerSector = 0 THEN arg \div BytesPerSector ELSE -1

\* Commands of a card that is ready: the new mode, at a sector.
ModeAfter(cmd) ==
    CASE cmd = 17 -> "single"  [] cmd = 18 -> "sending"
      [] cmd = 24 -> "taking"  [] cmd = 25 -> "receiving"
Obeyed(card, cmd, arg) ==
    LET sector == AddressOf(card, arg)
        as(c, r) == [card |-> c, r |-> r]
    IN  CASE cmd \in {17, 18, 24, 25} ->
               IF sector \in Sectors
               THEN as([card EXCEPT !.mode = ModeAfter(cmd), !.pos = sector], "ready")
               ELSE as(card, "address")
          [] cmd \in {6, 9, 10, 13, 51} -> as([card EXCEPT !.mode = "register"], "ready")
          [] cmd = 32 -> IF sector \in Sectors
                         THEN as([card EXCEPT !.from = sector], "ready")
                         ELSE as(card, "address")
          [] cmd = 33 -> IF sector \in Sectors
                         THEN as([card EXCEPT !.to = sector], "ready")
                         ELSE as(card, "address")
          [] cmd = 38 -> as([card EXCEPT !.dev = [k \in Sectors |->
                                IF card.from <= k /\ k <= card.to THEN Erased ELSE @[k]],
                                    !.from = 0, !.to = 0],
                            "ready")
          [] cmd \in {55, 58} -> as(card, "ready")
          [] OTHER -> as(card, "illegal")

\* Commands of a card on its way from CMD0 to ready. One of high capacity
\* waits for a host that says it can take that.
Started(card, cmd, arg) ==
    LET as(c, r) == [card |-> c, r |-> r]
    IN  CASE cmd = 59 -> as([card EXCEPT !.crc = (arg = 1)], "idle")
          [] cmd = 8 -> as(card, IF card.type = "SD1" THEN "illegal" ELSE "idle")
          [] cmd = 41 -> IF card.type = "SDHC" /\ arg # HostCapacity
                         THEN as(card, "idle")
                         ELSE as([card EXCEPT !.mode = "ready"], "ready")
          [] cmd \in {55, 58} -> as(card, "idle")
          [] OTHER -> as(card, "illegal")

Understood(card, cmd, arg) ==
    CASE cmd = 0 ->
           [card |-> [idle(card) EXCEPT !.mode = "idle", !.crc = FALSE], r |-> "idle"]
      [] cmd # 0 /\ card.mode = "off" -> [card |-> card, r |-> "none"]
      [] cmd # 0 /\ card.mode = "idle" -> Started(card, cmd, arg)
      [] cmd = 12 /\ card.mode = "sending" ->
           [card |-> idle(card), r |-> "ready"]
      [] cmd \in {32, 33, 38} /\ card.mode = "ready" -> Obeyed(card, cmd, arg)
      [] cmd \notin {0, 12, 32, 33, 38} /\ card.mode = "ready" -> Obeyed(idle(card), cmd, arg)
      [] cmd = 12 /\ card.mode = "ready" -> [card |-> card, r |-> "illegal"]
      [] OTHER -> IF card.obeys THEN Obeyed(idle(card), cmd, arg)
                  ELSE [card |-> card, r |-> "none"]

\* A command on the wires. Without checksums a damaged one is taken as that
\* of another sector.
Reply(s, u) == answer(s, u.card, IF Hit(s, "garbled") THEN "none" ELSE u.r)
Delivered(s, cmd, arg, wrong) ==
    IF ~Heard(s) \/ From(s, "stuck") \/ (wrong /\ s.card.mode = "off")
    THEN answer(s, s.card, "none")
    ELSE IF wrong /\ (s.card.crc \/ cmd \in {0, 8, 59}) THEN answer(s, s.card, "crc")
    ELSE Reply(s, Understood(s.card, cmd, IF wrong THEN CHOOSE a \in Args : a # arg
                                          ELSE arg))
Sent(s, cmd, arg, checksum) ==
    Delivered(s, cmd, arg, \/ Hit(s, "lost")
                           \/ checksum[cmd][arg] # FrameChecksum[cmd][arg])

\* How long a wait lasts that gives up after ms: not at all when the chip is
\* not selected, where the line reads as ready.
BusyFor(s, ms) ==
    IF ~Heard(s) THEN 0
    ELSE IF From(s, "stuck") THEN ms + 2
    ELSE IF From(s, "slow") THEN ms ELSE 0

HasBlock(card) == card.mode \in {"sending", "single", "register"}

\* A block from the card: its content with the checksum, and the card after.
\* From a register it is of no interest.
Content(card) == IF card.mode = "register" \/ card.pos \notin Sectors THEN Erased
                 ELSE card.dev[card.pos]
OnItsWay(s, block, kind) == IF Hit(s, kind) THEN Damaged[block] ELSE block
BlockFrom(s) ==
    LET card == s.card
    IN  [block |-> OnItsWay(s, Content(card), "garbled"),
         crc |-> Checksum[Content(card)],
         started |-> ~Hit(s, "lost") /\ (card.mode = "register" \/ card.pos \in Sectors),
         card |-> IF card.mode = "sending"
                  THEN [card EXCEPT !.pos = IF @ \in Sectors THEN @ + 1 ELSE @]
                  ELSE idle(card)]

\* A block to the card; token is that of a single or of one of many blocks.
Stored(s, came, crc) ==
    LET card == s.card
        after(c) == IF card.mode = "taking" THEN idle(c) ELSE c
    IN  IF (card.crc /\ crc # Checksum[came]) \/ card.pos \notin Sectors
        THEN answer(s, after(card), "rejected")
        ELSE answer(s, after([card EXCEPT !.dev[card.pos] = came, !.pos = @ + 1]),
                    IF Hit(s, "garbled") THEN "none" ELSE "accepted")
Given(s, token, block, crc) ==
    LET expected == \/ s.card.mode = "taking" /\ token = "start"
                    \/ s.card.mode = "receiving" /\ token = "multiple"
    IN  IF ~Heard(s) \/ From(s, "stuck") \/ ~expected THEN answer(s, s.card, "none")
        ELSE Stored(s, OnItsWay(s, block, "lost"), crc)

\* The token that ends a transfer of many blocks to the card.
Stopped(s) ==
    IF Heard(s) /\ s.card.mode = "receiving" /\ ~Hit(s, "lost") /\ ~From(s, "stuck")
    THEN answer(s, idle(s.card), s.r)
    ELSE answer(s, s.card, s.r)
=============================================================================
