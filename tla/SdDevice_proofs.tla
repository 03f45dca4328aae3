--------------------------- MODULE SdDevice_proofs ---------------------------
(***************************************************************************)
(* The driver and the card together are the device that the file system    *)
(* takes them for, for every card, run of sectors, clock and fault. First  *)
(* come the lemmas about what each function of the driver leaves behind,   *)
(* then the inductive invariant and the theorems.                          *)
(***************************************************************************)
EXTENDS SdDevice, Loops

-----------------------------------------------------------------------------
(* The clock.                                                              *)

\* The clock goes on, or starts again.
LEMMA ClockOn ==
    ASSUME NEW C \in Nat, C > 4, NEW a \in Int
    PROVE  (a + 1) % C = IF a % C = C - 1 THEN 0 ELSE (a % C) + 1
  <1> DEFINE r == a % C
             b == a + 1
  <1> SUFFICES b % C = IF r = C - 1 THEN 0 ELSE r + 1
    OBVIOUS
  <1>0. b \in Int
    OBVIOUS
  <1>1. PICK q \in Int : Splits(a, C, q, r) /\ r \in 0 .. C - 1
    BY RemainderOf
  <1> HIDE DEF r, b
  <1>2. CASE r = C - 1
    <2>1. Splits(b, C, q + 1, 0) /\ q + 1 \in Int /\ 0 \in 0 .. C - 1
      BY <1>1, <1>2 DEF Splits, b
    <2>2. b % C = 0
      BY <1>0, <2>1, RemainderIs
    <2> QED
      BY <1>2, <2>2
  <1>3. CASE r # C - 1
    <2>1. Splits(b, C, q, r + 1) /\ r + 1 \in 0 .. C - 1
      BY <1>1, <1>3 DEF Splits, b
    <2>2. b % C = r + 1
      BY <1>0, <2>1, RemainderIs
    <2> QED
      BY <1>3, <2>2
  <1> QED
    BY <1>2, <1>3

-----------------------------------------------------------------------------
(* Types.                                                                  *)

Modes == {"absent", "off", "idle", "ready", "single", "sending", "taking",
          "receiving", "register"}
Responses == {"none", "ready", "idle", "illegal", "address", "crc", "rejected",
              "accepted"}
Faults == [kind : {"none", "lost", "garbled", "stuck", "slow"}, at : Int]
CardStates ==
    [mode : Modes, type : {"SD1", "SD2", "SDHC"}, obeys : BOOLEAN, crc : BOOLEAN,
     pos : Int, from : Int, to : Int, dev : [Sectors -> Contents]]
Calls ==
    [active : BOOLEAN, state : {"IDLE", "READ", "WRITE"}, cur : Int,
     error : {"NONE", "FAILED", "INIT_NOT_CALLED"},
     type : {"none", "SD1", "SD2", "SDHC"}, dedicated : BOOLEAN, began : BOOLEAN,
     card : CardStates, fault : Faults, n : Int, now : Int,
     r : Responses, ok : BOOLEAN, val : Seq(Contents)]

\* A card that has started compares the checksums.
Checked(c) == c.mode \in {"absent", "off", "idle"} \/ c.crc = TRUE

\* One that works for the file system does, or is off.
Working(c) == c.mode \in {"absent", "off"} \/ (c.mode # "idle" /\ c.crc = TRUE)

\* So does one on its way to ready, once it has been told to.
Guarded(c) == c.mode = "idle" => c.crc = TRUE

\* It is the same card, with the same content.
SameCard(c, d) == d.type = c.type /\ d.obeys = c.obeys
SameContent(c, d) == SameCard(c, d) /\ d.dev = c.dev

-----------------------------------------------------------------------------
(* The card.                                                               *)

\* A card given up to no transfer is as it was otherwise.
LEMMA idleTyped ==
    ASSUME NEW c \in CardStates
    PROVE  /\ idle(c) \in CardStates /\ idle(c).mode = "ready" /\ idle(c).crc = c.crc
           /\ idle(c).type = c.type /\ idle(c).obeys = c.obeys /\ idle(c).dev = c.dev
           /\ idle(c).from = 0 /\ idle(c).to = 0
  <1>1. "ready" \in Modes /\ 0 \in Int
    BY DEF Modes
  <1> QED
    BY <1>1 DEF CardStates, idle

\* Sectors are numbers.
LEMMA SectorsNatural == Sectors \subseteq Nat
  BY CardAssumption DEF CardAssumption

\* The address of a sector on the wires is taken for that sector.
LEMMA AddressUnderstood ==
    ASSUME NEW c \in CardStates, NEW t, NEW sector \in Sectors,
           (t.type = "SDHC") <=> (c.type = "SDHC")
    PROVE  address(t, sector) \in Args /\ AddressOf(c, address(t, sector)) = sector
  <1>1. sector \in Nat
    BY SectorsNatural
  <1>2. /\ sector * BytesPerSector \in Args /\ sector \in Args
    BY DEF Args
  <1>3. /\ (sector * BytesPerSector) % BytesPerSector = 0
        /\ (sector * BytesPerSector) \div BytesPerSector = sector
    BY <1>1 DEF BytesPerSector
  <1> QED
    BY <1>2, <1>3 DEF address, AddressOf

\* The card's place in a transfer, and its content, may change.
Moved(c, m, p) == [c EXCEPT !.mode = m, !.pos = p]
LEMMA MovedGood ==
    ASSUME NEW c \in CardStates, NEW m \in Modes, NEW p \in Int
    PROVE  /\ Moved(c, m, p) \in CardStates
           /\ Moved(c, m, p).mode = m /\ Moved(c, m, p).pos = p
           /\ Moved(c, m, p).crc = c.crc
           /\ Moved(c, m, p).type = c.type /\ Moved(c, m, p).obeys = c.obeys
           /\ Moved(c, m, p).dev = c.dev
  BY DEF CardStates, Moved
Holding(c, dev) == [c EXCEPT !.dev = dev, !.from = 0, !.to = 0]
LEMMA HoldingGood ==
    ASSUME NEW c \in CardStates, NEW dev \in [Sectors -> Contents]
    PROVE  /\ Holding(c, dev) \in CardStates
           /\ Holding(c, dev).mode = c.mode /\ Holding(c, dev).crc = c.crc
           /\ Holding(c, dev).type = c.type /\ Holding(c, dev).obeys = c.obeys
           /\ Holding(c, dev).dev = dev
  <1>1. 0 \in Int
    OBVIOUS
  <1> QED
    BY <1>1 DEF CardStates, Holding

\* What comes of a command that a card obeys which is ready.
ObeyedWell(c, cmd, sector, u) ==
    /\ u.card \in CardStates /\ u.card.crc = TRUE /\ u.r \in Responses
    /\ u.card.mode \notin {"absent", "off", "idle"}
    /\ SameCard(c, u.card) /\ (cmd # 38 => u.card.dev = c.dev)
    /\ u.r = "ready" => cmd \notin {0, 8, 12, 41, 59}
    /\ u.r # "idle"
    /\ cmd \in {18, 24, 25} /\ u.r = "ready" =>
          u.card.mode = ModeAfter(cmd) /\ u.card.pos = sector /\ sector \in Sectors
    /\ cmd \in {32, 33, 38, 55, 58} => u.card.mode = "ready"
    /\ cmd = 32 /\ u.r = "ready" => u.card.from = sector
    /\ cmd = 33 /\ u.r = "ready" => u.card.to = sector /\ u.card.from = c.from
    /\ cmd = 38 => /\ \A k \in Sectors : u.card.dev[k] =
                         IF c.from <= k /\ k <= c.to THEN Erased ELSE c.dev[k]

\* Every command is obeyed so.
LEMMA ObeyedGood ==
    ASSUME NEW c \in CardStates, c.crc = TRUE, c.mode = "ready", NEW cmd \in Commands,
           NEW arg
    PROVE  ObeyedWell(c, cmd, AddressOf(c, arg), Obeyed(c, cmd, arg))
  <1> DEFINE u == Obeyed(c, cmd, arg)
             sector == AddressOf(c, arg)
  <1> SUFFICES ObeyedWell(c, cmd, sector, u)
    OBVIOUS
  <1>0. u = Obeyed(c, cmd, arg) /\ sector = AddressOf(c, arg)
    OBVIOUS
  <1> HIDE DEF u, sector
  <1>1. CASE cmd \in {17, 18, 24, 25}
    <2>1. CASE sector \in Sectors
      <3> DEFINE m == ModeAfter(cmd)
      <3>1. u = [card |-> [c EXCEPT !.mode = m, !.pos = sector], r |-> "ready"]
        BY <1>0, <1>1, <2>1 DEF Obeyed
      <3>2. m \in Modes /\ m \notin {"absent", "off", "idle"}
        BY <1>1 DEF ModeAfter, Modes
      <3>3. sector \in Int
        BY <2>1, SectorsNatural
      <3> HIDE DEF m
      <3>4. u.card = Moved(c, m, sector) /\ u.r = "ready"
        BY <3>1 DEF Moved
      <3>5. /\ u.card \in CardStates
            /\ u.card.crc = c.crc /\ u.card.dev = c.dev /\ u.card.type = c.type
            /\ u.card.obeys = c.obeys /\ u.card.mode = m /\ u.card.pos = sector
        BY <3>2, <3>3, <3>4, MovedGood
      <3>6. u.r \in Responses
        BY <3>4 DEF Responses
      <3> QED
        BY <1>1, <2>1, <3>2, <3>4, <3>5, <3>6 DEF ObeyedWell, SameCard, m
    <2>2. CASE sector \notin Sectors
      <3>1. u = [card |-> c, r |-> "address"]
        BY <1>0, <1>1, <2>2 DEF Obeyed
      <3> QED
        BY <1>1, <3>1 DEF ObeyedWell, SameCard, Responses
    <2> QED
      BY <2>1, <2>2
  <1>2. CASE cmd \in {6, 9, 10, 13, 51}
    <2>1. u = [card |-> [c EXCEPT !.mode = "register"], r |-> "ready"]
      BY <1>0, <1>2 DEF Obeyed
    <2> QED
      BY <1>2, <2>1 DEF ObeyedWell, SameCard, Responses, CardStates, Modes
  <1>3. CASE cmd \in {32, 33}
    <2>1. CASE sector \in Sectors
      <3>1. u = [card |-> IF cmd = 32 THEN [c EXCEPT !.from = sector]
                          ELSE [c EXCEPT !.to = sector], r |-> "ready"]
        BY <1>0, <1>3, <2>1 DEF Obeyed
      <3>2. sector \in Int
        BY <2>1, SectorsNatural
      <3> QED
        BY <1>3, <3>1, <3>2 DEF ObeyedWell, SameCard, Responses, CardStates
    <2>2. CASE sector \notin Sectors
      <3>1. u = [card |-> c, r |-> "address"]
        BY <1>0, <1>3, <2>2 DEF Obeyed
      <3> QED
        BY <1>3, <3>1 DEF ObeyedWell, SameCard, Responses
    <2> QED
      BY <2>1, <2>2
  <1>4. CASE cmd = 38
    <2> DEFINE dev == [k \in Sectors |->
                          IF c.from <= k /\ k <= c.to THEN Erased ELSE c.dev[k]]
    <2>1. u = [card |-> [c EXCEPT !.dev = dev, !.from = 0, !.to = 0], r |-> "ready"]
      BY <1>0, <1>4 DEF Obeyed
    <2>2. dev \in [Sectors -> Contents]
      BY DEF CardStates, Contents
    <2> HIDE DEF dev
    <2>3. u.card = Holding(c, dev) /\ u.r = "ready"
      BY <2>1 DEF Holding
    <2>4. /\ u.card \in CardStates
          /\ u.card.crc = c.crc /\ u.card.dev = dev /\ u.card.type = c.type
          /\ u.card.obeys = c.obeys /\ u.card.mode = c.mode
      BY <2>2, <2>3, HoldingGood
    <2>5. \A k \in Sectors : dev[k] =
              IF c.from <= k /\ k <= c.to THEN Erased ELSE c.dev[k]
      BY DEF dev
    <2> QED
      <3>1. u.r \in Responses /\ SameCard(c, u.card)
        BY <2>3, <2>4 DEF SameCard, Responses
      <3>2. \A k \in Sectors : u.card.dev[k] =
                IF c.from <= k /\ k <= c.to THEN Erased ELSE c.dev[k]
        BY <2>4, <2>5
      <3> QED
        BY <1>4, <2>3, <2>4, <3>1, <3>2 DEF ObeyedWell
  <1>5. CASE cmd \in {55, 58}
    <2>1. u = [card |-> c, r |-> "ready"]
      BY <1>0, <1>5 DEF Obeyed
    <2> QED
      BY <1>5, <2>1 DEF ObeyedWell, SameCard, Responses
  <1>6. CASE cmd \in {0, 8, 12, 41, 59}
    <2>1. u = [card |-> c, r |-> "illegal"]
      BY <1>0, <1>6 DEF Obeyed
    <2> QED
      BY <1>6, <2>1 DEF ObeyedWell, SameCard, Responses
  <1> QED
    BY <1>1, <1>2, <1>3, <1>4, <1>5, <1>6 DEF Commands

\* What comes of a command to a card on its way to ready.
StartedWell(c, cmd, arg, u) ==
    /\ u.card \in CardStates /\ u.r \in Responses /\ Checked(u.card)
    /\ SameContent(c, u.card)
    /\ u.r = "ready" => cmd = 41 /\ u.card.mode = "ready"
    /\ u.r = "ready" /\ c.type = "SDHC" => arg = HostCapacity
    /\ cmd = 59 /\ arg = 1 => u.card.crc = TRUE /\ u.card.mode = "idle"
    /\ cmd # 59 => u.card.crc = c.crc
    /\ cmd \notin {41, 59} => u.card = c

\* Every command is answered so.
LEMMA StartedGood ==
    ASSUME NEW c \in CardStates, c.mode = "idle", NEW cmd \in Commands, cmd # 0, NEW arg,
           cmd = 41 => c.crc = TRUE
    PROVE  StartedWell(c, cmd, arg, Started(c, cmd, arg))
  <1> DEFINE u == Started(c, cmd, arg)
  <1> SUFFICES StartedWell(c, cmd, arg, u)
    OBVIOUS
  <1>0. u = Started(c, cmd, arg)
    OBVIOUS
  <1> HIDE DEF u
  <1>1. CASE cmd = 59
    <2> DEFINE on == (arg = 1)
    <2>1. u = [card |-> [c EXCEPT !.crc = on], r |-> "idle"]
      BY <1>0, <1>1 DEF Started
    <2>2. on \in BOOLEAN /\ (arg = 1 => on = TRUE)
      OBVIOUS
    <2> HIDE DEF on
    <2>3. u.r = "idle" /\ u.card = [c EXCEPT !.crc = on]
      BY <2>1
    <2>4. /\ u.card \in CardStates /\ u.card.mode = c.mode /\ u.card.crc = on
          /\ u.card.type = c.type /\ u.card.obeys = c.obeys /\ u.card.dev = c.dev
      BY <2>2, <2>3 DEF CardStates
    <2> QED
      BY <1>1, <2>2, <2>3, <2>4 DEF StartedWell, SameContent, SameCard, Checked, Responses
  <1>2. CASE cmd = 41
    <2>1. CASE c.type = "SDHC" /\ arg # HostCapacity
      <3>1. u = [card |-> c, r |-> "idle"]
        BY <1>0, <1>2, <2>1 DEF Started
      <3> QED
        BY <1>2, <3>1 DEF StartedWell, SameContent, SameCard, Checked, Responses
    <2>2. CASE ~(c.type = "SDHC" /\ arg # HostCapacity)
      <3>1. u.r = "ready" /\ u.card = [c EXCEPT !.mode = "ready"]
        BY <1>0, <1>2, <2>2 DEF Started
      <3>2. /\ u.card \in CardStates /\ u.card.mode = "ready" /\ u.card.crc = c.crc
            /\ u.card.type = c.type /\ u.card.obeys = c.obeys /\ u.card.dev = c.dev
        BY <3>1 DEF CardStates, Modes
      <3> QED
        BY <1>2, <2>2, <3>1, <3>2 DEF StartedWell, SameContent, SameCard, Checked, Responses
    <2> QED
      BY <2>1, <2>2
  <1>3. CASE cmd \notin {41, 59}
    <2>1. u.card = c /\ u.r \in {"illegal", "idle"}
      BY <1>0, <1>3 DEF Started
    <2> QED
      BY <1>3, <2>1 DEF StartedWell, SameContent, SameCard, Checked, Responses
  <1> QED
    BY <1>1, <1>2, <1>3

\* What comes of a command that reaches the card.
UnderstoodWell(c, cmd, arg, sector, u) ==
    /\ u.card \in CardStates /\ u.r \in Responses
    /\ Checked(u.card) /\ SameCard(c, u.card)
    /\ cmd # 38 => u.card.dev = c.dev
    /\ Working(c) /\ cmd # 0 => Working(u.card)
    /\ cmd = 41 /\ u.r = "ready" => u.card.mode = "ready"
    /\ cmd = 41 /\ u.r = "ready" /\ c.type = "SDHC" => arg = HostCapacity
    /\ cmd = 59 /\ arg = 1 /\ u.r = "idle" =>
          u.card.crc = TRUE /\ u.card.mode = "idle"
    /\ Guarded(c) /\ cmd \notin {0, 59} => Guarded(u.card)
    /\ cmd \in {18, 24, 25} /\ u.r = "ready" =>
          u.card.mode = ModeAfter(cmd) /\ u.card.pos = sector /\ sector \in Sectors
    /\ cmd \in {32, 33} /\ u.r = "ready" => u.card.mode = "ready"
    /\ cmd = 32 /\ u.r = "ready" => u.card.from = sector
    /\ cmd = 33 /\ u.r = "ready" => u.card.to = sector
    /\ cmd = 33 /\ u.r = "ready" /\ c.mode = "ready" => u.card.from = c.from
    /\ cmd = 38 /\ c.mode = "ready" =>
          \/ u.card.dev = c.dev /\ u.r # "ready"
          \/ \A k \in Sectors : u.card.dev[k] =
                 IF c.from <= k /\ k <= c.to THEN Erased ELSE c.dev[k]

\* A card that is in takes every command so.
LEMMA UnderstoodGood ==
    ASSUME NEW c \in CardStates, Checked(c), NEW cmd \in Commands, NEW arg,
           c.mode # "absent", cmd = 41 => c.mode # "idle" \/ c.crc = TRUE
    PROVE  UnderstoodWell(c, cmd, arg, AddressOf(c, arg), Understood(c, cmd, arg))
  <1> DEFINE u == Understood(c, cmd, arg)
             sector == AddressOf(c, arg)
  <1> SUFFICES UnderstoodWell(c, cmd, arg, sector, u)
    OBVIOUS
  <1>0. u = Understood(c, cmd, arg) /\ sector = AddressOf(c, arg)
    OBVIOUS
  <1> HIDE DEF u, sector
  <1>1. CASE cmd = 0
    <2> DEFINE d == idle(c)
    <2>1. u.r = "idle" /\ u.card = [d EXCEPT !.mode = "idle", !.crc = FALSE]
      BY <1>0, <1>1 DEF Understood
    <2>2. d \in CardStates /\ d.type = c.type /\ d.obeys = c.obeys /\ d.dev = c.dev
      BY idleTyped
    <2> HIDE DEF d
    <2>3. /\ u.card \in CardStates /\ u.card.mode = "idle" /\ u.card.type = d.type
          /\ u.card.obeys = d.obeys /\ u.card.dev = d.dev
      BY <2>1, <2>2 DEF CardStates, Modes
    <2> QED
      BY <1>1, <2>1, <2>2, <2>3 DEF UnderstoodWell, SameCard, Checked, Guarded, Responses
  <1>2. CASE cmd # 0 /\ c.mode = "off"
    <2>1. u.r = "none" /\ u.card = c
      BY <1>0, <1>2 DEF Understood
    <2> QED
      BY <1>2, <2>1 DEF UnderstoodWell, SameCard, Checked, Responses, Working, Guarded
  <1>3. CASE cmd # 0 /\ c.mode = "idle"
    <2>1. u = Started(c, cmd, arg)
      BY <1>0, <1>3 DEF Understood
    <2>2. cmd # 0 /\ c.mode = "idle" /\ (cmd = 41 => c.crc = TRUE)
      BY <1>3
    <2>3. StartedWell(c, cmd, arg, u)
      BY <2>1, <2>2, StartedGood
    <2> QED
      BY <2>2, <2>3 DEF UnderstoodWell, StartedWell, SameCard, SameContent, Working, Guarded
  <1>4. CASE cmd # 0 /\ c.mode \notin {"absent", "off", "idle"}
    <2> DEFINE d == idle(c)
    <2>1. c.crc = TRUE
      BY <1>4 DEF Checked
    <2>2. /\ d \in CardStates /\ d.mode = "ready" /\ d.crc = TRUE
          /\ d.type = c.type /\ d.obeys = c.obeys /\ d.dev = c.dev
      BY <2>1, idleTyped
    <2>3. AddressOf(d, arg) = sector
      BY <1>0, <2>2 DEF AddressOf
    <2>4. \/ cmd = 12 /\ u = [card |-> d, r |-> "ready"]
          \/ cmd \in {32, 33, 38} /\ c.mode = "ready" /\ u = Obeyed(c, cmd, arg)
          \/ ~(cmd \in {32, 33, 38} /\ c.mode = "ready") /\ u = Obeyed(d, cmd, arg)
          \/ cmd = 12 /\ u = [card |-> c, r |-> "illegal"]
          \/ u = [card |-> c, r |-> "none"] /\ c.mode # "ready"
      BY <1>0, <1>4 DEF Understood
    <2> HIDE DEF d
    <2>5. CASE cmd = 12 /\ u = [card |-> d, r |-> "ready"]
      BY <2>2, <2>5 DEF UnderstoodWell, SameCard, Checked, Responses, Working, Guarded
    <2>6. CASE cmd \in {32, 33, 38} /\ c.mode = "ready" /\ u = Obeyed(c, cmd, arg)
      <3>1. ObeyedWell(c, cmd, sector, u)
        BY <1>0, <2>1, <2>6, ObeyedGood
      <3> QED
        BY <2>1, <2>6, <3>1 DEF UnderstoodWell, ObeyedWell, Checked, Working, Guarded
    <2>7. CASE /\ ~(cmd \in {32, 33, 38} /\ c.mode = "ready")
               /\ u = Obeyed(d, cmd, arg)
      <3>1. ObeyedWell(d, cmd, sector, u)
        BY <2>2, <2>3, <2>7, ObeyedGood
      <3> QED
        BY <1>4, <2>2, <2>7, <3>1 DEF UnderstoodWell, ObeyedWell, Checked, Working, Guarded, SameCard
    <2>8. CASE cmd = 12 /\ u = [card |-> c, r |-> "illegal"]
      BY <1>4, <2>1, <2>8 DEF UnderstoodWell, SameCard, Checked, Responses, Working, Guarded
    <2>9. CASE u = [card |-> c, r |-> "none"] /\ c.mode # "ready"
      BY <1>4, <2>1, <2>9 DEF UnderstoodWell, SameCard, Checked, Responses, Working, Guarded
    <2> QED
      BY <2>4, <2>5, <2>6, <2>7, <2>8, <2>9
  <1>5. c.mode \in Modes
    BY DEF CardStates
  <1> QED
    BY <1>1, <1>2, <1>3, <1>4

-----------------------------------------------------------------------------
(* The wires.                                                              *)

\* A command that does not reach the card.
LEMMA MissedGood ==
    ASSUME NEW c \in CardStates, Checked(c), NEW cmd, NEW arg, NEW sector,
           NEW t, t.card = c, t.r \in {"none", "crc"}
    PROVE  UnderstoodWell(c, cmd, arg, sector, t)
  <1>1. t.r \in Responses /\ t.r # "ready" /\ t.r # "idle"
    BY DEF Responses
  <1> QED
    BY <1>1 DEF UnderstoodWell, SameCard

\* One of which the answer may be lost.
LEMMA AnsweredGood ==
    ASSUME NEW c, NEW cmd, NEW arg, NEW sector, NEW u,
           UnderstoodWell(c, cmd, arg, sector, u),
           NEW t, t.card = u.card, t.r = u.r \/ t.r = "none"
    PROVE  UnderstoodWell(c, cmd, arg, sector, t)
  <1>1. "none" \in Responses
    BY DEF Responses
  <1> QED
    BY <1>1 DEF UnderstoodWell

\* What an exchange with the card leaves alone.
SameMembers(s, t) ==
    /\ t.state = s.state /\ t.cur = s.cur /\ t.error = s.error /\ t.type = s.type
    /\ t.dedicated = s.dedicated /\ t.began = s.began
SameCall(s, t) == SameMembers(s, t) /\ t.fault = s.fault /\ t.val = s.val

\* An answer changes the card, the response and the count.
LEMMA answerGood ==
    ASSUME NEW s \in Calls, NEW c \in CardStates, NEW r \in Responses
    PROVE  /\ answer(s, c, r) \in Calls /\ SameCall(s, answer(s, c, r))
           /\ answer(s, c, r).card = c /\ answer(s, c, r).r = r
           /\ answer(s, c, r).active = s.active /\ answer(s, c, r).ok = s.ok
  <1> DEFINE n == s.n + 1
  <1>1. n \in Int
    BY DEF Calls
  <1>2. answer(s, c, r) = [s EXCEPT !.card = c, !.r = r, !.n = n]
    BY DEF answer
  <1> HIDE DEF n
  <1>3. answer(s, c, r) \in Calls
    BY <1>1, <1>2 DEF Calls
  <1>4. SameCall(s, answer(s, c, r))
    BY <1>2 DEF Calls, SameCall, SameMembers
  <1>5. /\ answer(s, c, r).card = c /\ answer(s, c, r).r = r
        /\ answer(s, c, r).active = s.active /\ answer(s, c, r).ok = s.ok
    BY <1>2 DEF Calls
  <1> QED
    BY <1>3, <1>4, <1>5

\* What comes of a command on the wires.
SentWell(s, cmd, arg, t) ==
    /\ t \in Calls /\ SameCall(s, t) /\ t.active = s.active /\ t.ok = s.ok
    /\ UnderstoodWell(s.card, cmd, arg, AddressOf(s.card, arg), t)

\* Damaged or not, a command is carried out as it was meant or not at all: the
\* card compares the checksums.
LEMMA SentGood ==
    ASSUME NEW s \in Calls, Checked(s.card), NEW cmd \in Commands, NEW arg \in Args,
           cmd = 41 => s.card.mode # "idle" \/ s.card.crc = TRUE
    PROVE  SentWell(s, cmd, arg, Sent(s, cmd, arg, Frame))
  <1> DEFINE c == s.card
             sector == AddressOf(c, arg)
             t == Sent(s, cmd, arg, Frame)
             wrong == Hit(s, "lost")
             other == CHOOSE a \in Args : a # arg
             u == Understood(c, cmd, arg)
             w == Understood(c, cmd, other)
  <1> SUFFICES SentWell(s, cmd, arg, t)
    OBVIOUS
  <1>1. c \in CardStates /\ c.crc \in BOOLEAN /\ s.active \in BOOLEAN
    BY DEF Calls, CardStates
  <1>2. Frame[cmd][arg] = FrameChecksum[cmd][arg]
    BY ChecksumAssumption DEF ChecksumAssumption
  <1>3. /\ "none" \in Responses /\ "crc" \in Responses
    BY DEF Responses
  <1>4. \/ t = answer(s, c, "none")
        \/ t = answer(s, c, "crc") /\ Heard(s)
        \/ ~wrong /\ Heard(s) /\ t = Reply(s, u)
        \/ /\ wrong /\ Heard(s) /\ t = Reply(s, w)
           /\ c.mode # "off" /\ c.crc # TRUE /\ cmd \notin {0, 8, 59}
    BY <1>1, <1>2 DEF Sent, Delivered
  <1> HIDE DEF t, wrong, other, u, w
  <1>5. CASE t = answer(s, c, "none") \/ t = answer(s, c, "crc")
    <2>1. /\ t \in Calls /\ SameCall(s, t) /\ t.active = s.active /\ t.ok = s.ok
          /\ t.card = c /\ t.r \in {"none", "crc"}
      BY <1>1, <1>3, <1>5, answerGood
    <2>2. UnderstoodWell(c, cmd, arg, sector, t)
      BY <1>1, <2>1, MissedGood, Zenon
    <2> QED
      BY <2>1, <2>2 DEF SentWell
  <1>6. ASSUME NEW v, UnderstoodWell(c, cmd, arg, sector, v), t = Reply(s, v)
        PROVE  SentWell(s, cmd, arg, t)
    <2> DEFINE r == IF Hit(s, "garbled") THEN "none" ELSE v.r
    <2>1. v.card \in CardStates /\ r \in Responses /\ (r = v.r \/ r = "none")
      BY <1>3, <1>6 DEF UnderstoodWell
    <2>2. t = answer(s, v.card, r)
      BY <1>6 DEF Reply
    <2> HIDE DEF r
    <2>3. /\ t \in Calls /\ SameCall(s, t) /\ t.active = s.active /\ t.ok = s.ok
          /\ t.card = v.card /\ t.r = r
      BY <2>1, <2>2, answerGood
    <2>4. UnderstoodWell(c, cmd, arg, sector, t)
      BY <1>6, <2>1, <2>3, AnsweredGood
    <2> QED
      BY <2>3, <2>4 DEF SentWell
  <1>7. CASE ~wrong /\ Heard(s) /\ t = Reply(s, u)
    <2>1. c.mode # "absent"
      BY <1>7 DEF Heard
    <2>2. UnderstoodWell(c, cmd, arg, sector, u)
      BY <1>1, <2>1, UnderstoodGood DEF u
    <2> QED
      BY <1>6, <1>7, <2>2, Zenon
  <1>8. CASE /\ wrong /\ Heard(s) /\ t = Reply(s, w)
             /\ c.mode # "off" /\ c.crc # TRUE /\ cmd \notin {0, 8, 59}
    <2>1. c.mode = "idle"
      BY <1>8 DEF Heard, Checked
    <2>2. cmd # 41 /\ cmd # 59 /\ cmd # 0
      BY <1>8, <2>1
    <2>3. w = Started(c, cmd, other)
      BY <2>1, <2>2 DEF Understood, w
    <2>4. StartedWell(c, cmd, other, w)
      BY <1>1, <2>1, <2>2, <2>3, StartedGood
    <2>5. w.card = c /\ w.r \in Responses /\ w.r # "ready"
      BY <2>2, <2>4 DEF StartedWell
    <2>6. UnderstoodWell(c, cmd, arg, sector, w)
      BY <1>1, <2>2, <2>5 DEF UnderstoodWell, SameCard
    <2> QED
      BY <1>6, <1>8, <2>6, Zenon
  <1> QED
    BY <1>4, <1>5, <1>7, <1>8

-----------------------------------------------------------------------------
(* The statements the functions are made of.                               *)

\* One that leaves the card alone: what was asked of it is as it was.
Same(s, t) == SameCall(s, t) /\ t.card = s.card

LEMMA returnGood ==
    ASSUME NEW s \in Calls, NEW ok \in BOOLEAN
    PROVE  /\ return(s, ok) \in Calls /\ Same(s, return(s, ok))
           /\ return(s, ok).active = s.active /\ return(s, ok).ok = ok
           /\ return(s, ok).r = s.r
  BY DEF Calls, return, Same, SameCall, SameMembers

\* An error leaves all but the error code.
LEMMA errorGood ==
    ASSUME NEW s \in Calls
    PROVE  /\ error(s) \in Calls /\ error(s).error = "FAILED" /\ error(s).ok = FALSE
           /\ error(s).state = s.state /\ error(s).cur = s.cur
           /\ error(s).type = s.type /\ error(s).dedicated = s.dedicated
           /\ error(s).began = s.began /\ error(s).active = s.active
           /\ error(s).fault = s.fault /\ error(s).val = s.val
           /\ error(s).card = s.card /\ error(s).r = s.r
  BY DEF Calls, error

\* The chip is selected, or it is not.
LEMMA spiStartGood ==
    ASSUME NEW s \in Calls
    PROVE  /\ spiStart(s) \in Calls /\ Same(s, spiStart(s)) /\ spiStart(s).active = TRUE
           /\ spiStart(s).ok = s.ok /\ spiStart(s).r = s.r
  BY DEF Calls, spiStart, Same, SameCall, SameMembers
LEMMA spiStopGood ==
    ASSUME NEW s \in Calls
    PROVE  /\ spiStop(s) \in Calls /\ Same(s, spiStop(s)) /\ spiStop(s).active = FALSE
           /\ spiStop(s).ok = s.ok /\ spiStop(s).r = s.r
  BY DEF Calls, spiStop, Same, SameCall, SameMembers

\* The fail label.
LEMMA failureGood ==
    ASSUME NEW s \in Calls
    PROVE  /\ failure(s) \in Calls /\ failure(s).error = "FAILED" /\ failure(s).ok = FALSE
           /\ failure(s).state = s.state /\ failure(s).cur = s.cur
           /\ failure(s).type = s.type /\ failure(s).dedicated = s.dedicated
           /\ failure(s).began = s.began /\ failure(s).active = FALSE
           /\ failure(s).fault = s.fault /\ failure(s).val = s.val
           /\ failure(s).card = s.card /\ failure(s).r = s.r
  BY DEF Calls, failure, spiStop, error

LEMMA passGood ==
    ASSUME NEW s \in Calls, NEW time \in Int
    PROVE  /\ pass(s, time) \in Calls /\ Same(s, pass(s, time))
           /\ pass(s, time).active = s.active /\ pass(s, time).ok = s.ok
           /\ pass(s, time).r = s.r
  <1> DEFINE now == (s.now + time) % ClockRange
  <1>1. now \in Int
    <2>1. ClockRange \in Nat /\ ClockRange > 0
      BY ClockAssumption DEF ClockAssumption
    <2>2. s.now + time \in Int
      BY DEF Calls
    <2> QED
      BY <2>1, <2>2
  <1>2. pass(s, time) = [s EXCEPT !.now = now]
    BY DEF pass
  <1> HIDE DEF now
  <1> QED
    BY <1>1, <1>2 DEF Calls, Same, SameCall, SameMembers

LEMMA waitGood ==
    ASSUME NEW s \in Calls, NEW busy \in Int, NEW ms \in Int
    PROVE  /\ wait(s, busy, ms) \in Calls /\ Same(s, wait(s, busy, ms))
           /\ wait(s, busy, ms).active = s.active /\ wait(s, busy, ms).r = s.r
  <1> DEFINE late == {t \in 0 .. busy - 1 :
                         timedOut(endOf(s, ms), (s.now + t) % ClockRange)}
             given == CHOOSE t \in late : \A u \in late : t <= u
             t == wait(s, busy, ms)
  <1> SUFFICES t \in Calls /\ Same(s, t) /\ t.active = s.active /\ t.r = s.r
    OBVIOUS
  <1>1. \/ late = {} /\ t = return(pass(s, busy), TRUE)
        \/ late # {} /\ t = return(pass(s, given), FALSE)
    BY DEF wait
  <1>2. late \subseteq Nat
    OBVIOUS
  <1> HIDE DEF late, t
  <1>3. late # {} => given \in Int
    <2>1. ASSUME late # {} PROVE \E k \in late : \A u \in late : k <= u
      BY <1>2, <2>1, Smallest
    <2>2. late # {} => given \in late
      BY <2>1, Zenon
    <2>3. \A k \in late : k \in Int
      BY <1>2
    <2> QED
      BY <2>2, <2>3, Zenon
  <1> HIDE DEF given
  <1>4. PICK time \in Int, ok \in BOOLEAN : t = return(pass(s, time), ok)
    BY <1>1, <1>3
  <1> DEFINE p == pass(s, time)
  <1>5. p \in Calls /\ Same(s, p) /\ p.active = s.active /\ p.r = s.r
    BY passGood
  <1>6. t = return(p, ok)
    BY <1>4
  <1> HIDE DEF p
  <1>7. t \in Calls /\ Same(p, t) /\ t.active = p.active /\ t.r = p.r
    BY <1>5, <1>6, returnGood
  <1> QED
    BY <1>5, <1>7 DEF Same, SameCall, SameMembers

LEMMA waitReadyGood ==
    ASSUME NEW s \in Calls, NEW ms \in Int
    PROVE  /\ waitReady(s, ms) \in Calls /\ Same(s, waitReady(s, ms))
           /\ waitReady(s, ms).active = s.active /\ waitReady(s, ms).r = s.r
  <1> DEFINE w == wait(s, BusyFor(s, ms), ms)
             n == w.n + 1
             t == waitReady(s, ms)
  <1> SUFFICES t \in Calls /\ Same(s, t) /\ t.active = s.active /\ t.r = s.r
    OBVIOUS
  <1>1. BusyFor(s, ms) \in Int
    BY DEF BusyFor
  <1>2. w \in Calls /\ Same(s, w) /\ w.active = s.active /\ w.r = s.r
    BY <1>1, waitGood
  <1>3. t = [w EXCEPT !.n = n]
    BY DEF waitReady
  <1> HIDE DEF w, t
  <1>4. n \in Int
    BY <1>2 DEF Calls
  <1> HIDE DEF n
  <1> QED
    BY <1>2, <1>3, <1>4 DEF Calls, Same, SameCall, SameMembers

-----------------------------------------------------------------------------
(* Commands.                                                               *)

\* What comes of a command while no transfer is open.
CommandWell(s, cmd, arg, t) ==
    /\ t \in Calls /\ SameCall(s, t) /\ t.active = TRUE
    /\ (t.ok = TRUE) <=> (t.r = "ready")
    /\ UnderstoodWell(s.card, cmd, arg, AddressOf(s.card, arg), t)

LEMMA commandGood ==
    ASSUME NEW s \in Calls, Checked(s.card), NEW cmd \in Commands, NEW arg \in Args,
           cmd = 41 => Guarded(s.card)
    PROVE  CommandWell(s, cmd, arg, command(s, cmd, arg))
  <1> DEFINE a == spiStart(s)
             w == IF cmd \in {0, 12} THEN return(a, TRUE) ELSE waitReady(a, SD_CMD_TIMEOUT)
             p == [w EXCEPT !.r = "none"]
             x == IF p.ok THEN Sent(p, cmd, arg, Frame) ELSE p
             ok == x.r = "ready"
             t == command(s, cmd, arg)
             sector == AddressOf(s.card, arg)
  <1> SUFFICES CommandWell(s, cmd, arg, t)
    OBVIOUS
  <1>1. t = return(x, ok)
    BY DEF command, With, Then
  <1> HIDE DEF t
  <1>2. a \in Calls /\ Same(s, a) /\ a.active = TRUE
    BY spiStartGood
  <1> HIDE DEF a
  <1>3. w \in Calls /\ Same(a, w) /\ w.active = a.active
    <2>1. SD_CMD_TIMEOUT \in Int
      BY ClockAssumption DEF ClockAssumption
    <2> QED
      BY <1>2, <2>1, returnGood, waitReadyGood
  <1> HIDE DEF w
  <1>4. p \in Calls /\ Same(w, p) /\ p.active = w.active /\ p.r = "none"
    BY <1>3 DEF Calls, Same, SameCall, SameMembers, Responses
  <1> HIDE DEF p
  <1>5. p.card = s.card /\ p.active = TRUE /\ SameCall(s, p)
    BY <1>2, <1>3, <1>4 DEF Same, SameCall, SameMembers
  <1>6. /\ x \in Calls /\ SameCall(p, x) /\ x.active = TRUE
        /\ UnderstoodWell(s.card, cmd, arg, sector, x)
    <2>1. CASE p.ok = TRUE
      <3>1. SentWell(p, cmd, arg, Sent(p, cmd, arg, Frame))
        BY <1>4, <1>5, SentGood DEF Guarded
      <3>2. x = Sent(p, cmd, arg, Frame)
        BY <2>1
      <3> HIDE DEF x
      <3>3. SentWell(p, cmd, arg, x)
        BY <3>1, <3>2
      <3> QED
        BY <1>5, <3>3 DEF SentWell
    <2>2. CASE p.ok # TRUE
      <3>1. x = p
        BY <1>4, <2>2 DEF Calls
      <3> HIDE DEF x
      <3>2. s.card \in CardStates
        BY DEF Calls
      <3>3. x.card = s.card /\ x.r \in {"none", "crc"}
        BY <1>4, <1>5, <3>1
      <3>4. UnderstoodWell(s.card, cmd, arg, sector, x)
        BY <3>2, <3>3, MissedGood, Zenon
      <3> QED
        BY <1>4, <1>5, <3>1, <3>4 DEF Same, SameCall, SameMembers
    <2> QED
      BY <2>1, <2>2
  <1> HIDE DEF x
  <1>7. ok \in BOOLEAN /\ ((ok = TRUE) <=> (x.r = "ready"))
    OBVIOUS
  <1> HIDE DEF ok
  <1>8. t \in Calls /\ Same(x, t) /\ t.active = x.active /\ t.ok = ok /\ t.r = x.r
    BY <1>1, <1>6, <1>7, returnGood
  <1>9. t.card = x.card /\ (t.r = x.r \/ t.r = "none")
    BY <1>8 DEF Same
  <1>10. UnderstoodWell(s.card, cmd, arg, sector, t)
    BY <1>6, <1>9, AnsweredGood, Zenon
  <1>11. SameCall(s, t)
    BY <1>5, <1>6, <1>8 DEF Same, SameCall, SameMembers
  <1> QED
    BY <1>6, <1>7, <1>8, <1>10, <1>11 DEF CommandWell

\* What every function keeps.
Kept(s, t) ==
    /\ t \in Calls /\ t.fault = s.fault /\ t.type = s.type
    /\ t.dedicated = s.dedicated /\ t.began = s.began
    /\ t.error \in {s.error, "FAILED"}
    /\ Checked(t.card) /\ SameCard(s.card, t.card)
\* What those keep that do not start the card over.
Stays(s, t) ==
    /\ Working(s.card) => Working(t.card)
    /\ Guarded(s.card) => Guarded(t.card)

\* One function after the other.
LEMMA KeptOn ==
    ASSUME NEW s, NEW t, NEW u, Kept(s, t), Kept(t, u)
    PROVE  Kept(s, u)
  BY DEF Kept, SameCard
LEMMA StaysOn ==
    ASSUME NEW s, NEW t, NEW u, Stays(s, t), Stays(t, u)
    PROVE  Stays(s, u)
  BY DEF Stays

\* A statement that leaves the card alone.
LEMMA KeptSame ==
    ASSUME NEW s, NEW t, t \in Calls, Checked(s.card), Same(s, t)
    PROVE  Kept(s, t) /\ Stays(s, t)
  BY DEF Kept, Stays, Same, SameCall, SameMembers, SameCard
LEMMA KeptFailure ==
    ASSUME NEW s \in Calls, Checked(s.card)
    PROVE  /\ Kept(s, failure(s)) /\ Stays(s, failure(s))
           /\ Kept(s, error(s)) /\ Stays(s, error(s))
  <1>1. Kept(s, failure(s)) /\ Stays(s, failure(s))
    BY failureGood DEF Kept, Stays, SameCard
  <1>2. Kept(s, error(s)) /\ Stays(s, error(s))
    BY errorGood DEF Kept, Stays, SameCard
  <1> QED
    BY <1>1, <1>2

\* A command keeps it, and the content unless it is the one that erases.
LEMMA KeptCommand ==
    ASSUME NEW s \in Calls, NEW cmd, NEW arg, NEW t, CommandWell(s, cmd, arg, t)
    PROVE  /\ Kept(s, t) /\ (cmd \notin {0, 59} => Stays(s, t))
           /\ (cmd # 38 => t.card.dev = s.card.dev)
  BY DEF CommandWell, UnderstoodWell, Kept, Stays, SameCall, SameMembers

-----------------------------------------------------------------------------
(* The end of a transfer.                                                  *)

\* What comes of ending whatever transfer is open.
SyncWell(s, t) ==
    /\ Kept(s, t) /\ Stays(s, t)
    /\ t.card.dev = s.card.dev /\ t.val = s.val /\ t.cur = s.cur
    /\ s.state = "IDLE" => /\ t.card = s.card /\ t.error = s.error
                           /\ t.active = s.active /\ t.ok = TRUE
    /\ s.state # "IDLE" => t.active = FALSE
    /\ t.ok = TRUE => t.state = "IDLE"
    /\ t.ok # TRUE => t.error = "FAILED"

LEMMA readStopGood ==
    ASSUME NEW s \in Calls, Checked(s.card), s.state = "READ"
    PROVE  /\ SyncWell(s, readStop(s)) /\ readStop(s).state = "IDLE"
  <1> DEFINE d == [s EXCEPT !.state = "IDLE"]
             c == command(d, 12, 0)
             e == IF c.ok THEN c ELSE error(c)
             t == readStop(s)
  <1> SUFFICES SyncWell(s, t) /\ t.state = "IDLE"
    OBVIOUS
  <1>1. t = spiStop(e)
    BY DEF readStop, Else
  <1> HIDE DEF t
  <1>2. /\ d \in Calls /\ d.card = s.card /\ d.fault = s.fault /\ d.val = s.val
        /\ d.cur = s.cur /\ d.error = s.error /\ d.type = s.type
        /\ d.dedicated = s.dedicated /\ d.began = s.began /\ d.state = "IDLE"
    BY DEF Calls
  <1> HIDE DEF d
  <1>3. CommandWell(d, 12, 0, c)
    <2>1. 12 \in Commands /\ 0 \in Args /\ 12 # 41
      BY DEF Commands, Args
    <2> QED
      BY <1>2, <2>1, commandGood
  <1> HIDE DEF c
  <1>4. /\ c \in Calls /\ Kept(d, c) /\ Stays(d, c) /\ c.card.dev = d.card.dev
        /\ SameCall(d, c)
    <2>1. Kept(d, c) /\ Stays(d, c) /\ c.card.dev = d.card.dev
      BY <1>2, <1>3, KeptCommand
    <2> QED
      BY <1>3, <2>1 DEF CommandWell
  <1>5. /\ e \in Calls /\ Kept(d, e) /\ Stays(d, e) /\ e.card.dev = d.card.dev
        /\ e.val = d.val /\ e.cur = d.cur /\ e.state = "IDLE"
        /\ e.ok # TRUE => e.error = "FAILED"
    <2>1. CASE c.ok = TRUE
      BY <1>2, <1>4, <2>1 DEF SameCall, SameMembers
    <2>2. CASE c.ok # TRUE
      <3>1. e = error(c)
        BY <1>4, <2>2 DEF Calls
      <3> HIDE DEF e
      <3>2. Checked(c.card)
        BY <1>4 DEF Kept
      <3>3. Kept(c, e) /\ Stays(c, e)
        BY <1>4, <3>1, <3>2, KeptFailure
      <3>4. /\ e \in Calls /\ e.error = "FAILED" /\ e.card = c.card /\ e.val = c.val
            /\ e.cur = c.cur /\ e.state = c.state
        BY <1>4, <3>1, errorGood
      <3>5. Kept(d, e) /\ Stays(d, e)
        BY <1>4, <3>3, KeptOn, StaysOn
      <3> QED
        BY <1>2, <1>4, <3>4, <3>5 DEF SameCall, SameMembers
    <2> QED
      BY <2>1, <2>2
  <1> HIDE DEF e
  <1>6. t \in Calls /\ Same(e, t) /\ t.active = FALSE /\ t.ok = e.ok
    BY <1>1, <1>5, spiStopGood
  <1>7. Kept(s, t) /\ Stays(s, t)
    BY <1>2, <1>5, <1>6 DEF Kept, Stays, Same, SameCall, SameMembers
  <1> QED
    BY <1>2, <1>5, <1>6, <1>7 DEF SyncWell, Same, SameCall, SameMembers

\* The token that ends a transfer to the card leaves its content.
LEMMA StoppedGood ==
    ASSUME NEW s \in Calls, Checked(s.card)
    PROVE  /\ Stopped(s) \in Calls /\ SameCall(s, Stopped(s))
           /\ Stopped(s).ok = s.ok /\ Kept(s, Stopped(s)) /\ Stays(s, Stopped(s))
           /\ Stopped(s).card.dev = s.card.dev
  <1> DEFINE t == Stopped(s)
  <1>0. s.card \in CardStates /\ s.r \in Responses
    BY DEF Calls
  <1>1. PICK c : /\ c = s.card \/ (c = idle(s.card) /\ s.card.mode = "receiving")
                 /\ t = answer(s, c, s.r)
    BY DEF Stopped
  <1> SUFFICES /\ t \in Calls /\ SameCall(s, t) /\ t.ok = s.ok /\ Kept(s, t)
               /\ Stays(s, t) /\ t.card.dev = s.card.dev
    OBVIOUS
  <1> HIDE DEF t
  <1>2. /\ c \in CardStates /\ SameCard(s.card, c) /\ c.dev = s.card.dev
        /\ Checked(c) /\ (Working(s.card) => Working(c))
        /\ (Guarded(s.card) => Guarded(c))
    BY <1>0, <1>1, idleTyped DEF SameCard, Checked, Working, Guarded
  <1>3. t \in Calls /\ SameCall(s, t) /\ t.card = c /\ t.ok = s.ok
    BY <1>0, <1>1, <1>2, answerGood
  <1> QED
    BY <1>2, <1>3 DEF Kept, Stays, SameCall, SameMembers

LEMMA writeStopGood ==
    ASSUME NEW s \in Calls, Checked(s.card), s.state = "WRITE"
    PROVE  /\ SyncWell(s, writeStop(s))
  <1> DEFINE w == waitReady(s, SD_WRITE_TIMEOUT)
             x == spiStop(Stopped(w))
             d == [x EXCEPT !.state = "IDLE"]
             e == IF w.ok THEN d ELSE w
             t == writeStop(s)
  <1> SUFFICES SyncWell(s, t)
    OBVIOUS
  <1>1. t = IF e.ok THEN e ELSE failure(e)
    BY DEF writeStop, Else, Then
  <1> HIDE DEF t
  <1>2. /\ w \in Calls /\ Same(s, w) /\ Kept(s, w) /\ Stays(s, w)
        /\ Checked(w.card)
    <2>1. SD_WRITE_TIMEOUT \in Int
      BY ClockAssumption DEF ClockAssumption
    <2>2. w \in Calls /\ Same(s, w)
      BY <2>1, waitReadyGood
    <2> HIDE DEF w
    <2> QED
      BY <2>2, KeptSame DEF Same
  <1>3. w \in Calls /\ w.ok \in BOOLEAN
    BY <1>2 DEF Calls
  <1> HIDE DEF w
  <1>4. CASE w.ok = TRUE
    <2> DEFINE z == Stopped(w)
    <2>1. /\ z \in Calls /\ SameCall(w, z) /\ z.ok = w.ok /\ Kept(w, z) /\ Stays(w, z)
          /\ z.card.dev = w.card.dev
      BY <1>2, StoppedGood
    <2>2. x = spiStop(z)
      OBVIOUS
    <2> HIDE DEF z, x
    <2>3. x \in Calls /\ Same(z, x) /\ x.active = FALSE /\ x.ok = z.ok
      BY <2>1, <2>2, spiStopGood
    <2>4. /\ d \in Calls /\ d.active = FALSE /\ d.ok = TRUE /\ d.state = "IDLE"
          /\ d.card = x.card /\ d.cur = x.cur /\ d.error = x.error /\ d.type = x.type
          /\ d.dedicated = x.dedicated /\ d.began = x.began /\ d.fault = x.fault
          /\ d.val = x.val
      BY <1>4, <2>1, <2>3 DEF Calls
    <2> HIDE DEF d
    <2>5. e = d
      BY <1>4
    <2> HIDE DEF e
    <2>6. t = d
      BY <1>1, <2>4, <2>5
    <2>7. Kept(s, z) /\ Stays(s, z)
      BY <1>2, <2>1, KeptOn, StaysOn
    <2>8. Kept(s, t) /\ Stays(s, t)
      BY <2>3, <2>4, <2>6, <2>7 DEF Kept, Stays, Same, SameCall, SameMembers
    <2>9. t.card.dev = s.card.dev /\ t.val = s.val /\ t.cur = s.cur
      BY <1>2, <2>1, <2>3, <2>4, <2>6 DEF Same, SameCall, SameMembers
    <2> QED
      BY <2>4, <2>6, <2>8, <2>9 DEF SyncWell
  <1>5. CASE w.ok # TRUE
    <2>1. e = w
      BY <1>3, <1>5
    <2> HIDE DEF e
    <2>2. t = failure(w)
      BY <1>1, <1>3, <1>5, <2>1
    <2>3. /\ t.error = "FAILED" /\ t.ok = FALSE /\ t.active = FALSE /\ t.card = w.card
          /\ t.val = w.val /\ t.cur = w.cur
      BY <1>3, <2>2, failureGood
    <2>4. Kept(w, t) /\ Stays(w, t)
      BY <1>2, <2>2, KeptFailure
    <2>5. Kept(s, t) /\ Stays(s, t)
      BY <1>2, <2>4, KeptOn, StaysOn
    <2> QED
      BY <1>2, <2>3, <2>5 DEF SyncWell, Same, SameCall, SameMembers
  <1> QED
    BY <1>4, <1>5

LEMMA syncDeviceGood ==
    ASSUME NEW s \in Calls, Checked(s.card)
    PROVE  SyncWell(s, syncDevice(s))
  <1> DEFINE t == syncDevice(s)
  <1> SUFFICES SyncWell(s, t)
    OBVIOUS
  <1>1. s.state \in {"IDLE", "READ", "WRITE"}
    BY DEF Calls
  <1>2. CASE s.state = "IDLE"
    <2>1. t = return(s, TRUE)
      BY <1>2 DEF syncDevice
    <2> HIDE DEF t
    <2>2. t \in Calls /\ Same(s, t) /\ t.active = s.active /\ t.ok = TRUE
      BY <2>1, returnGood
    <2>3. Kept(s, t) /\ Stays(s, t)
      BY <2>2, KeptSame
    <2> QED
      BY <1>2, <2>2, <2>3 DEF SyncWell, Same, SameCall, SameMembers
  <1>3. CASE s.state = "READ"
    BY <1>3, readStopGood DEF syncDevice
  <1>4. CASE s.state = "WRITE"
    BY <1>4, writeStopGood DEF syncDevice
  <1> QED
    BY <1>1, <1>2, <1>3, <1>4

-----------------------------------------------------------------------------
(* Commands at any time.                                                   *)

\* What comes of a command whatever transfer is open.
CardCommandWell(s, cmd, arg, t) ==
    /\ Kept(s, t) /\ (cmd \notin {0, 59} => Stays(s, t))
    /\ cmd # 38 => t.card.dev = s.card.dev
    /\ t.val = s.val /\ t.cur = s.cur
    /\ (t.ok = TRUE) <=> (t.r = "ready")
    /\ t.ok = TRUE => t.state = "IDLE" /\ t.active = TRUE
    /\ s.state = "IDLE" => /\ t.state = "IDLE" /\ t.error = s.error
                           /\ UnderstoodWell(s.card, cmd, arg,
                                             AddressOf(s.card, arg), t)
    /\ cmd \in {18, 24, 25} /\ t.ok = TRUE =>
          /\ t.card.mode = ModeAfter(cmd) /\ AddressOf(s.card, arg) \in Sectors
          /\ t.card.pos = AddressOf(s.card, arg)

LEMMA cardCommandGood ==
    ASSUME NEW s \in Calls, Checked(s.card), NEW cmd \in Commands, NEW arg \in Args,
           cmd = 41 => Guarded(s.card)
    PROVE  CardCommandWell(s, cmd, arg, cardCommand(s, cmd, arg))
  <1> DEFINE y == syncDevice(s)
             d == [y EXCEPT !.r = "none"]
             t == cardCommand(s, cmd, arg)
  <1> SUFFICES CardCommandWell(s, cmd, arg, t)
    OBVIOUS
  <1>1. t = IF d.ok THEN command(d, cmd, arg) ELSE d
    BY DEF cardCommand, Then
  <1> HIDE DEF t
  <1>2. SyncWell(s, y) /\ y \in Calls
    <2>1. SyncWell(s, y)
      BY syncDeviceGood
    <2> QED
      BY <2>1 DEF SyncWell, Kept
  <1> HIDE DEF y
  <1>3. d \in Calls /\ Same(y, d) /\ d.active = y.active /\ d.r = "none" /\ d.ok = y.ok
    BY <1>2 DEF Calls, Same, SameCall, SameMembers, Responses
  <1> HIDE DEF d
  <1>4. /\ Kept(s, d) /\ Stays(s, d) /\ d.card.dev = s.card.dev
        /\ d.val = s.val /\ d.cur = s.cur /\ Checked(d.card)
        /\ d.ok = TRUE => d.state = "IDLE"
        /\ s.state = "IDLE" => d.card = s.card /\ d.error = s.error /\ d.ok = TRUE
    BY <1>2, <1>3 DEF SyncWell, Kept, Stays, Same, SameCall, SameMembers
  <1>5. AddressOf(d.card, arg) = AddressOf(s.card, arg)
    BY <1>4 DEF Kept, SameCard, AddressOf
  <1>6. CASE d.ok = TRUE
    <2>1. cmd = 41 => Guarded(d.card)
      BY <1>4 DEF Stays
    <2>2. CommandWell(d, cmd, arg, t)
      BY <1>1, <1>3, <1>4, <1>6, <2>1, commandGood
    <2>3. /\ Kept(d, t) /\ (cmd \notin {0, 59} => Stays(d, t))
          /\ (cmd # 38 => t.card.dev = d.card.dev)
      BY <1>3, <2>2, KeptCommand
    <2>4. Kept(s, t)
      BY <1>4, <2>3, KeptOn
    <2>5. cmd \notin {0, 59} => Stays(s, t)
      BY <1>4, <2>3, StaysOn
    <2>6. /\ t.val = d.val /\ t.cur = d.cur /\ t.state = d.state /\ t.error = d.error
          /\ t.active = TRUE /\ ((t.ok = TRUE) <=> (t.r = "ready"))
          /\ UnderstoodWell(d.card, cmd, arg, AddressOf(s.card, arg), t)
      BY <1>5, <2>2 DEF CommandWell, SameCall, SameMembers
    <2>7. cmd \in {18, 24, 25} /\ t.ok = TRUE =>
          /\ t.card.mode = ModeAfter(cmd) /\ AddressOf(s.card, arg) \in Sectors
          /\ t.card.pos = AddressOf(s.card, arg)
      BY <2>6 DEF UnderstoodWell
    <2> QED
      BY <1>4, <1>6, <2>3, <2>4, <2>5, <2>6, <2>7 DEF CardCommandWell
  <1>7. CASE d.ok # TRUE
    <2>1. t = d
      BY <1>1, <1>3, <1>7 DEF Calls
    <2> QED
      BY <1>3, <1>4, <1>7, <2>1 DEF CardCommandWell
  <1> QED
    BY <1>6, <1>7

\* What comes of a function that stands or falls with its command.
CommandOrWell(s, cmd, arg, t) ==
    /\ Kept(s, t) /\ Stays(s, t) /\ t.card.dev = s.card.dev
    /\ t.val = s.val /\ t.cur = s.cur
    /\ t.ok = TRUE => /\ t.state = "IDLE" /\ t.active = TRUE
                      /\ t.card.mode = ModeAfter(cmd)
                      /\ AddressOf(s.card, arg) \in Sectors
                      /\ t.card.pos = AddressOf(s.card, arg)
    /\ t.ok # TRUE => t.active = FALSE /\ t.error = "FAILED"

LEMMA commandOrGood ==
    ASSUME NEW s \in Calls, Checked(s.card), NEW cmd \in {18, 24, 25}, NEW arg \in Args
    PROVE  CommandOrWell(s, cmd, arg, commandOr(s, cmd, arg))
  <1> DEFINE c == cardCommand(s, cmd, arg)
             t == commandOr(s, cmd, arg)
  <1> SUFFICES CommandOrWell(s, cmd, arg, t)
    OBVIOUS
  <1>1. t = IF c.ok THEN c ELSE failure(c)
    BY DEF commandOr, Else
  <1> HIDE DEF t
  <1>2. CardCommandWell(s, cmd, arg, c)
    <2>1. cmd \in Commands /\ cmd # 41
      BY DEF Commands
    <2> QED
      BY <2>1, cardCommandGood
  <1> HIDE DEF c
  <1>3. /\ Kept(s, c) /\ Stays(s, c) /\ c.card.dev = s.card.dev
        /\ c.val = s.val /\ c.cur = s.cur /\ c \in Calls /\ c.ok \in BOOLEAN
        /\ Checked(c.card)
    BY <1>2 DEF CardCommandWell, Kept, Calls
  <1>4. CASE c.ok = TRUE
    <2>1. t = c
      BY <1>1, <1>4
    <2> QED
      BY <1>2, <1>3, <1>4, <2>1 DEF CardCommandWell, CommandOrWell
  <1>5. CASE c.ok # TRUE
    <2>1. t = failure(c)
      BY <1>1, <1>3, <1>5
    <2>2. /\ t.error = "FAILED" /\ t.ok = FALSE /\ t.active = FALSE /\ t.card = c.card
          /\ t.val = c.val /\ t.cur = c.cur
      BY <1>3, <2>1, failureGood
    <2>3. Kept(c, t) /\ Stays(c, t)
      BY <1>3, <2>1, KeptFailure
    <2>4. Kept(s, t) /\ Stays(s, t)
      BY <1>3, <2>3, KeptOn, StaysOn
    <2> QED
      BY <1>3, <2>2, <2>4 DEF CommandOrWell
  <1> QED
    BY <1>4, <1>5

-----------------------------------------------------------------------------
(* Start of the card.                                                      *)

\* What comes of one or more tries of a command of begin.
Tried(s, cmd, arg, t) ==
    /\ Kept(s, t) /\ (cmd # 0 => Stays(s, t)) /\ t.card.dev = s.card.dev
    /\ t.val = s.val /\ t.state = "IDLE" /\ t.error = s.error
    /\ cmd = 41 /\ t.r = "ready" =>
          t.card.mode = "ready" /\ (s.card.type = "SDHC" => arg = HostCapacity)

LEMMA onceGood ==
    ASSUME NEW s \in Calls, Checked(s.card), s.state = "IDLE", NEW cmd \in {0, 8, 41},
           NEW arg \in Args, cmd = 41 => Guarded(s.card)
    PROVE  Tried(s, cmd, arg, once(s, cmd, arg))
  <1> DEFINE t == once(s, cmd, arg)
  <1> SUFFICES Tried(s, cmd, arg, t)
    OBVIOUS
  <1>0. cmd \in Commands /\ 55 \in Commands /\ 0 \in Args
    BY DEF Commands, Args
  <1>1. CASE cmd = 41
    <2> DEFINE d == cardCommand(s, 55, 0)
    <2>1. t = cardCommand(d, 41, arg)
      BY <1>1 DEF once
    <2> HIDE DEF t
    <2>2. CardCommandWell(s, 55, 0, d)
      BY <1>0, cardCommandGood
    <2> HIDE DEF d
    <2>3. /\ Kept(s, d) /\ Stays(s, d) /\ d.card.dev = s.card.dev /\ d.val = s.val
          /\ d.state = "IDLE" /\ d.error = s.error
      BY <2>2 DEF CardCommandWell
    <2>4. d \in Calls /\ Checked(d.card) /\ Guarded(d.card) /\ d.card.type = s.card.type
      BY <1>1, <2>3 DEF Kept, Stays, SameCard
    <2>5. CardCommandWell(d, 41, arg, t)
      BY <1>0, <1>1, <2>1, <2>4, cardCommandGood
    <2>6. /\ Kept(d, t) /\ Stays(d, t) /\ t.card.dev = d.card.dev /\ t.val = d.val
          /\ t.state = "IDLE" /\ t.error = d.error
          /\ UnderstoodWell(d.card, 41, arg, AddressOf(d.card, arg), t)
      BY <2>3, <2>5 DEF CardCommandWell
    <2>7. Kept(s, t) /\ Stays(s, t)
      BY <2>3, <2>6, KeptOn, StaysOn
    <2>8. t.r = "ready" =>
            t.card.mode = "ready" /\ (s.card.type = "SDHC" => arg = HostCapacity)
      BY <2>4, <2>6 DEF UnderstoodWell
    <2> QED
      BY <2>3, <2>6, <2>7, <2>8 DEF Tried
  <1>2. CASE cmd # 41
    <2>1. t = cardCommand(s, cmd, arg)
      BY <1>2 DEF once
    <2> HIDE DEF t
    <2>2. CardCommandWell(s, cmd, arg, t)
      BY <1>0, <1>2, <2>1, cardCommandGood
    <2> QED
      BY <1>2, <2>2 DEF CardCommandWell, Tried
  <1> QED
    BY <1>1, <1>2

LEMMA TriedOn ==
    ASSUME NEW s, NEW t, NEW u, NEW v, NEW cmd, NEW arg,
           Tried(s, cmd, arg, t), t \in Calls, u \in Calls, Same(t, u),
           Tried(u, cmd, arg, v)
    PROVE  Tried(s, cmd, arg, v)
  <1>1. Kept(s, u) /\ (cmd # 0 => Stays(s, u)) /\ u.card = t.card /\ u.val = t.val
        /\ u.error = t.error
    BY DEF Tried, Kept, Stays, Same, SameCall, SameMembers
  <1>2. Kept(s, v) /\ (cmd # 0 => Stays(s, v))
    BY <1>1, KeptOn, StaysOn DEF Tried
  <1>3. u.card.type = s.card.type
    BY <1>1 DEF Kept, SameCard
  <1> QED
    BY <1>1, <1>2, <1>3 DEF Tried

\* What comes of the attempts together.
AttemptWell(s, cmd, arg, t) ==
    /\ Kept(s, t) /\ (cmd # 0 => Stays(s, t)) /\ t.card.dev = s.card.dev
    /\ t.val = s.val /\ t.state = "IDLE"
    /\ t.ok # TRUE => t.error = "FAILED"
    /\ cmd = 41 /\ t.ok = TRUE =>
          t.card.mode = "ready" /\ (s.card.type = "SDHC" => arg = HostCapacity)

LEMMA attemptGood ==
    ASSUME NEW s \in Calls, Checked(s.card), s.state = "IDLE", NEW cmd \in {0, 8, 41},
           NEW arg \in Args, cmd = 41 => Guarded(s.card), NEW end
    PROVE  AttemptWell(s, cmd, arg, attempt(s, end, cmd, arg))
  <1> DEFINE S == {x \in Calls : Tried(s, cmd, arg, x)}
             b == once(s, cmd, arg)
             Step(x) == IF hoped(x, cmd) \/ timedOut(end, x.now) THEN x
                        ELSE once(pass(x, 1), cmd, arg)
             D == [p \in Int \X S |-> Step(p[2])]
             Is(f) == f = [k \in 0 .. Attempts |-> IF k = 0 THEN b ELSE Step(f[k - 1])]
             after == CHOOSE f : Is(f)
             c == after[Attempts]
             t == attempt(s, end, cmd, arg)
  <1> SUFFICES AttemptWell(s, cmd, arg, t)
    OBVIOUS
  <1>0. Attempts \in Nat
    BY ClockAssumption DEF ClockAssumption, Attempts
  <1>1. t = IF hoped(c, cmd) THEN return(c, TRUE) ELSE error(c)
    BY Zenon DEF attempt, With
  <1> HIDE DEF t
  <1>2. b \in S
    <2>1. Tried(s, cmd, arg, b)
      BY onceGood
    <2> QED
      BY <2>1 DEF Tried, Kept
  <1> HIDE DEF b
  <1>3. ASSUME NEW x \in S PROVE Step(x) \in S
    <2> DEFINE u == pass(x, 1)
               v == once(u, cmd, arg)
    <2>1. x \in Calls /\ Tried(s, cmd, arg, x)
      OBVIOUS
    <2>2. u \in Calls /\ Same(x, u)
      BY <2>1, passGood
    <2> HIDE DEF u
    <2>3. Checked(u.card) /\ u.state = "IDLE" /\ (cmd = 41 => Guarded(u.card))
      BY <2>1, <2>2 DEF Tried, Kept, Stays, Same, SameCall, SameMembers
    <2>4. Tried(u, cmd, arg, v)
      BY <2>2, <2>3, onceGood
    <2> HIDE DEF v
    <2>5. Tried(s, cmd, arg, v)
      BY <2>1, <2>2, <2>4, TriedOn
    <2>6. v \in S
      BY <2>5 DEF Tried, Kept
    <2> QED
      BY <2>6 DEF u, v
  <1> HIDE DEF S, Step
  <1>4. D \in [Int \X S -> S]
    BY <1>3
  <1>5. \E f : Is(f)
    <2> HIDE DEF D
    <2>1. PICK f \in [0 .. Attempts -> S] : Loop(f, b, D, Attempts)
      BY <1>0, <1>2, <1>4, LoopDefined
    <2>2. ASSUME NEW k \in 0 .. Attempts, k # 0 PROVE D[<<k, f[k - 1]>>] = Step(f[k - 1])
      <3>1. k - 1 \in 0 .. Attempts
        BY <1>0, <2>2
      <3>2. f[k - 1] \in S
        BY <3>1
      <3> QED
        BY <3>2 DEF D
    <2>3. Is(f)
      BY <2>1, <2>2 DEF Loop
    <2> QED
      BY <2>3
  <1>6. Is(after)
    BY <1>5, Zenon
  <1> HIDE DEF after
  <1>7. after[0] \in S
    BY <1>0, <1>2, <1>6
  <1>8. \A k \in 1 .. Attempts : after[k - 1] \in S => after[k] \in S
    BY <1>0, <1>3, <1>6
  <1> HIDE DEF Is
  <1>9. c \in S
    <2>1. \A k \in 0 .. Attempts : after[k] \in S
      BY <1>0, <1>7, <1>8, LoopKeeps
    <2> QED
      BY <1>0, <2>1
  <1> HIDE DEF c
  <1>10. c \in Calls /\ Tried(s, cmd, arg, c)
    BY <1>9 DEF S
  <1>11. CASE hoped(c, cmd)
    <2>1. t = return(c, TRUE)
      BY <1>1, <1>11
    <2>2. t \in Calls /\ Same(c, t) /\ t.ok = TRUE
      BY <1>10, <2>1, returnGood
    <2>3. cmd = 41 => c.r = "ready"
      BY <1>11 DEF hoped
    <2>4. Kept(s, t) /\ (cmd # 0 => Stays(s, t))
      BY <1>10, <2>2 DEF Tried, Kept, Stays, Same, SameCall, SameMembers
    <2> QED
      BY <1>10, <2>2, <2>3, <2>4 DEF Tried, AttemptWell, Same, SameCall, SameMembers
  <1>12. CASE ~hoped(c, cmd)
    <2>1. t = error(c)
      BY <1>1, <1>12
    <2>2. Checked(c.card)
      BY <1>10 DEF Tried, Kept
    <2>3. Kept(c, t) /\ Stays(c, t)
      BY <1>10, <2>1, <2>2, KeptFailure
    <2>4. /\ t.error = "FAILED" /\ t.ok = FALSE /\ t.state = c.state
          /\ t.val = c.val /\ t.card = c.card
      BY <1>10, <2>1, errorGood
    <2>5. Kept(s, t) /\ (cmd # 0 => Stays(s, t))
      BY <1>10, <2>3, KeptOn, StaysOn DEF Tried
    <2> QED
      BY <1>10, <2>4, <2>5 DEF Tried, AttemptWell
  <1> QED
    BY <1>11, <1>12

\* How far begin has come: what is so after each of its steps.
Begun(s, t) ==
    /\ t \in Calls /\ Checked(t.card) /\ SameContent(s.card, t.card) /\ t.val = s.val
    /\ t.state = "IDLE" /\ t.began = TRUE
    /\ t.ok # TRUE => t.error = "FAILED"
CrcIsOn(s, t) == Begun(s, t) /\ (t.ok = TRUE => Guarded(t.card))
VersionKnown(s, t) == CrcIsOn(s, t) /\ (t.ok = TRUE => t.type \in {"SD1", "SD2"})
Initialised(s, t) ==
    /\ Begun(s, t)
    /\ t.ok = TRUE => /\ t.card.mode = "ready" /\ t.type \in {"SD1", "SD2"}
                      /\ t.card.type = "SDHC" => t.type = "SD2"
Ready(s, t) ==
    /\ Begun(s, t)
    /\ t.ok = TRUE => Working(t.card) /\ ((t.type = "SDHC") <=> (t.card.type = "SDHC"))

LEMMA BegunOn ==
    ASSUME NEW s, NEW t, NEW u, Begun(s, t), Begun(t, u)
    PROVE  Begun(s, u)
  BY DEF Begun, SameContent, SameCard

LEMMA crcOnGood ==
    ASSUME NEW s \in Calls, Begun(s, s)
    PROVE  CrcIsOn(s, crcOn(s))
  <1> DEFINE c == cardCommand(s, 59, 1)
             t == crcOn(s)
  <1> SUFFICES CrcIsOn(s, t)
    OBVIOUS
  <1>1. t = IF c.r = "idle" THEN return(c, TRUE) ELSE error(c)
    BY DEF crcOn, With
  <1> HIDE DEF t
  <1>2. CardCommandWell(s, 59, 1, c)
    <2>1. 59 \in Commands /\ 1 \in Args /\ Checked(s.card)
      BY DEF Commands, Args, Begun
    <2> QED
      BY <2>1, cardCommandGood
  <1> HIDE DEF c
  <1>3. /\ c \in Calls /\ Checked(c.card) /\ SameContent(s.card, c.card)
        /\ c.val = s.val /\ c.state = "IDLE" /\ c.began = TRUE
        /\ c.r = "idle" => c.card.crc = TRUE
    BY <1>2 DEF CardCommandWell, Begun, Kept, UnderstoodWell, SameContent
  <1>4. CASE c.r = "idle"
    <2>1. t \in Calls /\ Same(c, t) /\ t.ok = TRUE
      BY <1>1, <1>3, <1>4, returnGood
    <2> QED
      BY <1>3, <1>4, <2>1 DEF CrcIsOn, Begun, Guarded, Same, SameCall, SameMembers
  <1>5. CASE c.r # "idle"
    <2>1. /\ t \in Calls /\ t.error = "FAILED" /\ t.ok = FALSE /\ t.state = c.state
          /\ t.began = c.began /\ t.val = c.val /\ t.card = c.card
      BY <1>1, <1>3, <1>5, errorGood
    <2> QED
      BY <1>3, <2>1 DEF CrcIsOn, Begun
  <1> QED
    BY <1>4, <1>5

\* The attempts of a command of begin keep what it has come to.
LEMMA BegunAttempt ==
    ASSUME NEW s \in Calls, Begun(s, s), NEW cmd, NEW arg, NEW t,
           AttemptWell(s, cmd, arg, t)
    PROVE  /\ Begun(s, t) /\ t.type = s.type
           /\ cmd # 0 /\ Guarded(s.card) => Guarded(t.card)
  BY DEF AttemptWell, Begun, Kept, Stays, SameContent

LEMMA versionGood ==
    ASSUME NEW s \in Calls, Begun(s, s), Guarded(s.card), NEW end
    PROVE  VersionKnown(s, version(s, end))
  <1> DEFINE c == attempt(s, end, 8, 426)
             v == IF Illegal(c.r) THEN "SD1" ELSE "SD2"
             t == version(s, end)
  <1> SUFFICES VersionKnown(s, t)
    OBVIOUS
  <1>1. t = IF c.ok THEN [c EXCEPT !.type = v] ELSE c
    BY DEF version, Then
  <1> HIDE DEF t
  <1>2. AttemptWell(s, 8, 426, c)
    <2>1. 426 \in Args /\ 8 \in {0, 8, 41} /\ 8 # 41 /\ Checked(s.card) /\ s.state = "IDLE"
      BY DEF Args, Begun
    <2> QED
      BY <2>1, attemptGood
  <1> HIDE DEF c
  <1>3. Begun(s, c) /\ Guarded(c.card) /\ c \in Calls
    <2>1. Begun(s, c) /\ Guarded(c.card)
      BY <1>2, BegunAttempt
    <2> QED
      BY <2>1 DEF Begun
  <1>4. v \in {"SD1", "SD2"}
    OBVIOUS
  <1> HIDE DEF v
  <1>5. CASE c.ok = TRUE
    <2>1. t = [c EXCEPT !.type = v]
      BY <1>1, <1>5
    <2>2. /\ t \in Calls /\ t.type = v /\ t.ok = TRUE /\ t.card = c.card /\ t.val = c.val
          /\ t.state = c.state /\ t.began = c.began
      BY <1>3, <1>4, <1>5, <2>1 DEF Calls
    <2> QED
      BY <1>3, <1>4, <2>2 DEF VersionKnown, CrcIsOn, Begun
  <1>6. CASE c.ok # TRUE
    <2>1. t = c
      BY <1>1, <1>3, <1>6 DEF Calls
    <2> QED
      BY <1>3, <1>6, <2>1 DEF VersionKnown, CrcIsOn
  <1> QED
    BY <1>5, <1>6

LEMMA initialiseGood ==
    ASSUME NEW s \in Calls, Begun(s, s), Guarded(s.card), s.type \in {"SD1", "SD2"},
           NEW end
    PROVE  Initialised(s, initialise(s, end))
  <1> DEFINE arg == IF s.type = "SD2" THEN HostCapacity ELSE 0
             t == initialise(s, end)
  <1> SUFFICES Initialised(s, t)
    OBVIOUS
  <1>1. t = attempt(s, end, 41, arg)
    BY DEF initialise
  <1> HIDE DEF t
  <1>2. arg \in Args /\ (arg = HostCapacity => s.type = "SD2")
    BY DEF Args, HostCapacity
  <1> HIDE DEF arg
  <1>3. Checked(s.card) /\ s.state = "IDLE" /\ 41 \in {0, 8, 41}
    BY DEF Begun
  <1>4. AttemptWell(s, 41, arg, t)
    BY <1>1, <1>2, <1>3, attemptGood
  <1>5. Begun(s, t) /\ t.type = s.type
    BY <1>4, BegunAttempt
  <1>6. t.card.type = s.card.type
    BY <1>5 DEF Begun, SameContent, SameCard
  <1> QED
    BY <1>2, <1>4, <1>5, <1>6 DEF AttemptWell, Initialised

LEMMA capacityGood ==
    ASSUME NEW s \in Calls, Begun(s, s), s.card.mode = "ready",
           s.type \in {"SD1", "SD2"}, s.card.type = "SDHC" => s.type = "SD2", s.ok = TRUE
    PROVE  Ready(s, capacity(s))
  <1> DEFINE c == cardCommand(s, 58, 0)
             v == IF c.card.type = "SDHC" THEN "SDHC" ELSE "SD2"
             t == capacity(s)
  <1> SUFFICES Ready(s, t)
    OBVIOUS
  <1>1. Working(s.card) /\ Checked(s.card)
    BY DEF Begun, Checked, Working
  <1>2. CASE s.type # "SD2"
    <2>1. t = s
      BY <1>2 DEF capacity
    <2> QED
      BY <1>1, <1>2, <2>1 DEF Ready
  <1>3. CASE s.type = "SD2"
    <2>1. t = IF ~c.ok THEN error(c) ELSE [c EXCEPT !.type = v]
      BY <1>3 DEF capacity, With
    <2> HIDE DEF t
    <2>2. CardCommandWell(s, 58, 0, c)
      <3>1. 58 \in Commands /\ 0 \in Args /\ 58 # 41
        BY DEF Commands, Args
      <3> QED
        BY <1>1, <3>1, cardCommandGood
    <2> HIDE DEF c
    <2>3. /\ c \in Calls /\ c.ok \in BOOLEAN /\ Checked(c.card) /\ Working(c.card)
          /\ SameContent(s.card, c.card) /\ c.val = s.val /\ c.state = "IDLE"
          /\ c.began = TRUE
      BY <1>1, <2>2 DEF CardCommandWell, Kept, Stays, Begun, SameContent, Calls
    <2>4. v \in {"SDHC", "SD2"} /\ (v = "SDHC" <=> c.card.type = "SDHC")
      OBVIOUS
    <2> HIDE DEF v
    <2>5. CASE c.ok = TRUE
      <3>1. t = [c EXCEPT !.type = v]
        BY <2>1, <2>5
      <3>2. /\ t \in Calls /\ t.type = v /\ t.ok = TRUE /\ t.card = c.card /\ t.val = c.val
            /\ t.state = c.state /\ t.began = c.began
        BY <2>3, <2>4, <2>5, <3>1 DEF Calls
      <3> QED
        BY <2>3, <2>4, <3>2 DEF Ready, Begun
    <2>6. CASE c.ok # TRUE
      <3>1. t = error(c)
        BY <2>1, <2>3, <2>6
      <3>2. /\ t \in Calls /\ t.error = "FAILED" /\ t.ok = FALSE /\ t.state = c.state
            /\ t.began = c.began /\ t.val = c.val /\ t.card = c.card
        BY <2>3, <3>1, errorGood
      <3> QED
        BY <2>3, <3>2 DEF Ready, Begun
    <2> QED
      BY <2>5, <2>6
  <1> QED
    BY <1>2, <1>3

\* What comes of begin: unless it fails, a card that works, of the kind the
\* driver takes it for.
BeginWell(s, t) ==
    /\ Ready(s, t) /\ t.active = FALSE

\* A step of begin is taken when those before have succeeded.
LEMMA NextStage ==
    ASSUME NEW s, NEW e \in Calls, NEW f, Begun(s, e), e.ok = TRUE => Begun(e, f),
           NEW t, t = IF e.ok THEN f ELSE e
    PROVE  Begun(s, t) /\ ((e.ok = TRUE /\ t = f) \/ (e.ok # TRUE /\ t = e))
  <1>1. e.ok \in BOOLEAN
    BY DEF Calls
  <1>2. CASE e.ok = TRUE
    BY <1>2, BegunOn
  <1>3. CASE e.ok # TRUE
    BY <1>1, <1>3
  <1> QED
    BY <1>2, <1>3

LEMMA beginGood ==
    ASSUME NEW s \in Calls, Checked(s.card), NEW dedicated \in BOOLEAN
    PROVE  BeginWell(s, begin(s, dedicated))
  <1> DEFINE i == [s EXCEPT !.active = FALSE, !.state = "IDLE", !.error = "NONE",
                            !.type = "none", !.began = TRUE]
             end == endOf(s, SD_INIT_TIMEOUT)
             e0 == spiStart(i)
             e1 == cardReset(e0, end)
             e2 == IF e1.ok THEN crcOn(e1) ELSE e1
             e3 == IF e2.ok THEN version(e2, end) ELSE e2
             e4 == IF e3.ok THEN initialise(e3, end) ELSE e3
             e5 == IF e4.ok THEN capacity(e4) ELSE e4
             e6 == spiStop(e5)
             t == begin(s, dedicated)
  <1> SUFFICES BeginWell(s, t)
    OBVIOUS
  <1>1. t = IF e6.ok THEN [e6 EXCEPT !.dedicated = dedicated] ELSE e6
    BY DEF begin, Then
  <1> HIDE DEF t, end
  <1>2. /\ i \in Calls /\ i.card = s.card /\ i.val = s.val /\ i.state = "IDLE"
        /\ i.began = TRUE
    BY DEF Calls
  <1> HIDE DEF i
  <1>3. /\ e0 \in Calls /\ e0.card = s.card /\ e0.val = s.val /\ e0.state = "IDLE"
        /\ e0.began = TRUE
    <2>1. e0 \in Calls /\ Same(i, e0)
      BY <1>2, spiStartGood
    <2> HIDE DEF e0
    <2> QED
      BY <1>2, <2>1 DEF Same, SameCall, SameMembers
  <1> HIDE DEF e0
  <1>4. Begun(s, e1) /\ e1 \in Calls
    <2>1. e1 = attempt(e0, end, 0, 0)
      BY DEF cardReset
    <2> HIDE DEF e1
    <2>2. 0 \in Args /\ 0 \in {0, 8, 41} /\ 0 # 41 /\ Checked(e0.card)
      BY <1>3 DEF Args
    <2>3. AttemptWell(e0, 0, 0, e1)
      BY <1>3, <2>1, <2>2, attemptGood
    <2> QED
      BY <1>3, <2>3 DEF AttemptWell, Kept, Begun, SameContent
  <1> HIDE DEF e1
  <1>5. ASSUME NEW e, Begun(s, e) PROVE Begun(e, e)  /\ e \in Calls
    <2>1. e.ok # TRUE => e.error = "FAILED"
      BY <1>5 DEF Begun
    <2> QED
      BY <1>5, <2>1 DEF Begun, SameContent, SameCard
  <1>6. CrcIsOn(s, e2)
    <2> DEFINE f == crcOn(e1)
    <2>1. CrcIsOn(e1, f)
      BY <1>4, <1>5, crcOnGood
    <2>2. e2 = IF e1.ok THEN f ELSE e1
      OBVIOUS
    <2> HIDE DEF f, e2
    <2>3. Begun(e1, f)
      BY <2>1 DEF CrcIsOn
    <2>4. Begun(s, e2) /\ ((e1.ok = TRUE /\ e2 = f) \/ (e1.ok # TRUE /\ e2 = e1))
      BY <1>4, <2>2, <2>3, NextStage, Zenon
    <2> QED
      BY <2>1, <2>4 DEF CrcIsOn
  <1>7. Begun(s, e2) /\ Begun(e2, e2) /\ e2 \in Calls /\ (e2.ok = TRUE => Guarded(e2.card))
    BY <1>5, <1>6 DEF CrcIsOn
  <1> HIDE DEF e2
  <1>8. VersionKnown(s, e3)
    <2> DEFINE f == version(e2, end)
    <2>1. e2.ok = TRUE => VersionKnown(e2, f)
      BY <1>7, versionGood
    <2>2. e3 = IF e2.ok THEN f ELSE e2
      OBVIOUS
    <2> HIDE DEF f, e3
    <2>3. e2.ok = TRUE => Begun(e2, f)
      BY <2>1 DEF VersionKnown, CrcIsOn
    <2>4. Begun(s, e3) /\ ((e2.ok = TRUE /\ e3 = f) \/ (e2.ok # TRUE /\ e3 = e2))
      BY <1>7, <2>2, <2>3, NextStage, Zenon
    <2> QED
      BY <2>1, <2>4 DEF CrcIsOn, VersionKnown
  <1>9. /\ Begun(s, e3) /\ Begun(e3, e3) /\ e3 \in Calls
        /\ (e3.ok = TRUE => Guarded(e3.card) /\ e3.type \in {"SD1", "SD2"})
    BY <1>5, <1>8 DEF CrcIsOn, VersionKnown
  <1> HIDE DEF e3
  <1>10. Initialised(s, e4)
    <2> DEFINE f == initialise(e3, end)
    <2>1. e3.ok = TRUE => Initialised(e3, f)
      BY <1>9, initialiseGood
    <2>2. e4 = IF e3.ok THEN f ELSE e3
      OBVIOUS
    <2> HIDE DEF f, e4
    <2>3. e3.ok = TRUE => Begun(e3, f)
      BY <2>1 DEF Initialised
    <2>4. Begun(s, e4) /\ ((e3.ok = TRUE /\ e4 = f) \/ (e3.ok # TRUE /\ e4 = e3))
      BY <1>9, <2>2, <2>3, NextStage, Zenon
    <2> QED
      BY <2>1, <2>4 DEF Initialised
  <1>11. /\ Begun(s, e4) /\ Begun(e4, e4) /\ e4 \in Calls
         /\ e4.ok = TRUE => /\ e4.card.mode = "ready" /\ e4.type \in {"SD1", "SD2"}
                            /\ e4.card.type = "SDHC" => e4.type = "SD2"
    BY <1>5, <1>10 DEF Initialised
  <1> HIDE DEF e4
  <1>12. Ready(s, e5)
    <2> DEFINE f == capacity(e4)
    <2>1. e4.ok = TRUE => Ready(e4, f)
      BY <1>11, capacityGood
    <2>2. e5 = IF e4.ok THEN f ELSE e4
      OBVIOUS
    <2> HIDE DEF f, e5
    <2>3. e4.ok = TRUE => Begun(e4, f)
      BY <2>1 DEF Ready
    <2>4. Begun(s, e5) /\ ((e4.ok = TRUE /\ e5 = f) \/ (e4.ok # TRUE /\ e5 = e4))
      BY <1>11, <2>2, <2>3, NextStage, Zenon
    <2> QED
      BY <2>1, <2>4 DEF Ready
  <1>13. e5 \in Calls
    BY <1>12 DEF Ready, Begun
  <1> HIDE DEF e5
  <1>14. e6 \in Calls /\ Same(e5, e6) /\ e6.active = FALSE /\ e6.ok = e5.ok
    BY <1>13, spiStopGood
  <1>15. Ready(s, e6)
    <2> HIDE DEF e6
    <2> QED
      BY <1>12, <1>14 DEF Ready, Begun, Same, SameCall, SameMembers
  <1> HIDE DEF e6
  <1>16. CASE e6.ok = TRUE
    <2>1. t = [e6 EXCEPT !.dedicated = dedicated]
      BY <1>1, <1>16
    <2>2. /\ t \in Calls /\ t.type = e6.type /\ t.ok = TRUE /\ t.card = e6.card
          /\ t.val = e6.val /\ t.state = e6.state /\ t.began = e6.began
          /\ t.active = e6.active
      BY <1>14, <1>16, <2>1 DEF Calls
    <2> QED
      BY <1>14, <1>15, <1>16, <2>2 DEF BeginWell, Ready, Begun
  <1>17. CASE e6.ok # TRUE
    <2>1. t = e6
      BY <1>1, <1>14, <1>17 DEF Calls
    <2> QED
      BY <1>14, <1>15, <2>1 DEF BeginWell
  <1> QED
    BY <1>16, <1>17

-----------------------------------------------------------------------------
(* Reading.                                                                *)

\* The unit after its end, a wait is over.
LEMMA TimesOut ==
    ASSUME NEW now \in Int, NEW ms \in Nat
    PROVE  timedOut((now + ms) % ClockRange, (now + (ms + 1)) % ClockRange)
  <1> DEFINE a == now + ms
             end == a % ClockRange
             later == (a + 1) % ClockRange
             left == (end - later) % ClockRange
  <1>1. ClockRange \in Nat /\ ClockRange > 4
    BY ClockAssumption DEF ClockAssumption
  <1>2. now + (ms + 1) = a + 1 /\ a \in Int
    OBVIOUS
  <1>a. timedOut(end, later) =>
            timedOut((now + ms) % ClockRange, (now + (ms + 1)) % ClockRange)
    BY <1>2
  <1> HIDE DEF a
  <1>3. end \in 0 .. ClockRange - 1
    BY <1>1, <1>2
  <1>4. later = IF end = ClockRange - 1 THEN 0 ELSE end + 1
    BY <1>1, <1>2, ClockOn
  <1> HIDE DEF end, later
  <1>5. left = ClockRange - 1
    <2>1. CASE end = ClockRange - 1
      <3>1. end - later = ClockRange - 1
        BY <1>1, <1>4, <2>1
      <3>2. \A m \in 0 .. ClockRange - 1 : m % ClockRange = m
        BY <1>1
      <3> QED
        BY <1>1, <3>1, <3>2
    <2>2. CASE end # ClockRange - 1
      <3>1. end - later = -1
        BY <1>1, <1>3, <1>4, <2>2
      <3>2. (-1) % ClockRange = ClockRange - 1
        BY <1>1
      <3> QED
        BY <3>1, <3>2
    <2> QED
      BY <2>1, <2>2
  <1>6. ClockRange \div 2 <= ClockRange - 1 /\ ClockRange \div 2 \in Int
    BY <1>1
  <1> QED
    BY <1>a, <1>1, <1>5, <1>6 DEF timedOut

\* Without a card to send a block, the wait for one runs out of time.
LEMMA waitBlockGood ==
    ASSUME NEW s \in Calls
    PROVE  /\ waitBlock(s) \in Calls /\ Same(s, waitBlock(s))
           /\ waitBlock(s).active = s.active
           /\ waitBlock(s).ok = TRUE => Heard(s) /\ HasBlock(s.card)
  <1> DEFINE ms == SD_READ_TIMEOUT
             busy == IF Heard(s) /\ HasBlock(s.card) THEN BusyFor(s, ms) ELSE ms + 2
             t == waitBlock(s)
  <1>1. t = wait(s, busy, ms)
    BY DEF waitBlock
  <1>2. ms \in Nat
    BY ClockAssumption DEF ClockAssumption
  <1>3. busy \in Int
    BY <1>2 DEF BusyFor
  <1> SUFFICES /\ t \in Calls /\ Same(s, t) /\ t.active = s.active
               /\ t.ok = TRUE => Heard(s) /\ HasBlock(s.card)
    OBVIOUS
  <1>4. t \in Calls /\ Same(s, t) /\ t.active = s.active
    BY <1>1, <1>2, <1>3, waitGood
  <1>5. ASSUME ~(Heard(s) /\ HasBlock(s.card)) PROVE t.ok = FALSE
    <2> DEFINE late == {u \in 0 .. busy - 1 :
                           timedOut(endOf(s, ms), (s.now + u) % ClockRange)}
               given == CHOOSE u \in late : \A v \in late : u <= v
    <2>1. busy = ms + 2
      BY <1>5
    <2>2. ms + 1 \in 0 .. busy - 1
      BY <1>2, <2>1
    <2>3. timedOut(endOf(s, ms), (s.now + (ms + 1)) % ClockRange)
      BY <1>2, TimesOut DEF Calls, endOf
    <2>4. late # {} /\ late \subseteq Nat
      BY <2>2, <2>3
    <2>5. t = return(pass(s, given), FALSE)
      BY <1>1, <2>4 DEF wait
    <2> HIDE DEF late, t
    <2>6. \E k \in late : \A u \in late : k <= u
      BY <2>4, Smallest
    <2>7. given \in late
      BY <2>6, Zenon
    <2>8. \A k \in late : k \in Int
      BY <2>4
    <2>9. given \in Int
      BY <2>7, <2>8, Zenon
    <2> HIDE DEF given
    <2> DEFINE p == pass(s, given)
    <2>10. p \in Calls
      BY <2>9, passGood
    <2>11. t = return(p, FALSE)
      BY <2>5
    <2> HIDE DEF p
    <2> QED
      BY <2>10, <2>11, returnGood
  <1> QED
    BY <1>4, <1>5

\* What is known of a block from the card once its checksum has been compared:
\* it is the content it was asked for.
BlockWell(c, sent) ==
    /\ sent.card \in CardStates /\ SameContent(c, sent.card) /\ Checked(sent.card)
    /\ Working(c) => Working(sent.card)
    /\ Guarded(c) => Guarded(sent.card)
    /\ sent.started /\ sent.crc = BlockCrc[sent.block] =>
          /\ sent.block = Content(c) /\ sent.block \in Contents
          /\ c.mode = "sending" => /\ c.pos \in Sectors /\ sent.card.mode = "sending"
                                   /\ sent.card.pos = c.pos + 1

LEMMA BlockFromGood ==
    ASSUME NEW s \in Calls, Checked(s.card), HasBlock(s.card)
    PROVE  BlockWell(s.card, BlockFrom(s))
  <1> DEFINE c == s.card
             sent == BlockFrom(s)
             b == Content(c)
             p == IF c.pos \in Sectors THEN c.pos + 1 ELSE c.pos
  <1> SUFFICES BlockWell(c, sent)
    OBVIOUS
  <1>1. c \in CardStates /\ c.mode \in {"sending", "single", "register"}
    BY DEF Calls, HasBlock
  <1>2. /\ sent.block = OnItsWay(s, b, "garbled") /\ sent.crc = Checksum[b]
        /\ sent.started => c.mode = "register" \/ c.pos \in Sectors
        /\ sent.card = IF c.mode = "sending" THEN Moved(c, "sending", p) ELSE idle(c)
    <2>1. c.mode = "sending" => [c EXCEPT !.pos = p] = Moved(c, "sending", p)
      BY <1>1 DEF CardStates, Moved
    <2> QED
      BY <2>1 DEF BlockFrom
  <1>3. p \in Int /\ b \in Contents
    <2>1. c.pos \in Int /\ (c.pos \in Sectors => c.dev[c.pos] \in Contents)
      BY <1>1 DEF CardStates
    <2>2. Erased \in Contents
      BY DEF Contents
    <2> QED
      BY <2>1, <2>2 DEF Content
  <1>4. c.pos \in Sectors => p = c.pos + 1
    OBVIOUS
  <1> HIDE DEF c, sent, b, p
  <1>5. /\ sent.card \in CardStates /\ SameContent(c, sent.card)
        /\ sent.card.crc = c.crc /\ sent.card.mode \in {"sending", "ready"}
        /\ c.mode = "sending" => sent.card.mode = "sending" /\ sent.card.pos = p
    <2>1. "sending" \in Modes
      BY DEF Modes
    <2>2. CASE c.mode = "sending"
      BY <1>1, <1>2, <1>3, <2>1, <2>2, MovedGood DEF SameContent, SameCard
    <2>3. CASE c.mode # "sending"
      BY <1>1, <1>2, <2>3, idleTyped DEF SameContent, SameCard
    <2> QED
      BY <2>2, <2>3
  <1>6. c.crc = TRUE
    BY <1>1 DEF Checked, c
  <1>7. sent.crc = BlockCrc[sent.block] => sent.block = b
    <2>1. CASE Hit(s, "garbled")
      <3>1. sent.block = Damaged[b] /\ Damaged[b] \in OnTheWire
        BY <1>2, <1>3, <2>1 DEF OnItsWay, OnTheWire
      <3>2. Checksum[Damaged[b]] # Checksum[b]
        BY <1>3, CardAssumption DEF CardAssumption
      <3>3. BlockCrc[Damaged[b]] = Checksum[Damaged[b]]
        BY <3>1, ChecksumAssumption DEF ChecksumAssumption
      <3> QED
        BY <1>2, <3>1, <3>2, <3>3
    <2>2. CASE ~Hit(s, "garbled")
      BY <1>2, <2>2 DEF OnItsWay
    <2> QED
      BY <2>1, <2>2
  <1>8. b = Content(c)
    BY DEF b
  <1> QED
    BY <1>1, <1>2, <1>3, <1>4, <1>5, <1>6, <1>7, <1>8
       DEF BlockWell, Checked, Working, Guarded

\* What comes of reading a block.
ReadWell(s, t) ==
    /\ Kept(s, t) /\ Stays(s, t) /\ t.card.dev = s.card.dev
    /\ t.state = s.state /\ t.cur = s.cur
    /\ t.ok # TRUE => t.active = FALSE /\ t.error = "FAILED"
    /\ t.ok = TRUE => /\ s.active = TRUE /\ t.active = TRUE
                      /\ t.val = Append(s.val, Content(s.card))
    /\ t.ok = TRUE /\ s.card.mode = "sending" =>
          /\ s.card.pos \in Sectors /\ t.card.mode = "sending"
          /\ t.card.pos = s.card.pos + 1
    /\ t.ok = TRUE => HasBlock(s.card)

LEMMA readDataGood ==
    ASSUME NEW s \in Calls, Checked(s.card)
    PROVE  ReadWell(s, readData(s))
  <1> DEFINE w == waitBlock(s)
             v == IF w.ok THEN w ELSE error(w)
             y == IF v.ok THEN taken(v, BlockFrom(v)) ELSE v
             x == IF y.ok THEN y ELSE spiStop(y)
             n == x.n + 1
             t == readData(s)
  <1> SUFFICES ReadWell(s, t)
    OBVIOUS
  <1>1. t = [x EXCEPT !.n = n]
    BY DEF readData, Else, Then
  <1> HIDE DEF t, n
  <1>2. /\ w \in Calls /\ Same(s, w) /\ w.active = s.active
        /\ w.ok = TRUE => Heard(s) /\ HasBlock(s.card)
    BY waitBlockGood
  <1>3. w.ok \in BOOLEAN /\ Kept(s, w) /\ Stays(s, w) /\ Checked(w.card) /\ w.card = s.card
    <2> HIDE DEF w
    <2>1. Kept(s, w) /\ Stays(s, w)
      BY <1>2, KeptSame
    <2> QED
      BY <1>2, <2>1 DEF Kept, Calls, Same
  <1> HIDE DEF w
  <1>4. CASE w.ok = TRUE
    <2> DEFINE sent == BlockFrom(w)
    <2>1. BlockWell(s.card, sent)
      BY <1>2, <1>3, <1>4, BlockFromGood
    <2>2. y = taken(w, sent)
      BY <1>4
    <2> HIDE DEF y, sent
    <2>3. CASE sent.started /\ sent.crc = BlockCrc[sent.block]
      <3> DEFINE val == Append(w.val, sent.block)
      <3>1. y = [w EXCEPT !.card = sent.card, !.val = val]
        BY <2>2, <2>3 DEF taken
      <3>2. val \in Seq(Contents) /\ sent.card \in CardStates
        BY <1>2, <2>1, <2>3 DEF BlockWell, Calls
      <3>3. val = Append(s.val, Content(s.card))
        BY <1>2, <2>1, <2>3 DEF BlockWell, Same, SameCall
      <3> HIDE DEF val
      <3>4. /\ y \in Calls /\ y.ok = TRUE /\ y.active = w.active /\ y.card = sent.card
            /\ y.val = val /\ SameMembers(w, y) /\ y.fault = w.fault
        BY <1>2, <1>4, <3>1, <3>2 DEF Calls, SameMembers
      <3>5. x = y
        BY <3>4
      <3> HIDE DEF x
      <3>6. t \in Calls /\ Same(y, t) /\ t.active = y.active /\ t.ok = TRUE
        <4>1. n \in Int
          BY <3>4, <3>5 DEF n, Calls
        <4> QED
          BY <1>1, <3>4, <3>5, <4>1 DEF Calls, Same, SameCall, SameMembers
      <3>7. Kept(s, t) /\ Stays(s, t)
        <4>1. t.card = sent.card
          BY <3>4, <3>6 DEF Same
        <4>2. Checked(t.card) /\ SameContent(s.card, t.card)
              /\ (Working(s.card) => Working(t.card)) /\ (Guarded(s.card) => Guarded(t.card))
          BY <2>1, <4>1 DEF BlockWell
        <4> QED
          BY <1>2, <3>4, <3>6, <4>2
             DEF Kept, Stays, SameContent, Same, SameCall, SameMembers
      <3>8. s.active = TRUE
        BY <1>2, <1>4 DEF Heard, Calls
      <3>9. /\ t.card = sent.card /\ t.val = val /\ t.state = s.state /\ t.cur = s.cur
            /\ t.active = TRUE
        BY <1>2, <3>4, <3>6, <3>8 DEF Same, SameCall, SameMembers
      <3>10. t.card.dev = s.card.dev
        BY <2>1, <3>9 DEF BlockWell, SameContent
      <3>11. s.card.mode = "sending" =>
                /\ s.card.pos \in Sectors /\ t.card.mode = "sending"
                /\ t.card.pos = s.card.pos + 1
        BY <2>1, <2>3, <3>9 DEF BlockWell
      <3> QED
        BY <1>2, <1>4, <3>3, <3>6, <3>7, <3>8, <3>9, <3>10, <3>11 DEF ReadWell
    <2>4. CASE ~(sent.started /\ sent.crc = BlockCrc[sent.block])
      <3> DEFINE z == [w EXCEPT !.card = sent.card]
      <3>1. y = error(z)
        BY <2>2, <2>4 DEF taken
      <3>2. /\ z \in Calls /\ z.card = sent.card /\ SameCall(w, z)
        BY <1>2, <2>1 DEF Calls, BlockWell, SameCall, SameMembers
      <3> HIDE DEF z
      <3>3. /\ y \in Calls /\ y.ok = FALSE /\ y.error = "FAILED" /\ y.card = z.card
            /\ y.state = z.state /\ y.cur = z.cur /\ y.type = z.type
            /\ y.dedicated = z.dedicated /\ y.began = z.began /\ y.fault = z.fault
            /\ y.val = z.val
        BY <3>1, <3>2, errorGood
      <3>4. x = spiStop(y)
        BY <3>3
      <3> HIDE DEF x
      <3>5. x \in Calls /\ Same(y, x) /\ x.active = FALSE /\ x.ok = FALSE
        BY <3>3, <3>4, spiStopGood
      <3>6. t \in Calls /\ Same(x, t) /\ t.active = FALSE /\ t.ok = FALSE
        <4>1. n \in Int
          BY <3>5 DEF n, Calls
        <4> QED
          BY <1>1, <3>5, <4>1 DEF Calls, Same, SameCall, SameMembers
      <3>7. /\ t.card = sent.card /\ t.state = s.state /\ t.cur = s.cur
            /\ t.type = s.type /\ t.dedicated = s.dedicated /\ t.began = s.began
            /\ t.fault = s.fault /\ t.error = "FAILED"
        BY <1>2, <3>2, <3>3, <3>5, <3>6 DEF Same, SameCall, SameMembers
      <3>8. Kept(s, t) /\ Stays(s, t) /\ t.card.dev = s.card.dev
        BY <2>1, <3>6, <3>7 DEF Kept, Stays, BlockWell, SameContent
      <3> QED
        BY <3>6, <3>7, <3>8 DEF ReadWell
    <2> QED
      BY <2>3, <2>4
  <1>5. CASE w.ok # TRUE
    <2>1. v = error(w)
      BY <1>3, <1>5
    <2> HIDE DEF v
    <2>2. /\ v \in Calls /\ v.ok = FALSE /\ v.error = "FAILED" /\ v.card = w.card
          /\ v.state = w.state /\ v.cur = w.cur
      BY <1>2, <2>1, errorGood
    <2>3. Kept(w, v) /\ Stays(w, v)
      BY <1>2, <1>3, <2>1, KeptFailure
    <2>4. Kept(s, v) /\ Stays(s, v)
      BY <1>3, <2>3, KeptOn, StaysOn
    <2>5. y = v
      BY <2>2
    <2> HIDE DEF y
    <2>6. x = spiStop(v)
      BY <2>2, <2>5
    <2> HIDE DEF x
    <2>7. x \in Calls /\ Same(v, x) /\ x.active = FALSE /\ x.ok = FALSE
      BY <2>2, <2>6, spiStopGood
    <2>8. t \in Calls /\ Same(x, t) /\ t.active = FALSE /\ t.ok = FALSE
      <3>1. n \in Int
        BY <2>7 DEF n, Calls
      <3> QED
        BY <1>1, <2>7, <3>1 DEF Calls, Same, SameCall, SameMembers
    <2>9. Kept(s, t) /\ Stays(s, t)
      BY <2>4, <2>7, <2>8 DEF Kept, Stays, Same, SameCall, SameMembers
    <2> QED
      BY <1>2, <1>3, <2>2, <2>7, <2>8, <2>9 DEF ReadWell, Same, SameCall, SameMembers
  <1> QED
    BY <1>4, <1>5

\* A transfer from the card has come to where the driver takes it to be.
InRead(s) ==
    s.active = TRUE => \/ s.card.mode \in {"absent", "off"}
                       \/ s.card.mode = "sending" /\ s.card.pos = s.cur

\* What has come of reading blocks, k of them so far.
ReadSoFar(s, k, t) ==
    /\ Kept(s, t) /\ Stays(s, t) /\ t.card.dev = s.card.dev
    /\ t.state = s.state /\ t.cur = s.cur
    /\ t.ok # TRUE => t.active = FALSE /\ t.error = "FAILED"
    /\ t.ok = TRUE =>
          /\ Len(t.val) = k /\ (k = 0 => t = s)
          /\ k > 0 => /\ t.active = TRUE /\ t.card.mode = "sending"
                      /\ t.card.pos = s.cur + k
          /\ \A i \in 1 .. k : /\ s.cur + i - 1 \in Sectors
                               /\ t.val[i] = s.card.dev[s.cur + i - 1]

LEMMA ReadOneMore ==
    ASSUME NEW s \in Calls, Checked(s.card), InRead(s), NEW k \in Nat,
           NEW x \in Calls, ReadSoFar(s, k, x)
    PROVE  ReadSoFar(s, k + 1, IF x.ok THEN readData(x) ELSE x)
  <1> DEFINE y == readData(x)
             t == IF x.ok THEN y ELSE x
  <1> SUFFICES ReadSoFar(s, k + 1, t)
    OBVIOUS
  <1>0. x.ok \in BOOLEAN /\ Checked(x.card) /\ s.cur \in Int
    BY DEF Calls, ReadSoFar, Kept
  <1>1. CASE x.ok = TRUE
    <2>1. ReadWell(x, y) /\ t = y
      BY <1>0, <1>1, readDataGood
    <2> HIDE DEF y, t
    <2>2. /\ Kept(s, x) /\ Stays(s, x) /\ x.card.dev = s.card.dev
          /\ x.state = s.state /\ x.cur = s.cur /\ Len(x.val) = k /\ (k = 0 => x = s)
      BY <1>1 DEF ReadSoFar
    <2>3. /\ Kept(x, y) /\ Stays(x, y) /\ y.card.dev = x.card.dev
          /\ y.state = x.state /\ y.cur = x.cur
          /\ y.ok # TRUE => y.active = FALSE /\ y.error = "FAILED"
      BY <2>1 DEF ReadWell
    <2>4. Kept(s, y) /\ Stays(s, y)
      BY <2>2, <2>3, KeptOn, StaysOn
    <2>5. ASSUME y.ok = TRUE
          PROVE  /\ Len(y.val) = k + 1 /\ y.active = TRUE /\ y.card.mode = "sending"
                 /\ y.card.pos = s.cur + (k + 1)
                 /\ \A i \in 1 .. k + 1 : /\ s.cur + i - 1 \in Sectors
                                          /\ y.val[i] = s.card.dev[s.cur + i - 1]
      <3>1. x.active = TRUE /\ y.active = TRUE /\ HasBlock(x.card)
            /\ y.val = Append(x.val, Content(x.card))
        BY <2>1, <2>5 DEF ReadWell
      <3>2. x.card.mode = "sending" /\ x.card.pos = s.cur + k
        <4>1. CASE k = 0
          BY <1>0, <2>2, <3>1, <4>1 DEF InRead, HasBlock
        <4>2. CASE k # 0
          BY <1>1, <4>2 DEF ReadSoFar
        <4> QED
          BY <4>1, <4>2
      <3>3. /\ s.cur + k \in Sectors /\ y.card.mode = "sending"
            /\ y.card.pos = s.cur + k + 1
        BY <2>1, <2>5, <3>2 DEF ReadWell
      <3>4. Content(x.card) = s.card.dev[s.cur + k]
        BY <2>2, <3>2, <3>3 DEF Content
      <3>5. x.val \in Seq(Contents)
        BY DEF Calls
      <3>6. /\ Len(y.val) = k + 1 /\ y.val[k + 1] = s.card.dev[s.cur + k]
            /\ \A i \in 1 .. k : y.val[i] = x.val[i]
        BY <2>2, <3>1, <3>4, <3>5
      <3>7. \A i \in 1 .. k : /\ s.cur + i - 1 \in Sectors
                              /\ x.val[i] = s.card.dev[s.cur + i - 1]
        BY <1>1 DEF ReadSoFar
      <3>8. ASSUME NEW i \in 1 .. k + 1
            PROVE  /\ s.cur + i - 1 \in Sectors
                   /\ y.val[i] = s.card.dev[s.cur + i - 1]
        <4>1. CASE i = k + 1
          <5>1. s.cur + i - 1 = s.cur + k
            BY <1>0, <4>1
          <5> QED
            BY <3>3, <3>6, <4>1, <5>1
        <4>2. CASE i # k + 1
          <5>1. i \in 1 .. k
            BY <4>2
          <5> QED
            BY <3>6, <3>7, <5>1
        <4> QED
          BY <4>1, <4>2
      <3>9. s.cur + k + 1 = s.cur + (k + 1)
        BY <1>0
      <3> QED
        BY <3>1, <3>3, <3>6, <3>8, <3>9
    <2>6. k + 1 # 0
      OBVIOUS
    <2> QED
      BY <2>1, <2>2, <2>3, <2>4, <2>5, <2>6 DEF ReadSoFar
  <1>2. CASE x.ok # TRUE
    <2>1. t = x
      BY <1>0, <1>2
    <2> HIDE DEF t
    <2> QED
      BY <1>2, <2>1 DEF ReadSoFar
  <1> QED
    BY <1>1, <1>2

\* Reading blocks gives those that follow one another on the card.
LEMMA readBlocksGood ==
    ASSUME NEW s \in Calls, Checked(s.card), InRead(s), s.ok = TRUE, s.val = <<>>,
           NEW n \in Nat
    PROVE  ReadSoFar(s, n, readBlocks(s, n))
  <1> DEFINE S == {x \in Calls : Checked(x.card)}
             T == {p \in Nat \X S : ReadSoFar(s, p[1], p[2])}
             Step(x) == IF x.ok THEN readData(x) ELSE x
             D == [p \in Int \X S |-> Step(p[2])]
             Is(f) == f = [k \in 0 .. n |-> IF k = 0 THEN s ELSE Step(f[k - 1])]
             after == CHOOSE f : Is(f)
             t == readBlocks(s, n)
  <1> SUFFICES ReadSoFar(s, n, t)
    OBVIOUS
  <1>1. t = after[n]
    BY Zenon DEF readBlocks, Then
  <1> HIDE DEF t
  <1>2. s \in S
    OBVIOUS
  <1>3. ASSUME NEW x \in S PROVE Step(x) \in S
    <2> DEFINE y == readData(x)
    <2>1. ReadWell(x, y)
      BY readDataGood
    <2> HIDE DEF y
    <2>2. y \in S
      BY <2>1 DEF ReadWell, Kept
    <2> QED
      BY <2>2 DEF y
  <1>4. ASSUME NEW k \in Nat, NEW x \in S, ReadSoFar(s, k, x)
        PROVE  ReadSoFar(s, k + 1, Step(x))
    BY <1>4, ReadOneMore
  <1>5. ReadSoFar(s, 0, s)
    <2>1. Same(s, s) /\ Len(s.val) = 0 /\ ~(0 > 0) /\ 1 .. 0 = {}
      BY DEF Same, SameCall, SameMembers
    <2>2. Kept(s, s) /\ Stays(s, s)
      BY <2>1, KeptSame
    <2> QED
      BY <2>1, <2>2 DEF ReadSoFar
  <1> HIDE DEF S, Step
  <1>6. D \in [Int \X S -> S]
    BY <1>3
  <1>7. \E f : Is(f)
    <2> HIDE DEF D
    <2>1. PICK f \in [0 .. n -> S] : Loop(f, s, D, n)
      BY <1>2, <1>6, LoopDefined
    <2>2. ASSUME NEW k \in 0 .. n, k # 0 PROVE D[<<k, f[k - 1]>>] = Step(f[k - 1])
      <3>1. k - 1 \in 0 .. n
        BY <2>2
      <3>2. f[k - 1] \in S
        BY <3>1
      <3> QED
        BY <3>2 DEF D
    <2>3. Is(f)
      BY <2>1, <2>2 DEF Loop
    <2> QED
      BY <2>3
  <1>8. Is(after)
    BY <1>7, Zenon
  <1> HIDE DEF after
  <1>9. after[0] = s /\ \A k \in 1 .. n : after[k] = Step(after[k - 1])
    BY <1>8
  <1> HIDE DEF Is
  <1>10. <<0, after[0]>> \in T
    BY <1>2, <1>5, <1>9
  <1>11. ASSUME NEW k \in 1 .. n, <<k - 1, after[k - 1]>> \in T
         PROVE  <<k, after[k]>> \in T
    <2> DEFINE x == after[k - 1]
    <2>1. k - 1 \in Nat /\ x \in S /\ ReadSoFar(s, k - 1, x)
      BY <1>11
    <2>2. after[k] = Step(x)
      BY <1>9
    <2> HIDE DEF x
    <2>3. ReadSoFar(s, (k - 1) + 1, after[k]) /\ after[k] \in S
      BY <1>3, <1>4, <2>1, <2>2
    <2>4. (k - 1) + 1 = k
      OBVIOUS
    <2> QED
      BY <2>3, <2>4
  <1> HIDE DEF T
  <1>12. <<n, after[n]>> \in T
    <2>1. \A k \in 0 .. n : <<k, after[k]>> \in T
      BY <1>10, <1>11, LoopKeepsAt
    <2> QED
      BY <2>1
  <1> QED
    BY <1>1, <1>12 DEF T

-----------------------------------------------------------------------------
(* What a call leaves behind that the next one finds.                      *)

\* Between calls the chip is selected only for a transfer of dedicated SPI,
Released(s) == s.active = TRUE => s.dedicated = TRUE /\ s.state # "IDLE"
\* and the transfer is where the driver takes it to be.
InStep(s) ==
    s.active = TRUE =>
        \/ s.card.mode \in {"absent", "off"}
        \/ s.state = "READ" /\ s.card.mode = "sending" /\ s.card.pos = s.cur
        \/ s.state = "WRITE" /\ s.card.mode = "receiving" /\ s.card.pos = s.cur
\* The driver gives sectors the numbers the card knows them by.
Agree(s) == (s.type = "SDHC") <=> (s.card.type = "SDHC")
\* A call as it begins.
Usable(s) ==
    /\ s \in Calls /\ Working(s.card) /\ Released(s) /\ InStep(s) /\ Agree(s)
    /\ s.ok = TRUE /\ s.val = <<>>

\* What comes of a call.
Served(s, t) ==
    /\ t \in Calls /\ t.type = s.type /\ t.error \in {s.error, "FAILED"}
    /\ SameCard(s.card, t.card) /\ Working(t.card) /\ Released(t) /\ InStep(t)
    /\ t.ok # TRUE => t.error = "FAILED"
Quiet(s, t) == Served(s, t) /\ t.card.dev = s.card.dev

\* A card that works compares the checksums.
LEMMA WorkingChecked ==
    ASSUME NEW c, Working(c)
    PROVE  Checked(c) /\ Guarded(c)
  BY DEF Working, Checked, Guarded

\* A call that ends with the chip released leaves no transfer to mistake.
LEMMA ServedReleased ==
    ASSUME NEW s, NEW t, Working(s.card), Kept(s, t), Stays(s, t), t.active = FALSE,
           t.ok # TRUE => t.error = "FAILED"
    PROVE  Served(s, t)
  BY DEF Served, Kept, Stays, Released, InStep

\* What comes of the transfer that is open when a call ends it.
LEMMA SyncServed ==
    ASSUME NEW s, Usable(s), NEW t, SyncWell(s, t)
    PROVE  Quiet(s, t) /\ t.active = FALSE /\ t.val = s.val
  <1>1. s.active \in BOOLEAN /\ Working(s.card)
    BY DEF Usable, Calls
  <1>2. t.active = FALSE
    BY <1>1 DEF SyncWell, Usable, Released
  <1>3. Kept(s, t) /\ Stays(s, t) /\ (t.ok # TRUE => t.error = "FAILED")
        /\ t.card.dev = s.card.dev /\ t.val = s.val
    BY DEF SyncWell
  <1> QED
    BY <1>1, <1>2, <1>3, ServedReleased DEF Quiet

LEMMA syncDeviceServed ==
    ASSUME NEW s, Usable(s)
    PROVE  Quiet(s, syncDevice(s))
  <1>1. s \in Calls /\ Checked(s.card)
    BY WorkingChecked DEF Usable
  <1>2. SyncWell(s, syncDevice(s))
    BY <1>1, syncDeviceGood
  <1> QED
    BY <1>2, SyncServed

LEMMA finishServed ==
    ASSUME NEW s, Usable(s)
    PROVE  Quiet(s, finish(s)) /\ finish(s).ok = TRUE
  <1> DEFINE d == syncDevice(s)
             t == finish(s)
  <1> SUFFICES Quiet(s, t) /\ t.ok = TRUE
    OBVIOUS
  <1>1. s \in Calls /\ Checked(s.card) /\ s.began \in BOOLEAN
    BY WorkingChecked DEF Usable, Calls
  <1>2. CASE s.began = TRUE
    <2>1. t = [d EXCEPT !.began = FALSE, !.ok = TRUE]
      BY <1>2 DEF finish
    <2>2. SyncWell(s, d)
      BY <1>1, syncDeviceGood
    <2> HIDE DEF d, t
    <2>3. Quiet(s, d) /\ d.active = FALSE
      BY <2>2, SyncServed
    <2>4. d \in Calls
      BY <2>3 DEF Quiet, Served
    <2>5. /\ t \in Calls /\ t.active = FALSE /\ t.ok = TRUE /\ t.card = d.card
          /\ t.type = d.type /\ t.error = d.error
      BY <2>1, <2>3, <2>4 DEF Calls
    <2> QED
      BY <2>3, <2>5 DEF Quiet, Served, Released, InStep
  <1>3. CASE s.began # TRUE
    <2>1. t = return(s, TRUE)
      BY <1>1, <1>3 DEF finish
    <2> HIDE DEF t
    <2>2. t \in Calls /\ Same(s, t) /\ t.active = s.active /\ t.ok = TRUE
      BY <1>1, <2>1, returnGood
    <2> QED
      BY <2>2 DEF Usable, Quiet, Served, Released, InStep, Same, SameCall, SameMembers,
                  SameCard
  <1> QED
    BY <1>2, <1>3

LEMMA setDedicatedSpiServed ==
    ASSUME NEW s, Usable(s), NEW value \in BOOLEAN
    PROVE  Quiet(s, setDedicatedSpi(s, value))
  <1> DEFINE d == syncDevice(s)
             t == setDedicatedSpi(s, value)
  <1> SUFFICES Quiet(s, t)
    OBVIOUS
  <1>1. s \in Calls /\ Checked(s.card)
    BY WorkingChecked DEF Usable
  <1>2. t = IF d.ok THEN [d EXCEPT !.dedicated = value] ELSE d
    BY DEF setDedicatedSpi, Then
  <1>3. SyncWell(s, d)
    BY <1>1, syncDeviceGood
  <1> HIDE DEF d, t
  <1>4. Quiet(s, d) /\ d.active = FALSE
    BY <1>3, SyncServed
  <1>5. d \in Calls /\ d.ok \in BOOLEAN
    BY <1>4 DEF Quiet, Served, Calls
  <1>6. CASE d.ok = TRUE
    <2>1. t = [d EXCEPT !.dedicated = value]
      BY <1>2, <1>6
    <2>2. /\ t \in Calls /\ t.active = FALSE /\ t.ok = TRUE /\ t.card = d.card
          /\ t.type = d.type /\ t.error = d.error
      BY <1>4, <1>5, <1>6, <2>1 DEF Calls
    <2> QED
      BY <1>4, <2>2 DEF Quiet, Served, Released, InStep
  <1>7. CASE d.ok # TRUE
    BY <1>2, <1>4, <1>5, <1>7
  <1> QED
    BY <1>6, <1>7

LEMMA isBusyServed ==
    ASSUME NEW s, Usable(s)
    PROVE  Quiet(s, isBusy(s))
  <1> DEFINE r == spiStart(s)
             n == r.n + 1
             z == [r EXCEPT !.active = s.active, !.n = n]
             t == isBusy(s)
  <1> SUFFICES Quiet(s, t)
    OBVIOUS
  <1>1. s \in Calls /\ s.active \in BOOLEAN
    BY DEF Usable, Calls
  <1>2. t = IF s.state = "READ" THEN return(s, TRUE) ELSE return(z, TRUE)
    BY DEF isBusy
  <1> HIDE DEF t
  <1>3. r \in Calls /\ Same(s, r)
    BY <1>1, spiStartGood
  <1>4. r.n \in Int
    BY <1>3 DEF Calls
  <1> HIDE DEF r
  <1>5. n \in Int
    BY <1>4
  <1> HIDE DEF n
  <1>6. z \in Calls /\ Same(r, z) /\ z.active = s.active
    BY <1>1, <1>3, <1>5 DEF Calls, Same, SameCall, SameMembers
  <1> HIDE DEF z
  <1>7. t \in Calls /\ Same(s, t) /\ t.active = s.active /\ t.ok = TRUE
    <2>1. CASE s.state = "READ"
      BY <1>1, <1>2, <2>1, returnGood
    <2>2. CASE s.state # "READ"
      <3>1. t = return(z, TRUE)
        BY <1>2, <2>2
      <3>2. t \in Calls /\ Same(z, t) /\ t.active = z.active /\ t.ok = TRUE
        BY <1>6, <3>1, returnGood
      <3> QED
        BY <1>3, <1>6, <3>2 DEF Same, SameCall, SameMembers
    <2> QED
      BY <2>1, <2>2
  <1> QED
    BY <1>7 DEF Usable, Quiet, Served, Released, InStep, Same, SameCall, SameMembers,
                SameCard

-----------------------------------------------------------------------------
(* The calls that read.                                                    *)

\* What comes of reading a register.
RegisterWell(s, t) ==
    /\ Kept(s, t) /\ Stays(s, t) /\ t.card.dev = s.card.dev
    /\ t.active = FALSE /\ t.val = <<>>
    /\ t.ok = TRUE => t.state = "IDLE"
    /\ t.ok # TRUE => t.error = "FAILED"

LEMMA readRegisterGood ==
    ASSUME NEW s \in Calls, Checked(s.card), NEW cmd \in {9, 13, 58}
    PROVE  RegisterWell(s, readRegister(s, cmd))
  <1> DEFINE a == cardCommand(s, 55, 0)
             c == IF cmd \in {13, 51} THEN cardCommand(a, cmd, 0)
                  ELSE cardCommand(s, cmd, 0)
             e == IF c.ok THEN c ELSE error(c)
             d == IF e.ok THEN IF cmd = 58 THEN e ELSE readData(e) ELSE e
             x == spiStop(d)
             t == readRegister(s, cmd)
  <1> SUFFICES RegisterWell(s, t)
    OBVIOUS
  <1>1. t = [x EXCEPT !.val = <<>>]
    BY DEF readRegister, appCommand, Else, Then
  <1> HIDE DEF t
  <1>2. /\ 55 \in Commands /\ cmd \in Commands /\ 0 \in Args /\ cmd # 41 /\ 55 # 41
        /\ cmd \notin {0, 59, 38} /\ 55 \notin {0, 59, 38}
    BY DEF Commands, Args
  <1>3. /\ Kept(s, c) /\ Stays(s, c) /\ c.card.dev = s.card.dev
        /\ c.ok = TRUE => c.state = "IDLE"
    <2>1. CASE cmd = 13
      <3>1. CardCommandWell(s, 55, 0, a)
        BY <1>2, cardCommandGood
      <3>2. c = cardCommand(a, cmd, 0)
        BY <2>1
      <3> HIDE DEF a, c
      <3>3. Kept(s, a) /\ Stays(s, a) /\ a.card.dev = s.card.dev
        BY <1>2, <3>1 DEF CardCommandWell
      <3>4. a \in Calls /\ Checked(a.card)
        BY <3>3 DEF Kept
      <3>5. CardCommandWell(a, cmd, 0, c)
        BY <1>2, <3>2, <3>4, cardCommandGood
      <3>6. /\ Kept(a, c) /\ Stays(a, c) /\ c.card.dev = a.card.dev
            /\ c.ok = TRUE => c.state = "IDLE"
        BY <1>2, <3>5 DEF CardCommandWell
      <3> QED
        BY <3>3, <3>6, KeptOn, StaysOn
    <2>2. CASE cmd # 13
      <3>1. c = cardCommand(s, cmd, 0)
        BY <2>2
      <3> HIDE DEF c
      <3>2. CardCommandWell(s, cmd, 0, c)
        BY <1>2, <3>1, cardCommandGood
      <3> QED
        BY <1>2, <3>2 DEF CardCommandWell
    <2> QED
      BY <2>1, <2>2
  <1> HIDE DEF c
  <1>4. c \in Calls /\ c.ok \in BOOLEAN /\ Checked(c.card)
    BY <1>3 DEF Kept, Calls
  <1>5. /\ Kept(s, e) /\ Stays(s, e) /\ e.card.dev = s.card.dev
        /\ e.ok = TRUE => e.state = "IDLE"
        /\ e.ok # TRUE => e.error = "FAILED"
    <2>1. CASE c.ok = TRUE
      BY <1>3, <2>1
    <2>2. CASE c.ok # TRUE
      <3>1. e = error(c)
        BY <1>4, <2>2
      <3> HIDE DEF e
      <3>2. Kept(c, e) /\ Stays(c, e)
        BY <1>4, <3>1, KeptFailure
      <3>3. e.card = c.card /\ e.ok = FALSE /\ e.error = "FAILED"
        BY <1>4, <3>1, errorGood
      <3> QED
        BY <1>3, <3>2, <3>3, KeptOn, StaysOn
    <2> QED
      BY <2>1, <2>2
  <1> HIDE DEF e
  <1>6. e \in Calls /\ e.ok \in BOOLEAN /\ Checked(e.card)
    BY <1>5 DEF Kept, Calls
  <1>7. /\ Kept(s, d) /\ Stays(s, d) /\ d.card.dev = s.card.dev
        /\ d.ok = TRUE => d.state = "IDLE"
        /\ d.ok # TRUE => d.error = "FAILED"
    <2>1. CASE e.ok = TRUE /\ cmd # 58
      <3> DEFINE y == readData(e)
      <3>1. ReadWell(e, y)
        BY <1>6, readDataGood
      <3>2. d = y
        BY <2>1
      <3> HIDE DEF y, d
      <3>3. /\ Kept(e, y) /\ Stays(e, y) /\ y.card.dev = e.card.dev /\ y.state = e.state
            /\ y.ok # TRUE => y.error = "FAILED"
        BY <3>1 DEF ReadWell
      <3> QED
        BY <1>5, <2>1, <3>2, <3>3, KeptOn, StaysOn
    <2>2. CASE ~(e.ok = TRUE /\ cmd # 58)
      <3>1. d = e
        BY <1>6, <2>2
      <3> QED
        BY <1>5, <3>1
    <2> QED
      BY <2>1, <2>2
  <1> HIDE DEF d
  <1>8. d \in Calls
    BY <1>7 DEF Kept
  <1>9. x \in Calls /\ Same(d, x) /\ x.active = FALSE /\ x.ok = d.ok
    BY <1>8, spiStopGood
  <1> HIDE DEF x
  <1>10. /\ t \in Calls /\ t.val = <<>> /\ t.active = FALSE /\ t.ok = d.ok
         /\ t.card = d.card /\ SameMembers(d, t) /\ t.fault = d.fault
    <2>1. <<>> \in Seq(Contents)
      OBVIOUS
    <2>2. t \in Calls
      BY <1>1, <1>9, <2>1 DEF Calls
    <2> QED
      BY <1>1, <1>9, <2>2 DEF Calls, Same, SameCall, SameMembers
  <1>11. Kept(s, t) /\ Stays(s, t)
    BY <1>7, <1>10 DEF Kept, Stays, SameMembers
  <1> QED
    BY <1>7, <1>10, <1>11 DEF RegisterWell, SameMembers

LEMMA readRegisterServed ==
    ASSUME NEW s, Usable(s), NEW cmd \in {13, 58}
    PROVE  Quiet(s, readRegister(s, cmd))
  <1>1. s \in Calls /\ Checked(s.card) /\ Working(s.card)
    BY WorkingChecked DEF Usable
  <1>2. RegisterWell(s, readRegister(s, cmd))
    BY <1>1, readRegisterGood
  <1> QED
    BY <1>1, <1>2, ServedReleased DEF RegisterWell, Quiet

\* What comes of the start of a transfer, or of going on with the one before.
Under(s, sector, state, mode, t) ==
    /\ Kept(s, t) /\ Stays(s, t) /\ t.card.dev = s.card.dev /\ t.val = s.val
    /\ t.ok # TRUE => t.active = FALSE /\ t.error = "FAILED"
    /\ t.ok = TRUE => /\ t.state = state /\ t.cur = sector
                      /\ t.active = TRUE =>
                            \/ t.card.mode \in {"absent", "off"}
                            \/ t.card.mode = mode /\ t.card.pos = sector

LEMMA UnderStarted ==
    ASSUME NEW s, Usable(s), NEW sector \in Sectors, NEW state \in {"READ", "WRITE"},
           NEW cmd \in {18, 25}, NEW c, c = commandOr(s, cmd, address(s, sector)),
           NEW d, d = IF c.ok THEN [c EXCEPT !.state = state] ELSE c,
           NEW t, t = IF d.ok THEN [d EXCEPT !.cur = sector] ELSE d
    PROVE  Under(s, sector, state, ModeAfter(cmd), t)
  <1>1. /\ s \in Calls /\ Checked(s.card) /\ Agree(s) /\ s.card \in CardStates
        /\ sector \in Int
    BY WorkingChecked, SectorsNatural DEF Usable, Calls
  <1> DEFINE arg == address(s, sector)
  <1>2. arg \in Args /\ AddressOf(s.card, arg) = sector
    BY <1>1, AddressUnderstood DEF Agree
  <1>3. c = commandOr(s, cmd, arg)
    OBVIOUS
  <1> HIDE DEF arg
  <1>4. CommandOrWell(s, cmd, arg, c)
    BY <1>1, <1>2, <1>3, commandOrGood
  <1>5. c \in Calls /\ c.ok \in BOOLEAN
    BY <1>4 DEF CommandOrWell, Kept, Calls
  <1>6. CASE c.ok = TRUE
    <2>1. d = [c EXCEPT !.state = state]
      BY <1>6
    <2>2. /\ d \in Calls /\ d.ok = TRUE /\ d.card = c.card /\ d.state = state
          /\ d.fault = c.fault /\ d.type = c.type /\ d.dedicated = c.dedicated
          /\ d.began = c.began /\ d.error = c.error /\ d.val = c.val
          /\ d.active = c.active
      BY <1>5, <1>6, <2>1 DEF Calls
    <2>3. t = [d EXCEPT !.cur = sector]
      BY <2>2
    <2>4. /\ t \in Calls /\ t.ok = TRUE /\ t.card = c.card /\ t.state = state
          /\ t.fault = c.fault /\ t.type = c.type /\ t.dedicated = c.dedicated
          /\ t.began = c.began /\ t.error = c.error /\ t.val = c.val
          /\ t.cur = sector
      <3>1. d \in Calls /\ sector \in Int
        BY <1>1, <2>2
      <3>2. t \in Calls /\ t.cur = sector
        BY <2>3, <3>1 DEF Calls
      <3>3. /\ t.ok = d.ok /\ t.card = d.card /\ t.state = d.state
            /\ t.fault = d.fault /\ t.type = d.type /\ t.dedicated = d.dedicated
            /\ t.began = d.began /\ t.error = d.error /\ t.val = d.val
        BY <2>3, <3>1 DEF Calls
      <3> QED
        BY <2>2, <3>2, <3>3
    <2>5. Kept(s, t) /\ Stays(s, t)
      BY <1>4, <2>4 DEF CommandOrWell, Kept, Stays
    <2> QED
      BY <1>2, <1>4, <1>6, <2>4, <2>5 DEF CommandOrWell, Under
  <1>7. CASE c.ok # TRUE
    <2>1. t = c
      BY <1>5, <1>7
    <2> QED
      BY <1>4, <1>7, <2>1 DEF CommandOrWell, Under
  <1> QED
    BY <1>6, <1>7

LEMMA UnderResumed ==
    ASSUME NEW s, Usable(s), NEW sector, NEW state \in {"READ", "WRITE"},
           NEW mode, mode = IF state = "READ" THEN "sending" ELSE "receiving",
           s.state = state, s.cur = sector, NEW t, t = return(s, TRUE)
    PROVE  Under(s, sector, state, mode, t)
  <1>1. s \in Calls /\ Checked(s.card) /\ InStep(s)
    BY WorkingChecked DEF Usable
  <1>2. t \in Calls /\ Same(s, t) /\ t.active = s.active /\ t.ok = TRUE
    BY <1>1, returnGood
  <1>3. Kept(s, t) /\ Stays(s, t)
    BY <1>1, <1>2, KeptSame
  <1> QED
    BY <1>1, <1>2, <1>3 DEF Under, InStep, Same, SameCall, SameMembers

\* A read that succeeds gives the content of the sectors it was asked for.
LEMMA readSectorsServed ==
    ASSUME NEW s, Usable(s), NEW sector \in Sectors, NEW n \in Nat \ {0}
    PROVE  /\ Quiet(s, readSectors(s, sector, n))
           /\ readSectors(s, sector, n).ok = TRUE =>
                 /\ Len(readSectors(s, sector, n).val) = n
                 /\ \A i \in 1 .. n :
                       /\ sector + i - 1 \in Sectors
                       /\ readSectors(s, sector, n).val[i] = s.card.dev[sector + i - 1]
  <1> DEFINE c == commandOr(s, 18, address(s, sector))
             d == IF c.ok THEN [c EXCEPT !.state = "READ"] ELSE c
             u == IF d.ok THEN [d EXCEPT !.cur = sector] ELSE d
             a == IF s.state # "READ" \/ sector # s.cur THEN u ELSE return(s, TRUE)
             r == readBlocks(a, n)
             cur == r.cur + n
             m == [r EXCEPT !.cur = cur]
             x == IF m.dedicated THEN m ELSE readStop(m)
             b == IF r.ok THEN x ELSE r
             t == IF a.ok THEN b ELSE a
  <1>1. readSectors(s, sector, n) = t
    BY DEF readSectors, readStart, Then, With
  <1> SUFFICES /\ Quiet(s, t)
               /\ t.ok = TRUE => /\ Len(t.val) = n
                                 /\ \A i \in 1 .. n :
                                      /\ sector + i - 1 \in Sectors
                                      /\ t.val[i] = s.card.dev[sector + i - 1]
    BY <1>1
  <1>2. s \in Calls /\ Working(s.card) /\ s.val = <<>> /\ ModeAfter(18) = "sending"
    BY DEF Usable, ModeAfter
  <1>3. Under(s, sector, "READ", "sending", a)
    <2>1. CASE s.state # "READ" \/ sector # s.cur
      <3>1. a = u
        BY <2>1
      <3> HIDE DEF a
      <3>2. Under(s, sector, "READ", ModeAfter(18), u)
        BY UnderStarted
      <3> QED
        BY <1>2, <3>1, <3>2
    <2>2. CASE ~(s.state # "READ" \/ sector # s.cur)
      <3>1. a = return(s, TRUE) /\ s.state = "READ" /\ s.cur = sector
        BY <2>2
      <3> HIDE DEF a
      <3> QED
        BY <3>1, UnderResumed
    <2> QED
      BY <2>1, <2>2
  <1> HIDE DEF c, d, u, a
  <1>4. /\ Kept(s, a) /\ Stays(s, a) /\ a.card.dev = s.card.dev /\ a.val = <<>>
        /\ a.ok # TRUE => a.active = FALSE /\ a.error = "FAILED"
        /\ a.ok = TRUE => a.state = "READ" /\ a.cur = sector /\ InRead(a)
    BY <1>2, <1>3 DEF Under, InRead
  <1>5. a \in Calls /\ a.ok \in BOOLEAN /\ Checked(a.card)
    BY <1>4 DEF Kept, Calls
  <1>6. CASE a.ok # TRUE
    <2>1. t = a
      BY <1>5, <1>6
    <2> HIDE DEF t
    <2> QED
      BY <1>2, <1>4, <1>6, <2>1, ServedReleased DEF Quiet
  <1>7. CASE a.ok = TRUE
    <2>1. ReadSoFar(a, n, r)
      BY <1>4, <1>5, <1>7, readBlocksGood
    <2>2. t = b
      BY <1>5, <1>7
    <2> HIDE DEF t, r
    <2>3. /\ Kept(a, r) /\ Stays(a, r) /\ r.card.dev = a.card.dev
          /\ r.state = "READ" /\ r.cur = sector
          /\ r.ok # TRUE => r.active = FALSE /\ r.error = "FAILED"
      BY <1>4, <1>7, <2>1 DEF ReadSoFar
    <2>4. Kept(s, r) /\ Stays(s, r) /\ r.card.dev = s.card.dev
      BY <1>4, <2>3, KeptOn, StaysOn
    <2>5. r \in Calls /\ r.ok \in BOOLEAN /\ Checked(r.card)
      BY <2>4 DEF Kept, Calls
    <2>6. CASE r.ok # TRUE
      <3>1. t = r
        BY <2>2, <2>5, <2>6
      <3> QED
        BY <1>2, <2>3, <2>4, <2>6, <3>1, ServedReleased DEF Quiet
    <2>7. CASE r.ok = TRUE
      <3>1. t = x
        BY <2>2, <2>7
      <3> HIDE DEF b
      <3>2. /\ r.active = TRUE /\ r.card.mode = "sending" /\ r.card.pos = cur
            /\ Len(r.val) = n
            /\ \A i \in 1 .. n : /\ sector + i - 1 \in Sectors
                                 /\ r.val[i] = s.card.dev[sector + i - 1]
        BY <1>4, <1>7, <2>1, <2>3, <2>7 DEF ReadSoFar
      <3>3. cur \in Int
        BY <2>5 DEF Calls
      <3> HIDE DEF cur
      <3>4. /\ m \in Calls /\ m.card = r.card /\ m.cur = cur /\ m.ok = TRUE
            /\ m.active = TRUE /\ m.state = "READ" /\ m.fault = r.fault
            /\ m.type = r.type /\ m.dedicated = r.dedicated /\ m.began = r.began
            /\ m.error = r.error /\ m.val = r.val /\ m.dedicated \in BOOLEAN
        BY <2>3, <2>5, <2>7, <3>2, <3>3 DEF Calls
      <3> HIDE DEF m
      <3>5. Kept(s, m) /\ Stays(s, m) /\ Checked(m.card)
        BY <2>4, <2>5, <3>4 DEF Kept, Stays
      <3>6. CASE m.dedicated = TRUE
        <4>1. t = m
          BY <3>1, <3>6
        <4>2. Released(t) /\ InStep(t)
          BY <3>2, <3>4, <3>6, <4>1 DEF Released, InStep
        <4>3. Served(s, t)
          BY <1>2, <3>4, <3>5, <4>1, <4>2 DEF Served, Kept, Stays
        <4> QED
          BY <2>4, <3>2, <3>4, <4>1, <4>3 DEF Quiet
      <3>7. CASE m.dedicated # TRUE
        <4>1. t = readStop(m)
          BY <3>1, <3>4, <3>7
        <4>2. SyncWell(m, t)
          BY <3>4, <3>5, <4>1, readStopGood
        <4>3. /\ Kept(m, t) /\ Stays(m, t) /\ t.card.dev = m.card.dev /\ t.val = m.val
              /\ t.active = FALSE /\ (t.ok # TRUE => t.error = "FAILED")
          BY <3>4, <4>2 DEF SyncWell
        <4>4. Kept(s, t) /\ Stays(s, t)
          BY <3>5, <4>3, KeptOn, StaysOn
        <4>5. Served(s, t)
          BY <1>2, <4>3, <4>4, ServedReleased
        <4> QED
          BY <2>4, <3>2, <3>4, <4>3, <4>5 DEF Quiet
      <3> QED
        BY <3>6, <3>7
    <2> QED
      BY <2>6, <2>7
  <1> QED
    BY <1>6, <1>7

-----------------------------------------------------------------------------
(* Writing.                                                                *)

\* A card with a block more.
Stocked(c, block) ==
    [c EXCEPT !.dev = [c.dev EXCEPT ![c.pos] = block], !.pos = c.pos + 1]
LEMMA StockedGood ==
    ASSUME NEW c \in CardStates, NEW block \in Contents
    PROVE  /\ Stocked(c, block) \in CardStates /\ SameCard(c, Stocked(c, block))
           /\ Stocked(c, block).mode = c.mode /\ Stocked(c, block).crc = c.crc
           /\ Stocked(c, block).pos = c.pos + 1
           /\ \A k \in Sectors : Stocked(c, block).dev[k] =
                                    IF k = c.pos THEN block ELSE c.dev[k]
  <1> DEFINE dev == [c.dev EXCEPT ![c.pos] = block]
             p == c.pos + 1
             d == Stocked(c, block)
  <1>1. dev \in [Sectors -> Contents]
    BY DEF CardStates
  <1>2. \A k \in Sectors : dev[k] = IF k = c.pos THEN block ELSE c.dev[k]
    BY DEF CardStates
  <1>3. p \in Int
    BY DEF CardStates
  <1>4. d = [c EXCEPT !.dev = dev, !.pos = p]
    BY DEF Stocked
  <1> SUFFICES /\ d \in CardStates /\ SameCard(c, d) /\ d.mode = c.mode /\ d.crc = c.crc
               /\ d.pos = p
               /\ \A k \in Sectors : d.dev[k] = IF k = c.pos THEN block ELSE c.dev[k]
    OBVIOUS
  <1> HIDE DEF dev, p, d
  <1>5. d \in CardStates /\ d.mode = c.mode /\ d.crc = c.crc /\ d.pos = p /\ d.dev = dev
    BY <1>1, <1>3, <1>4 DEF CardStates
  <1>6. SameCard(c, d)
    BY <1>4 DEF CardStates, SameCard
  <1> QED
    BY <1>2, <1>5, <1>6

\* What has come of a block on its way to the card: it is stored as it was sent
\* or not at all, and the driver is sure of it only when it is.
Stores(c, block, d) ==
    c.pos \in Sectors /\ \A k \in Sectors : d.dev[k] = IF k = c.pos THEN block ELSE c.dev[k]
GivenWell(s, token, block, t) ==
    /\ t \in Calls /\ SameCall(s, t) /\ t.active = s.active
    /\ Kept(s, t) /\ Stays(s, t)
    /\ t.card.dev = s.card.dev \/ (s.active = TRUE /\ Stores(s.card, block, t.card))
    /\ t.r = "accepted" =>
          /\ s.active = TRUE /\ Stores(s.card, block, t.card)
          /\ token = "start" => s.card.mode = "taking"
          /\ token = "multiple" => /\ s.card.mode = "receiving"
                                   /\ t.card.mode = "receiving"
                                   /\ t.card.pos = s.card.pos + 1
    /\ t.card.dev # s.card.dev =>
          /\ token = "start" => s.card.mode = "taking"
          /\ token = "multiple" => s.card.mode = "receiving"

LEMMA GivenGood ==
    ASSUME NEW s \in Calls, Checked(s.card), NEW block \in Contents,
           NEW token \in {"start", "multiple"}
    PROVE  GivenWell(s, token, block, Given(s, token, block, BlockCrc[block]))
  <1> DEFINE c == s.card
             came == OnItsWay(s, block, "lost")
             crc == BlockCrc[block]
             expected == \/ c.mode = "taking" /\ token = "start"
                         \/ c.mode = "receiving" /\ token = "multiple"
             full == Stocked(c, came)
             t == Given(s, token, block, crc)
  <1> SUFFICES GivenWell(s, token, block, t)
    OBVIOUS
  <1>1. c \in CardStates /\ s.active \in BOOLEAN
    BY DEF Calls
  <1>2. /\ "none" \in Responses /\ "rejected" \in Responses /\ "accepted" \in Responses
    BY DEF Responses
  <1>3. [c EXCEPT !.dev[c.pos] = came, !.pos = @ + 1] = full
    BY <1>1 DEF CardStates, Stocked
  <1>4. \/ t = answer(s, c, "none")
        \/ expected /\ Heard(s) /\ t = Stored(s, came, crc)
    BY DEF Given
  <1> HIDE DEF t
  <1>5. ASSUME NEW d \in CardStates, NEW r \in Responses, t = answer(s, d, r),
               SameCard(c, d), Checked(d), d.mode = c.mode \/ d.mode = "ready", d.crc = c.crc
        PROVE  /\ t \in Calls /\ SameCall(s, t) /\ t.active = s.active /\ t.card = d
               /\ t.r = r /\ Kept(s, t) /\ Stays(s, t)
    <2>1. /\ t \in Calls /\ SameCall(s, t) /\ t.active = s.active /\ t.card = d
          /\ t.r = r
      BY <1>5, answerGood
    <2>2. (Working(c) => Working(d)) /\ (Guarded(c) => Guarded(d))
      BY <1>5 DEF Working, Guarded, Checked
    <2> HIDE DEF c
    <2>3. c = s.card
      BY DEF c
    <2> QED
      BY <1>5, <2>1, <2>2, <2>3 DEF Kept, Stays, SameCall, SameMembers
  <1>6. CASE t = answer(s, c, "none")
    <2>1. SameCard(c, c)
      BY DEF SameCard
    <2>2. /\ t \in Calls /\ SameCall(s, t) /\ t.active = s.active /\ t.card = c
          /\ t.r = "none" /\ Kept(s, t) /\ Stays(s, t)
      BY <1>1, <1>2, <1>5, <1>6, <2>1
    <2> QED
      BY <2>2 DEF GivenWell
  <1>7. CASE expected /\ Heard(s) /\ t = Stored(s, came, crc)
    <2>1. c.crc = TRUE /\ s.active = TRUE
      BY <1>1, <1>7 DEF Checked, Heard
    <2>2. crc = Checksum[came] => came = block
      <3>1. CASE Hit(s, "lost")
        <4>1. came = Damaged[block] /\ block \in OnTheWire
          BY <3>1 DEF OnItsWay, OnTheWire
        <4>2. Checksum[Damaged[block]] # Checksum[block]
          BY CardAssumption DEF CardAssumption
        <4>3. crc = Checksum[block]
          BY <4>1, ChecksumAssumption DEF ChecksumAssumption
        <4> QED
          BY <4>1, <4>2, <4>3
      <3>2. CASE ~Hit(s, "lost")
        BY <3>2 DEF OnItsWay
      <3> QED
        BY <3>1, <3>2
    <2> DEFINE after(z) == IF c.mode = "taking" THEN idle(z) ELSE z
    <2>3. \/ t = answer(s, after(c), "rejected")
          \/ /\ crc = Checksum[came] /\ c.pos \in Sectors
             /\ \/ t = answer(s, after(full), "none")
                \/ t = answer(s, after(full), "accepted")
      BY <1>3, <1>7, <2>1 DEF Stored
    <2>4. ASSUME NEW z \in CardStates, z.crc = TRUE, z.mode = c.mode
          PROVE  /\ after(z) \in CardStates /\ SameCard(z, after(z)) /\ after(z).crc = TRUE
                 /\ after(z).dev = z.dev /\ Checked(after(z))
                 /\ after(z).mode = c.mode \/ after(z).mode = "ready"
                 /\ c.mode = "receiving" => after(z) = z
      <3>1. CASE c.mode = "taking"
        BY <2>4, <3>1, idleTyped DEF SameCard, Checked
      <3>2. CASE c.mode # "taking"
        BY <2>4, <3>2 DEF SameCard, Checked
      <3> QED
        BY <3>1, <3>2
    <2>5. expected => c.mode \in {"taking", "receiving"}
      OBVIOUS
    <2>6. /\ token = "start" => c.mode = "taking"
          /\ token = "multiple" => c.mode = "receiving"
      BY <1>7
    <2> DEFINE d == after(c)
               e == after(full)
    <2>7. /\ d \in CardStates /\ SameCard(c, d) /\ d.crc = TRUE /\ d.dev = c.dev
          /\ Checked(d) /\ (d.mode = c.mode \/ d.mode = "ready")
      BY <1>1, <2>1, <2>4
    <2>8. ASSUME came = block
          PROVE  /\ e \in CardStates /\ SameCard(c, e) /\ e.crc = TRUE
                 /\ Checked(e) /\ (e.mode = c.mode \/ e.mode = "ready")
                 /\ \A k \in Sectors : e.dev[k] = IF k = c.pos THEN block ELSE c.dev[k]
                 /\ c.mode = "receiving" => e.mode = "receiving" /\ e.pos = c.pos + 1
      <3>1. full = Stocked(c, block)
        BY <2>8
      <3> HIDE DEF full, after
      <3>2. /\ full \in CardStates /\ SameCard(c, full) /\ full.mode = c.mode
            /\ full.crc = TRUE /\ full.pos = c.pos + 1
            /\ \A k \in Sectors : full.dev[k] = IF k = c.pos THEN block ELSE c.dev[k]
        BY <1>1, <2>1, <3>1, StockedGood
      <3>3. /\ e \in CardStates /\ SameCard(full, e) /\ e.crc = TRUE
            /\ e.dev = full.dev /\ Checked(e) /\ (e.mode = c.mode \/ e.mode = "ready")
            /\ c.mode = "receiving" => e = full
        BY <2>4, <3>2
      <3> HIDE DEF e
      <3>4. SameCard(c, e)
        BY <3>2, <3>3 DEF SameCard
      <3> QED
        BY <3>2, <3>3, <3>4
    <2> HIDE DEF d, e, after, expected, came, crc, full
    <2>9. CASE t = answer(s, d, "rejected")
      <3>1. /\ t \in Calls /\ SameCall(s, t) /\ t.active = s.active /\ t.card = d
            /\ t.r = "rejected" /\ Kept(s, t) /\ Stays(s, t)
        BY <1>2, <1>5, <2>1, <2>7, <2>9
      <3> QED
        BY <2>7, <3>1 DEF GivenWell
    <2>10. CASE /\ crc = Checksum[came] /\ c.pos \in Sectors
                /\ t = answer(s, e, "none") \/ t = answer(s, e, "accepted")
      <3>1. /\ e \in CardStates /\ SameCard(c, e) /\ e.crc = TRUE
            /\ Checked(e) /\ (e.mode = c.mode \/ e.mode = "ready")
            /\ \A k \in Sectors : e.dev[k] = IF k = c.pos THEN block ELSE c.dev[k]
            /\ c.mode = "receiving" => e.mode = "receiving" /\ e.pos = c.pos + 1
        BY <2>2, <2>8, <2>10
      <3>2. /\ t \in Calls /\ SameCall(s, t) /\ t.active = s.active /\ t.card = e
            /\ Kept(s, t) /\ Stays(s, t)
        BY <1>2, <1>5, <2>1, <2>10, <3>1
      <3>3. Stores(c, block, t.card)
        BY <2>10, <3>1, <3>2 DEF Stores
      <3> QED
        BY <2>1, <2>6, <3>1, <3>2, <3>3 DEF GivenWell
    <2> QED
      BY <2>3, <2>9, <2>10 DEF d, e
  <1> QED
    BY <1>4, <1>6, <1>7

\* What comes of writing a block.
TokenWell(s, token, block, t) ==
    /\ Kept(s, t) /\ Stays(s, t) /\ t.val = s.val /\ t.state = s.state /\ t.cur = s.cur
    /\ t.ok # TRUE => t.active = FALSE /\ t.error = "FAILED"
    /\ t.card.dev = s.card.dev \/ (s.active = TRUE /\ Stores(s.card, block, t.card))
    /\ t.ok = TRUE => /\ t.active = TRUE /\ s.active = TRUE
                      /\ Stores(s.card, block, t.card)
                      /\ token = "multiple" => /\ s.card.mode = "receiving"
                                               /\ t.card.mode = "receiving"
                                               /\ t.card.pos = s.card.pos + 1
    /\ t.card.dev # s.card.dev /\ token = "multiple" => s.card.mode = "receiving"

LEMMA writeTokenGood ==
    ASSUME NEW s \in Calls, Checked(s.card), NEW block \in Contents,
           NEW token \in {"start", "multiple"}
    PROVE  TokenWell(s, token, block, writeToken(s, token, block))
  <1> DEFINE g == Given(s, token, block, BlockCrc[block])
             t == writeToken(s, token, block)
  <1> SUFFICES TokenWell(s, token, block, t)
    OBVIOUS
  <1>1. t = IF g.r = "accepted" THEN return(g, TRUE) ELSE failure(g)
    BY DEF writeToken, With
  <1>2. GivenWell(s, token, block, g)
    BY GivenGood
  <1> HIDE DEF g, t
  <1>3. g \in Calls /\ Kept(s, g) /\ Stays(s, g) /\ Checked(g.card) /\ SameCall(s, g)
    BY <1>2 DEF GivenWell, Kept
  <1>4. CASE g.r = "accepted"
    <2>1. t \in Calls /\ Same(g, t) /\ t.active = g.active /\ t.ok = TRUE
      BY <1>1, <1>3, <1>4, returnGood
    <2>2. Kept(g, t) /\ Stays(g, t)
      BY <1>3, <2>1, KeptSame
    <2>3. Kept(s, t) /\ Stays(s, t)
      BY <1>3, <2>2, KeptOn, StaysOn
    <2>4. t.card = g.card /\ t.val = s.val /\ t.state = s.state /\ t.cur = s.cur
      BY <1>3, <2>1 DEF Same, SameCall, SameMembers
    <2> QED
      BY <1>2, <1>4, <2>1, <2>3, <2>4 DEF GivenWell, TokenWell
  <1>5. CASE g.r # "accepted"
    <2>1. t = failure(g)
      BY <1>1, <1>5
    <2>2. /\ t.error = "FAILED" /\ t.ok = FALSE /\ t.active = FALSE /\ t.card = g.card
          /\ t.val = g.val /\ t.cur = g.cur /\ t.state = g.state
      BY <1>3, <2>1, failureGood
    <2>3. Kept(g, t) /\ Stays(g, t)
      BY <1>3, <2>1, KeptFailure
    <2>4. Kept(s, t) /\ Stays(s, t)
      BY <1>3, <2>3, KeptOn, StaysOn
    <2>5. t.val = s.val /\ t.state = s.state /\ t.cur = s.cur
      BY <1>3, <2>2 DEF SameCall, SameMembers
    <2> QED
      BY <1>2, <2>2, <2>4, <2>5 DEF GivenWell, TokenWell
  <1> QED
    BY <1>4, <1>5

LEMMA writeDataGood ==
    ASSUME NEW s \in Calls, Checked(s.card), NEW block \in Contents
    PROVE  TokenWell(s, "multiple", block, writeData(s, block))
  <1> DEFINE w == waitReady(s, SD_WRITE_TIMEOUT)
             e == IF w.ok THEN w ELSE failure(w)
             t == writeData(s, block)
  <1> SUFFICES TokenWell(s, "multiple", block, t)
    OBVIOUS
  <1>1. t = IF e.ok THEN writeToken(e, "multiple", block) ELSE e
    BY DEF writeData, Else, Then
  <1> HIDE DEF t
  <1>2. w \in Calls /\ Same(s, w) /\ w.active = s.active
    <2>1. SD_WRITE_TIMEOUT \in Int
      BY ClockAssumption DEF ClockAssumption
    <2> QED
      BY <2>1, waitReadyGood
  <1> HIDE DEF w
  <1>3. w.ok \in BOOLEAN /\ Kept(s, w) /\ Stays(s, w) /\ Checked(w.card)
    <2>1. Kept(s, w) /\ Stays(s, w)
      BY <1>2, KeptSame
    <2> QED
      BY <1>2, <2>1 DEF Kept, Calls
  <1>4. w.card = s.card /\ w.val = s.val /\ w.state = s.state /\ w.cur = s.cur
    BY <1>2 DEF Same, SameCall, SameMembers
  <1>5. CASE w.ok = TRUE
    <2>1. t = writeToken(w, "multiple", block)
      BY <1>1, <1>5
    <2>2. TokenWell(w, "multiple", block, t)
      BY <1>2, <1>3, <2>1, writeTokenGood
    <2>3. Kept(s, t) /\ Stays(s, t)
      BY <1>3, <2>2, KeptOn, StaysOn DEF TokenWell
    <2> QED
      BY <1>2, <1>4, <2>2, <2>3 DEF TokenWell
  <1>6. CASE w.ok # TRUE
    <2>1. e = failure(w)
      BY <1>3, <1>6
    <2> HIDE DEF e
    <2>2. /\ e.error = "FAILED" /\ e.ok = FALSE /\ e.active = FALSE /\ e.card = w.card
          /\ e.val = w.val /\ e.cur = w.cur /\ e.state = w.state
      BY <1>2, <2>1, failureGood
    <2>3. t = e
      BY <1>1, <2>2
    <2>4. Kept(w, e) /\ Stays(w, e)
      BY <1>2, <1>3, <2>1, KeptFailure
    <2>5. Kept(s, t) /\ Stays(s, t)
      BY <1>3, <2>3, <2>4, KeptOn, StaysOn
    <2> QED
      BY <1>4, <2>2, <2>3, <2>5 DEF TokenWell
  <1> QED
    BY <1>5, <1>6

\* A transfer to the card has come to where the driver takes it to be.
InWrite(s) ==
    s.active = TRUE => \/ s.card.mode \in {"absent", "off"}
                       \/ s.card.mode = "receiving" /\ s.card.pos = s.cur

\* Some of the sectors from first on got what was for them.
PartlyIn(first, src, old, new) ==
    \A j \in Sectors : \/ new[j] = old[j]
                       \/ /\ j \in first .. first + Len(src) - 1
                          /\ new[j] = src[1 + j - first]
\* The first k of them all did.
AllIn(first, src, k, new) ==
    \A i \in 1 .. k : first + i - 1 \in Sectors /\ new[first + i - 1] = src[i]

\* What has come of writing blocks, k of them so far.
WrittenSoFar(s, src, k, t) ==
    /\ Kept(s, t) /\ Stays(s, t) /\ t.val = s.val /\ t.state = s.state /\ t.cur = s.cur
    /\ t.ok # TRUE => t.active = FALSE /\ t.error = "FAILED"
    /\ PartlyIn(s.cur, src, s.card.dev, t.card.dev)
    /\ t.ok = TRUE =>
          /\ k = 0 => t = s
          /\ k > 0 => /\ t.active = TRUE /\ t.card.mode = "receiving"
                      /\ t.card.pos = s.cur + k
          /\ AllIn(s.cur, src, k, t.card.dev)

\* A block more on the card.
LEMMA PartlyStored ==
    ASSUME NEW first \in Int, NEW src \in Seq(Contents), NEW k \in 0 .. Len(src) - 1,
           NEW old, NEW c, NEW d, PartlyIn(first, src, old, c.dev),
           Stores(c, src[k + 1], d), c.pos = first + k
    PROVE  /\ PartlyIn(first, src, old, d.dev)
           /\ AllIn(first, src, k, c.dev) => AllIn(first, src, k + 1, d.dev)
  <1>0. Len(src) \in Nat
    OBVIOUS
  <1>1. /\ first + k \in Sectors
        /\ \A j \in Sectors : d.dev[j] = IF j = first + k THEN src[k + 1] ELSE c.dev[j]
    BY DEF Stores
  <1>2. ASSUME NEW j \in Sectors
        PROVE  \/ d.dev[j] = old[j]
               \/ j \in first .. first + Len(src) - 1 /\ d.dev[j] = src[1 + j - first]
    <2>1. CASE j = first + k
      <3>1. 1 + j - first = k + 1 /\ j \in first .. first + Len(src) - 1
        BY <1>0, <2>1
      <3> QED
        BY <1>1, <2>1, <3>1
    <2>2. CASE j # first + k
      BY <1>1, <2>2 DEF PartlyIn
    <2> QED
      BY <2>1, <2>2
  <1>3. ASSUME AllIn(first, src, k, c.dev), NEW i \in 1 .. k + 1
        PROVE  first + i - 1 \in Sectors /\ d.dev[first + i - 1] = src[i]
    <2>1. CASE i = k + 1
      <3>1. first + i - 1 = first + k
        BY <2>1
      <3> QED
        BY <1>1, <2>1, <3>1
    <2>2. CASE i # k + 1
      <3>1. i \in 1 .. k /\ first + i - 1 # first + k
        BY <2>2
      <3>2. first + i - 1 \in Sectors /\ c.dev[first + i - 1] = src[i]
        BY <1>3, <3>1 DEF AllIn
      <3> QED
        BY <1>1, <3>1, <3>2
    <2> QED
      BY <2>1, <2>2
  <1> QED
    BY <1>2, <1>3 DEF PartlyIn, AllIn

LEMMA WriteOneMore ==
    ASSUME NEW s \in Calls, Checked(s.card), InWrite(s), NEW src \in Seq(Contents),
           NEW k \in 0 .. Len(src) - 1, NEW x \in Calls, WrittenSoFar(s, src, k, x)
    PROVE  WrittenSoFar(s, src, k + 1, IF x.ok THEN writeData(x, src[k + 1]) ELSE x)
  <1> DEFINE block == src[k + 1]
             y == writeData(x, block)
             t == IF x.ok THEN y ELSE x
  <1> SUFFICES WrittenSoFar(s, src, k + 1, t)
    OBVIOUS
  <1>0. /\ x.ok \in BOOLEAN /\ Checked(x.card) /\ s.cur \in Int /\ k \in Nat
        /\ block \in Contents
    <2>1. Len(src) \in Nat /\ k + 1 \in 1 .. Len(src)
      OBVIOUS
    <2>2. src[k + 1] \in Contents
      BY <2>1
    <2>3. k \in Nat
      BY <2>1
    <2> QED
      BY <2>2, <2>3 DEF Calls, WrittenSoFar, Kept
  <1>a. block = src[k + 1]
    OBVIOUS
  <1>1. CASE x.ok = TRUE
    <2>1. TokenWell(x, "multiple", block, y) /\ t = y
      BY <1>0, <1>1, writeDataGood
    <2> HIDE DEF y, t, block
    <2>2. /\ Kept(s, x) /\ Stays(s, x) /\ x.val = s.val /\ x.state = s.state
          /\ x.cur = s.cur /\ (k = 0 => x = s) /\ AllIn(s.cur, src, k, x.card.dev)
          /\ PartlyIn(s.cur, src, s.card.dev, x.card.dev)
      BY <1>1 DEF WrittenSoFar
    <2>3. /\ Kept(x, y) /\ Stays(x, y) /\ y.val = x.val /\ y.state = x.state
          /\ y.cur = x.cur /\ (y.ok # TRUE => y.active = FALSE /\ y.error = "FAILED")
      BY <2>1 DEF TokenWell
    <2>4. Kept(s, y) /\ Stays(s, y)
      BY <2>2, <2>3, KeptOn, StaysOn
    <2>5. x.active = TRUE /\ x.card.mode = "receiving" => x.card.pos = s.cur + k
      <3>1. CASE k = 0
        BY <1>0, <2>2, <3>1 DEF InWrite
      <3>2. CASE k # 0
        <4>1. k > 0
          BY <1>0, <3>2
        <4> QED
          BY <1>1, <4>1 DEF WrittenSoFar
      <3> QED
        BY <3>1, <3>2
    <2>6. CASE y.card.dev = x.card.dev /\ y.ok # TRUE
      BY <2>1, <2>2, <2>3, <2>4, <2>6 DEF WrittenSoFar
    <2>7. CASE ~(y.card.dev = x.card.dev /\ y.ok # TRUE)
      <3>1. /\ x.active = TRUE /\ x.card.mode = "receiving"
            /\ Stores(x.card, block, y.card)
        BY <2>1, <2>7 DEF TokenWell
      <3>2. x.card.pos = s.cur + k
        BY <2>5, <3>1
      <3>3. /\ PartlyIn(s.cur, src, s.card.dev, y.card.dev)
            /\ AllIn(s.cur, src, k + 1, y.card.dev)
        <4>1. Stores(x.card, src[k + 1], y.card) /\ s.cur \in Int
          BY <1>a, <1>0, <3>1
        <4>2. /\ PartlyIn(s.cur, src, s.card.dev, x.card.dev)
              /\ AllIn(s.cur, src, k, x.card.dev)
          BY <2>2
        <4> QED
          BY <3>2, <4>1, <4>2, PartlyStored
      <3>4. y.ok = TRUE => /\ y.active = TRUE /\ y.card.mode = "receiving"
                           /\ y.card.pos = x.card.pos + 1
        BY <2>1 DEF TokenWell
      <3>5. x.card.pos + 1 = s.cur + (k + 1) /\ k + 1 # 0
        BY <1>0, <3>2
      <3> QED
        BY <2>1, <2>2, <2>3, <2>4, <3>3, <3>4, <3>5 DEF WrittenSoFar
    <2> QED
      BY <2>6, <2>7
  <1>2. CASE x.ok # TRUE
    <2>1. t = x
      BY <1>0, <1>2
    <2> HIDE DEF t
    <2> QED
      BY <1>2, <2>1 DEF WrittenSoFar
  <1> QED
    BY <1>1, <1>2

\* Writing blocks stores them one after the other, as far as it gets.
LEMMA writeBlocksGood ==
    ASSUME NEW s \in Calls, Checked(s.card), InWrite(s), s.ok = TRUE,
           NEW src \in Seq(Contents)
    PROVE  WrittenSoFar(s, src, Len(src), writeBlocks(s, src))
  <1> DEFINE n == Len(src)
             S == {x \in Calls : Checked(x.card)}
             T == {p \in (0 .. n) \X S : WrittenSoFar(s, src, p[1], p[2])}
             Step(k, x) == IF x.ok THEN writeData(x, src[k]) ELSE x
             D == [p \in Int \X S |-> IF p[1] \in 1 .. n THEN Step(p[1], p[2]) ELSE p[2]]
             Is(f) == f = [k \in 0 .. n |-> IF k = 0 THEN s ELSE Step(k, f[k - 1])]
             after == CHOOSE f : Is(f)
             t == writeBlocks(s, src)
  <1> SUFFICES WrittenSoFar(s, src, n, t)
    OBVIOUS
  <1>0. n \in Nat
    OBVIOUS
  <1>1. t = after[n]
    BY Zenon DEF writeBlocks, Then
  <1> HIDE DEF t
  <1>2. s \in S
    OBVIOUS
  <1>3. ASSUME NEW k \in 1 .. n, NEW x \in S PROVE Step(k, x) \in S
    <2> DEFINE y == writeData(x, src[k])
    <2>1. src[k] \in Contents
      OBVIOUS
    <2>2. TokenWell(x, "multiple", src[k], y)
      BY <2>1, writeDataGood
    <2> HIDE DEF y
    <2>3. y \in S
      BY <2>2 DEF TokenWell, Kept
    <2> QED
      BY <2>3 DEF y
  <1>4. ASSUME NEW k \in 0 .. n - 1, NEW x \in S, WrittenSoFar(s, src, k, x)
        PROVE  WrittenSoFar(s, src, k + 1, Step(k + 1, x))
    BY <1>4, WriteOneMore
  <1>5. WrittenSoFar(s, src, 0, s)
    <2>1. Same(s, s) /\ ~(0 > 0) /\ 1 .. 0 = {}
      BY DEF Same, SameCall, SameMembers
    <2>2. Kept(s, s) /\ Stays(s, s)
      BY <2>1, KeptSame
    <2> QED
      BY <2>1, <2>2 DEF WrittenSoFar, PartlyIn, AllIn
  <1> HIDE DEF S, Step, n
  <1>6. D \in [Int \X S -> S]
    BY <1>3
  <1>7. \E f : Is(f)
    <2> HIDE DEF D
    <2>1. PICK f \in [0 .. n -> S] : Loop(f, s, D, n)
      BY <1>0, <1>2, <1>6, LoopDefined
    <2>2. ASSUME NEW k \in 0 .. n, k # 0 PROVE D[<<k, f[k - 1]>>] = Step(k, f[k - 1])
      <3>1. k - 1 \in 0 .. n /\ k \in 1 .. n
        BY <1>0, <2>2
      <3>2. f[k - 1] \in S
        BY <3>1
      <3> QED
        BY <3>1, <3>2 DEF D
    <2>3. Is(f)
      BY <2>1, <2>2 DEF Loop
    <2> QED
      BY <2>3
  <1>8. Is(after)
    BY <1>7, Zenon
  <1> HIDE DEF after
  <1>9. after[0] = s /\ \A k \in 1 .. n : after[k] = Step(k, after[k - 1])
    BY <1>0, <1>8
  <1> HIDE DEF Is
  <1>10. <<0, after[0]>> \in T
    BY <1>0, <1>2, <1>5, <1>9
  <1>11. ASSUME NEW k \in 1 .. n, <<k - 1, after[k - 1]>> \in T
         PROVE  <<k, after[k]>> \in T
    <2> DEFINE x == after[k - 1]
               m == k - 1
    <2>1. m \in 0 .. n - 1 /\ x \in S /\ WrittenSoFar(s, src, m, x) /\ m + 1 = k
      BY <1>0, <1>11
    <2>2. after[k] = Step(k, x)
      BY <1>9
    <2> HIDE DEF x, m
    <2>3. WrittenSoFar(s, src, m + 1, Step(m + 1, x))
      BY <1>4, <2>1
    <2>4. after[k] \in S
      BY <1>3, <2>1, <2>2
    <2>5. WrittenSoFar(s, src, k, after[k])
      BY <2>1, <2>2, <2>3
    <2> QED
      BY <1>0, <2>4, <2>5
  <1> HIDE DEF T
  <1>12. <<n, after[n]>> \in T
    <2>1. \A k \in 0 .. n : <<k, after[k]>> \in T
      BY <1>0, <1>10, <1>11, LoopKeepsAt
    <2> QED
      BY <1>0, <2>1
  <1> QED
    BY <1>1, <1>12 DEF T

\* What comes of a call that writes.
Wrote(s, sector, src, t) ==
    /\ Served(s, t) /\ PartlyIn(sector, src, s.card.dev, t.card.dev)
    /\ t.ok = TRUE => AllIn(sector, src, Len(src), t.card.dev)

\* A write that succeeds has stored its blocks; one that fails some of them.
LEMMA writeSectorsServed ==
    ASSUME NEW s, Usable(s), NEW sector \in Sectors, NEW src \in Seq(Contents),
           Len(src) # 0
    PROVE  Wrote(s, sector, src, writeSectors(s, sector, src))
  <1> DEFINE c == commandOr(s, 25, address(s, sector))
             d == IF c.ok THEN [c EXCEPT !.state = "WRITE"] ELSE c
             u == IF d.ok THEN [d EXCEPT !.cur = sector] ELSE d
             a == IF s.state # "WRITE" \/ s.cur # sector THEN u ELSE return(s, TRUE)
             n == Len(src)
             r == writeBlocks(a, src)
             cur == r.cur + n
             m == [r EXCEPT !.cur = cur]
             x == IF m.dedicated THEN m ELSE writeStop(m)
             b == IF r.ok THEN x ELSE r
             t == IF a.ok THEN b ELSE a
  <1>1. writeSectors(s, sector, src) = t
    BY DEF writeSectors, writeStart, Then, With
  <1> SUFFICES Wrote(s, sector, src, t)
    BY <1>1
  <1>2. /\ s \in Calls /\ Working(s.card) /\ ModeAfter(25) = "receiving"
        /\ sector \in Int
    BY SectorsNatural DEF Usable, ModeAfter
  <1>3. Under(s, sector, "WRITE", "receiving", a)
    <2>1. CASE s.state # "WRITE" \/ s.cur # sector
      <3>1. a = u
        BY <2>1
      <3> HIDE DEF a
      <3>2. Under(s, sector, "WRITE", ModeAfter(25), u)
        BY UnderStarted
      <3> QED
        BY <1>2, <3>1, <3>2
    <2>2. CASE ~(s.state # "WRITE" \/ s.cur # sector)
      <3>1. a = return(s, TRUE) /\ s.state = "WRITE" /\ s.cur = sector
        BY <2>2
      <3> HIDE DEF a
      <3> QED
        BY <3>1, UnderResumed
    <2> QED
      BY <2>1, <2>2
  <1> HIDE DEF c, d, u, a
  <1>4. /\ Kept(s, a) /\ Stays(s, a) /\ a.card.dev = s.card.dev
        /\ a.ok # TRUE => a.active = FALSE /\ a.error = "FAILED"
        /\ a.ok = TRUE => a.state = "WRITE" /\ a.cur = sector /\ InWrite(a)
    BY <1>2, <1>3 DEF Under, InWrite
  <1>5. a \in Calls /\ a.ok \in BOOLEAN /\ Checked(a.card) /\ n \in Nat /\ n > 0
    BY <1>4 DEF Kept, Calls
  <1>6. CASE a.ok # TRUE
    <2>1. t = a
      BY <1>5, <1>6
    <2> HIDE DEF t
    <2>2. PartlyIn(sector, src, s.card.dev, a.card.dev)
      BY <1>4 DEF PartlyIn
    <2> QED
      BY <1>2, <1>4, <1>6, <2>1, <2>2, ServedReleased DEF Wrote
  <1>7. CASE a.ok = TRUE
    <2>1. WrittenSoFar(a, src, n, r)
      BY <1>4, <1>5, <1>7, writeBlocksGood
    <2>2. t = b
      BY <1>5, <1>7
    <2> HIDE DEF t, r, n
    <2>3. /\ Kept(a, r) /\ Stays(a, r) /\ r.state = "WRITE" /\ r.cur = sector
          /\ r.ok # TRUE => r.active = FALSE /\ r.error = "FAILED"
          /\ PartlyIn(sector, src, s.card.dev, r.card.dev)
      BY <1>4, <1>7, <2>1 DEF WrittenSoFar
    <2>4. Kept(s, r) /\ Stays(s, r)
      BY <1>4, <2>3, KeptOn, StaysOn
    <2>5. r \in Calls /\ r.ok \in BOOLEAN /\ Checked(r.card)
      BY <2>4 DEF Kept, Calls
    <2>6. CASE r.ok # TRUE
      <3>1. t = r
        BY <2>2, <2>5, <2>6
      <3> QED
        BY <1>2, <2>3, <2>4, <2>6, <3>1, ServedReleased DEF Wrote
    <2>7. CASE r.ok = TRUE
      <3>1. t = x
        BY <2>2, <2>7
      <3> HIDE DEF b
      <3>2. /\ r.active = TRUE /\ r.card.mode = "receiving" /\ r.card.pos = cur
            /\ AllIn(sector, src, n, r.card.dev)
        BY <1>5, <1>7, <1>4, <2>1, <2>3, <2>7 DEF WrittenSoFar
      <3>3. cur \in Int
        BY <1>5, <2>5 DEF Calls
      <3> HIDE DEF cur
      <3>4. /\ m \in Calls /\ m.card = r.card /\ m.cur = cur /\ m.ok = TRUE
            /\ m.active = TRUE /\ m.state = "WRITE" /\ m.fault = r.fault
            /\ m.type = r.type /\ m.dedicated = r.dedicated /\ m.began = r.began
            /\ m.error = r.error /\ m.dedicated \in BOOLEAN
        BY <2>3, <2>5, <2>7, <3>2, <3>3 DEF Calls
      <3> HIDE DEF m
      <3>5. Kept(s, m) /\ Stays(s, m) /\ Checked(m.card)
        BY <2>4, <2>5, <3>4 DEF Kept, Stays
      <3>6. CASE m.dedicated = TRUE
        <4>1. t = m
          BY <3>1, <3>6
        <4>2. Released(t) /\ InStep(t)
          BY <3>2, <3>4, <3>6, <4>1 DEF Released, InStep
        <4>3. Served(s, t)
          BY <1>2, <3>4, <3>5, <4>1, <4>2 DEF Served, Kept, Stays
        <4> QED
          BY <2>3, <3>2, <3>4, <4>1, <4>3 DEF Wrote, n
      <3>7. CASE m.dedicated # TRUE
        <4>1. t = writeStop(m)
          BY <3>1, <3>4, <3>7
        <4>2. SyncWell(m, t)
          BY <3>4, <3>5, <4>1, writeStopGood
        <4>3. /\ Kept(m, t) /\ Stays(m, t) /\ t.card.dev = m.card.dev
              /\ t.active = FALSE /\ (t.ok # TRUE => t.error = "FAILED")
          BY <3>4, <4>2 DEF SyncWell
        <4>4. Kept(s, t) /\ Stays(s, t)
          BY <3>5, <4>3, KeptOn, StaysOn
        <4>5. Served(s, t)
          BY <1>2, <4>3, <4>4, ServedReleased
        <4> QED
          BY <2>3, <3>2, <3>4, <4>3, <4>5 DEF Wrote, n
      <3> QED
        BY <3>6, <3>7
    <2> QED
      BY <2>6, <2>7
  <1> QED
    BY <1>6, <1>7

\* A single block is stored, or it is not and the call says so.
LEMMA writeSingleServed ==
    ASSUME NEW s, Usable(s), NEW sector \in Sectors, NEW block \in Contents
    PROVE  Wrote(s, sector, <<block>>, writeSingle(s, sector, block))
  <1> DEFINE arg == address(s, sector)
             src == <<block>>
             c == commandOr(s, 24, arg)
             w == writeToken(c, "start", block)
             x == IF w.ok THEN spiStop(w) ELSE w
             t == IF c.ok THEN x ELSE c
  <1>1. writeSingle(s, sector, block) = t
    BY DEF writeSingle, Then
  <1> SUFFICES Wrote(s, sector, src, t)
    BY <1>1
  <1>2. /\ s \in Calls /\ Checked(s.card) /\ Working(s.card) /\ Agree(s)
        /\ s.card \in CardStates /\ sector \in Int
    BY WorkingChecked, SectorsNatural DEF Usable, Calls
  <1>3. arg \in Args /\ AddressOf(s.card, arg) = sector
    BY <1>2, AddressUnderstood DEF Agree
  <1> HIDE DEF arg
  <1>4. CommandOrWell(s, 24, arg, c)
    BY <1>2, <1>3, commandOrGood
  <1> HIDE DEF c
  <1>5. /\ Kept(s, c) /\ Stays(s, c) /\ c.card.dev = s.card.dev
        /\ c.ok = TRUE => c.card.pos = sector
        /\ c.ok # TRUE => c.active = FALSE /\ c.error = "FAILED"
    BY <1>3, <1>4 DEF CommandOrWell
  <1>6. c \in Calls /\ c.ok \in BOOLEAN /\ Checked(c.card)
    BY <1>5 DEF Kept, Calls
  <1>7. Len(src) = 1 /\ src[1] = block
    OBVIOUS
  <1> HIDE DEF src
  <1>8. CASE c.ok # TRUE
    <2>1. t = c
      BY <1>6, <1>8
    <2> HIDE DEF t
    <2>2. PartlyIn(sector, src, s.card.dev, c.card.dev)
      BY <1>5 DEF PartlyIn
    <2> QED
      BY <1>2, <1>5, <1>8, <2>1, <2>2, ServedReleased DEF Wrote
  <1>9. CASE c.ok = TRUE
    <2>1. TokenWell(c, "start", block, w)
      BY <1>6, writeTokenGood
    <2>2. t = x
      BY <1>9
    <2> HIDE DEF w, t
    <2>3. /\ Kept(c, w) /\ Stays(c, w)
          /\ w.ok # TRUE => w.active = FALSE /\ w.error = "FAILED"
          /\ w.card.dev = c.card.dev \/ Stores(c.card, block, w.card)
          /\ w.ok = TRUE => Stores(c.card, block, w.card)
      BY <2>1 DEF TokenWell
    <2>4. Kept(s, w) /\ Stays(s, w)
      BY <1>5, <2>3, KeptOn, StaysOn
    <2>5. w \in Calls /\ w.ok \in BOOLEAN
      BY <2>4 DEF Kept, Calls
    <2>6. /\ PartlyIn(sector, src, s.card.dev, w.card.dev)
          /\ w.ok = TRUE => AllIn(sector, src, 1, w.card.dev)
      <3>1. ASSUME Stores(c.card, block, w.card)
            PROVE  /\ PartlyIn(sector, src, s.card.dev, w.card.dev)
                   /\ AllIn(sector, src, 1, w.card.dev)
        <4>1. /\ sector \in Sectors
              /\ \A k \in Sectors : w.card.dev[k] =
                                       IF k = sector THEN block ELSE s.card.dev[k]
          BY <1>5, <1>9, <3>1 DEF Stores
        <4>2. sector \in sector .. sector + Len(src) - 1 /\ 1 + sector - sector = 1
          BY <1>2, <1>7
        <4>3. PartlyIn(sector, src, s.card.dev, w.card.dev)
          BY <1>7, <4>1, <4>2 DEF PartlyIn
        <4>4. \A i \in 1 .. 1 : i = 1 /\ sector + i - 1 = sector
          BY <1>2
        <4> QED
          BY <1>7, <4>1, <4>3, <4>4 DEF AllIn
      <3>2. CASE w.card.dev = c.card.dev
        BY <1>5, <2>3, <3>1, <3>2 DEF PartlyIn
      <3> QED
        BY <2>3, <3>1, <3>2
    <2>7. CASE w.ok = TRUE
      <3>1. t = spiStop(w)
        BY <2>2, <2>7
      <3>2. t \in Calls /\ Same(w, t) /\ t.active = FALSE /\ t.ok = TRUE
        BY <2>5, <2>7, <3>1, spiStopGood
      <3>3. t.card = w.card /\ Kept(s, t) /\ Stays(s, t)
        BY <2>4, <3>2 DEF Kept, Stays, Same, SameCall, SameMembers
      <3>4. Served(s, t)
        BY <1>2, <3>2, <3>3, ServedReleased
      <3> QED
        BY <1>7, <2>6, <2>7, <3>3, <3>4 DEF Wrote
    <2>8. CASE w.ok # TRUE
      <3>1. t = w
        BY <2>2, <2>5, <2>8
      <3> QED
        BY <1>2, <2>3, <2>4, <2>6, <2>8, <3>1, ServedReleased DEF Wrote
    <2> QED
      BY <2>7, <2>8
  <1> QED
    BY <1>8, <1>9

LEMMA writeSectorServed ==
    ASSUME NEW s, Usable(s), NEW sector \in Sectors, NEW block \in Contents
    PROVE  Wrote(s, sector, <<block>>, writeSector(s, sector, block))
  <1>1. s.dedicated \in BOOLEAN
    BY DEF Usable, Calls
  <1>2. CASE s.dedicated = TRUE
    <2>1. writeSector(s, sector, block) = writeSectors(s, sector, <<block>>)
      BY <1>2 DEF writeSector
    <2> DEFINE src == <<block>>
    <2>2. src \in Seq(Contents) /\ Len(src) # 0
      OBVIOUS
    <2> HIDE DEF src
    <2>3. Wrote(s, sector, src, writeSectors(s, sector, src))
      BY <2>2, writeSectorsServed
    <2> QED
      BY <2>1, <2>3 DEF src
  <1>3. CASE s.dedicated # TRUE
    <2>1. writeSector(s, sector, block) = writeSingle(s, sector, block)
      BY <1>1, <1>3 DEF writeSector
    <2> QED
      BY <2>1, writeSingleServed
  <1> QED
    BY <1>2, <1>3

-----------------------------------------------------------------------------
(* Erasing.                                                                *)

\* The card knows the first sector of the range, or its last.
Bound(s, first, t) ==
    /\ Kept(s, t) /\ Stays(s, t) /\ t.card.dev = s.card.dev /\ t.state = "IDLE"
    /\ t.ok = TRUE => t.card.mode = "ready" /\ t.card.from = first

LEMMA FirstGiven ==
    ASSUME NEW s \in Calls, Checked(s.card), Agree(s), s.state = "IDLE",
           NEW first \in Sectors
    PROVE  Bound(s, first, cardCommand(s, 32, address(s, first)))
  <1> DEFINE arg == address(s, first)
             t == cardCommand(s, 32, arg)
  <1>1. s.card \in CardStates /\ 32 \in Commands /\ 32 \notin {0, 38, 41, 59}
    BY DEF Calls, Commands
  <1>2. arg \in Args /\ AddressOf(s.card, arg) = first
    BY <1>1, AddressUnderstood DEF Agree
  <1> HIDE DEF arg
  <1>3. CardCommandWell(s, 32, arg, t)
    BY <1>1, <1>2, cardCommandGood
  <1> HIDE DEF t
  <1>4. UnderstoodWell(s.card, 32, arg, first, t) /\ ((t.ok = TRUE) <=> (t.r = "ready"))
    BY <1>2, <1>3 DEF CardCommandWell
  <1>5. t.ok = TRUE => t.card.mode = "ready" /\ t.card.from = first
    BY <1>4 DEF UnderstoodWell
  <1>6. Bound(s, first, t)
    BY <1>1, <1>3, <1>5 DEF CardCommandWell, Bound
  <1> QED
    BY <1>6 DEF t, arg

LEMMA LastGiven ==
    ASSUME NEW s \in Calls, Checked(s.card), Agree(s), s.state = "IDLE",
           NEW final \in Sectors, s.card.mode = "ready"
    PROVE  /\ Bound(s, s.card.from, cardCommand(s, 33, address(s, final)))
           /\ cardCommand(s, 33, address(s, final)).ok = TRUE =>
                 cardCommand(s, 33, address(s, final)).card.to = final
  <1> DEFINE arg == address(s, final)
             t == cardCommand(s, 33, arg)
             first == s.card.from
  <1>1. s.card \in CardStates /\ 33 \in Commands /\ 33 \notin {0, 38, 41, 59}
    BY DEF Calls, Commands
  <1>2. arg \in Args /\ AddressOf(s.card, arg) = final
    BY <1>1, AddressUnderstood DEF Agree
  <1> HIDE DEF arg
  <1>3. CardCommandWell(s, 33, arg, t)
    BY <1>1, <1>2, cardCommandGood
  <1> HIDE DEF t
  <1>4. UnderstoodWell(s.card, 33, arg, final, t) /\ ((t.ok = TRUE) <=> (t.r = "ready"))
    BY <1>2, <1>3 DEF CardCommandWell
  <1>5. t.ok = TRUE => t.card.mode = "ready" /\ t.card.from = first /\ t.card.to = final
    BY <1>4 DEF UnderstoodWell
  <1> HIDE DEF first
  <1>6. Bound(s, first, t)
    BY <1>1, <1>3, <1>5 DEF CardCommandWell, Bound
  <1> QED
    BY <1>5, <1>6 DEF t, arg, first

\* The command that erases does so, or it does nothing and fails.
Cleared(first, final, old, new) ==
    \A k \in Sectors : new[k] = IF first <= k /\ k <= final THEN Erased ELSE old[k]
ErasedWell(s, t) ==
    /\ Kept(s, t) /\ Stays(s, t)
    /\ \/ t.card.dev = s.card.dev /\ t.ok # TRUE
       \/ Cleared(s.card.from, s.card.to, s.card.dev, t.card.dev)
LEMMA EraseGiven ==
    ASSUME NEW s \in Calls, Checked(s.card), s.state = "IDLE", s.card.mode = "ready"
    PROVE  ErasedWell(s, cardCommand(s, 38, 0))
  <1> DEFINE t == cardCommand(s, 38, 0)
             sector == AddressOf(s.card, 0)
  <1> SUFFICES ErasedWell(s, t)
    OBVIOUS
  <1>1. 38 \in Commands /\ 38 \notin {0, 41, 59} /\ 0 \in Args
    BY DEF Commands, Args
  <1>2. CardCommandWell(s, 38, 0, t)
    BY <1>1, cardCommandGood
  <1> HIDE DEF t
  <1>3. UnderstoodWell(s.card, 38, 0, sector, t) /\ ((t.ok = TRUE) <=> (t.r = "ready"))
    BY <1>2 DEF CardCommandWell
  <1> HIDE DEF sector
  <1>4. \/ t.card.dev = s.card.dev /\ t.ok # TRUE
        \/ Cleared(s.card.from, s.card.to, s.card.dev, t.card.dev)
    BY <1>3 DEF UnderstoodWell, Cleared
  <1> QED
    BY <1>1, <1>2, <1>4 DEF CardCommandWell, ErasedWell

\* What comes of the commands of a range and of erasing it.
RangeErased(s, first, final, t) ==
    /\ Kept(s, t) /\ Stays(s, t)
    /\ \/ t.card.dev = s.card.dev /\ t.ok # TRUE
       \/ Cleared(first, final, s.card.dev, t.card.dev)
LEMMA eraseCommandsGood ==
    ASSUME NEW s \in Calls, Checked(s.card), Agree(s), s.state = "IDLE",
           NEW first \in Sectors, NEW final \in Sectors
    PROVE  RangeErased(s, first, final, eraseCommands(s, first, final))
  <1> DEFINE a == cardCommand(s, 32, address(s, first))
             y == cardCommand(a, 33, address(a, final))
             b == IF a.ok THEN y ELSE a
             z == cardCommand(b, 38, 0)
             t == IF b.ok THEN z ELSE b
  <1>1. eraseCommands(s, first, final) = t
    BY DEF eraseCommands, Then
  <1> SUFFICES RangeErased(s, first, final, t)
    BY <1>1
  <1>2. Bound(s, first, a)
    BY FirstGiven
  <1> HIDE DEF a
  <1>3. /\ Kept(s, a) /\ Stays(s, a) /\ a.card.dev = s.card.dev /\ a.state = "IDLE"
        /\ a.ok = TRUE => a.card.mode = "ready" /\ a.card.from = first
    BY <1>2 DEF Bound
  <1>4. a \in Calls /\ a.ok \in BOOLEAN /\ Checked(a.card) /\ Agree(a)
    BY <1>3 DEF Kept, Calls, Agree, SameCard
  <1>5. CASE a.ok # TRUE
    <2>1. t = a
      BY <1>4, <1>5
    <2> QED
      BY <1>3, <1>5, <2>1 DEF RangeErased
  <1>6. CASE a.ok = TRUE
    <2>1. /\ Bound(a, a.card.from, y)
          /\ y.ok = TRUE => y.card.to = final
      BY <1>3, <1>4, <1>6, LastGiven
    <2>2. b = y
      BY <1>6
    <2> HIDE DEF y, b, t, z
    <2>3. /\ Kept(a, b) /\ Stays(a, b) /\ b.card.dev = s.card.dev /\ b.state = "IDLE"
          /\ b.ok = TRUE =>
                b.card.mode = "ready" /\ b.card.from = first /\ b.card.to = final
      BY <1>3, <1>6, <2>1, <2>2 DEF Bound
    <2>4. Kept(s, b) /\ Stays(s, b)
      BY <1>3, <2>3, KeptOn, StaysOn
    <2>5. b \in Calls /\ b.ok \in BOOLEAN /\ Checked(b.card)
      BY <2>4 DEF Kept, Calls
    <2>6. CASE b.ok # TRUE
      <3>1. t = b
        BY <2>5, <2>6 DEF t
      <3> QED
        BY <2>3, <2>4, <2>6, <3>1 DEF RangeErased
    <2>7. CASE b.ok = TRUE
      <3>1. t = z
        BY <2>7 DEF t
      <3>2. ErasedWell(b, z)
        BY <2>3, <2>5, <2>7, EraseGiven DEF z
      <3>3. Kept(s, z) /\ Stays(s, z)
        BY <2>4, <3>2, KeptOn, StaysOn DEF ErasedWell
      <3>4. \/ z.card.dev = s.card.dev /\ z.ok # TRUE
            \/ Cleared(first, final, s.card.dev, z.card.dev)
        BY <2>3, <2>7, <3>2 DEF ErasedWell
      <3> QED
        BY <3>1, <3>3, <3>4 DEF RangeErased
    <2> QED
      BY <2>6, <2>7
  <1> QED
    BY <1>5, <1>6

\* An erasure that succeeds has cleared its sectors; one that fails some of
\* them.
LEMMA eraseServed ==
    ASSUME NEW s, Usable(s), NEW first \in Sectors, NEW n \in Nat \ {0},
           first + n - 1 \in Sectors
    PROVE  Wrote(s, first, [i \in 1 .. n |-> Erased], erase(s, first, first + n - 1))
  <1> DEFINE final == first + n - 1
             src == [i \in 1 .. n |-> Erased]
             r == readRegister(s, 9)
             c == eraseCommands(r, first, final)
             w == waitReady(c, SD_ERASE_TIMEOUT)
             e == IF c.ok THEN w ELSE c
             q == IF e.ok THEN e ELSE error(e)
             x == IF r.ok THEN q ELSE r
             t == spiStop(x)
  <1>1. erase(s, first, final) = t
    BY DEF erase, Then, Else
  <1> SUFFICES Wrote(s, first, src, t)
    BY <1>1
  <1>2. /\ s \in Calls /\ Checked(s.card) /\ Working(s.card) /\ Agree(s)
        /\ first \in Int /\ final \in Sectors /\ final = first + n - 1
    BY WorkingChecked, SectorsNatural DEF Usable, Calls
  <1> HIDE DEF final
  <1>3. /\ Len(src) = n /\ src \in Seq(Contents) /\ \A i \in 1 .. n : src[i] = Erased
    BY DEF Contents
  <1> HIDE DEF src
  <1>4. RegisterWell(s, r)
    BY <1>2, readRegisterGood
  <1> HIDE DEF r
  <1>5. /\ Kept(s, r) /\ Stays(s, r) /\ r.card.dev = s.card.dev
        /\ r.ok = TRUE => r.state = "IDLE"
        /\ r.ok # TRUE => r.error = "FAILED"
    BY <1>4 DEF RegisterWell
  <1>6. r \in Calls /\ r.ok \in BOOLEAN /\ Checked(r.card) /\ Agree(r)
    BY <1>2, <1>5 DEF Kept, Calls, Agree, SameCard
  <1>7. ASSUME Cleared(first, final, s.card.dev, x.card.dev)
        PROVE  /\ PartlyIn(first, src, s.card.dev, x.card.dev)
               /\ AllIn(first, src, n, x.card.dev)
    <2>1. ASSUME NEW k \in Sectors
          PROVE  \/ x.card.dev[k] = s.card.dev[k]
                 \/ /\ k \in first .. first + n - 1 /\ 1 + k - first \in 1 .. n
                    /\ x.card.dev[k] = Erased
      <3>1. k \in Int
        BY SectorsNatural
      <3>2. CASE first <= k /\ k <= final
        <4>1. x.card.dev[k] = Erased
          BY <1>7, <3>2 DEF Cleared
        <4> QED
          BY <1>2, <3>1, <3>2, <4>1
      <3>3. CASE ~(first <= k /\ k <= final)
        BY <1>7, <3>3 DEF Cleared
      <3> QED
        BY <3>2, <3>3
    <2>2. PartlyIn(first, src, s.card.dev, x.card.dev)
      BY <1>3, <2>1 DEF PartlyIn
    <2>3. ASSUME NEW i \in 1 .. n
          PROVE  first + i - 1 \in Sectors /\ x.card.dev[first + i - 1] = src[i]
      <3> DEFINE k == first + i - 1
      <3>1. k \in Int /\ first <= k /\ k <= final
        BY <1>2
      <3>2. k \in Sectors
        BY <1>2, <3>1, CardAssumption DEF CardAssumption
      <3> HIDE DEF k
      <3>3. x.card.dev[k] = Erased
        BY <1>7, <3>1, <3>2 DEF Cleared
      <3> QED
        BY <1>3, <3>2, <3>3 DEF k
    <2>4. AllIn(first, src, n, x.card.dev)
      BY <2>3 DEF AllIn
    <2> QED
      BY <2>2, <2>4
  <1>8. /\ Kept(s, x) /\ Stays(s, x) /\ (x.ok # TRUE => x.error = "FAILED")
        /\ \/ x.card.dev = s.card.dev /\ x.ok # TRUE
           \/ Cleared(first, final, s.card.dev, x.card.dev)
    <2>1. CASE r.ok # TRUE
      <3>1. x = r
        BY <1>6, <2>1
      <3> QED
        BY <1>5, <2>1, <3>1
    <2>2. CASE r.ok = TRUE
      <3>1. x = q
        BY <2>2
      <3>2. RangeErased(r, first, final, c)
        BY <1>2, <1>5, <1>6, <2>2, eraseCommandsGood
      <3> HIDE DEF c, x
      <3>3. /\ Kept(s, c) /\ Stays(s, c)
            /\ \/ c.card.dev = s.card.dev /\ c.ok # TRUE
               \/ Cleared(first, final, s.card.dev, c.card.dev)
        BY <1>5, <3>2, KeptOn, StaysOn DEF RangeErased
      <3>4. c \in Calls /\ c.ok \in BOOLEAN /\ Checked(c.card)
        BY <3>3 DEF Kept, Calls
      <3>5. /\ Kept(s, e) /\ Stays(s, e) /\ e.card = c.card
            /\ e.ok = TRUE => c.ok = TRUE
        <4>1. CASE c.ok # TRUE
          <5>1. e = c
            BY <3>4, <4>1
          <5> QED
            BY <3>3, <4>1, <5>1
        <4>2. CASE c.ok = TRUE
          <5>1. e = w
            BY <4>2
          <5> HIDE DEF e
          <5>2. SD_ERASE_TIMEOUT \in Int
            BY ClockAssumption DEF ClockAssumption
          <5>3. w \in Calls /\ Same(c, w)
            BY <3>4, <5>2, waitReadyGood
          <5> HIDE DEF w
          <5>4. Kept(c, w) /\ Stays(c, w) /\ w.card = c.card
            BY <3>4, <5>3, KeptSame DEF Same
          <5> QED
            BY <3>3, <4>2, <5>1, <5>4, KeptOn, StaysOn
        <4> QED
          BY <4>1, <4>2
      <3> HIDE DEF e
      <3>6. e \in Calls /\ e.ok \in BOOLEAN /\ Checked(e.card)
        BY <3>5 DEF Kept, Calls
      <3>7. CASE e.ok = TRUE
        <4>1. x = e
          BY <3>1, <3>7
        <4> QED
          BY <3>3, <3>5, <3>7, <4>1
      <3>8. CASE e.ok # TRUE
        <4>1. x = error(e)
          BY <3>1, <3>6, <3>8
        <4>2. Kept(e, x) /\ Stays(e, x)
          BY <3>6, <4>1, KeptFailure
        <4>3. x.ok = FALSE /\ x.error = "FAILED" /\ x.card = e.card
          BY <3>6, <4>1, errorGood
        <4> QED
          BY <3>3, <3>5, <4>2, <4>3, KeptOn, StaysOn
      <3> QED
        BY <3>6, <3>7, <3>8
    <2> QED
      BY <1>6, <2>1, <2>2
  <1> HIDE DEF x
  <1>9. x \in Calls
    BY <1>8 DEF Kept
  <1>10. t \in Calls /\ Same(x, t) /\ t.active = FALSE /\ t.ok = x.ok
    BY <1>9, spiStopGood
  <1> HIDE DEF t
  <1>11. /\ Kept(s, t) /\ Stays(s, t) /\ t.card = x.card
         /\ t.ok # TRUE => t.error = "FAILED"
    BY <1>8, <1>10 DEF Kept, Stays, Same, SameCall, SameMembers
  <1>12. Served(s, t)
    BY <1>2, <1>10, <1>11, ServedReleased
  <1>13. PartlyIn(first, src, s.card.dev, x.card.dev)
    <2>1. CASE x.card.dev = s.card.dev
      BY <2>1 DEF PartlyIn
    <2> QED
      BY <1>7, <1>8, <2>1
  <1> QED
    BY <1>3, <1>7, <1>8, <1>10, <1>11, <1>12, <1>13 DEF Wrote


-----------------------------------------------------------------------------
(* The inductive invariant.                                                *)

Drivers ==
    [active : BOOLEAN, state : {"IDLE", "READ", "WRITE"}, cur : Int,
     error : {"NONE", "FAILED", "INIT_NOT_CALLED"},
     type : {"none", "SD1", "SD2", "SDHC"}, dedicated : BOOLEAN, began : BOOLEAN]
TypeOK == drv \in Drivers /\ card \in CardStates /\ mounted \in BOOLEAN

\* A card that has started compares the checksums, and one that a file system
\* is mounted over is on its way to nothing else.
ChecksumsOn == Checked(card) /\ (mounted = TRUE => Working(card))

\* The transfer that the driver takes for open is the one the card is in, at
\* the sector where the driver takes it to be.
TransferAgrees ==
    drv.active = TRUE =>
        \/ card.mode \in {"absent", "off"}
        \/ drv.state = "READ" /\ card.mode = "sending" /\ card.pos = drv.cur
        \/ drv.state = "WRITE" /\ card.mode = "receiving" /\ card.pos = drv.cur

Inv == TypeOK /\ ChecksumsOn /\ TransferAgrees /\ ChipReleased /\ AddressesAgree

-----------------------------------------------------------------------------
(* Calls.                                                                  *)

LEMMA FaultsTyped ==
    ASSUME NEW n
    PROVE  FaultsAmong(n) \subseteq Faults
  <1>1. 1 .. n \subseteq Int
    OBVIOUS
  <1>2. Kinds \subseteq {"lost", "garbled", "stuck", "slow"}
    BY DeviceAssumption DEF DeviceAssumption
  <1>3. [kind : Kinds, at : 1 .. n] \subseteq Faults
    <2> DEFINE ats == 1 .. n
    <2>1. ats \subseteq Int
      BY <1>1
    <2> HIDE DEF ats
    <2>2. [kind : Kinds, at : ats] \subseteq Faults
      BY <1>2, <2>1 DEF Faults
    <2> QED
      BY <2>2 DEF ats
  <1>4. Untroubled \in Faults
    BY DEF Untroubled, Faults
  <1> QED
    BY <1>3, <1>4 DEF FaultsAmong

\* What a call begins with.
LEMMA CallTyped ==
    ASSUME Inv, NEW f \in Faults, NEW t \in Starts
    PROVE  /\ Call(f, t) \in Calls /\ Call(f, t).card = card
           /\ Call(f, t).active = drv.active /\ Call(f, t).state = drv.state
           /\ Call(f, t).cur = drv.cur /\ Call(f, t).error = drv.error
           /\ Call(f, t).type = drv.type /\ Call(f, t).dedicated = drv.dedicated
           /\ Call(f, t).ok = TRUE /\ Call(f, t).val = <<>>
  <1>1. t \in Int
    BY DeviceAssumption, ClockAssumption DEF DeviceAssumption, ClockAssumption
  <1>2. "none" \in Responses /\ <<>> \in Seq(Contents)
    BY DEF Responses
  <1> QED
    BY <1>1, <1>2 DEF Inv, TypeOK, Drivers, Call, Calls, Faults

LEMMA CallUsable ==
    ASSUME Inv, mounted = TRUE, NEW f \in Faults, NEW t \in Starts
    PROVE  Usable(Call(f, t))
  <1> DEFINE c == Call(f, t)
  <1> SUFFICES Usable(c)
    OBVIOUS
  <1>1. /\ c \in Calls /\ c.card = card /\ c.active = drv.active
        /\ c.state = drv.state /\ c.cur = drv.cur /\ c.type = drv.type
        /\ c.dedicated = drv.dedicated /\ c.ok = TRUE /\ c.val = <<>>
    BY CallTyped
  <1> HIDE DEF c
  <1>2. Working(c.card) /\ Agree(c)
    BY <1>1 DEF Inv, ChecksumsOn, AddressesAgree, Agree
  <1>3. drv.dedicated \in BOOLEAN
    BY DEF Inv, TypeOK, Drivers
  <1>4. Released(c) /\ InStep(c)
    BY <1>1, <1>3 DEF Inv, ChipReleased, TransferAgrees, Released, InStep
  <1> QED
    BY <1>1, <1>2, <1>4 DEF Usable

\* What a call has left behind, as the members and the card.
LEMMA ResultTyped ==
    ASSUME NEW z \in Calls
    PROVE  /\ Result(z).drv \in Drivers /\ Result(z).card = z.card
           /\ Result(z).ok = z.ok /\ Result(z).val = z.val
           /\ Result(z).drv.active = z.active /\ Result(z).drv.state = z.state
           /\ Result(z).drv.cur = z.cur /\ Result(z).drv.error = z.error
           /\ Result(z).drv.type = z.type /\ Result(z).drv.dedicated = z.dedicated
           /\ Result(z).drv.began = z.began
           /\ z.card \in CardStates /\ z.ok \in BOOLEAN
  BY DEF Calls, Result, driverOf, Drivers

\* A call of a mounted file system keeps the invariant, and flags its failure.
Flagged ==
    /\ ~last'.ok => drv'.error # "NONE"
    /\ drv.error # "NONE" /\ drv'.error = "NONE" => last'.op = "begin"
LEMMA ServedStep ==
    ASSUME Inv, mounted = TRUE, NEW f \in Faults, NEW t \in Starts,
           NEW z, Served(Call(f, t), z),
           NEW what, what # "begin", NEW sector, NEW blocks,
           Called(Result(z), what, sector, blocks)
    PROVE  Inv' /\ Flagged
  <1> DEFINE c == Call(f, t)
             s == Result(z)
  <1>1. z \in Calls
    BY DEF Served
  <1>2. /\ c.card = card /\ c.error = drv.error /\ c.type = drv.type
    BY CallTyped
  <1>3. /\ s.drv \in Drivers /\ s.card = z.card /\ s.ok = z.ok
        /\ s.drv.active = z.active /\ s.drv.state = z.state /\ s.drv.cur = z.cur
        /\ s.drv.error = z.error /\ s.drv.type = z.type
        /\ s.drv.dedicated = z.dedicated /\ s.drv.began = z.began
        /\ z.card \in CardStates /\ z.ok \in BOOLEAN
    BY <1>1, ResultTyped
  <1>4. /\ z.type = c.type /\ z.error \in {c.error, "FAILED"}
        /\ SameCard(c.card, z.card) /\ Working(z.card) /\ Released(z) /\ InStep(z)
        /\ z.ok # TRUE => z.error = "FAILED"
    BY DEF Served
  <1>5. /\ drv' = s.drv /\ card' = s.card
        /\ mounted' = (mounted /\ s.drv.began)
        /\ last' = [op |-> what, sector |-> sector, blocks |-> blocks, ok |-> s.ok]
    BY DEF Called
  <1> HIDE DEF c, s
  <1>6. TypeOK'
    <2>1. mounted' \in BOOLEAN
      BY <1>5
    <2> QED
      BY <1>3, <1>5, <2>1 DEF TypeOK
  <1>7. ChecksumsOn'
    BY <1>3, <1>4, <1>5, WorkingChecked DEF ChecksumsOn
  <1>8. TransferAgrees'
    BY <1>3, <1>4, <1>5 DEF TransferAgrees, InStep
  <1>9. ChipReleased'
    BY <1>3, <1>4, <1>5 DEF ChipReleased, Released, Drivers
  <1>10. AddressesAgree'
    BY <1>2, <1>3, <1>4, <1>5 DEF Inv, AddressesAgree, SameCard
  <1>11. Flagged
    BY <1>2, <1>3, <1>4, <1>5 DEF Flagged
  <1> QED
    BY <1>6, <1>7, <1>8, <1>9, <1>10, <1>11 DEF Inv

\* One that writes nothing is nothing to the device.
LEMMA QuietStep ==
    ASSUME Inv, mounted = TRUE, NEW f \in Faults, NEW t \in Starts,
           NEW z, Quiet(Call(f, t), z), Called(Result(z), "other", 0, <<>>)
    PROVE  Inv' /\ Flagged /\ Device!AOther
  <1>1. Served(Call(f, t), z) /\ z.card.dev = Call(f, t).card.dev
    BY DEF Quiet
  <1>2. Inv' /\ Flagged
    BY <1>1, ServedStep
  <1>3. z \in Calls
    BY <1>1 DEF Served
  <1>4. Result(z).card = z.card /\ Call(f, t).card = card
    BY <1>3, CallTyped, ResultTyped
  <1>5. card'.dev = card.dev /\ last'.op = "other"
    BY <1>1, <1>4 DEF Called
  <1> QED
    BY <1>2, <1>5 DEF Device!AOther

LEMMA SyncStep ==
    ASSUME Inv, Sync
    PROVE  Inv' /\ Flagged /\ Device!AOther
  <1>1. mounted = TRUE
    BY DEF Sync, Done, Inv, TypeOK
  <1>2. PICK t \in Starts, f \in Faults :
            Called(Result(syncDevice(Call(f, t))), "other", 0, <<>>)
    BY FaultsTyped DEF Sync, Done, Outcomes
  <1>3. Quiet(Call(f, t), syncDevice(Call(f, t)))
    BY <1>1, CallUsable, syncDeviceServed
  <1> QED
    BY <1>1, <1>2, <1>3, QuietStep

LEMMA EndStep ==
    ASSUME Inv, End
    PROVE  Inv' /\ Flagged /\ Device!AOther
  <1>1. mounted = TRUE
    BY DEF End, Done, Inv, TypeOK
  <1>2. PICK t \in Starts, f \in Faults :
            Called(Result(finish(Call(f, t))), "other", 0, <<>>)
    BY FaultsTyped DEF End, Done, Outcomes
  <1>3. Quiet(Call(f, t), finish(Call(f, t)))
    BY <1>1, CallUsable, finishServed
  <1> QED
    BY <1>1, <1>2, <1>3, QuietStep

LEMMA SetDedicatedStep ==
    ASSUME Inv, NEW d \in DedicatedSpi, SetDedicated(d)
    PROVE  Inv' /\ Flagged /\ Device!AOther
  <1>1. mounted = TRUE /\ d \in BOOLEAN
    BY DeviceAssumption DEF SetDedicated, Done, Inv, TypeOK, DeviceAssumption
  <1>2. PICK t \in Starts, f \in Faults :
            Called(Result(setDedicatedSpi(Call(f, t), d)), "other", 0, <<>>)
    BY FaultsTyped DEF SetDedicated, Done, Outcomes
  <1>3. Quiet(Call(f, t), setDedicatedSpi(Call(f, t), d))
    BY <1>1, CallUsable, setDedicatedSpiServed
  <1> QED
    BY <1>1, <1>2, <1>3, QuietStep

LEMMA IsBusyStep ==
    ASSUME Inv, IsBusy
    PROVE  Inv' /\ Flagged /\ Device!AOther
  <1>1. mounted = TRUE
    BY DEF IsBusy, Done, Inv, TypeOK
  <1>2. PICK t \in Starts, f \in Faults :
            Called(Result(isBusy(Call(f, t))), "other", 0, <<>>)
    BY FaultsTyped DEF IsBusy, Done, Outcomes
  <1>3. Quiet(Call(f, t), isBusy(Call(f, t)))
    BY <1>1, CallUsable, isBusyServed
  <1> QED
    BY <1>1, <1>2, <1>3, QuietStep

LEMMA RegisterStep ==
    ASSUME Inv, NEW cmd \in {13, 58}, Register(cmd)
    PROVE  Inv' /\ Flagged /\ Device!AOther
  <1>1. mounted = TRUE
    BY DEF Register, Done, Inv, TypeOK
  <1>2. PICK t \in Starts, f \in Faults :
            Called(Result(readRegister(Call(f, t), cmd)), "other", 0, <<>>)
    BY FaultsTyped DEF Register, Done, Outcomes
  <1>3. Quiet(Call(f, t), readRegister(Call(f, t), cmd))
    BY <1>1, CallUsable, readRegisterServed
  <1> QED
    BY <1>1, <1>2, <1>3, QuietStep

\* A start of the card is one whatever state the two were left in.
LEMMA BeginStep ==
    ASSUME Inv, NEW d \in DedicatedSpi, Begin(d)
    PROVE  Inv' /\ Flagged /\ Device!AOther
  <1>1. d \in BOOLEAN
    BY DeviceAssumption DEF DeviceAssumption
  <1>2. PICK t \in Starts, f \in Faults :
            Called(Result(begin(Call(f, t), d)), "begin", 0, <<>>)
    BY FaultsTyped DEF Begin, Outcomes
  <1> DEFINE c == Call(f, t)
             z == begin(c, d)
             s == Result(z)
  <1>3. c \in Calls /\ c.card = card
    BY CallTyped
  <1> HIDE DEF c
  <1>4. Checked(c.card)
    BY <1>3 DEF Inv, ChecksumsOn
  <1>5. BeginWell(c, z)
    BY <1>1, <1>3, <1>4, beginGood
  <1>6. /\ drv' = s.drv /\ card' = s.card /\ mounted' = s.ok
        /\ last' = [op |-> "begin", sector |-> 0, blocks |-> <<>>, ok |-> s.ok]
    BY <1>2 DEF Called, c
  <1> HIDE DEF z, s
  <1>7. /\ z \in Calls /\ Checked(z.card) /\ SameContent(c.card, z.card)
        /\ z.active = FALSE /\ (z.ok # TRUE => z.error = "FAILED")
        /\ z.ok = TRUE =>
              Working(z.card) /\ ((z.type = "SDHC") <=> (z.card.type = "SDHC"))
    BY <1>5 DEF BeginWell, Ready, Begun
  <1>8. /\ s.drv \in Drivers /\ s.card = z.card /\ s.ok = z.ok
        /\ s.drv.active = z.active /\ s.drv.error = z.error /\ s.drv.type = z.type
        /\ z.card \in CardStates /\ z.ok \in BOOLEAN
    BY <1>7, ResultTyped DEF s
  <1>9. TypeOK' /\ ChecksumsOn'
    BY <1>6, <1>7, <1>8 DEF TypeOK, ChecksumsOn
  <1>10. TransferAgrees' /\ ChipReleased' /\ AddressesAgree'
    BY <1>6, <1>7, <1>8 DEF TransferAgrees, ChipReleased, AddressesAgree
  <1>11. Flagged
    BY <1>6, <1>7, <1>8 DEF Flagged
  <1>12. Device!AOther
    BY <1>3, <1>6, <1>7, <1>8 DEF Device!AOther, SameContent
  <1> QED
    BY <1>9, <1>10, <1>11, <1>12 DEF Inv

LEMMA ReadStep ==
    ASSUME Inv, NEW sector \in Sectors, NEW n \in Runs, ReadSectors(sector, n)
    PROVE  Inv' /\ Flagged /\ Device!ARead
  <1>1. mounted = TRUE /\ n \in Nat \ {0} /\ sector \in Int
    BY DeviceAssumption, SectorsNatural DEF ReadSectors, Inv, TypeOK, DeviceAssumption
  <1>2. PICK t \in Starts, f \in Faults :
            Called(Result(readSectors(Call(f, t), sector, n)), "read", sector,
                   Result(readSectors(Call(f, t), sector, n)).val)
    BY FaultsTyped DEF ReadSectors, Outcomes
  <1> DEFINE c == Call(f, t)
             z == readSectors(c, sector, n)
             s == Result(z)
  <1>3. /\ Quiet(c, z)
        /\ z.ok = TRUE => /\ Len(z.val) = n
                          /\ \A i \in 1 .. n :
                                /\ sector + i - 1 \in Sectors
                                /\ z.val[i] = c.card.dev[sector + i - 1]
    BY <1>1, CallUsable, readSectorsServed
  <1>4. Called(Result(z), "read", sector, s.val)
    BY <1>2
  <1>5. c.card = card
    BY CallTyped
  <1> HIDE DEF z
  <1>6. Served(c, z) /\ z.card.dev = c.card.dev /\ z \in Calls
    BY <1>3 DEF Quiet, Served
  <1> HIDE DEF s
  <1>7. Inv' /\ Flagged
    BY <1>1, <1>4, <1>6, ServedStep DEF c
  <1>8. s.card = z.card /\ s.ok = z.ok /\ s.val = z.val /\ z.ok \in BOOLEAN
    BY <1>6, ResultTyped DEF s
  <1>9. /\ card' = s.card
        /\ last' = [op |-> "read", sector |-> sector, blocks |-> s.val, ok |-> s.ok]
    BY <1>4 DEF Called, s
  <1> HIDE DEF c
  <1>10. z.val \in Seq(Contents)
    BY <1>6 DEF Calls
  <1>11. ASSUME z.ok = TRUE
         PROVE  /\ Device!Run(sector, Len(z.val)) \subseteq Sectors
                /\ \A i \in DOMAIN z.val : z.val[i] = card.dev[sector + i - 1]
    <2>1. /\ Len(z.val) = n
          /\ \A i \in 1 .. n : /\ sector + i - 1 \in Sectors
                               /\ z.val[i] = card.dev[sector + i - 1]
      BY <1>3, <1>5, <1>11
    <2>2. ASSUME NEW j \in sector .. sector + n - 1 PROVE j \in Sectors
      <3>1. j - sector + 1 \in 1 .. n /\ sector + (j - sector + 1) - 1 = j
        BY <1>1
      <3> QED
        BY <2>1, <3>1
    <2>3. DOMAIN z.val = 1 .. n
      BY <1>10, <2>1
    <2> QED
      BY <2>1, <2>2, <2>3 DEF Device!Run
  <1>12. card'.dev = card.dev
    BY <1>5, <1>6, <1>8, <1>9
  <1>13. last'.op = "read" /\ last'.sector = sector /\ last'.blocks = z.val /\ last'.ok = z.ok
    BY <1>8, <1>9
  <1>14. Device!ARead
    BY <1>8, <1>11, <1>12, <1>13 DEF Device!ARead
  <1> QED
    BY <1>7, <1>14

\* What a call has written, as the device sees it.
DeviceStores(what, sector, src) ==
    /\ last'.op = what /\ last'.sector = sector /\ last'.blocks = src
    /\ last'.ok \in BOOLEAN
    /\ Device!Partly(sector, src)
    /\ last'.ok = TRUE => /\ Device!Run(sector, Len(src)) \subseteq Sectors
                          /\ \A i \in DOMAIN src : card'.dev[sector + i - 1] = src[i]
LEMMA WroteStep ==
    ASSUME Inv, mounted = TRUE, NEW f \in Faults, NEW t \in Starts, NEW z,
           NEW sector \in Int, NEW src \in Seq(Contents),
           Wrote(Call(f, t), sector, src, z), NEW what \in {"write", "erase"},
           Called(Result(z), what, sector, src)
    PROVE  Inv' /\ Flagged /\ DeviceStores(what, sector, src)
  <1> DEFINE c == Call(f, t)
             s == Result(z)
             n == Len(src)
  <1>1. /\ Served(c, z) /\ PartlyIn(sector, src, c.card.dev, z.card.dev)
        /\ z.ok = TRUE => AllIn(sector, src, n, z.card.dev)
    BY DEF Wrote
  <1>2. c.card = card
    BY CallTyped
  <1>3. Inv' /\ Flagged
    BY <1>1, ServedStep
  <1>4. z \in Calls
    BY <1>1 DEF Served
  <1>5. s.card = z.card /\ s.ok = z.ok /\ z.ok \in BOOLEAN
    BY <1>4, ResultTyped
  <1>6. /\ card' = s.card
        /\ last' = [op |-> what, sector |-> sector, blocks |-> src, ok |-> s.ok]
    BY DEF Called
  <1> HIDE DEF c, s
  <1>7. n \in Nat /\ DOMAIN src = 1 .. n
    OBVIOUS
  <1>8. Device!Partly(sector, src)
    BY <1>1, <1>2, <1>5, <1>6 DEF PartlyIn, Device!Partly, Device!Run
  <1>9. ASSUME z.ok = TRUE
        PROVE  /\ Device!Run(sector, n) \subseteq Sectors
               /\ \A i \in DOMAIN src : card'.dev[sector + i - 1] = src[i]
    <2>1. \A i \in 1 .. n : /\ sector + i - 1 \in Sectors
                            /\ card'.dev[sector + i - 1] = src[i]
      BY <1>1, <1>5, <1>6, <1>9 DEF AllIn
    <2> HIDE DEF n
    <2>2. ASSUME NEW j \in sector .. sector + n - 1 PROVE j \in Sectors
      <3>1. j - sector + 1 \in 1 .. n /\ sector + (j - sector + 1) - 1 = j
        BY <1>7
      <3> QED
        BY <2>1, <3>1
    <2> QED
      BY <1>7, <2>1, <2>2 DEF Device!Run
  <1>10. last'.op = what /\ last'.sector = sector /\ last'.blocks = src /\ last'.ok = z.ok
    BY <1>5, <1>6
  <1>11. DeviceStores(what, sector, src)
    BY <1>5, <1>8, <1>9, <1>10 DEF DeviceStores
  <1> QED
    BY <1>3, <1>11

LEMMA WriteSectorStep ==
    ASSUME Inv, NEW sector \in Sectors, NEW b \in Blocks, WriteSector(sector, b)
    PROVE  Inv' /\ Flagged /\ Device!AWrite
  <1> DEFINE src == <<b>>
  <1>1. mounted = TRUE /\ sector \in Int /\ b \in Contents
    BY SectorsNatural DEF WriteSector, Written, Inv, TypeOK, Contents
  <1>2. PICK t \in Starts, f \in Faults :
            Called(Result(writeSector(Call(f, t), sector, b)), "write", sector, src)
    BY FaultsTyped DEF WriteSector, Written, Outcomes
  <1>3. Wrote(Call(f, t), sector, src, writeSector(Call(f, t), sector, b))
    BY <1>1, CallUsable, writeSectorServed
  <1>4. src \in Seq(Contents)
    BY <1>1
  <1> HIDE DEF src
  <1>5. Inv' /\ Flagged /\ DeviceStores("write", sector, src)
    BY <1>1, <1>2, <1>3, <1>4, WroteStep
  <1> QED
    BY <1>5 DEF DeviceStores, Device!AWrite

LEMMA WriteSectorsStep ==
    ASSUME Inv, NEW sector \in Sectors, NEW src \in Seq(Contents), Len(src) # 0,
           WriteSectors(sector, src)
    PROVE  Inv' /\ Flagged /\ Device!AWrite
  <1>1. mounted = TRUE /\ sector \in Int
    BY SectorsNatural DEF WriteSectors, Written, Inv, TypeOK
  <1>2. PICK t \in Starts, f \in Faults :
            Called(Result(writeSectors(Call(f, t), sector, src)), "write", sector, src)
    BY FaultsTyped DEF WriteSectors, Written, Outcomes
  <1>3. Wrote(Call(f, t), sector, src, writeSectors(Call(f, t), sector, src))
    BY <1>1, CallUsable, writeSectorsServed
  <1>4. Inv' /\ Flagged /\ DeviceStores("write", sector, src)
    BY <1>1, <1>2, <1>3, WroteStep
  <1> QED
    BY <1>4 DEF DeviceStores, Device!AWrite

LEMMA EraseStep ==
    ASSUME Inv, NEW first \in Sectors, NEW n \in Runs, first + n - 1 \in Sectors,
           Erase(first, n)
    PROVE  Inv' /\ Flagged /\ Device!AErase
  <1> DEFINE src == [i \in 1 .. n |-> Erased]
  <1>1. mounted = TRUE /\ first \in Int /\ n \in Nat \ {0}
    BY DeviceAssumption, SectorsNatural DEF Erase, Inv, TypeOK, DeviceAssumption
  <1>2. PICK t \in Starts, f \in Faults :
            Called(Result(erase(Call(f, t), first, first + n - 1)), "erase", first, src)
    BY FaultsTyped DEF Erase, Outcomes
  <1>3. Wrote(Call(f, t), first, src, erase(Call(f, t), first, first + n - 1))
    BY <1>1, CallUsable, eraseServed
  <1>4. src \in Seq(Contents) /\ \A i \in DOMAIN src : src[i] = Erased
    BY <1>1 DEF Contents
  <1> HIDE DEF src
  <1>5. Inv' /\ Flagged /\ DeviceStores("erase", first, src)
    BY <1>1, <1>2, <1>3, <1>4, WroteStep
  <1> QED
    BY <1>4, <1>5 DEF DeviceStores, Device!AErase

-----------------------------------------------------------------------------
(* The card is taken out and put back.                                     *)

LEMMA PullStep ==
    ASSUME Inv, Pull
    PROVE  Inv' /\ Flagged /\ Device!AOther
  <1>1. /\ card' = [card EXCEPT !.mode = "absent"] /\ drv' = drv /\ mounted' = mounted
        /\ last' = [op |-> "other", sector |-> 0, blocks |-> <<>>, ok |-> TRUE]
        /\ card \in CardStates /\ "absent" \in Modes
    BY DEF Pull, Uneventful, Inv, TypeOK, Modes
  <1>2. /\ card' \in CardStates /\ card'.mode = "absent" /\ card'.type = card.type
        /\ card'.dev = card.dev
    BY <1>1 DEF CardStates
  <1>3. TypeOK' /\ ChecksumsOn' /\ TransferAgrees'
    BY <1>1, <1>2 DEF Inv, TypeOK, ChecksumsOn, TransferAgrees, Checked, Working
  <1>4. ChipReleased' /\ AddressesAgree'
    BY <1>1, <1>2 DEF Inv, ChipReleased, AddressesAgree
  <1>5. Flagged /\ Device!AOther
    BY <1>1, <1>2 DEF Flagged, Device!AOther
  <1> QED
    BY <1>3, <1>4, <1>5 DEF Inv

\* A card as it comes.
LEMMA NewCardTyped ==
    ASSUME NEW type \in {"SD1", "SD2", "SDHC"}, NEW obeys \in BOOLEAN
    PROVE  /\ NewCard(type, obeys) \in CardStates /\ NewCard(type, obeys).mode = "off"
           /\ NewCard(type, obeys).type = type
           /\ NewCard(type, obeys).dev = [s \in Sectors |-> Erased]
  <1> DEFINE dev == [s \in Sectors |-> Erased]
  <1>1. dev \in [Sectors -> Contents] /\ "off" \in Modes
    BY DEF Contents, Modes
  <1>2. NewCard(type, obeys) =
            [mode |-> "off", type |-> type, obeys |-> obeys, crc |-> FALSE, pos |-> 0,
             from |-> 0, to |-> 0, dev |-> dev]
    BY DEF NewCard
  <1> HIDE DEF dev
  <1>3. /\ NewCard(type, obeys) \in CardStates /\ NewCard(type, obeys).mode = "off"
        /\ NewCard(type, obeys).type = type /\ NewCard(type, obeys).dev = dev
    BY <1>1, <1>2 DEF CardStates
  <1> QED
    BY <1>3 DEF dev

LEMMA InsertStep ==
    ASSUME Inv, Insert
    PROVE  Inv' /\ Flagged /\ Device!AOther
  <1> DEFINE new == NewCard(card.type, card.obeys)
  <1>1. /\ card' = [new EXCEPT !.dev = card.dev] /\ drv' = drv /\ mounted' = mounted
        /\ last' = [op |-> "other", sector |-> 0, blocks |-> <<>>, ok |-> TRUE]
        /\ card \in CardStates
    BY DEF Insert, Uneventful, Inv, TypeOK
  <1>2. /\ card.type \in {"SD1", "SD2", "SDHC"} /\ card.obeys \in BOOLEAN
        /\ card.dev \in [Sectors -> Contents]
    BY <1>1 DEF CardStates
  <1>3. new \in CardStates /\ new.mode = "off" /\ new.type = card.type
    BY <1>2, NewCardTyped
  <1> HIDE DEF new
  <1>4. /\ card' \in CardStates /\ card'.mode = "off" /\ card'.type = card.type
        /\ card'.dev = card.dev
    BY <1>1, <1>2, <1>3 DEF CardStates
  <1>5. TypeOK' /\ ChecksumsOn' /\ TransferAgrees'
    BY <1>1, <1>4 DEF Inv, TypeOK, ChecksumsOn, TransferAgrees, Checked, Working
  <1>6. ChipReleased' /\ AddressesAgree'
    BY <1>1, <1>4 DEF Inv, ChipReleased, AddressesAgree
  <1>7. Flagged /\ Device!AOther
    BY <1>1, <1>4 DEF Flagged, Device!AOther
  <1> QED
    BY <1>5, <1>6, <1>7 DEF Inv

-----------------------------------------------------------------------------
(* Every step.                                                             *)

LEMMA InitStep == Init => Inv /\ Device!AbstractInit
  <1> SUFFICES ASSUME Init PROVE Inv /\ Device!AbstractInit
    OBVIOUS
  <1>1. PICK c \in Cards : card = NewCard(c.type, c.obeys)
    BY DEF Init
  <1>2. c.type \in {"SD1", "SD2", "SDHC"} /\ c.obeys \in BOOLEAN
    BY DeviceAssumption DEF DeviceAssumption
  <1>3. card \in CardStates /\ card.mode = "off" /\ card.dev = [s \in Sectors |-> Erased]
    BY <1>1, <1>2, NewCardTyped
  <1>4. /\ drv \in Drivers /\ drv.active = FALSE /\ mounted = FALSE /\ last.op = "none"
    BY DEF Init, Created, Drivers, Uneventful
  <1>5. Inv
    BY <1>3, <1>4 DEF Inv, TypeOK, ChecksumsOn, Checked, TransferAgrees, ChipReleased,
                      AddressesAgree
  <1> QED
    BY <1>3, <1>4, <1>5 DEF Device!AbstractInit

DeviceStep == Device!ARead \/ Device!AWrite \/ Device!AErase \/ Device!AOther
LEMMA EveryStep == Inv /\ Next => Inv' /\ Flagged /\ DeviceStep
  <1> SUFFICES ASSUME Inv, Next PROVE Inv' /\ Flagged /\ DeviceStep
    OBVIOUS
  <1>1. CASE \E d \in DedicatedSpi : Begin(d) \/ SetDedicated(d)
    BY <1>1, BeginStep, SetDedicatedStep DEF DeviceStep
  <1>2. CASE End \/ Sync \/ IsBusy \/ Pull \/ Insert
    BY <1>2, EndStep, SyncStep, IsBusyStep, PullStep, InsertStep DEF DeviceStep
  <1>3. CASE \E cmd \in {13, 58} : Register(cmd)
    BY <1>3, RegisterStep DEF DeviceStep
  <1>4. ASSUME NEW n \in Runs, NEW sector \in Sectors, sector + n - 1 \in Sectors,
               \/ ReadSectors(sector, n) \/ Erase(sector, n)
               \/ \E b \in Blocks : WriteSectors(sector, [i \in 1 .. n |-> b])
        PROVE  Inv' /\ Flagged /\ DeviceStep
    <2>1. CASE ReadSectors(sector, n)
      BY <2>1, ReadStep DEF DeviceStep
    <2>2. CASE Erase(sector, n)
      BY <1>4, <2>2, EraseStep DEF DeviceStep
    <2>3. ASSUME NEW b \in Blocks, WriteSectors(sector, [i \in 1 .. n |-> b])
          PROVE  Inv' /\ Flagged /\ DeviceStep
      <3> DEFINE src == [i \in 1 .. n |-> b]
      <3>1. n \in Nat \ {0}
        BY DeviceAssumption DEF DeviceAssumption
      <3>2. src \in Seq(Contents) /\ Len(src) # 0
        BY <3>1 DEF Contents
      <3>3. WriteSectors(sector, src)
        BY <2>3
      <3> HIDE DEF src
      <3> QED
        BY <3>2, <3>3, WriteSectorsStep DEF DeviceStep
    <2> QED
      BY <1>4, <2>1, <2>2, <2>3
  <1>5. CASE \E sector \in Sectors, b \in Blocks : WriteSector(sector, b)
    BY <1>5, WriteSectorStep DEF DeviceStep
  <1> QED
    BY <1>1, <1>2, <1>3, <1>4, <1>5 DEF Next

LEMMA EveryStepOrNone ==
    Inv /\ [Next]_dvars => Inv' /\ [Flagged]_dvars /\ [DeviceStep]_(Device!bvars)
  <1> SUFFICES ASSUME Inv, [Next]_dvars
               PROVE  Inv' /\ [Flagged]_dvars /\ [DeviceStep]_(Device!bvars)
    OBVIOUS
  <1>1. CASE Next
    BY <1>1, EveryStep
  <1>2. CASE UNCHANGED dvars
    <2>1. drv' = drv /\ card' = card /\ mounted' = mounted /\ last' = last
      BY <1>2 DEF dvars
    <2>2. Inv'
      BY <2>1 DEF Inv, TypeOK, ChecksumsOn, TransferAgrees, ChipReleased, AddressesAgree
    <2>3. UNCHANGED Device!bvars
      BY <2>1 DEF Device!bvars
    <2> QED
      BY <1>2, <2>2, <2>3
  <1> QED
    BY <1>1, <1>2

-----------------------------------------------------------------------------
(* A card that works, if slowly.                                           *)

\* A call that meets no fault but a card that takes its time.
Patient(s) == s \in Calls /\ s.fault \in {Untroubled, Slowly} /\ s.card.mode # "absent"
\* A card that has started.
Alive(c) == c.mode \notin {"absent", "off", "idle"}

\* The driver's timeouts.
Timeouts == {SD_CMD_TIMEOUT, SD_ERASE_TIMEOUT, SD_INIT_TIMEOUT, SD_READ_TIMEOUT,
             SD_WRITE_TIMEOUT}

\* Nothing is lost or damaged on the way.
LEMMA NoHit ==
    ASSUME NEW s, Patient(s)
    PROVE  /\ ~Hit(s, "lost") /\ ~Hit(s, "garbled") /\ ~From(s, "stuck")
           /\ s \in Calls /\ s.card.mode # "absent"
           /\ \A ms : BusyFor(s, ms) \in {0, ms}
  BY DEF Patient, Untroubled, Slowly, Hit, From, BusyFor

\* Before its end, a wait goes on.
LEMMA InTime ==
    ASSUME NEW now \in Int, NEW ms \in Timeouts, NEW k \in 0 .. ms - 1
    PROVE  ~timedOut((now + ms) % ClockRange, (now + k) % ClockRange)
  <1> DEFINE C == ClockRange
             e == (now + ms) % C
             l == (now + k) % C
             left == (e - l) % C
  <1>1. C \in Nat /\ ms \in Nat /\ 2 * ms + 4 < C /\ C > 4
    BY ClockAssumption DEF ClockAssumption, Timeouts
  <1>2. now + ms \in Int /\ now + k \in Int /\ ms - k \in 1 .. ms
    BY <1>1
  <1>3. PICK p \in Int : Splits(now + ms, C, p, e) /\ e \in 0 .. C - 1
    BY <1>1, <1>2, RemainderOf
  <1>4. PICK q \in Int : Splits(now + k, C, q, l) /\ l \in 0 .. C - 1
    BY <1>1, <1>2, RemainderOf
  <1> SUFFICES ~(left >= C \div 2)
    BY DEF timedOut
  <1> HIDE DEF e, l
  <1>5. left = ms - k
    <2>1. e - l \in Int /\ q - p \in Int /\ ms - k \in 0 .. C - 1
      BY <1>1, <1>2, <1>3, <1>4
    <2>2. C * (q - p) = C * q - C * p
      BY <1>1
    <2>3. Splits(e - l, C, q - p, ms - k)
      BY <1>1, <1>3, <1>4, <2>1, <2>2 DEF Splits
    <2> QED
      BY <1>1, <2>1, <2>3, RemainderIs
  <1> HIDE DEF left
  <1>6. C \div 2 > ms
    BY <1>1
  <1>7. C \div 2 \in Int
    BY <1>1
  <1> QED
    BY <1>1, <1>2, <1>5, <1>6, <1>7

\* A card that is ready in time is waited for.
LEMMA PatientWait ==
    ASSUME NEW s \in Calls, NEW ms \in Timeouts, NEW busy \in {0, ms}
    PROVE  wait(s, busy, ms).ok = TRUE
  <1> DEFINE late == {t \in 0 .. busy - 1 :
                         timedOut(endOf(s, ms), (s.now + t) % ClockRange)}
             p == pass(s, busy)
  <1>1. ms \in Nat
    BY ClockAssumption DEF ClockAssumption, Timeouts
  <1>2. s.now \in Int /\ busy \in Int
    BY <1>1 DEF Calls
  <1>3. \A t \in 0 .. busy - 1 : ~timedOut(endOf(s, ms), (s.now + t) % ClockRange)
    <2>1. \A t \in 0 .. busy - 1 : t \in 0 .. ms - 1
      BY <1>1
    <2> QED
      BY <1>2, <2>1, InTime DEF endOf
  <1>4. late = {}
    BY <1>3
  <1>5. wait(s, busy, ms) = return(p, TRUE)
    BY <1>4 DEF wait
  <1>6. p \in Calls
    BY <1>2, passGood
  <1> HIDE DEF p
  <1> QED
    BY <1>5, <1>6, returnGood

LEMMA PatientReady ==
    ASSUME NEW s, Patient(s), NEW ms \in Timeouts
    PROVE  /\ waitReady(s, ms).ok = TRUE /\ Patient(waitReady(s, ms))
           /\ Same(s, waitReady(s, ms)) /\ waitReady(s, ms).active = s.active
  <1> DEFINE busy == BusyFor(s, ms)
             w == wait(s, busy, ms)
             t == waitReady(s, ms)
  <1>1. s \in Calls /\ busy \in {0, ms} /\ ms \in Int
    BY NoHit, ClockAssumption DEF ClockAssumption, Timeouts
  <1>2. t = [w EXCEPT !.n = @ + 1]
    BY DEF waitReady
  <1> HIDE DEF busy
  <1>3. w.ok = TRUE
    BY <1>1, PatientWait
  <1>4. w \in Calls
    <2>1. busy \in Int
      BY <1>1
    <2> QED
      BY <1>1, <2>1, waitGood
  <1> HIDE DEF w
  <1>5. t.ok = w.ok
    BY <1>2, <1>4 DEF Calls
  <1>6. t \in Calls /\ Same(s, t) /\ t.active = s.active
    BY <1>1, waitReadyGood
  <1> HIDE DEF t
  <1>7. Patient(t)
    BY <1>6 DEF Patient, Same, SameCall
  <1> QED
    BY <1>3, <1>5, <1>6, <1>7 DEF t

\* A command comes to the card as it was meant, and the answer back.
Answered(s, cmd, arg, t) ==
    /\ Patient(s) => t \in Calls /\ t.fault = s.fault
    /\ SameCall(s, t) /\ t.active = TRUE
    /\ t.card = Understood(s.card, cmd, arg).card
    /\ t.r = Understood(s.card, cmd, arg).r
    /\ (t.ok = TRUE) <=> (t.r = "ready")
LEMMA PatientCommand ==
    ASSUME NEW s, Patient(s), Checked(s.card), NEW cmd \in Commands, NEW arg \in Args,
           cmd = 41 => Guarded(s.card)
    PROVE  Answered(s, cmd, arg, command(s, cmd, arg))
  <1> DEFINE a == spiStart(s)
             w == IF cmd \in {0, 12} THEN return(a, TRUE) ELSE waitReady(a, SD_CMD_TIMEOUT)
             p == [w EXCEPT !.r = "none"]
             x == IF p.ok THEN Sent(p, cmd, arg, Frame) ELSE p
             ok == x.r = "ready"
             t == command(s, cmd, arg)
             u == Understood(s.card, cmd, arg)
  <1>0. s \in Calls
    BY DEF Patient
  <1>1. t = return(x, ok)
    BY DEF command, With, Then
  <1>2. CommandWell(s, cmd, arg, t)
    BY <1>0, commandGood
  <1> HIDE DEF t
  <1>3. a \in Calls /\ Same(s, a) /\ a.active = TRUE
    BY <1>0, spiStartGood
  <1> HIDE DEF a
  <1>4. Patient(a)
    BY <1>3 DEF Patient, Same, SameCall
  <1>5. /\ w \in Calls /\ Same(a, w) /\ w.active = a.active /\ w.ok = TRUE
    <2>1. SD_CMD_TIMEOUT \in Timeouts
      BY DEF Timeouts
    <2>2. Patient(waitReady(a, SD_CMD_TIMEOUT)) => waitReady(a, SD_CMD_TIMEOUT) \in Calls
      BY DEF Patient
    <2> QED
      BY <1>3, <1>4, <2>1, <2>2, returnGood, PatientReady
  <1> HIDE DEF w
  <1>6. /\ p \in Calls /\ p.card = w.card /\ p.active = w.active /\ p.fault = w.fault
        /\ p.ok = TRUE
    BY <1>5 DEF Calls, Responses
  <1> HIDE DEF p
  <1>7. p.card = s.card /\ p.active = TRUE /\ Patient(p)
    BY <1>3, <1>4, <1>5, <1>6 DEF Patient, Same, SameCall
  <1>8. u.card \in CardStates /\ u.r \in Responses
    <2>1. s.card \in CardStates /\ s.card.mode # "absent"
      BY <1>0 DEF Calls, Patient
    <2>2. cmd = 41 => s.card.mode # "idle" \/ s.card.crc = TRUE
      BY DEF Guarded
    <2>3. UnderstoodWell(s.card, cmd, arg, AddressOf(s.card, arg), u)
      BY <2>1, <2>2, UnderstoodGood
    <2> QED
      BY <2>3 DEF UnderstoodWell
  <1>9. x = answer(p, u.card, u.r)
    <2>1. Frame[cmd][arg] = FrameChecksum[cmd][arg]
      BY ChecksumAssumption DEF ChecksumAssumption
    <2>2. ~Hit(p, "lost") /\ ~Hit(p, "garbled") /\ ~From(p, "stuck")
      BY <1>7, NoHit
    <2>3. Heard(p)
      BY <1>7 DEF Heard, Patient
    <2>4. Sent(p, cmd, arg, Frame) = Delivered(p, cmd, arg, FALSE)
      BY <2>1, <2>2 DEF Sent
    <2>5. Delivered(p, cmd, arg, FALSE) = Reply(p, Understood(p.card, cmd, arg))
      BY <2>2, <2>3 DEF Delivered
    <2>6. Reply(p, Understood(p.card, cmd, arg)) = answer(p, u.card, u.r)
      BY <1>7, <2>2 DEF Reply
    <2> QED
      BY <1>6, <2>4, <2>5, <2>6
  <1> HIDE DEF x
  <1>10. x \in Calls /\ x.card = u.card /\ x.r = u.r
    BY <1>6, <1>8, <1>9, answerGood
  <1>11. t.card = u.card /\ t.r = u.r
    <2>1. ok \in BOOLEAN
      OBVIOUS
    <2> HIDE DEF ok
    <2> QED
      BY <1>1, <1>10, <2>1, returnGood DEF Same
  <1> HIDE DEF u
  <1>12. t \in Calls /\ SameCall(s, t) /\ t.active = TRUE
         /\ ((t.ok = TRUE) <=> (t.r = "ready"))
    BY <1>2 DEF CommandWell
  <1>13. Answered(s, cmd, arg, t)
    BY <1>11, <1>12 DEF Answered, SameCall, u
  <1> QED
    BY <1>13 DEF t

\* The card and the answer then.
Gives(before, cmd, arg, c, r) == Understood(before, cmd, arg) = [card |-> c, r |-> r]
LEMMA AnsweredAs ==
    ASSUME NEW s, Patient(s), NEW cmd, NEW arg, NEW t, Answered(s, cmd, arg, t),
           NEW c, c.mode # "absent", NEW r, Gives(s.card, cmd, arg, c, r)
    PROVE  /\ Patient(t) /\ SameCall(s, t) /\ t.active = TRUE
           /\ t.card = c /\ t.r = r /\ ((t.ok = TRUE) <=> (r = "ready"))
  <1>1. t.card = c /\ t.r = r
    BY DEF Answered, Gives
  <1> QED
    BY <1>1 DEF Answered, Patient

LEMMA PatientCardCommand ==
    ASSUME NEW s, Patient(s), Checked(s.card), s.state = "IDLE", NEW cmd \in Commands,
           NEW arg \in Args, cmd = 41 => Guarded(s.card)
    PROVE  Answered(s, cmd, arg, cardCommand(s, cmd, arg))
  <1> DEFINE y == return(s, TRUE)
             d == [y EXCEPT !.r = "none"]
             t == cardCommand(s, cmd, arg)
  <1>1. t = IF d.ok THEN command(d, cmd, arg) ELSE d
    BY DEF cardCommand, Then, syncDevice
  <1> HIDE DEF t
  <1>2. s \in Calls
    BY DEF Patient
  <1>3. y \in Calls /\ Same(s, y) /\ y.ok = TRUE
    BY <1>2, returnGood
  <1> HIDE DEF y
  <1>4. d \in Calls /\ d.card = y.card /\ d.ok = TRUE /\ SameCall(y, d)
    BY <1>3 DEF Calls, Responses, SameCall, SameMembers
  <1> HIDE DEF d
  <1>5. Patient(d) /\ d.card = s.card /\ SameCall(s, d)
    BY <1>3, <1>4 DEF Patient, Same, SameCall, SameMembers
  <1>6. Answered(d, cmd, arg, t)
    BY <1>1, <1>4, <1>5, PatientCommand
  <1>7. Answered(s, cmd, arg, t)
    BY <1>5, <1>6 DEF Answered, SameCall, SameMembers
  <1> QED
    BY <1>7 DEF t

\* An attempt that is answered as hoped for is the only one.
LEMMA FirstAttempt ==
    ASSUME NEW s, NEW end, NEW cmd, NEW arg, hoped(once(s, cmd, arg), cmd)
    PROVE  attempt(s, end, cmd, arg) = return(once(s, cmd, arg), TRUE)
  <1> DEFINE o == once(s, cmd, arg)
             Step(x) == IF hoped(x, cmd) \/ timedOut(end, x.now) THEN x
                        ELSE once(pass(x, 1), cmd, arg)
             Is(f) == f = [k \in 0 .. Attempts |-> IF k = 0 THEN o
                                                   ELSE Step(f[k - 1])]
             after == CHOOSE f : Is(f)
             c == after[Attempts]
             t == attempt(s, end, cmd, arg)
  <1>0. Attempts \in Nat
    BY ClockAssumption DEF ClockAssumption, Attempts
  <1>1. t = IF hoped(c, cmd) THEN return(c, TRUE) ELSE error(c)
    BY Zenon DEF attempt, With
  <1> HIDE DEF t
  <1>2. Step(o) = o
    OBVIOUS
  <1>9. hoped(o, cmd)
    OBVIOUS
  <1> HIDE DEF Step, o
  <1>3. \E f : Is(f)
    <2> DEFINE f == [k \in 0 .. Attempts |-> o]
    <2>1. \A k \in 0 .. Attempts : k # 0 => k - 1 \in 0 .. Attempts
      BY <1>0
    <2>2. Is(f)
      BY <1>2, <2>1
    <2> QED
      BY <2>2
  <1>4. Is(after)
    BY <1>3, Zenon
  <1> HIDE DEF after
  <1>5. after[0] \in {o}
    BY <1>0, <1>4
  <1>6. \A k \in 1 .. Attempts : after[k - 1] \in {o} => after[k] \in {o}
    BY <1>0, <1>2, <1>4
  <1> HIDE DEF Is
  <1>7. c = o
    <2> DEFINE O == {o}
    <2>1. after[0] \in O /\ \A k \in 1 .. Attempts : after[k - 1] \in O => after[k] \in O
      BY <1>5, <1>6
    <2> HIDE DEF O
    <2>2. \A k \in 0 .. Attempts : after[k] \in O
      BY <1>0, <2>1, LoopKeeps
    <2> QED
      BY <1>0, <2>2 DEF O
  <1> HIDE DEF c
  <1>8. t = return(o, TRUE)
    BY <1>1, <1>7, <1>9
  <1> QED
    BY <1>8 DEF t, o

\* begin has come so far without an error; c is the card as it is then.
Underway(s, c, t) ==
    /\ Patient(t) /\ t.state = "IDLE" /\ t.ok = TRUE /\ t.type = s.type
    /\ t.card = c /\ t.active = TRUE

LEMMA PatientReset ==
    ASSUME NEW s, Patient(s), Checked(s.card), s.state = "IDLE", NEW end
    PROVE  \E c \in CardStates : /\ c.mode = "idle" /\ c.type = s.card.type
                                /\ Underway(s, c, cardReset(s, end))
  <1> DEFINE o == cardCommand(s, 0, 0)
             c == [idle(s.card) EXCEPT !.mode = "idle", !.crc = FALSE]
             t == cardReset(s, end)
  <1>1. 0 \in Commands /\ 0 \in Args /\ s.card \in CardStates
    BY DEF Commands, Args, Patient, Calls
  <1>2. Answered(s, 0, 0, o)
    BY <1>1, PatientCardCommand
  <1>3. once(s, 0, 0) = o
    BY DEF once
  <1> HIDE DEF o
  <1>4. o \in Calls /\ o.card = c /\ o.r = "idle" /\ SameCall(s, o) /\ o.active = TRUE
    BY <1>2 DEF Answered, Understood
  <1>5. c \in CardStates /\ c.mode = "idle" /\ c.type = s.card.type
    <2> DEFINE d == idle(s.card)
    <2>1. d \in CardStates /\ d.type = s.card.type
      BY <1>1, idleTyped
    <2>2. c = [d EXCEPT !.mode = "idle", !.crc = FALSE]
      OBVIOUS
    <2> HIDE DEF d, c
    <2> QED
      BY <2>1, <2>2 DEF CardStates, Modes
  <1>6. t = return(o, TRUE)
    <2>1. hoped(once(s, 0, 0), 0)
      BY <1>3, <1>4 DEF hoped
    <2>2. attempt(s, end, 0, 0) = return(once(s, 0, 0), TRUE)
      BY <2>1, FirstAttempt, Zenon
    <2> QED
      BY <1>3, <2>2 DEF cardReset
  <1> HIDE DEF c, t
  <1>7. /\ t \in Calls /\ Same(o, t) /\ t.active = o.active /\ t.ok = TRUE
    BY <1>4, <1>6, returnGood
  <1>8. Underway(s, c, t)
    BY <1>4, <1>5, <1>7 DEF Underway, Patient, Same, SameCall, SameMembers
  <1> QED
    BY <1>5, <1>8 DEF t

LEMMA PatientCrcOn ==
    ASSUME NEW s, Underway(s, s.card, s), s.card.mode = "idle"
    PROVE  \E c \in CardStates : /\ c.mode = "idle" /\ c.type = s.card.type /\ c.crc = TRUE
                                /\ Underway(s, c, crcOn(s))
  <1> DEFINE o == cardCommand(s, 59, 1)
             c == [s.card EXCEPT !.crc = TRUE]
             t == crcOn(s)
  <1>1. /\ 59 \in Commands /\ 1 \in Args /\ s.card \in CardStates /\ Patient(s)
        /\ s.state = "IDLE" /\ Checked(s.card)
    BY DEF Commands, Args, Patient, Calls, Underway, Checked
  <1>2. Answered(s, 59, 1, o)
    BY <1>1, PatientCardCommand
  <1>3. t = IF o.r = "idle" THEN return(o, TRUE) ELSE error(o)
    BY DEF crcOn, With
  <1> HIDE DEF o
  <1>a. Gives(s.card, 59, 1, c, "idle")
    <2>1. s.card.mode = "idle"
      OBVIOUS
    <2>2. Understood(s.card, 59, 1) = Started(s.card, 59, 1)
      BY <2>1 DEF Understood
    <2>3. Started(s.card, 59, 1) =
              [card |-> [s.card EXCEPT !.crc = (1 = 1)], r |-> "idle"]
      BY DEF Started
    <2>4. (1 = 1) = TRUE
      OBVIOUS
    <2> QED
      BY <2>2, <2>3, <2>4 DEF Gives
  <1>4. o \in Calls /\ o.card = c /\ o.r = "idle" /\ SameCall(s, o) /\ o.active = TRUE
    <2>1. c.mode # "absent"
      BY <1>1 DEF CardStates
    <2> HIDE DEF c
    <2>2. Patient(s)
      BY <1>1
    <2>3. Patient(o) /\ SameCall(s, o) /\ o.active = TRUE
      BY ONLY <1>2, <1>a, <2>1, <2>2, AnsweredAs, Zenon
    <2>4. o.card = c /\ o.r = "idle"
      BY ONLY <1>2, <1>a DEF Answered, Gives
    <2> QED
      BY <2>3, <2>4 DEF Patient
  <1>5. c \in CardStates /\ c.mode = "idle" /\ c.type = s.card.type /\ c.crc = TRUE
    BY <1>1 DEF CardStates
  <1> HIDE DEF c, t
  <1>6. /\ t \in Calls /\ Same(o, t) /\ t.active = o.active /\ t.ok = TRUE
    BY <1>3, <1>4, returnGood
  <1>7. Underway(s, c, t)
    BY <1>1, <1>4, <1>5, <1>6 DEF Underway, Patient, Same, SameCall, SameMembers
  <1> QED
    BY <1>5, <1>7 DEF t

\* The card is asked for its version, and then told what the host can take.
LEMMA PatientVersion ==
    ASSUME NEW s, Underway(s, s.card, s), s.card.mode = "idle", NEW end
    PROVE  \E type \in {"SD1", "SD2"} :
              /\ type = "SD1" <=> s.card.type = "SD1"
              /\ Underway([s EXCEPT !.type = type], s.card, version(s, end))
  <1> DEFINE o == cardCommand(s, 8, 426)
             a == return(o, TRUE)
             type == IF Illegal(a.r) THEN "SD1" ELSE "SD2"
             t == version(s, end)
  <1>1. /\ 8 \in Commands /\ 426 \in Args /\ s.card \in CardStates /\ Patient(s)
        /\ s.state = "IDLE" /\ Checked(s.card) /\ s \in Calls
    BY DEF Commands, Args, Patient, Calls, Underway, Checked
  <1>2. Answered(s, 8, 426, o)
    BY <1>1, PatientCardCommand
  <1>3. once(s, 8, 426) = o
    BY DEF once
  <1> HIDE DEF o
  <1>4. /\ o \in Calls /\ o.card = s.card /\ SameCall(s, o) /\ o.active = TRUE
        /\ o.r = IF s.card.type = "SD1" THEN "illegal" ELSE "idle"
    BY <1>1, <1>2 DEF Answered, Understood, Started
  <1>5. hoped(o, 8)
    BY <1>4 DEF hoped, Illegal
  <1>6. attempt(s, end, 8, 426) = a
    <2>1. hoped(once(s, 8, 426), 8)
      BY <1>3, <1>5
    <2> DEFINE arg == 426
    <2>a. hoped(once(s, 8, arg), 8)
      BY <2>1
    <2> HIDE DEF arg
    <2>2. attempt(s, end, 8, arg) = return(once(s, 8, arg), TRUE)
      BY <2>a, FirstAttempt, Zenon
    <2> QED
      BY <1>3, <2>2 DEF arg
  <1>7. a \in Calls /\ Same(o, a) /\ a.active = TRUE /\ a.ok = TRUE /\ a.r = o.r
    BY <1>4, returnGood
  <1>8. t = [a EXCEPT !.type = type]
    BY <1>6, <1>7 DEF version, Then
  <1>9. type \in {"SD1", "SD2"} /\ (type = "SD1" <=> s.card.type = "SD1")
    BY <1>4, <1>7 DEF Illegal
  <1> HIDE DEF a, type, t
  <1>10. /\ t \in Calls /\ t.type = type /\ t.card = a.card /\ t.active = a.active
         /\ t.ok = a.ok /\ t.state = a.state /\ t.fault = a.fault
    BY <1>7, <1>8, <1>9 DEF Calls
  <1>11. [s EXCEPT !.type = type].type = type
    BY <1>1 DEF Calls
  <1>12. Underway([s EXCEPT !.type = type], s.card, t)
    BY <1>1, <1>4, <1>7, <1>10, <1>11 DEF Underway, Patient, Same, SameCall, SameMembers
  <1> QED
    BY <1>9, <1>12 DEF t

\* A card that has been given time in its start, and the checksums, is ready.
LEMMA PatientInitialise ==
    ASSUME NEW s, Underway(s, s.card, s), s.card.mode = "idle", s.card.crc = TRUE,
           s.type \in {"SD1", "SD2"}, s.type = "SD1" <=> s.card.type = "SD1", NEW end
    PROVE  \E c \in CardStates : /\ c.mode = "ready" /\ c.type = s.card.type /\ c.crc = TRUE
                                /\ Underway(s, c, initialise(s, end))
  <1> DEFINE arg == IF s.type = "SD2" THEN HostCapacity ELSE 0
             d == cardCommand(s, 55, 0)
             o == cardCommand(d, 41, arg)
             c == [s.card EXCEPT !.mode = "ready"]
             t == initialise(s, end)
  <1>1. /\ 55 \in Commands /\ 41 \in Commands /\ 0 \in Args /\ arg \in Args
        /\ s.card \in CardStates /\ Patient(s) /\ s.state = "IDLE" /\ s.ok = TRUE
        /\ Checked(s.card) /\ Guarded(s.card) /\ s \in Calls
    BY DEF Commands, Args, Patient, Calls, Underway, Checked, Guarded
  <1>2. once(s, 41, arg) = o /\ t = attempt(s, end, 41, arg)
    BY DEF once, initialise
  <1>3. s.card.type = "SDHC" => arg = HostCapacity
    OBVIOUS
  <1> HIDE DEF arg, o, t
  <1>4. Gives(s.card, 55, 0, s.card, "idle")
    <2>1. s.card.mode = "idle"
      OBVIOUS
    <2>2. Understood(s.card, 55, 0) = Started(s.card, 55, 0)
      BY <2>1 DEF Understood
    <2> QED
      BY <2>2 DEF Started, Gives
  <1>5. Patient(d) /\ SameCall(s, d) /\ d.card = s.card
    <2>1. Answered(s, 55, 0, d)
      BY <1>1, PatientCardCommand
    <2> HIDE DEF d
    <2>2. s.card.mode # "absent"
      OBVIOUS
    <2>3. Patient(s)
      BY <1>1
    <2>4. Patient(d) /\ SameCall(s, d)
      BY ONLY <1>4, <2>1, <2>2, <2>3, AnsweredAs, Zenon
    <2>5. d.card = s.card
      BY ONLY <1>4, <2>1 DEF Answered, Gives
    <2> QED
      BY <2>4, <2>5
  <1>6. Gives(d.card, 41, arg, c, "ready")
    <2>1. d.card.mode = "idle" /\ d.card = s.card
      BY <1>5
    <2> HIDE DEF d
    <2>2. Understood(d.card, 41, arg) = Started(s.card, 41, arg)
      BY <2>1 DEF Understood
    <2>3. Started(s.card, 41, arg) = [card |-> c, r |-> "ready"]
      BY <1>3 DEF Started
    <2> QED
      BY <2>2, <2>3 DEF Gives
  <1>7. c \in CardStates /\ c.mode = "ready" /\ c.type = s.card.type /\ c.crc = TRUE
    BY <1>1 DEF CardStates, Modes
  <1> HIDE DEF c
  <1>8. Patient(o) /\ SameCall(d, o) /\ o.card = c /\ o.r = "ready" /\ o.active = TRUE
    <2>1. d.state = "IDLE" /\ Checked(d.card) /\ Guarded(d.card)
      BY <1>1, <1>5 DEF SameCall, SameMembers
    <2> HIDE DEF d
    <2>2. Answered(d, 41, arg, cardCommand(d, 41, arg))
      BY <1>1, <1>5, <2>1, PatientCardCommand
    <2>3. Answered(d, 41, arg, o)
      BY <2>2 DEF o, d
    <2>4. c.mode # "absent"
      BY <1>7
    <2>5. Patient(d)
      BY <1>5
    <2> HIDE DEF d
    <2>6. Patient(o) /\ SameCall(d, o) /\ o.active = TRUE
      BY ONLY <1>6, <2>3, <2>4, <2>5, AnsweredAs, Zenon
    <2>7. o.card = c /\ o.r = "ready"
      BY ONLY <1>6, <2>3 DEF Answered, Gives
    <2> QED
      BY <2>6, <2>7
  <1>9. t = return(o, TRUE)
    <2>1. hoped(once(s, 41, arg), 41)
      BY <1>2, <1>8 DEF hoped
    <2>2. attempt(s, end, 41, arg) = return(once(s, 41, arg), TRUE)
      BY ONLY <2>1, FirstAttempt, Zenon
    <2> QED
      BY <1>2, <2>2
  <1>10. t \in Calls /\ Same(o, t) /\ t.active = o.active /\ t.ok = TRUE
    BY <1>8, <1>9, returnGood DEF Patient
  <1> HIDE DEF d
  <1>11. Underway(s, c, t)
    BY <1>1, <1>5, <1>7, <1>8, <1>10 DEF Underway, Patient, Same, SameCall, SameMembers
  <1> QED
    BY <1>7, <1>11 DEF t

\* One of version 2 is asked for its capacity.
LEMMA PatientCapacity ==
    ASSUME NEW s, Underway(s, s.card, s), s.card.mode = "ready", s.card.crc = TRUE
    PROVE  capacity(s) \in Calls /\ capacity(s).ok = TRUE
  <1> DEFINE o == cardCommand(s, 58, 0)
             type == IF o.card.type = "SDHC" THEN "SDHC" ELSE "SD2"
             c == idle(s.card)
             t == capacity(s)
  <1> SUFFICES t \in Calls /\ t.ok = TRUE
    OBVIOUS
  <1>1. /\ 58 \in Commands /\ 0 \in Args
        /\ s.card \in CardStates /\ Patient(s) /\ s.state = "IDLE" /\ s.ok = TRUE
        /\ Checked(s.card) /\ s \in Calls
    BY DEF Commands, Args, Patient, Calls, Underway, Checked
  <1>2. t = IF s.type # "SD2" THEN s
            ELSE IF ~o.ok THEN error(o) ELSE [o EXCEPT !.type = type]
    BY DEF capacity, With
  <1> HIDE DEF t
  <1>3. Gives(s.card, 58, 0, c, "ready")
    <2>1. s.card.mode = "ready"
      OBVIOUS
    <2>2. Understood(s.card, 58, 0) = Obeyed(c, 58, 0)
      BY <2>1 DEF Understood
    <2> HIDE DEF c
    <2> QED
      BY <2>2 DEF Obeyed, Gives
  <1>4. c.mode # "absent"
    BY <1>1, idleTyped
  <1> HIDE DEF c
  <1>5. Patient(o) /\ o.ok = TRUE
    <2>1. Answered(s, 58, 0, o)
      BY <1>1, PatientCardCommand
    <2> HIDE DEF o
    <2> QED
      BY <1>1, <1>3, <1>4, <2>1, AnsweredAs
  <1>6. type \in {"SD2", "SDHC"}
    OBVIOUS
  <1> HIDE DEF o, type
  <1> QED
    BY <1>1, <1>2, <1>5, <1>6 DEF Calls, Patient

LEMMA UnderwaySelf ==
    ASSUME NEW s, NEW c, NEW t, Underway(s, c, t)
    PROVE  Underway(t, t.card, t) /\ t.card = c /\ t.ok = TRUE /\ t \in Calls
  BY DEF Underway, Patient

\* A card that is in starts.
LEMMA PatientBegin ==
    ASSUME NEW s, Patient(s), Checked(s.card), NEW dedicated \in BOOLEAN
    PROVE  begin(s, dedicated).ok = TRUE
  <1> DEFINE i == [s EXCEPT !.active = FALSE, !.state = "IDLE", !.error = "NONE",
                            !.type = "none", !.began = TRUE]
             end == endOf(s, SD_INIT_TIMEOUT)
             e0 == spiStart(i)
             e1 == cardReset(e0, end)
             e2 == IF e1.ok THEN crcOn(e1) ELSE e1
             e3 == IF e2.ok THEN version(e2, end) ELSE e2
             e4 == IF e3.ok THEN initialise(e3, end) ELSE e3
             e5 == IF e4.ok THEN capacity(e4) ELSE e4
             e6 == spiStop(e5)
             t == begin(s, dedicated)
  <1> SUFFICES t.ok = TRUE
    OBVIOUS
  <1>1. t = IF e6.ok THEN [e6 EXCEPT !.dedicated = dedicated] ELSE e6
    BY DEF begin, Then
  <1> HIDE DEF t, end
  <1>2. i \in Calls /\ i.card = s.card /\ i.state = "IDLE" /\ i.fault = s.fault
    BY DEF Calls, Patient
  <1> HIDE DEF i
  <1>3. Patient(e0) /\ e0.card = s.card /\ e0.state = "IDLE"
    <2>1. e0 \in Calls /\ Same(i, e0)
      BY <1>2, spiStartGood
    <2> HIDE DEF e0
    <2> QED
      BY <1>2, <2>1 DEF Same, SameCall, SameMembers, Patient
  <1> HIDE DEF e0
  <1>4. /\ Underway(e1, e1.card, e1) /\ e1.card.mode = "idle" /\ e1.ok = TRUE
    <2>1. PICK c \in CardStates : c.mode = "idle" /\ Underway(e0, c, e1)
      BY <1>3, PatientReset
    <2> HIDE DEF e1
    <2> QED
      BY <2>1, UnderwaySelf
  <1> HIDE DEF e1
  <1>5. /\ Underway(e2, e2.card, e2) /\ e2.card.mode = "idle" /\ e2.card.crc = TRUE
        /\ e2.ok = TRUE
    <2>1. e2 = crcOn(e1)
      BY <1>4
    <2> HIDE DEF e2
    <2>2. PICK c \in CardStates : /\ c.mode = "idle" /\ c.crc = TRUE
                                  /\ Underway(e1, c, e2)
      BY <1>4, <2>1, PatientCrcOn
    <2> QED
      BY <2>2, UnderwaySelf
  <1> HIDE DEF e2
  <1>6. /\ Underway(e3, e3.card, e3) /\ e3.card.mode = "idle" /\ e3.card.crc = TRUE
        /\ e3.ok = TRUE /\ e3.type \in {"SD1", "SD2"}
        /\ (e3.type = "SD1" <=> e3.card.type = "SD1")
    <2>1. e3 = version(e2, end)
      BY <1>5
    <2> HIDE DEF e3
    <2>2. PICK type \in {"SD1", "SD2"} :
              /\ type = "SD1" <=> e2.card.type = "SD1"
              /\ Underway([e2 EXCEPT !.type = type], e2.card, e3)
      BY <1>5, <2>1, PatientVersion
    <2>3. [e2 EXCEPT !.type = type].type = type
      BY <1>5 DEF Underway, Patient, Calls
    <2>4. e3.type = type
      BY <2>2, <2>3 DEF Underway
    <2>5. Underway(e3, e3.card, e3) /\ e3.card = e2.card /\ e3.ok = TRUE
      BY <2>2, UnderwaySelf
    <2> QED
      BY <1>5, <2>2, <2>4, <2>5
  <1> HIDE DEF e3
  <1>7. /\ Underway(e4, e4.card, e4) /\ e4.card.mode = "ready" /\ e4.card.crc = TRUE
        /\ e4.ok = TRUE
    <2>1. e4 = initialise(e3, end)
      BY <1>6
    <2> HIDE DEF e4
    <2>2. PICK c \in CardStates : /\ c.mode = "ready" /\ c.crc = TRUE
                                  /\ Underway(e3, c, e4)
      BY <1>6, <2>1, PatientInitialise
    <2> QED
      BY <2>2, UnderwaySelf
  <1> HIDE DEF e4
  <1>8. e5 \in Calls /\ e5.ok = TRUE
    <2>1. e5 = capacity(e4)
      BY <1>7
    <2> HIDE DEF e5
    <2> QED
      BY <1>7, <2>1, PatientCapacity
  <1> HIDE DEF e5
  <1>9. e6 \in Calls /\ e6.ok = TRUE
    BY <1>8, spiStopGood
  <1> HIDE DEF e6
  <1> QED
    BY <1>1, <1>9 DEF Calls

\* A card amid a transfer that can be given up.
LEMMA PatientSync ==
    ASSUME NEW s, Patient(s), Checked(s.card), Alive(s.card)
    PROVE  /\ Patient(syncDevice(s)) /\ syncDevice(s).state = "IDLE"
           /\ Alive(syncDevice(s).card) /\ Checked(syncDevice(s).card)
           /\ SameCard(s.card, syncDevice(s).card)
           /\ syncDevice(s).type = s.type
  <1> DEFINE t == syncDevice(s)
  <1> SUFFICES /\ Patient(t) /\ t.state = "IDLE" /\ Alive(t.card) /\ Checked(t.card)
               /\ SameCard(s.card, t.card) /\ t.type = s.type
    OBVIOUS
  <1>1. s \in Calls /\ s.card \in CardStates /\ s.card.mode \notin {"absent", "off", "idle"}
    BY DEF Patient, Alive, Calls
  <1>2. SyncWell(s, t)
    BY <1>1, syncDeviceGood
  <1> HIDE DEF t
  <1>3. /\ t \in Calls /\ t.fault = s.fault /\ t.type = s.type
        /\ Checked(t.card) /\ SameCard(s.card, t.card)
        /\ t.ok = TRUE => t.state = "IDLE"
    BY <1>2 DEF SyncWell, Kept
  <1>4. t.state = "IDLE" /\ Alive(t.card)
    <2>1. CASE s.state = "IDLE"
      BY <1>1, <1>2, <2>1 DEF SyncWell, Kept, Alive
    <2>2. CASE s.state = "READ"
      <3> DEFINE d == [s EXCEPT !.state = "IDLE"]
                 c == command(d, 12, 0)
                 e == IF c.ok THEN c ELSE error(c)
      <3>1. t = spiStop(e)
        BY <2>2 DEF t, syncDevice, readStop, Else
      <3>2. d \in Calls /\ d.card = s.card /\ d.fault = s.fault
        BY <1>1 DEF Calls
      <3> HIDE DEF d
      <3>3. Patient(d) /\ Checked(d.card) /\ 12 \in Commands /\ 0 \in Args
        BY <3>2 DEF Patient, Commands, Args
      <3>4. Answered(d, 12, 0, c)
        BY <3>3, PatientCommand
      <3> HIDE DEF c
      <3>5. c.card.mode \notin {"absent", "off", "idle"}
        <4> DEFINE u == Understood(s.card, 12, 0)
        <4>1. c.card = u.card
          BY <3>2, <3>4 DEF Answered
        <4>2. u.card = s.card \/ u.card = idle(s.card)
          BY <1>1 DEF Understood, Obeyed
        <4> HIDE DEF u
        <4> QED
          BY <1>1, <4>1, <4>2, idleTyped
      <3>6. c \in Calls
        BY <3>3, <3>4 DEF Answered
      <3>7. e \in Calls /\ e.card = c.card
        BY <3>6, errorGood
      <3> HIDE DEF e
      <3>8. t.card = e.card
        BY <3>1, <3>7, spiStopGood DEF Same
      <3>9. t.state = "IDLE"
        BY <1>1, <2>2, readStopGood DEF t, syncDevice
      <3> QED
        BY <3>5, <3>7, <3>8, <3>9 DEF Alive
    <2>3. CASE s.state = "WRITE"
      <3> DEFINE w == waitReady(s, SD_WRITE_TIMEOUT)
                 x == Stopped(w)
                 y == spiStop(x)
                 d == [y EXCEPT !.state = "IDLE"]
                 e == IF w.ok THEN d ELSE w
      <3>1. t = IF e.ok THEN e ELSE failure(e)
        BY <2>3 DEF t, syncDevice, writeStop, Else, Then
      <3>2. w.ok = TRUE /\ w \in Calls /\ w.card = s.card
        <4>1. SD_WRITE_TIMEOUT \in Timeouts
          BY DEF Timeouts
        <4> HIDE DEF w
        <4>2. w.ok = TRUE /\ Patient(w) /\ Same(s, w)
          BY <4>1, PatientReady DEF w
        <4> QED
          BY <4>2 DEF Patient, Same
      <3> HIDE DEF w
      <3>3. /\ x \in Calls /\ x.ok = TRUE
            /\ x.card = s.card \/ x.card = idle(s.card)
        <4>1. x \in Calls /\ x.ok = w.ok
          BY <3>2, StoppedGood
        <4>2. x.card = w.card \/ x.card = idle(w.card)
          <5>1. PICK k : /\ k = w.card \/ k = idle(w.card)
                         /\ x = answer(w, k, w.r)
            BY DEF Stopped
          <5> HIDE DEF x
          <5>2. w.card \in CardStates /\ w.r \in Responses
            BY <3>2 DEF Calls
          <5>3. k \in CardStates
            BY <5>1, <5>2, idleTyped
          <5> QED
            BY <3>2, <5>1, <5>2, <5>3, answerGood
        <4> HIDE DEF x
        <4> QED
          BY <3>2, <4>1, <4>2
      <3> HIDE DEF x
      <3>4. y \in Calls /\ y.ok = TRUE /\ y.card = x.card
        BY <3>3, spiStopGood DEF Same
      <3> HIDE DEF y
      <3>5. d \in Calls /\ d.ok = TRUE /\ d.card = x.card /\ d.state = "IDLE"
        BY <3>4 DEF Calls
      <3> HIDE DEF d
      <3>6. t = d
        BY <3>1, <3>2, <3>5
      <3>7. x.card.mode \notin {"absent", "off", "idle"}
        BY <1>1, <3>3, idleTyped
      <3> QED
        BY <3>5, <3>6, <3>7 DEF Alive
    <2> QED
      BY <1>1, <2>1, <2>2, <2>3 DEF Calls
  <1> QED
    BY <1>3, <1>4 DEF Patient, Alive

\* The block that a card sends is taken.
LEMMA PatientBlock ==
    ASSUME NEW s, Patient(s), s.active = TRUE, s.card.mode = "sending",
           s.card.pos \in Sectors
    PROVE  /\ Patient(readData(s)) /\ readData(s).ok = TRUE
           /\ readData(s).card.mode = "sending" /\ readData(s).card.crc = s.card.crc
  <1> DEFINE ms == SD_READ_TIMEOUT
             w == waitBlock(s)
             v == IF w.ok THEN w ELSE error(w)
             sent == BlockFrom(w)
             y == IF v.ok THEN taken(v, BlockFrom(v)) ELSE v
             x == IF y.ok THEN y ELSE spiStop(y)
             n == x.n + 1
             t == readData(s)
             content == Content(s.card)
             after == Moved(s.card, "sending", s.card.pos + 1)
  <1> SUFFICES /\ Patient(t) /\ t.ok = TRUE /\ t.card.mode = "sending"
               /\ t.card.crc = s.card.crc
    OBVIOUS
  <1>1. t = [x EXCEPT !.n = n]
    BY DEF readData, Else, Then
  <1> HIDE DEF t, n
  <1>2. s \in Calls /\ s.card \in CardStates /\ s.card.mode # "absent"
    BY DEF Patient, Calls
  <1>3. w \in Calls /\ Same(s, w) /\ w.active = s.active /\ w.ok = TRUE
    <2>1. Heard(s) /\ HasBlock(s.card)
      BY <1>2 DEF Heard, HasBlock
    <2>2. w = wait(s, BusyFor(s, ms), ms)
      BY <2>1 DEF waitBlock
    <2>3. BusyFor(s, ms) \in {0, ms} /\ ms \in Timeouts
      BY NoHit DEF Timeouts
    <2>4. wait(s, BusyFor(s, ms), ms).ok = TRUE
      BY <1>2, <2>3, PatientWait
    <2> HIDE DEF w
    <2> QED
      BY <1>2, <2>2, <2>4, waitBlockGood DEF w
  <1>4. Patient(w) /\ w.card = s.card
    <2> HIDE DEF w
    <2> QED
      BY <1>2, <1>3 DEF Patient, Same, SameCall
  <1>5. y = taken(w, sent)
    BY <1>3
  <1> HIDE DEF w, y
  <1>6. content \in Contents /\ BlockCrc[content] = Checksum[content]
    <2>1. content = s.card.dev[s.card.pos] \/ content = Erased
      BY DEF Content
    <2>2. content \in Contents
      BY <1>2, <2>1 DEF CardStates, Contents
    <2> HIDE DEF content
    <2> QED
      BY <2>2, ChecksumAssumption DEF ChecksumAssumption, OnTheWire
  <1>7. /\ sent.block = content /\ sent.crc = Checksum[content] /\ sent.started = TRUE
        /\ sent.card = after
    <2>1. ~Hit(w, "lost") /\ ~Hit(w, "garbled")
      BY <1>4, NoHit
    <2>2. OnItsWay(w, content, "garbled") = content
      BY <2>1 DEF OnItsWay
    <2>3. /\ sent.block = OnItsWay(w, Content(w.card), "garbled")
          /\ sent.crc = Checksum[Content(w.card)]
      BY DEF BlockFrom
    <2>4. sent.started = TRUE
      BY <1>4, <2>1 DEF BlockFrom
    <2>5. sent.card = after
      BY <1>4 DEF BlockFrom, Moved
    <2> QED
      BY <1>4, <2>2, <2>3, <2>4, <2>5
  <1>8. after \in CardStates /\ after.mode = "sending" /\ after.crc = s.card.crc
    <2>1. s.card.pos + 1 \in Int /\ "sending" \in Modes
      BY <1>2 DEF CardStates, Modes
    <2> QED
      BY <1>2, <2>1, MovedGood
  <1> DEFINE val == Append(w.val, content)
  <1>9. y = [w EXCEPT !.card = after, !.val = val]
    <2> HIDE DEF after, content
    <2>1. sent.started /\ sent.crc = BlockCrc[sent.block]
      BY <1>6, <1>7
    <2> HIDE DEF sent
    <2> QED
      BY <1>5, <1>7, <2>1 DEF taken
  <1>10. val \in Seq(Contents)
    <2> HIDE DEF content
    <2> QED
      BY <1>3, <1>6 DEF Calls
  <1> HIDE DEF val, after
  <1>11. y \in Calls /\ y.ok = TRUE /\ y.card = after /\ y.fault = w.fault
    BY <1>3, <1>8, <1>9, <1>10 DEF Calls
  <1>12. x = y
    BY <1>11
  <1> HIDE DEF x
  <1>13. n \in Int
    BY <1>11, <1>12 DEF Calls, n
  <1>14. t \in Calls /\ t.ok = TRUE /\ t.card = after /\ t.fault = w.fault
    BY <1>1, <1>11, <1>12, <1>13 DEF Calls
  <1> QED
    BY <1>4, <1>8, <1>14 DEF Patient

\* And the sector is read, if the card is one that takes commands.
LEMMA PatientRead ==
    ASSUME NEW s, Patient(s), Checked(s.card), Alive(s.card), s.card.obeys = TRUE,
           s.state = "IDLE", Agree(s), NEW sector \in Sectors
    PROVE  readSectors(s, sector, 1).ok = TRUE
  <1> DEFINE arg == address(s, sector)
             k == cardCommand(s, 18, arg)
             c == commandOr(s, 18, arg)
             d == IF c.ok THEN [c EXCEPT !.state = "READ"] ELSE c
             a == IF d.ok THEN [d EXCEPT !.cur = sector] ELSE d
             r == readBlocks(a, 1)
             cur == r.cur + 1
             m == [r EXCEPT !.cur = cur]
             x == IF m.dedicated THEN m ELSE readStop(m)
             b == IF r.ok THEN x ELSE r
             t == IF a.ok THEN b ELSE a
             card2 == Moved(idle(s.card), "sending", sector)
  <1>1. readSectors(s, sector, 1) = t
    BY DEF readSectors, readStart, Then, With
  <1> SUFFICES t.ok = TRUE
    BY <1>1
  <1>2. /\ s \in Calls /\ s.card \in CardStates /\ sector \in Int
        /\ s.card.mode \notin {"absent", "off", "idle"}
    BY SectorsNatural DEF Patient, Alive, Calls
  <1>3. arg \in Args /\ AddressOf(s.card, arg) = sector /\ 18 \in Commands
    BY <1>2, AddressUnderstood DEF Agree, Commands
  <1>4. c = IF k.ok THEN k ELSE failure(k)
    BY DEF commandOr, Else
  <1> HIDE DEF arg, c
  <1>5. Gives(s.card, 18, arg, card2, "ready")
    <2> DEFINE e == idle(s.card)
    <2>1. Understood(s.card, 18, arg) = Obeyed(e, 18, arg)
      BY <1>2 DEF Understood
    <2>2. e.type = s.card.type
      BY <1>2, idleTyped
    <2>3. AddressOf(e, arg) = sector
      BY <1>3, <2>2 DEF AddressOf
    <2> HIDE DEF e
    <2>4. Obeyed(e, 18, arg) =
              [card |-> [e EXCEPT !.mode = "sending", !.pos = sector], r |-> "ready"]
      BY <2>3 DEF Obeyed, ModeAfter
    <2> QED
      BY <2>1, <2>4 DEF e, Gives, Moved
  <1>6. /\ card2 \in CardStates /\ card2.mode = "sending" /\ card2.pos = sector
        /\ card2.crc = TRUE
    <2>1. "sending" \in Modes
      BY DEF Modes
    <2>2. s.card.crc = TRUE
      BY <1>2 DEF Checked
    <2> QED
      BY <1>2, <2>1, <2>2, idleTyped, MovedGood
  <1> HIDE DEF card2
  <1>7. /\ Patient(k) /\ k.ok = TRUE /\ k.active = TRUE /\ k.card = card2
    <2>1. Answered(s, 18, arg, k)
      BY <1>3, PatientCardCommand
    <2>2. card2.mode # "absent"
      BY <1>6
    <2> HIDE DEF k
    <2>3. Patient(k) /\ ((k.ok = TRUE) <=> ("ready" = "ready")) /\ k.active = TRUE
      BY ONLY <1>5, <2>1, <2>2, Patient(s), AnsweredAs, Zenon
    <2>4. k.card = card2
      BY ONLY <1>5, <2>1 DEF Answered, Gives
    <2> QED
      BY <2>3, <2>4
  <1> HIDE DEF k
  <1>8. c = k /\ k \in Calls
    BY <1>4, <1>7 DEF Patient
  <1>9. /\ d \in Calls /\ d.ok = TRUE /\ d.active = TRUE /\ d.card = card2
        /\ d.fault = k.fault
    BY <1>7, <1>8 DEF Calls
  <1> HIDE DEF d
  <1>10. /\ a \in Calls /\ a.ok = TRUE /\ a.active = TRUE /\ a.card = card2
         /\ a.fault = k.fault
    BY <1>2, <1>9 DEF Calls
  <1> HIDE DEF a
  <1>11. Patient(a)
    BY <1>6, <1>7, <1>10 DEF Patient
  <1>12. r = readData(a)
    <2> DEFINE Step(z) == IF z.ok THEN readData(z) ELSE z
               Is(f) == f = [i \in 0 .. 1 |-> IF i = 0 THEN a ELSE Step(f[i - 1])]
               after == CHOOSE f : Is(f)
    <2>1. r = after[1]
      BY Zenon DEF readBlocks, Then
    <2>2. Step(a) = readData(a)
      BY <1>10
    <2> HIDE DEF r, Step
    <2>3. \E f : Is(f)
      <3> DEFINE f == [i \in 0 .. 1 |-> IF i = 0 THEN a ELSE Step(a)]
      <3>1. \A i \in 0 .. 1 : i # 0 => i - 1 = 0
        OBVIOUS
      <3>2. f[0] = a
        OBVIOUS
      <3>3. \A i \in 0 .. 1 : (IF i = 0 THEN a ELSE Step(a))
                                = (IF i = 0 THEN a ELSE Step(f[i - 1]))
        BY <3>1, <3>2
      <3>4. Is(f)
        BY <3>3
      <3> QED
        BY <3>4
    <2>4. Is(after)
      BY <2>3, Zenon
    <2> HIDE DEF after
    <2>5. 0 \in 0 .. 1 /\ 1 \in 0 .. 1 /\ 1 # 0 /\ 1 - 1 = 0
      OBVIOUS
    <2>6. after[0] = a /\ after[1] = Step(after[0])
      BY <2>4, <2>5
    <2> QED
      BY <2>1, <2>2, <2>6
  <1>13. Patient(r) /\ r.ok = TRUE /\ r.card.mode = "sending" /\ r.card.crc = TRUE
    <2> HIDE DEF r
    <2> QED
      BY <1>6, <1>10, <1>11, <1>12, PatientBlock
  <1>14. r \in Calls /\ r.cur \in Int
    BY <1>13 DEF Patient, Calls
  <1> HIDE DEF r
  <1>15. cur \in Int
    BY <1>14
  <1> HIDE DEF cur
  <1>16. m \in Calls /\ m.ok = TRUE /\ m.card = r.card /\ m.fault = r.fault
    BY <1>13, <1>14, <1>15 DEF Calls
  <1> HIDE DEF m
  <1>17. x.ok = TRUE
    <2>1. CASE m.dedicated
      BY <1>16, <2>1
    <2>2. CASE ~m.dedicated
      <3> DEFINE i == [m EXCEPT !.state = "IDLE"]
                 z == command(i, 12, 0)
                 e == IF z.ok THEN z ELSE error(z)
                 off == idle(i.card)
      <3>1. x = spiStop(e)
        BY <2>2 DEF readStop, Else
      <3>2. i \in Calls /\ i.card = m.card /\ i.fault = m.fault
        BY <1>16 DEF Calls
      <3> HIDE DEF i, x
      <3>3. /\ Patient(i) /\ Checked(i.card) /\ i.card.mode = "sending"
            /\ 12 \in Commands /\ 0 \in Args
        BY <1>13, <1>16, <3>2 DEF Patient, Checked, Commands, Args
      <3>4. z.ok = TRUE /\ z \in Calls
        <4>1. Answered(i, 12, 0, z)
          BY <3>3, PatientCommand
        <4>2. Gives(i.card, 12, 0, off, "ready")
          BY <3>3 DEF Understood, Gives
        <4>3. z.r = "ready"
          BY ONLY <4>1, <4>2 DEF Answered, Gives
        <4> QED
          BY <3>3, <4>1, <4>3 DEF Answered
      <3> HIDE DEF z
      <3> QED
        BY <3>1, <3>4, spiStopGood
    <2> QED
      BY <2>1, <2>2
  <1> HIDE DEF x
  <1>18. t = x
    BY <1>10, <1>13
  <1> QED
    BY <1>17, <1>18

-----------------------------------------------------------------------------
(* The theorems.                                                           *)

LEMMA Invariance == Spec => []Inv
  <1>1. Init => Inv
    BY InitStep
  <1>2. Inv /\ [Next]_dvars => Inv'
    BY EveryStepOrNone
  <1> QED
    BY <1>1, <1>2, PTL DEF Spec

\* In every state the driver and the card are of their types, a card that is
\* past its start compares the checksums of what reaches it, and the transfer
\* that the driver takes for open is where the card has it.
THEOREM DriverAndCardInStep == Spec => [](TypeOK /\ ChecksumsOn /\ TransferAgrees)
  <1>1. Inv => TypeOK /\ ChecksumsOn /\ TransferAgrees
    BY DEF Inv
  <1> QED
    BY <1>1, Invariance, PTL

\* A file system is mounted only over a driver that gives sectors the numbers
\* the card knows them by, whatever answers begin has lost.
THEOREM AddressesAlwaysAgree == Spec => []AddressesAgree
  <1>1. Inv => AddressesAgree
    BY DEF Inv
  <1> QED
    BY <1>1, Invariance, PTL

\* Between calls the chip is selected only for an open transfer of dedicated
\* SPI, whichever call failed and how.
THEOREM ChipAlwaysReleased == Spec => []ChipReleased
  <1>1. Inv => ChipReleased
    BY DEF Inv
  <1> QED
    BY <1>1, Invariance, PTL

\* Whatever faults there have been, a card that works can be used: begin starts
\* it if it is in, even if it takes all its time, and one that takes commands
\* amid a transfer can be read once syncDevice has ended the transfer.
THEOREM CardAlwaysRecovers == Spec => []Recovers
  <1>1. ASSUME Inv, NEW f \in {Untroubled, Slowly}, NEW t \in Starts, card.mode # "absent"
        PROVE  /\ begin(Call(f, t), FALSE).ok = TRUE
               /\ mounted = TRUE /\ card.obeys = TRUE /\ card.mode \notin {"off", "idle"} =>
                     \A sector \in Sectors :
                        readSectors(syncDevice(Call(f, t)), sector, 1).ok = TRUE
    <2> DEFINE s == Call(f, t)
               d == syncDevice(s)
    <2>1. f \in Faults
      BY DEF Untroubled, Slowly, Faults
    <2>2. s \in Calls /\ s.card = card /\ s.type = drv.type
      BY <1>1, <2>1, CallTyped
    <2>3. s.fault = f
      BY DEF Call
    <2> HIDE DEF s
    <2>4. Patient(s) /\ Checked(s.card)
      BY <1>1, <2>2, <2>3 DEF Patient, Inv, ChecksumsOn
    <2>5. begin(s, FALSE).ok = TRUE
      BY <2>4, PatientBegin
    <2>6. ASSUME mounted = TRUE, card.obeys = TRUE, card.mode \notin {"off", "idle"},
                 NEW sector \in Sectors
          PROVE  readSectors(d, sector, 1).ok = TRUE
      <3>1. Alive(s.card)
        BY <1>1, <2>2, <2>6 DEF Alive
      <3>2. Agree(s)
        BY <1>1, <2>2, <2>6 DEF Agree, Inv, AddressesAgree
      <3>3. /\ Patient(d) /\ d.state = "IDLE" /\ Alive(d.card) /\ Checked(d.card)
            /\ SameCard(s.card, d.card) /\ d.type = s.type
        BY <2>4, <3>1, PatientSync
      <3> HIDE DEF d
      <3>4. Agree(d) /\ d.card.obeys = TRUE
        BY <2>2, <2>6, <3>2, <3>3 DEF Agree, SameCard
      <3> QED
        BY <3>3, <3>4, PatientRead
    <2> QED
      BY <2>5, <2>6 DEF s
  <1>2. Inv => card.obeys \in BOOLEAN /\ mounted \in BOOLEAN
    BY DEF Inv, TypeOK, CardStates
  <1>3. Inv => Recovers
    <2> SUFFICES ASSUME Inv PROVE Recovers
      OBVIOUS
    <2> QED
      BY <1>1, <1>2 DEF Recovers
  <1> QED
    BY <1>3, Invariance, PTL

\* A call that fails leaves an error code, and only begin takes it back.
THEOREM FailuresFlagged == Spec => FailureFlagged
  <1>1. Inv /\ [Next]_dvars => [Flagged]_dvars
    BY EveryStepOrNone
  <1>2. [Flagged]_dvars =>
            [/\ ~last'.ok => drv'.error # "NONE"
             /\ drv.error # "NONE" /\ drv'.error = "NONE" => last'.op = "begin"]_dvars
    BY DEF Flagged
  <1> QED
    BY <1>1, <1>2, Invariance, PTL DEF Spec, FailureFlagged

\* The driver and the card are the device the file system expects: a read that
\* succeeds gives the content of the sectors asked for, a write or an erasure
\* that succeeds has been carried out, and one that fails has at most changed
\* some of its own sectors to what they were to become.
THEOREM DriverIsBlockDevice == Spec => IsBlockDevice
  <1>1. Init => Device!AbstractInit
    BY InitStep
  <1>2. Inv /\ [Next]_dvars => [DeviceStep]_(Device!bvars)
    BY EveryStepOrNone
  <1>3. [DeviceStep]_(Device!bvars) =>
            [Device!ARead \/ Device!AWrite \/ Device!AErase \/ Device!AOther]_(Device!bvars)
    BY DEF DeviceStep
  <1> QED
    BY <1>1, <1>2, <1>3, Invariance, PTL DEF Spec, IsBlockDevice, Device!AbstractSpec

===============================================================================
