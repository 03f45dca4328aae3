------------------------------ MODULE SdSpiCard ------------------------------
(***************************************************************************)
(* The SD card driver, DedicatedSpiCard over SharedSpiCard: each function  *)
(* is an operator from one state s of a call to the next. Besides the      *)
(* fields of SdCard,                                                       *)
(*   state, cur, error, type, dedicated, began                             *)
(*          are members of the driver (cur is m_curSector)                 *)
(*   now    the clock, in a unit of which the timeouts are a few           *)
(*   ok     whether the function returned true                             *)
(*   val    the sectors read                                               *)
(***************************************************************************)
EXTENDS SdCard

CONSTANTS ClockRange,           \* millis16() counts up to this and wraps
          SD_CMD_TIMEOUT, SD_ERASE_TIMEOUT, SD_INIT_TIMEOUT,
          SD_READ_TIMEOUT, SD_WRITE_TIMEOUT,
          Frame,                \* the checksums of cardCommand, of a command
          BlockCrc              \* with its argument, and of writeData and readData

ASSUME ClockAssumption ==
    ClockRange \in Nat /\ \A ms \in {SD_CMD_TIMEOUT, SD_ERASE_TIMEOUT, SD_INIT_TIMEOUT,
               SD_READ_TIMEOUT, SD_WRITE_TIMEOUT} :
        ms \in Nat \ {0} /\ 2 * ms + 4 < ClockRange

\* The driver's checksums are those the card expects.
ASSUME ChecksumAssumption ==
    /\ \A cmd \in Commands, arg \in Args : Frame[cmd][arg] = FrameChecksum[cmd][arg]
    /\ \A b \in OnTheWire : BlockCrc[b] = Checksum[b]

\* The members of a driver as it is created.
Created == [active |-> FALSE, state |-> "IDLE", cur |-> 0,
            error |-> "INIT_NOT_CALLED", type |-> "none", dedicated |-> FALSE,
            began |-> FALSE]

\* Which code it is makes no difference here, only whether there is one.
error(s) == [s EXCEPT !.error = "FAILED", !.ok = FALSE]
return(s, ok) == [s EXCEPT !.ok = ok]
\* The statements after a call: those if it succeeds, if it fails, and always.
Then(s, Rest(_)) == IF s.ok THEN Rest(s) ELSE s
Else(s, Rest(_)) == IF s.ok THEN s ELSE Rest(s)
With(s, Rest(_)) == Rest(s)

\* Fault: the end of the wait is compared as it stands.
timedOut_unsigned(end, now) == end < now
\* Timeout::timedOut: the difference as a signed number of half the range.
timedOut(end, now) ==
    LET left == (end - now) % ClockRange IN left >= ClockRange \div 2
endOf(s, ms) == (s.now + ms) % ClockRange
pass(s, time) == [s EXCEPT !.now = (@ + time) % ClockRange]

\* The loops that poll the card until it is ready: given up at the first
\* moment at which the time is out.
wait(s, busy, ms) ==
    LET late == {t \in 0 .. busy - 1 :
                    timedOut(endOf(s, ms), (s.now + t) % ClockRange)}
        given == CHOOSE t \in late : \A u \in late : t <= u
    IN  IF late = {} THEN return(pass(s, busy), TRUE) ELSE return(pass(s, given), FALSE)

spiStart(s) == [s EXCEPT !.active = TRUE]
spiStop(s) == [s EXCEPT !.active = FALSE]
\* The fail label: the error, spiStop and return false.
failure(s) == spiStop(error(s))

waitReady(s, ms) == [wait(s, BusyFor(s, ms), ms) EXCEPT !.n = @ + 1]

-----------------------------------------------------------------------------
(* Commands.                                                               *)

\* cardCommand when no transfer is open: ok if the response is zero.
command(s, cmd, arg) ==
    LET selected == spiStart(s)
    IN  With(Then([IF cmd \in {0, 12} THEN return(selected, TRUE)
                   ELSE waitReady(selected, SD_CMD_TIMEOUT) EXCEPT !.r = "none"],
                  LAMBDA w : Sent(w, cmd, arg, Frame)),
             LAMBDA c : return(c, c.r = "ready"))

\* Fault: the failure of the command is not reported.
readStop_quiet(s) == spiStop(command([s EXCEPT !.state = "IDLE"], 12, 0))
\* readStop: the driver takes the transfer for ended whatever the card says.
readStop(s) ==
    spiStop(Else(command([s EXCEPT !.state = "IDLE"], 12, 0), error))

\* writeStop: a card that stays busy leaves the driver in WRITE.
writeStop(s) ==
    Else(Then(waitReady(s, SD_WRITE_TIMEOUT),
              LAMBDA w : [spiStop(Stopped(w)) EXCEPT !.state = "IDLE"]),
         failure)

syncDevice(s) ==
    CASE s.state = "WRITE" -> writeStop(s)
      [] s.state = "READ"  -> readStop(s)
      [] s.state = "IDLE"  -> return(s, TRUE)

cardCommand(s, cmd, arg) ==
    Then([syncDevice(s) EXCEPT !.r = "none"], LAMBDA d : command(d, cmd, arg))

\* What a function does that stands or falls with its command.
commandOr(s, cmd, arg) == Else(cardCommand(s, cmd, arg), failure)
appCommand(s, cmd, arg) == cardCommand(cardCommand(s, 55, 0), cmd, arg)

address(s, sector) == IF s.type = "SDHC" THEN sector ELSE sector * BytesPerSector

-----------------------------------------------------------------------------
(* Start of the card.                                                      *)

\* A response with the bit for an illegal command; none is all ones.
Illegal(r) == r \in {"illegal", "none"}

\* The attempts of begin, each until one is answered as hoped for or the time
\* is out; an attempt that is not takes one unit.
Attempts == SD_INIT_TIMEOUT + 2         \* no more fit into the time
hoped(s, cmd) ==
    CASE cmd = 0 -> s.r = "idle"
      [] cmd = 8 -> Illegal(s.r) \/ s.r = "idle"
      [] cmd = 41 -> s.r = "ready"
once(s, cmd, arg) ==
    cardCommand(IF cmd = 41 THEN cardCommand(s, 55, 0) ELSE s, cmd, arg)
attempt(s, end, cmd, arg) ==
    LET after[k \in 0 .. Attempts] ==
            IF k = 0 THEN once(s, cmd, arg)
            ELSE With(after[k - 1], LAMBDA c :
                IF hoped(c, cmd) \/ timedOut(end, c.now) THEN c
                ELSE once(pass(c, 1), cmd, arg))
    IN  With(after[Attempts], LAMBDA c :
            IF hoped(c, cmd) THEN return(c, TRUE) ELSE error(c))

cardReset(s, end) == attempt(s, end, 0, 0)
crcOn_left(s) == return(s, TRUE)      \* fault: the checksums are not turned on
crcOn(s) ==
    With(cardCommand(s, 59, 1),
         LAMBDA c : IF c.r = "idle" THEN return(c, TRUE) ELSE error(c))
version(s, end) ==
    Then(attempt(s, end, 8, 426),
         LAMBDA c : [c EXCEPT !.type = IF Illegal(c.r) THEN "SD1" ELSE "SD2"])
\* Fault: every card is told that the host takes high capacity.
initialise_alike(s, end) == attempt(s, end, 41, HostCapacity)
initialise(s, end) ==
    attempt(s, end, 41, IF s.type = "SD2" THEN HostCapacity ELSE 0)
capacity(s) ==
    IF s.type # "SD2" THEN s
    ELSE With(cardCommand(s, 58, 0), LAMBDA c :
        IF ~c.ok THEN error(c)
        ELSE [c EXCEPT !.type = IF c.card.type = "SDHC" THEN "SDHC" ELSE "SD2"])

\* begin, of the shared and then of the dedicated class.
begin(s, dedicated) ==
    LET i == [s EXCEPT !.active = FALSE, !.state = "IDLE", !.error = "NONE",
                       !.type = "none", !.began = TRUE]
        end == endOf(s, SD_INIT_TIMEOUT)
    IN  Then(spiStop(Then(Then(Then(Then(cardReset(spiStart(i), end), crcOn),
                                    LAMBDA c : version(c, end)),
                               LAMBDA c : initialise(c, end)), capacity)),
             LAMBDA c : [c EXCEPT !.dedicated = dedicated])

\* end.
finish(s) ==
    IF s.began THEN [syncDevice(s) EXCEPT !.began = FALSE, !.ok = TRUE]
    ELSE return(s, TRUE)

\* Fault: an open transfer is left as it is.
setDedicatedSpi_atOnce(s, value) == [s EXCEPT !.dedicated = value]
setDedicatedSpi(s, value) ==
    Then(syncDevice(s), LAMBDA d : [d EXCEPT !.dedicated = value])

\* isBusy; a transfer from the card is left alone.
isBusy(s) ==
    IF s.state = "READ" THEN return(s, TRUE)
    ELSE LET r == spiStart(s) IN return([r EXCEPT !.active = s.active, !.n = @ + 1], TRUE)

-----------------------------------------------------------------------------
(* Reading.                                                                *)

\* The wait for the start token. Without one to come the time runs out.
waitBlock(s) ==
    wait(s, IF Heard(s) /\ HasBlock(s.card) THEN BusyFor(s, SD_READ_TIMEOUT)
            ELSE SD_READ_TIMEOUT + 2, SD_READ_TIMEOUT)

\* What the card has sent, with the checksum it has.
taken(s, sent) ==
    IF sent.started /\ sent.crc = BlockCrc[sent.block]
    THEN [s EXCEPT !.card = sent.card, !.val = Append(@, sent.block)]
    ELSE error([s EXCEPT !.card = sent.card])

\* readData: the start token, the bytes, the checksum.
readData(s) ==
    [Else(Then(Else(waitBlock(s), error), LAMBDA w : taken(w, BlockFrom(w))), spiStop)
        EXCEPT !.n = @ + 1]

readBlocks(s, ns) ==
    LET after[k \in 0 .. ns] == IF k = 0 THEN s ELSE Then(after[k - 1], readData)
    IN  after[ns]

readStart(s, sector) ==
    Then(commandOr(s, 18, address(s, sector)),
         LAMBDA c : [c EXCEPT !.state = "READ"])

\* readSectors of the dedicated class; readSector is that of one sector.
readSectors(s, sector, ns) ==
    Then(IF s.state # "READ" \/ sector # s.cur
         THEN Then(readStart(s, sector), LAMBDA c : [c EXCEPT !.cur = sector])
         ELSE return(s, TRUE), LAMBDA c :
        Then(readBlocks(c, ns), LAMBDA r :
            With([r EXCEPT !.cur = @ + ns], LAMBDA m :
                IF m.dedicated THEN m ELSE readStop(m))))

\* readRegister, readSCR, readSDS and cardCMD6; readOCR has no block.
readRegister(s, cmd) ==
    [spiStop(Then(Else(IF cmd \in {13, 51} THEN appCommand(s, cmd, 0)
                       ELSE cardCommand(s, cmd, 0), error),
                  LAMBDA c : IF cmd = 58 THEN c ELSE readData(c)))
        EXCEPT !.val = <<>>]

-----------------------------------------------------------------------------
(* Writing.                                                                *)

\* writeData with the token of a single block or of one of many.
writeToken(s, token, block) ==
    With(Given(s, token, block, BlockCrc[block]), LAMBDA g :
        IF g.r = "accepted" THEN return(g, TRUE) ELSE failure(g))

writeData(s, block) ==
    Then(Else(waitReady(s, SD_WRITE_TIMEOUT), failure),
         LAMBDA w : writeToken(w, "multiple", block))

writeBlocks(s, src) ==
    LET after[k \in 0 .. Len(src)] ==
            IF k = 0 THEN s
            ELSE Then(after[k - 1], LAMBDA w : writeData(w, src[k]))
    IN  after[Len(src)]

writeStart(s, sector) ==
    Then(commandOr(s, 25, address(s, sector)),
         LAMBDA c : [c EXCEPT !.state = "WRITE"])

writeSectors(s, sector, src) ==
    Then(IF s.state # "WRITE" \/ s.cur # sector
         THEN Then(writeStart(s, sector), LAMBDA c : [c EXCEPT !.cur = sector])
         ELSE return(s, TRUE), LAMBDA c :
        Then(writeBlocks(c, src), LAMBDA r :
            With([r EXCEPT !.cur = @ + Len(src)], LAMBDA m :
                IF m.dedicated THEN m ELSE writeStop(m))))

\* writeSector of the shared class, with CMD24; the flash is not waited for.
writeSingle(s, sector, block) ==
    Then(commandOr(s, 24, address(s, sector)),
         LAMBDA c : Then(writeToken(c, "start", block), spiStop))

writeSector(s, sector, block) ==
    IF s.dedicated THEN writeSectors(s, sector, <<block>>)
    ELSE writeSingle(s, sector, block)

\* erase: the range, once the card's register has been read.
eraseCommands(s, first, last) ==
    Then(Then(cardCommand(s, 32, address(s, first)),
              LAMBDA c : cardCommand(c, 33, address(c, last))),
         LAMBDA c : cardCommand(c, 38, 0))
erase(s, first, last) ==
    spiStop(Then(readRegister(s, 9), LAMBDA r :
        Else(Then(eraseCommands(r, first, last),
                  LAMBDA e : waitReady(e, SD_ERASE_TIMEOUT)), error)))
=============================================================================
