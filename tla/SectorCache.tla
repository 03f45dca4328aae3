----------------------------- MODULE SectorCache -----------------------------
(***************************************************************************)
(* The sector cache of the file system (FsCache) over a block device.      *)
(*                                                                         *)
(* A call of the library runs to its end before anything else happens, so  *)
(* every function is an operator from one call record v to the next. Of    *)
(* the fields, this module uses                                            *)
(*   dev    the sectors of the device, as written so far                   *)
(*   log    the sectors this call has written, in order: a loss of power   *)
(*          leaves a prefix of them on the device                          *)
(*   io     device accesses left before one that fails                     *)
(*   noise  what a read that fails leaves in the buffer: for the sectors    *)
(*          whose bytes it has replaced by then, what stands there          *)
(*   cache  sector, dirty, mirror (the two status bits) and data           *)
(*   ok     whether the function returned success                          *)
(* A sector is a function from word offsets to words; a write of a sector  *)
(* happens entirely or not at all.                                         *)
(***************************************************************************)
EXTENDS Integers, Sequences

CONSTANTS BytesPerSector,   \* words in a sector
          SectorsPerFat     \* m_mirrorOffset: the copy of the FAT lies behind

ASSUME SectorAssumption ==
    BytesPerSector \in Nat \ {0} /\ SectorsPerFat \in Nat \ {0}

NoSector == -1
Words == 0 .. BytesPerSector - 1

\* goto fail, return true, and the statements after a call: those if it
\* succeeds, if it fails, and always.
fail(v) == [v EXCEPT !.ok = FALSE]
done(v) == [v EXCEPT !.ok = TRUE]
Then(v, Rest(_)) == IF v.ok THEN Rest(v) ELSE v
Else(v, Rest(_)) == IF v.ok THEN v ELSE Rest(v)
With(v, Rest(_)) == Rest(v)

\* One access of the device: the one at zero fails, and one of a sector that
\* it does not have.
access(v, sector) ==
    [v EXCEPT !.io = @ - 1, !.ok = v.io # 0 /\ sector \in DOMAIN v.dev]

writeSector(v, sector, data) ==
    Then(access(v, sector), LAMBDA a :
        [a EXCEPT !.dev[sector] = data,
                  !.log = Append(@, [sector |-> sector, data |-> data])])

emptyCache(data) ==
    [sector |-> NoSector, dirty |-> FALSE, mirror |-> FALSE, data |-> data]

\* FsCache::invalidate forgets which sector the buffer holds.
invalidate(v) == [v EXCEPT !.cache = emptyCache(@.data)]

\* FsCache::sync: the buffer goes to its sector and, for a sector of the
\* FAT, to the copy; it stays dirty if either fails.
sync(v) ==
    IF ~v.cache.dirty THEN done(v)
    ELSE Then(Then(writeSector(v, v.cache.sector, v.cache.data), LAMBDA w :
                  IF v.cache.mirror
                  THEN writeSector(w, v.cache.sector + SectorsPerFat, v.cache.data)
                  ELSE w),
              LAMBDA w : [w EXCEPT !.cache.dirty = FALSE])

\* Options of prepare.
ForRead == [write |-> FALSE, noRead |-> FALSE, mirror |-> FALSE]
ForWrite == [ForRead EXCEPT !.write = TRUE]
ReserveForWrite == [ForWrite EXCEPT !.noRead = TRUE]
OfFat(option) == [option EXCEPT !.mirror = TRUE]

\* A sector read into the buffer. The card driver fills it before it knows
\* whether the block is good, so that a read that fails leaves it as it was
\* (nothing came) or damaged, under the number of the old sector.
readSector(v, sector) ==
    With(access(v, sector), LAMBDA r :
        IF r.ok THEN [r EXCEPT !.cache.data = r.dev[sector]]
        ELSE IF r.cache.sector \in DOMAIN r.noise
             THEN [r EXCEPT !.cache.data = r.noise[r.cache.sector]]
        ELSE r)

\* Another sector takes the buffer, once the old one has been written.
load(v, sector, option) ==
    Then(sync(v), LAMBDA s :
        Then(IF option.noRead THEN s ELSE readSector(s, sector), LAMBDA r :
            [r EXCEPT !.cache = [emptyCache(@.data) EXCEPT !.sector = sector]]))

\* FsCache::prepare. It takes the sector whose number the buffer has for the
\* one it holds, be it damaged.
prepare(v, sector, option) ==
    Then(IF v.cache.sector = sector THEN done(v) ELSE load(v, sector, option),
         LAMBDA p : [p EXCEPT !.cache.dirty = @ \/ option.write,
                              !.cache.mirror = @ \/ option.mirror])

isCached(v, sector, count) ==
    sector <= v.cache.sector /\ v.cache.sector < sector + count

\* Fault: what the buffer has of the sectors is not written before.
cacheSafeRead_noSync(v, sector, count) == access(v, sector + count - 1)

\* FsCache::cacheSafeRead around the buffer; a sector that it holds is written
\* before. (A read of the very sector it holds is made through the buffer.)
cacheSafeRead(v, sector, count) ==
    Then(IF isCached(v, sector, count) THEN sync(v) ELSE done(v),
         LAMBDA s : access(s, sector + count - 1))

writeSectors(v, sector, datas) ==
    LET after[k \in 0 .. Len(datas)] ==
            IF k = 0 THEN v
            ELSE Then(after[k - 1], LAMBDA w :
                     writeSector(w, sector + k - 1, datas[k]))
    IN  after[Len(datas)]

\* Fault: the buffer keeps what it has of the sectors written.
cacheSafeWrite_keepsBuffer(v, sector, datas) == writeSectors(v, sector, datas)

\* FsCache::cacheSafeWrite writes around the buffer and drops it first, dirty
\* or not, when it holds one of the sectors.
cacheSafeWrite(v, sector, datas) ==
    writeSectors(IF isCached(v, sector, Len(datas)) THEN invalidate(v) ELSE v,
                 sector, datas)

\* What the buffer holds is on the device, unless it has to be written: what
\* a call relies on, and a failed read can end.
BufferClean(v) ==
    v.cache.sector # NoSector /\ v.cache.dirty = FALSE =>
        v.cache.data = v.dev[v.cache.sector]

\* The sectors as the library sees them, and as a loss of power leaves them
\* when n of the call's writes have been done.
Seen(v) == IF v.cache.dirty THEN [v.dev EXCEPT ![v.cache.sector] = v.cache.data]
                            ELSE v.dev
WrittenUpTo(dev, log, n) ==
    LET written[k \in 0 .. n] ==
            IF k = 0 THEN dev
            ELSE [written[k - 1] EXCEPT ![log[k].sector] = log[k].data]
    IN  written[n]
=============================================================================
