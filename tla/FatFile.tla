------------------------------- MODULE FatFile -------------------------------
(***************************************************************************)
(* Files of a FAT32 volume (FatFile): position, clusters, read and write,  *)
(* truncation, and the entry of the directory that sync brings up to date. *)
(*                                                                         *)
(* The call record of FatTable holds two file objects: f, the object the   *)
(* call is made on, and d, the directory it works in. k is "f" or "d" where *)
(* a function is called on either. Positions count words: bytes in a file, *)
(* entries in a directory.                                                 *)
(***************************************************************************)
EXTENDS FatTable

\* An object after memset; attr tells m_attributes apart, and the flags of
\* m_flags are fields of their own.
closedFile ==
    [attr |-> "closed", first |-> 0, cur |-> 0, pos |-> 0, size |-> 0,
     dirCluster |-> 0, dirSector |-> 0, dirIndex |-> 0, lfnOrd |-> 0,
     read |-> FALSE, write |-> FALSE, append |-> FALSE, dirty |-> FALSE,
     contiguous |-> FALSE, preallocate |-> FALSE,
     readError |-> FALSE, writeError |-> FALSE]
rootDir == [closedFile EXCEPT !.attr = "root", !.read = TRUE]

isOpen(o) == o.attr # "closed"
isDir(o)  == o.attr \in {"root", "dir"}
firstOf(o) == IF o.attr = "root" THEN RootCluster ELSE o.first

\* The record of one call, during which the card does what fault says: the
\* access that fails, and what is then left of a read.
call(vol, file, fault) ==
    [dev |-> vol.dev, cache |-> vol.cache, search |-> vol.search,
     f |-> file, d |-> rootDir, log |-> <<>>, ok |-> TRUE,
     io |-> fault.io, noise |-> fault.noise, eof |-> FALSE, full |-> FALSE, fg |-> 0, val |-> 0]
volumeOf(v) == [dev |-> v.dev, cache |-> v.cache, search |-> v.search]

cacheSync(v) == sync(v)

-----------------------------------------------------------------------------
(* Clusters and positions.                                                 *)

\* FatFile::addCluster: the file is contiguous as long as clusters follow
\* each other.
addCluster(v, k) ==
    LET cc == v[k].cur IN
    Then(allocateCluster(v, cc), LAMBDA a :
        [a EXCEPT ![k].cur = a.val,
                  ![k].contiguous = cc = 0 \/ (@ /\ a.val = cc + 1),
                  ![k].dirty = TRUE])

\* n steps along the chain from m_curCluster.
RECURSIVE follow(_, _, _)
follow(v, k, n) ==
    IF n = 0 THEN v
    ELSE Then(fatGet(v, v[k].cur), LAMBDA g :
        IF g.fg = 0 THEN fail(g)
        ELSE follow([g EXCEPT ![k].cur = g.val], k, n - 1))

\* FatFile::seekSet; the cluster is that of the last word before pos.
seekSet(v, k, pos) ==
    LET o == v[k]
        nNew == (pos - 1) \div BytesPerCluster
        nCur == (o.pos - 1) \div BytesPerCluster
        moved(w) == [w EXCEPT ![k].pos = pos, ![k].preallocate = FALSE]
        restart == nNew < nCur \/ o.pos = 0
    IN  IF ~isOpen(o) THEN fail(v)
        ELSE IF pos = o.pos THEN done(v)
        ELSE IF pos = 0 THEN moved([done(v) EXCEPT ![k].cur = 0])
        ELSE IF o.attr = "file" /\ pos > o.size THEN fail(v)
        ELSE IF o.contiguous
        THEN moved([done(v) EXCEPT ![k].cur = o.first + nNew])
        ELSE With(follow(IF restart THEN [v EXCEPT ![k].cur = firstOf(o)] ELSE v,
                         k, IF restart THEN nNew ELSE nNew - nCur), LAMBDA c :
            IF c.ok THEN moved(c) ELSE [c EXCEPT ![k].cur = o.cur])

\* At the start of a cluster a read moves on: to the first one, to the next
\* number of a contiguous file, or along the chain. The end of a directory's
\* chain is its end of file, the end of a file's an error.
nextToRead(v, k) ==
    LET o == v[k] IN
    IF o.pos % BytesPerCluster # 0 THEN done(v)
    ELSE IF o.pos = 0 THEN [done(v) EXCEPT ![k].cur = firstOf(o)]
    ELSE IF o.attr = "file" /\ o.contiguous THEN [done(v) EXCEPT ![k].cur = @ + 1]
    ELSE Then(fatGet(v, o.cur), LAMBDA g :
        IF g.fg = 1 THEN [g EXCEPT ![k].cur = g.val]
        ELSE [fail(g) EXCEPT !.eof = isDir(o)])

sectorAt(o) == clusterStartSector(o.cur) + sectorOfCluster(o.pos)

-----------------------------------------------------------------------------
(* The entry in the directory.                                             *)

freeEntry ==
    [kind |-> "free", sfn |-> <<>>, name |-> "", order |-> 0, last |-> FALSE,
     sum |-> <<>>, first |-> 0, size |-> 0]
isFileOrSubdir(e) == e.kind \in {"file", "dir"}
Slot(index) == index % BytesPerSector

cacheDirEntry(v, option) == prepare(v, v.f.dirSector, option)
cachedEntry(v) == v.cache.data[Slot(v.f.dirIndex)]

\* FatFile::sync: size and first cluster go to the entry if they may have
\* changed, unless another object has deleted it, and the buffer out.
syncFile(v) ==
    IF ~isOpen(v.f) THEN done(v)
    ELSE Else(Then(IF ~v.f.dirty THEN done(v)
                   ELSE Then(cacheDirEntry(v, ForWrite), LAMBDA c :
                       IF cachedEntry(c).kind = "deleted" THEN fail(c)
                       ELSE [c EXCEPT !.f.dirty = FALSE,
                               !.cache.data[Slot(v.f.dirIndex)] =
                                   [@ EXCEPT !.kind = v.f.attr, !.first = v.f.first,
                                        !.size = IF v.f.attr = "file" THEN v.f.size
                                                 ELSE @]]),
                   cacheSync),
              LAMBDA s : [s EXCEPT !.f.writeError = TRUE])

\* FatFile::close.
close(v) == [syncFile(v) EXCEPT !.f = closedFile]

-----------------------------------------------------------------------------
(* Reading and writing a file.                                             *)

\* One turn of the loop of read, for at most n bytes: part of a sector goes
\* through the buffer, whole sectors go around it. What was read is collected
\* in out.
readTurn(v, n, out) ==
    Then(nextToRead(v, "f"), LAMBDA c :
        LET sector == sectorAt(c.f)
            offset == c.f.pos % BytesPerSector
            part == offset # 0 \/ n < BytesPerSector \/ sector = c.cache.sector
            whole == IF n < 2 * BytesPerSector THEN 1
                     ELSE LET rest == SectorsPerCluster - sectorOfCluster(c.f.pos)
                          IN  IF n \div BytesPerSector < rest
                              THEN n \div BytesPerSector ELSE rest
            room == BytesPerSector - offset
            count == IF ~part THEN whole * BytesPerSector
                     ELSE IF room < n THEN room ELSE n
        IN  Then(IF part THEN prepare(c, sector, ForRead)
                 ELSE cacheSafeRead(c, sector, whole), LAMBDA r :
                [r EXCEPT !.f.pos = @ + count,
                          !.val = out \o [i \in 1 .. count |->
                              LET word == offset + i - 1
                              IN  IF part THEN r.cache.data[word]
                                  ELSE r.dev[sector + word \div BytesPerSector]
                                            [word % BytesPerSector]]]))

RECURSIVE readLoop(_, _, _)
readLoop(v, n, out) ==
    IF n = 0 THEN [v EXCEPT !.val = out]
    ELSE Then(readTurn(v, n, out), LAMBDA t :
        readLoop(t, n - (t.f.pos - v.f.pos), t.val))

\* FatFile::read: up to n bytes, and not past the end; they are left in val.
\* What is left is unsigned: behind the end, where a failed write may have
\* left the position, nothing limits n.
read(v, n) ==
    LET left == v.f.size - v.f.pos
    IN  Else(IF ~v.f.read THEN fail(v)
             ELSE readLoop(done(v), IF n < left \/ left < 0 THEN n ELSE left, <<>>),
             LAMBDA r : [r EXCEPT !.f.readError = TRUE])

\* The cluster a write goes to when it starts one: the next of the chain, a
\* new one at its end, or the first, which an empty file has to be given.
nextToWrite(v) ==
    LET o == v.f
    IN  IF o.pos % BytesPerCluster # 0 THEN done(v)
        ELSE IF o.cur = 0 /\ o.first = 0
        THEN Then(addCluster(v, "f"), LAMBDA a : [a EXCEPT !.f.first = a.f.cur])
        ELSE IF o.cur = 0 THEN [done(v) EXCEPT !.f.cur = o.first]
        ELSE IF o.contiguous /\ o.size > o.pos
        THEN [done(v) EXCEPT !.f.cur = @ + 1]
        ELSE Then(fatGet(v, o.cur), LAMBDA g :
            IF g.fg = 0 THEN addCluster(g, "f")
            ELSE [g EXCEPT !.f.cur = g.val])

\* The words of sector number i (from 0) of the data.
sectorData(data, i) ==
    [word \in Words |-> data[i * BytesPerSector + word + 1]]

\* Fault: a part of a sector of the file is not read before it is changed.
partOption_neverRead(o, offset) == ReserveForWrite

\* A sector behind the end of the file needs no reading.
partOption(o, offset) ==
    IF offset = 0 /\ (o.pos >= o.size \/ o.preallocate) THEN ReserveForWrite
                                                        ELSE ForWrite

\* Part of a sector goes into the buffer, which is written once it is full.
writePart(v, data, offset, n) ==
    Then(prepare(v, sectorAt(v.f), partOption(v.f, offset)), LAMBDA p :
        LET put == [p EXCEPT !.cache.data = [word \in Words |->
                       IF word \in offset .. offset + n - 1
                       THEN data[word - offset + 1] ELSE @[word]]]
        IN  IF offset + n = BytesPerSector THEN sync(put) ELSE put)

\* One turn of the loop of write.
writeTurn(v, data) ==
    Then(nextToWrite(v), LAMBDA c :
        LET n == Len(data)
            offset == c.f.pos % BytesPerSector
            part == offset # 0 \/ n < BytesPerSector
            room == BytesPerSector - offset
            rest == SectorsPerCluster - sectorOfCluster(c.f.pos)
            whole == IF n < 2 * BytesPerSector THEN 1
                     ELSE IF n \div BytesPerSector < rest
                     THEN n \div BytesPerSector ELSE rest
            count == IF ~part THEN whole * BytesPerSector
                     ELSE IF room < n THEN room ELSE n
        IN  Then(IF part THEN writePart(c, data, offset, count)
                 ELSE cacheSafeWrite(c, sectorAt(c.f),
                          [i \in 1 .. whole |-> sectorData(data, i - 1)]),
                 LAMBDA w : [w EXCEPT !.f.pos = @ + count]))

RECURSIVE writeLoop(_, _)
writeLoop(v, data) ==
    IF data = <<>> THEN v
    ELSE Then(writeTurn(v, data), LAMBDA t :
        writeLoop(t, SubSeq(data, t.f.pos - v.f.pos + 1, Len(data))))

\* FatFile::write. A turn that fails leaves the position behind the turns
\* before it, and the size as it was.
write(v, data) ==
    LET o == v.f
        grown(w) == IF w.f.pos > w.f.size
                    THEN [w EXCEPT !.f.size = w.f.pos, !.f.dirty = TRUE] ELSE w
    IN  Else(IF ~o.write THEN fail(v)
             ELSE Then(Then(IF o.append THEN seekSet(v, "f", o.size) ELSE done(v),
                            LAMBDA p : writeLoop(p, data)), grown),
             LAMBDA w : [w EXCEPT !.f.writeError = TRUE])

\* Fault: the rest of the chain is freed and its head still leads to it.
truncate_keepsLink(v) ==
    Then(With(fatGet(v, v.f.cur), LAMBDA g :
             IF g.fg = 1 THEN freeChain(g, g.val) ELSE g), LAMBDA w :
        syncFile([w EXCEPT !.f.size = w.f.pos, !.f.dirty = TRUE]))

\* FatFile::truncate, at the current position.
truncate(v) ==
    IF ~v.f.write THEN fail(v)
    ELSE IF v.f.first = 0 THEN done(v)
    ELSE Then(IF v.f.cur = 0 THEN freeChain([v EXCEPT !.f.first = 0], v.f.first)
              ELSE Then(fatGet(v, v.f.cur), LAMBDA g :
                  IF g.fg = 0 THEN g
                  ELSE Then(fatPutEOC(g, v.f.cur), LAMBDA p :
                      IF g.val = 0 THEN p ELSE freeChain(p, g.val))), LAMBDA w :
        syncFile([w EXCEPT !.f.size = w.f.pos, !.f.dirty = TRUE]))

\* FatFile::preAllocate: length bytes of consecutive clusters for an empty
\* file.
preAllocate(v, length) ==
    IF length = 0 \/ ~v.f.write \/ v.f.first # 0 THEN fail(v)
    ELSE Then(allocContiguous(v, 1 + (length - 1) \div BytesPerCluster), LAMBDA a :
        syncFile([a EXCEPT !.f.first = a.val, !.f.size = length,
                           !.f.preallocate = TRUE, !.f.contiguous = TRUE,
                           !.f.dirty = TRUE]))

\* FatFile::contiguousRange marks a file whose clusters follow each other.
RECURSIVE contiguousFrom(_, _)
contiguousFrom(v, c) ==
    Then(fatGet(v, c), LAMBDA g :
        IF g.fg = 0 THEN [g EXCEPT !.f.contiguous = TRUE]
        ELSE IF g.val = c + 1 THEN contiguousFrom(g, c + 1) ELSE fail(g))
contiguousRange(v) ==
    IF v.f.attr # "file" \/ v.f.first = 0 THEN fail(v)
    ELSE contiguousFrom(v, v.f.first)
=============================================================================
