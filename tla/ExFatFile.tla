------------------------------ MODULE ExFatFile ------------------------------
(***************************************************************************)
(* Files of an exFAT volume (ExFatFile): position, clusters, read and      *)
(* write, and the set of entries that describes a file in its directory.   *)
(*                                                                         *)
(* As in FatFile, the call record holds two file objects: f, the object    *)
(* the call is made on, and d, the directory it works in. A file has two   *)
(* lengths: valid, what has been written, and length, what its clusters    *)
(* were given for.                                                         *)
(***************************************************************************)
EXTENDS ExFatTable

closedFile ==
    [attr |-> "closed", first |-> 0, cur |-> 0, pos |-> 0, valid |-> 0, length |-> 0,
     dirPos |-> [cluster |-> 0, position |-> 0, contiguous |-> FALSE],
     setCount |-> 0, read |-> FALSE, write |-> FALSE, append |-> FALSE,
     dirty |-> FALSE, contiguous |-> FALSE,
     readError |-> FALSE, writeError |-> FALSE]
rootDir == [closedFile EXCEPT !.attr = "root", !.read = TRUE]

isOpen(o) == o.attr # "closed"
isDir(o)  == o.attr \in {"root", "dir"}
firstOf(o) == IF o.attr = "root" THEN RootCluster ELSE o.first

call(vol, file) ==
    [dev |-> vol.dev, cache |-> vol.cache, search |-> vol.search,
     f |-> file, d |-> rootDir, log |-> <<>>, io |-> MaxIo, noise |-> <<>>, ok |-> TRUE,
     eof |-> FALSE, hung |-> FALSE, fg |-> 0, val |-> 0]
volumeOf(v) == [dev |-> v.dev, cache |-> v.cache, search |-> v.search]

-----------------------------------------------------------------------------
(* The set of entries of a file: one for it, one for its clusters, and its *)
(* name in parts.                                                          *)

endEntry ==
    [type |-> "end", used |-> FALSE, attr |-> "", setCount |-> 0, sum |-> <<>>,
     contiguous |-> FALSE, valid |-> 0, length |-> 0, first |-> 0,
     hash |-> "", part |-> ""]
Slot(position) == position % BytesPerSector

\* ExFatPartition::dirSeek: n clusters on from the one of a directory's
\* position, which is left in val.
RECURSIVE dirSeek(_, _, _, _)
dirSeek(v, cluster, contiguous, n) ==
    IF n = 0 THEN [done(v) EXCEPT !.val = cluster]
    ELSE IF contiguous THEN [done(v) EXCEPT !.val = cluster + n]
    ELSE Then(fatGet(v, cluster), LAMBDA g :
        IF g.fg = 1 THEN dirSeek(g, g.val, contiguous, n - 1) ELSE fail(g))

\* ExFatFile::dirCache: the entry number is of the set comes into the buffer.
dirCache(v, k, is, option) ==
    LET p == v[k].dirPos
        n == ((p.position % BytesPerCluster) + is) \div BytesPerCluster
    IN  Then(dirSeek(v, p.cluster, p.contiguous, n), LAMBDA s :
            prepare(s, clusterStartSector(s.val) + sectorOfCluster(p.position + is),
                    option))
SlotOf(v, k, is) == Slot(v[k].dirPos.position + is)
cachedEntry(v, k, is) == v.cache.data[SlotOf(v, k, is)]
putEntry(v, k, is, e) == [v EXCEPT !.cache.data[SlotOf(v, k, is)] = e]

\* exFatDirChecksum of a set skips the checksum itself; the checksum stands
\* for the entries it is made of.
Summed(e) == [e EXCEPT !.sum = <<>>]

\* The entry that syncDir stores over e.
stored(o, e) ==
    CASE e.type = "file"   -> [e EXCEPT !.attr = o.attr]
      [] e.type = "stream" -> [e EXCEPT !.contiguous = o.contiguous, !.valid = o.valid,
                                        !.first = o.first, !.length = o.length]
      [] e.type = "name"   -> e

\* The entries from number is on, whose sum so far is given.
RECURSIVE storeSet(_, _, _, _)
storeSet(v, k, is, sum) ==
    IF is > v[k].setCount THEN [v EXCEPT !.val = sum]
    ELSE Then(dirCache(v, k, is, ForRead), LAMBDA c :
        LET e == stored(c[k], cachedEntry(c, k, is))
            put == [putEntry(c, k, is, e) EXCEPT !.cache.dirty = @ \/ e.type # "name"]
        IN  IF ~cachedEntry(c, k, is).used THEN fail(c)
            ELSE storeSet(put, k, is + 1, Append(sum, Summed(e))))

\* Fault: the checksum stays as it was.
syncDir_keepsSum(v, k) == Then(storeSet(v, k, 0, <<>>), sync)

\* ExFatFile::syncDir: what the object knows goes to its set, then the sum.
syncDir(v, k) ==
    Else(Then(Then(storeSet(v, k, 0, <<>>), LAMBDA w :
                  [dirCache(w, k, 0, ForWrite) EXCEPT !.val = w.val]),
              LAMBDA c : sync(putEntry(c, k, 0,
                             [cachedEntry(c, k, 0) EXCEPT !.sum = c.val]))),
         LAMBDA s : [s EXCEPT ![k].writeError = TRUE])

\* ExFatFile::sync. The set counts as stored before it is known to be.
syncFile(v, k) ==
    IF ~isOpen(v[k]) THEN done(v)
    ELSE IF v[k].dirty THEN syncDir([v EXCEPT ![k].dirty = FALSE], k)
    ELSE Else(sync(v), LAMBDA s : [s EXCEPT ![k].writeError = TRUE])

\* ExFatFile::close.
close(v) == [syncFile(v, "f") EXCEPT !.f = closedFile]

-----------------------------------------------------------------------------
(* Clusters and positions.                                                 *)

\* The table's entries of clusters c to last - 1, each leading to the next.
RECURSIVE chainUp(_, _, _)
chainUp(v, c, last) ==
    IF c = last THEN v
    ELSE Then(fatPut(v, c, c + 1), LAMBDA p : chainUp(p, c + 1, last))

\* A file's clusters get their chain in the table.
chained(v, k) ==
    IF ~v[k].contiguous THEN v
    ELSE chainUp([v EXCEPT ![k].contiguous = FALSE], v[k].first, v[k].cur)
linkLast(v, cluster, new) ==
    Then(fatPut(v, new, EOC), LAMBDA e : fatPut(e, cluster, new))

\* Fault: the clusters so far get no entries in the table.
addCluster_noChain(v, k) ==
    LET o == v[k] IN
    Then(bitmapFind(v, IF o.cur = 0 THEN 0 ELSE o.cur + 1, 1), LAMBDA b :
        LET follows == o.cur = 0 \/ (o.contiguous /\ b.val = o.cur + 1)
        IN  Then(bitmapModify(b, b.val, 1, TRUE), LAMBDA m :
                Then(IF follows THEN m ELSE linkLast(m, o.cur, b.val), LAMBDA a :
                    [a EXCEPT ![k].cur = b.val, ![k].contiguous = follows])))

\* ExFatFile::addCluster: a free cluster, the next one if possible. A file
\* whose clusters no longer follow each other gets its chain in the table.
addCluster(v, k) ==
    LET o == v[k] IN
    Then(bitmapFind(v, IF o.cur = 0 THEN 0 ELSE o.cur + 1, 1), LAMBDA b :
        LET follows == o.cur = 0 \/ (o.contiguous /\ b.val = o.cur + 1)
        IN  Then(bitmapModify(b, b.val, 1, TRUE), LAMBDA m :
                Then(IF follows THEN m
                     ELSE Then(chained(m, k), LAMBDA c : linkLast(c, o.cur, b.val)),
                     LAMBDA a :
                        [a EXCEPT ![k].cur = b.val, ![k].contiguous = follows])))

\* n steps along the chain from m_curCluster.
RECURSIVE follow(_, _, _)
follow(v, k, n) ==
    IF n = 0 THEN v
    ELSE Then(fatGet(v, v[k].cur), LAMBDA g :
        IF g.fg = 0 THEN fail(g)
        ELSE follow([g EXCEPT ![k].cur = g.val], k, n - 1))

\* ExFatFile::seekSet; the cluster is that of the last word before pos.
seekSet(v, k, pos) ==
    LET o == v[k]
        nNew == (pos - 1) \div BytesPerCluster
        nCur == (o.pos - 1) \div BytesPerCluster
        restart == nNew < nCur \/ o.pos = 0
        at(w, cluster) == [done(w) EXCEPT ![k].pos = pos, ![k].cur = cluster]
    IN  IF ~isOpen(o) THEN fail(v)
        ELSE IF pos = o.pos THEN done(v)
        ELSE IF pos = 0 THEN at(v, 0)
        ELSE IF o.attr = "file" /\ pos > o.valid THEN fail(v)
        ELSE IF o.contiguous THEN at(v, o.first + nNew)
        ELSE With(follow(IF restart THEN [v EXCEPT ![k].cur = firstOf(o)] ELSE v,
                         k, IF restart THEN nNew ELSE nNew - nCur),
                  LAMBDA c : IF c.ok THEN at(c, c[k].cur)
                                     ELSE [c EXCEPT ![k].cur = o.cur])

\* At the start of a cluster a read moves on; eof is the end of a directory.
nextToRead(v, k) ==
    LET o == v[k] IN
    IF o.pos % BytesPerCluster # 0 THEN done(v)
    ELSE IF o.pos = 0 THEN [done(v) EXCEPT ![k].cur = firstOf(o)]
    ELSE IF o.contiguous THEN [done(v) EXCEPT ![k].cur = @ + 1]
    ELSE Then(fatGet(v, o.cur), LAMBDA g :
        IF g.fg = 1 THEN [g EXCEPT ![k].cur = g.val]
        ELSE [fail(g) EXCEPT !.eof = isDir(o)])

sectorAt(o) == clusterStartSector(o.cur) + sectorOfCluster(o.pos)

-----------------------------------------------------------------------------
(* Reading and writing.                                                    *)

\* One turn of the loop of read, for at most n words: part of a sector goes
\* through the buffer, whole sectors go around it.
readTurn(v, k, n, out) ==
    Then(nextToRead(v, k), LAMBDA c :
        LET sector == sectorAt(c[k])
            offset == c[k].pos % BytesPerSector
            part == offset # 0 \/ n < BytesPerSector \/ sector = c.cache.sector
            rest == SectorsPerCluster - sectorOfCluster(c[k].pos)
            whole == IF n \div BytesPerSector < rest THEN n \div BytesPerSector ELSE rest
            room == BytesPerSector - offset
            count == IF ~part THEN whole * BytesPerSector
                     ELSE IF room < n THEN room ELSE n
            got == IF part THEN prepare(c, sector, ForRead)
                           ELSE cacheSafeRead(c, sector, whole)
        IN  Then(got, LAMBDA r :
                [r EXCEPT ![k].pos = @ + count,
                          !.val = out \o [i \in 1 .. count |->
                              LET word == offset + i - 1
                              IN  IF part THEN r.cache.data[word]
                                  ELSE r.dev[sector + word \div BytesPerSector]
                                            [word % BytesPerSector]]]))

RECURSIVE readLoop(_, _, _, _)
readLoop(v, k, n, out) ==
    IF n = 0 THEN [v EXCEPT !.val = out]
    ELSE With(readTurn(v, k, n, out), LAMBDA t :
        IF t.eof THEN [done(t) EXCEPT !.val = out]
        ELSE IF ~t.ok THEN [t EXCEPT ![k].readError = TRUE]
        ELSE readLoop(t, k, n - (t[k].pos - v[k].pos), t.val))

\* ExFatFile::read: up to n words, which are left in val. A file, or a
\* directory whose clusters follow each other, ends at its valid length, any
\* other directory with its chain.
read(v, k, n) ==
    LET o == v[k]
        limited == o.contiguous \/ o.attr = "file"
        start == [done(v) EXCEPT !.eof = FALSE]
    IN  IF ~o.read THEN [fail(v) EXCEPT ![k].readError = TRUE]
        ELSE readLoop(start, k, IF limited /\ o.pos + n > o.valid THEN o.valid - o.pos
                                ELSE n, <<>>)

\* The cluster a write goes to when it starts one; what clusters the file
\* has is told by its length, which a write updates only at its end.
nextToWrite(v) ==
    LET o == v.f
        last == o.first + (o.length - 1) \div BytesPerCluster
        \* fg tells whether the cluster is followed by one
        next == CASE o.cur = 0 -> [done(v) EXCEPT !.fg = IF o.first = 0 THEN 0 ELSE 1,
                                                  !.val = o.first]
                  [] o.cur # 0 /\ o.contiguous ->
                        [done(v) EXCEPT !.fg = IF o.cur < last THEN 1 ELSE 0,
                                        !.val = o.cur + 1]
                  [] OTHER -> fatGet(v, o.cur)
    IN  IF o.pos % BytesPerCluster # 0 THEN done(v)
        ELSE Then(next, LAMBDA g :
            IF g.fg = 1 THEN [g EXCEPT !.f.cur = g.val]
            ELSE Then(addCluster(g, "f"), LAMBDA a :
                [a EXCEPT !.f.first = IF @ = 0 THEN a.f.cur ELSE @]))

sectorData(data, i) ==
    [word \in Words |-> data[i * BytesPerSector + word + 1]]

\* Part of a sector goes into the buffer, which is written once it is full; a
\* sector behind what was written needs no reading.
writePart(v, data, offset, n) ==
    LET unread == offset = 0 /\ v.f.pos >= v.f.valid
    IN  Then(prepare(v, sectorAt(v.f), IF unread THEN ReserveForWrite ELSE ForWrite),
             LAMBDA p :
                LET put == [p EXCEPT !.cache.data = [word \in Words |->
                               IF word \in offset .. offset + n - 1
                               THEN data[word - offset + 1] ELSE @[word]]]
                IN  IF offset + n = BytesPerSector THEN sync(put) ELSE put)

\* One turn of the loop of write.
writeTurn(v, data) ==
    Then(nextToWrite(v), LAMBDA c :
        LET n == Len(data)
            offset == c.f.pos % BytesPerSector
            part == offset # 0 \/ n < BytesPerSector
            room == BytesPerSector - offset
            rest == SectorsPerCluster - sectorOfCluster(c.f.pos)
            whole == IF n \div BytesPerSector < rest THEN n \div BytesPerSector ELSE rest
            count == IF ~part THEN whole * BytesPerSector
                     ELSE IF room < n THEN room ELSE n
            written == IF part THEN writePart(c, data, offset, count)
                       ELSE cacheSafeWrite(c, sectorAt(c.f),
                                [i \in 1 .. whole |-> sectorData(data, i - 1)])
        IN  Then(written, LAMBDA w :
                LET pos == c.f.pos + count IN
                [w EXCEPT !.f.pos = pos, !.f.dirty = @ \/ pos > c.f.valid,
                          !.f.valid = IF pos > @ THEN pos ELSE @]))

RECURSIVE writeLoop(_, _)
writeLoop(v, data) ==
    IF data = <<>> THEN v
    ELSE Then(writeTurn(v, data), LAMBDA t :
        writeLoop(t, SubSeq(data, t.f.pos - v.f.pos + 1, Len(data))))

\* ExFatFile::write. After a turn that fails the valid length includes the
\* turns before it, and the length does not.
write(v, data) ==
    LET placed == IF v.f.append THEN seekSet(v, "f", v.f.valid) ELSE done(v)
        w == IF v.f.write THEN Then(placed, LAMBDA p : writeLoop(p, data)) ELSE fail(v)
    IN  Else(Then(w, LAMBDA x : IF x.f.pos <= x.f.length THEN x
                                ELSE [x EXCEPT !.f.length = x.f.pos, !.f.dirty = TRUE]),
             LAMBDA x : [x EXCEPT !.f.writeError = TRUE])

\* The clusters a contiguous file was given, which its length tells. (Length
\* zero gives none: the subtraction and the shift wrap to 2^32 - 1.)
clustersOf(o) == 1 + (o.length - 1) \div BytesPerCluster

\* ExFatFile::truncate, at the current position.
truncate(v) ==
    LET o == v.f
        \* from the start of the file, which then has no cluster
        kept == IF o.cur = 0 THEN [v EXCEPT !.f.first = 0] ELSE v
        from == IF o.cur = 0 THEN o.first ELSE o.cur + 1
        nc == clustersOf(o) - (from - o.first)
        cutRun == IF nc = 0 THEN kept ELSE bitmapModify(kept, from, nc, FALSE)
        next == IF o.cur = 0 THEN [kept EXCEPT !.fg = 1, !.val = o.first]
                ELSE Then(fatGet(v, o.cur), LAMBDA g :
                    IF g.fg = 0 THEN [g EXCEPT !.val = 0] ELSE fatPut(g, o.cur, EOC))
        cutChain == Then(next, LAMBDA p :
                        IF p.val = 0 THEN p ELSE freeChain(p, p.val))
    IN  IF ~o.write THEN fail(v)
        ELSE IF o.first = 0 THEN done(v)
        ELSE Then(IF o.contiguous THEN cutRun ELSE cutChain, LAMBDA w :
            syncFile([w EXCEPT !.f.length = o.pos, !.f.valid = o.pos, !.f.dirty = TRUE],
                     "f"))

\* ExFatFile::preAllocate gives an empty file the clusters of length bytes;
\* none of them is valid.
preAllocate(v, length) ==
    LET need == 1 + (length - 1) \div BytesPerCluster
    IN  IF length = 0 \/ ~v.f.write \/ v.f.first # 0 THEN fail(v)
        ELSE Then(bitmapFind(v, 0, need), LAMBDA b :
            Then(bitmapModify(b, b.val, need, TRUE), LAMBDA m :
                syncFile([m EXCEPT !.f.length = length, !.f.first = b.val,
                                   !.f.dirty = TRUE, !.f.contiguous = TRUE], "f")))
=============================================================================
