---------------------------- MODULE FatDirectory ----------------------------
(***************************************************************************)
(* Directories of a FAT32 volume (the rest of FatFile, with long names):   *)
(* finding, creating, removing and moving entries. A name is an element of *)
(* DOMAIN NameOrd: NameOrd[n] is the number of long name entries it needs, *)
(* zero for a short name, and Short[n] the short name made of it, which    *)
(* several long ones may share. An entry's short name is the pair of that  *)
(* and a number, zero unless the first choice was taken; it stands for the *)
(* checksum too.                                                           *)
(***************************************************************************)
EXTENDS FatFile

CONSTANTS NameOrd, Short

Names == DOMAIN NameOrd
LostChars(n) == NameOrd[n] > 0
entriesNeeded(n) == 1 + NameOrd[n]

\* Flags of open: mode is "r", "w" or "rw".
ReadOnly == [mode |-> "r", create |-> FALSE, excl |-> FALSE, trunc |-> FALSE,
             atEnd |-> FALSE, append |-> FALSE]
CreateNew == [ReadOnly EXCEPT !.mode = "rw", !.create = TRUE, !.excl = TRUE]

-----------------------------------------------------------------------------
(* Walking through the directory d.                                        *)

\* FatFile::readDirCache: the sector of the next entry comes into the buffer.
\* At the end of the directory eof is set. With skip, entries after the
\* first of a sector are taken from the buffer as it is.
readDirCache(v, skip) ==
    LET o == [v EXCEPT !.eof = FALSE]
    IN  With(IF skip /\ v.d.pos % BytesPerSector # 0 THEN done(o)
             ELSE Then(nextToRead(o, "d"), LAMBDA c :
                      prepare(c, sectorAt(c.d), ForRead)), LAMBDA g :
            IF g.ok THEN [g EXCEPT !.d.pos = @ + 1]
            ELSE [g EXCEPT !.d.readError = @ \/ ~g.eof])

\* The entry last read.
entryRead(v) == v.cache.data[Slot(v.d.pos - 1)]

\* FatFile::cacheDir.
cacheDir(v, index) ==
    Then(seekSet(v, "d", index), LAMBDA s : readDirCache(s, FALSE))

\* Zeroes count sectors in the buffer, one after the other.
RECURSIVE zeroSectors(_, _, _)
zeroSectors(v, sector, count) ==
    IF count = 0 THEN v
    ELSE Then(prepare(v, sector, ReserveForWrite), LAMBDA p :
        zeroSectors([p EXCEPT !.cache.data = [word \in Words |-> freeEntry]],
                    sector + 1, count - 1))

\* FatFile::addDirCluster: the directory grows by a cluster of free entries.
addDirCluster(v, k) ==
    Then(addCluster(v, k), LAMBDA a :
        Then(zeroSectors(a, clusterStartSector(a[k].cur), SectorsPerCluster),
             LAMBDA z : [z EXCEPT ![k].pos = @ + BytesPerCluster]))

-----------------------------------------------------------------------------
(* Opening.                                                                *)

\* FatFile::openCachedEntry: the object of the entry at index of d, which is
\* in the buffer. With trunc the clusters go before the entry is changed.
openCachedEntry(v, index, flags, ord) ==
    LET e == v.cache.data[Slot(index)]
        w == flags.mode # "r"
        o == [closedFile EXCEPT
                 !.attr = e.kind, !.dirCluster = v.d.first, !.dirIndex = index,
                 !.dirSector = v.cache.sector, !.lfnOrd = ord,
                 !.read = flags.mode # "w", !.write = w, !.append = flags.append]
        opened == [v EXCEPT !.f = IF flags.trunc THEN [o EXCEPT !.dirty = TRUE]
                       ELSE [o EXCEPT !.first = e.first, !.size = e.size]]
    IN  IF ~isFileOrSubdir(e) \/ (w /\ e.kind = "dir") \/ (flags.trunc /\ ~w)
        THEN fail(v)
        ELSE Else(Then(IF flags.trunc /\ e.first # 0 THEN freeChain(opened, e.first)
                       ELSE done(opened), LAMBDA s :
                      IF flags.atEnd THEN seekSet(s, "f", s.f.size) ELSE s),
                  LAMBDA s : [s EXCEPT !.f = closedFile])

\* What the search of open remembers from entry to entry: the long name it
\* is in (how many entries, which comes next, of what short name), the free
\* entries found in a row, and whether the short name is taken.
SearchStart ==
    [ord |-> 0, order |-> 0, sum |-> <<>>,
     freeFound |-> 0, freeIndex |-> 0, taken |-> FALSE]

\* Free entries in a row count until there are enough.
countFree(a, e, index, need) ==
    IF e.kind \in {"free", "deleted"}
    THEN [a EXCEPT !.freeIndex = IF a.freeFound = 0 THEN index ELSE @,
                   !.freeFound = IF @ < need THEN @ + 1 ELSE @]
    ELSE IF a.freeFound < need THEN [a EXCEPT !.freeFound = 0] ELSE a

\* FatFile::cmpName: whether the long name before index is name, part by
\* part; one that cannot be read is not. d stays where it was.
RECURSIVE cmpName(_, _, _, _)
cmpName(v, index, name, order) ==
    IF order > NameOrd[name] THEN [v |-> v, same |-> TRUE]
    ELSE With([cacheDir(v, index - order) EXCEPT !.d = v.d], LAMBDA c :
        IF ~c.ok \/ c.cache.data[Slot(index - order)].name # name
        THEN [v |-> done(c), same |-> FALSE]
        ELSE cmpName(c, index, name, order + 1))

\* An entry of a long name: the first of one that is as long as name, or the
\* next of the one the search is in.
inLongName(a, e, name) ==
    IF a.ord = 0
    THEN IF e.order = NameOrd[name] /\ e.last
         THEN [a EXCEPT !.ord = NameOrd[name], !.order = e.order, !.sum = e.sum]
         ELSE [a EXCEPT !.order = e.order]
    ELSE IF e.order = a.order - 1 /\ ~e.last /\ e.sum = a.sum
    THEN [a EXCEPT !.order = @ - 1]
    ELSE [a EXCEPT !.ord = 0, !.order = @ - 1]

\* The search. found tells how it ended: "entry", at position pos - 1 of d,
\* "none", or "error".
RECURSIVE search(_, _, _)
search(v, name, a) ==
    With(readDirCache(v, FALSE), LAMBDA r :
        LET e == entryRead(r)
            c == countFree(a, e, v.d.pos, entriesNeeded(name))
            l == inLongName(c, e, name)
            end(found) == [v |-> r, a |-> c, found |-> found]
        IN  IF ~r.ok
            THEN [v |-> done(r), a |-> a,
                  found |-> IF r.d.readError THEN "error" ELSE "none"]
            ELSE CASE e.kind = "free" -> end("none")
                   [] e.kind \in {"deleted", "dot"} ->
                        search(r, name, [c EXCEPT !.ord = 0])
                   [] e.kind = "lfn" ->
                        IF l.ord = 0 \/ l.order # 1 THEN search(r, name, l)
                        ELSE With(cmpName(r, v.d.pos + 1, name, 1), LAMBDA cmp :
                            search(cmp.v, name,
                                   IF cmp.same THEN l ELSE [l EXCEPT !.ord = 0]))
                   [] isFileOrSubdir(e) /\ a.ord # 0 ->
                        end(IF a.order = 1 /\ e.sfn = a.sum THEN "entry" ELSE "error")
                   [] isFileOrSubdir(e) /\ a.ord = 0 ->
                        IF e.sfn # <<Short[name], 0>> THEN search(r, name, c)
                        ELSE IF ~LostChars(name) THEN end("entry")
                        ELSE search(r, name, [c EXCEPT !.taken = TRUE]))

\* The entries behind the end of the search, until there are enough or the
\* directory ends.
RECURSIVE moreFree(_, _, _)
moreFree(v, freeFound, need) ==
    IF freeFound >= need THEN [v |-> v, freeFound |-> freeFound]
    ELSE With(readDirCache(v, FALSE), LAMBDA r :
        IF r.ok THEN moreFree(r, freeFound + 1, need)
        ELSE [v |-> [r EXCEPT !.ok = ~r.d.readError], freeFound |-> freeFound])

RECURSIVE growDir(_, _, _)
growDir(v, freeTotal, need) ==
    IF freeTotal >= need THEN v
    ELSE Then(addDirCluster(v, "d"), LAMBDA g :
        growDir(g, freeTotal + BytesPerCluster, need))

\* The number a short name gets, first being taken: one that no entry has.
\* (The code derives it from the clock and tries until it is unused.)
RECURSIVE shortNames(_, _)
shortNames(v, names) ==
    With(readDirCache(v, TRUE), LAMBDA r :
        IF ~r.ok \/ entryRead(r).kind = "free"
        THEN [r EXCEPT !.ok = ~r.d.readError, !.val = names]
        ELSE shortNames(r, IF isFileOrSubdir(entryRead(r))
                           THEN names \cup {entryRead(r).sfn} ELSE names))
makeUniqueSfn(v, name) ==
    Then(seekSet(v, "d", 0), LAMBDA s :
        Then(shortNames(s, {}), LAMBDA u :
            [u EXCEPT !.val = CHOOSE i \in 1 .. 98 :
                /\ <<Short[name], i>> \notin u.val
                /\ \A j \in 1 .. i - 1 : <<Short[name], j>> \in u.val]))

\* Changes the entry of the directory that is in the buffer at index.
putEntry(v, index, e) ==
    [v EXCEPT !.cache.data[Slot(index)] = e, !.cache.dirty = TRUE]

\* Fault: the last entry of the long name is not marked.
RECURSIVE createLFN_unmarked(_, _, _, _, _)
createLFN_unmarked(v, index, name, sfn, order) ==
    IF order > NameOrd[name] THEN v
    ELSE Then(cacheDir(v, index - order), LAMBDA c :
        createLFN_unmarked(putEntry(c, index - order,
            [freeEntry EXCEPT !.kind = "lfn", !.order = order, !.sum = sfn,
                              !.name = name]),
            index, name, sfn, order + 1))

\* FatFile::createLFN: the entries of the long name, backwards from the
\* short one's at index.
RECURSIVE createLFN(_, _, _, _, _)
createLFN(v, index, name, sfn, order) ==
    IF order > NameOrd[name] THEN v
    ELSE Then(cacheDir(v, index - order), LAMBDA c :
        createLFN(putEntry(c, index - order,
                      [freeEntry EXCEPT !.kind = "lfn", !.order = order,
                           !.last = order = NameOrd[name], !.sum = sfn,
                           !.name = name]),
                  index, name, sfn, order + 1))

\* The part of open that makes a new entry, of an empty file.
createEntry(s, name, flags) ==
    LET need == entriesNeeded(name)
        index == (IF s.a.freeFound = 0 THEN s.v.d.pos ELSE s.a.freeIndex) + need - 1
        room == With(moreFree(s.v, s.a.freeFound, need), LAMBDA more :
                    Then(more.v, LAMBDA m : growDir(m, more.freeFound, need)))
    IN  Then(Then(room, LAMBDA g :
            IF s.a.taken THEN makeUniqueSfn(g, name) ELSE [g EXCEPT !.val = 0]), LAMBDA u :
        Then([createLFN(u, index, name, <<Short[name], u.val>>, 1) EXCEPT !.d = u.d],
             LAMBDA l : Then(cacheDir(l, index), LAMBDA c :
            openCachedEntry(putEntry(c, index,
                [freeEntry EXCEPT !.kind = "file", !.sfn = <<Short[name], u.val>>,
                                  !.name = name]),
                index, flags, need - 1))))

\* FatFile::open of one name in the directory d.
openName(v, name, flags) ==
    IF isOpen(v.f) \/ ~isDir(v.d) THEN fail(v)
    ELSE With(search([v EXCEPT !.d.pos = 0, !.d.cur = 0], name, SearchStart), LAMBDA s :
        CASE s.found = "entry" /\ ~flags.excl ->
               openCachedEntry(s.v, s.v.d.pos - 1, flags,
                               IF s.a.ord = 0 THEN 0 ELSE entriesNeeded(name) - 1)
          [] s.found = "none" /\ flags.create /\ flags.mode # "r" ->
               createEntry(s, name, flags)
          [] OTHER -> fail(s.v))

\* FatFile::open of a path, from the root: every name but the last opens the
\* directory the next is looked for in.
RECURSIVE openPath(_, _, _)
openPath(v, path, flags) ==
    IF Len(path) = 1 THEN openName(v, path[1], flags)
    ELSE Then(openName(v, path[1], ReadOnly), LAMBDA p :
        IF ~isDir(p.f) THEN fail([p EXCEPT !.f = closedFile])
        ELSE openPath([close(p) EXCEPT !.d = p.f, !.ok = TRUE], Tail(path), flags))

\* FatFile::openNext: the next file or directory of d, with the number of its
\* long name's entries.
RECURSIVE openNext(_, _, _)
openNext(v, ord, sum) ==
    With(readDirCache(v, FALSE), LAMBDA r :
        LET e == entryRead(r)
        IN  IF ~r.ok \/ e.kind = "free" THEN fail(r)
            ELSE CASE e.kind \in {"deleted", "dot"} -> openNext(r, 0, sum)
                   [] e.kind = "lfn" ->
                        IF e.last THEN openNext(r, e.order, e.sum)
                                  ELSE openNext(r, ord, sum)
                   [] isFileOrSubdir(e) ->
                        IF ord # 0 /\ sum # e.sfn THEN fail(r)
                        ELSE openCachedEntry(r, v.d.pos, ReadOnly, ord))

\* FatFile::getName: the long name, whose first part is next to the entry, or
\* the short one. It is left in val.
getName(v) ==
    LET dir == IF v.f.dirCluster = 0 THEN rootDir
               ELSE [rootDir EXCEPT !.attr = "dir", !.first = v.f.dirCluster]
    IN  IF v.f.lfnOrd = 0
        THEN Then(cacheDirEntry(v, ForRead), LAMBDA c :
                 [c EXCEPT !.val = cachedEntry(c).name])
        ELSE Then(cacheDir([v EXCEPT !.d = dir], v.f.dirIndex - 1), LAMBDA c :
                 IF entryRead(c).kind = "lfn" /\ entryRead(c).order = 1
                 THEN [c EXCEPT !.val = entryRead(c).name, !.d = v.d]
                 ELSE fail(c))

\* SdFat_Store::_ls: the names of a directory, in order, until openNext finds
\* no more.
RECURSIVE listFrom(_, _)
listFrom(v, names) ==
    With(openNext([v EXCEPT !.f = closedFile], 0, <<>>), LAMBDA child :
        IF ~child.ok THEN [done(child) EXCEPT !.val = names]
        ELSE With(getName(child), LAMBDA n : listFrom(n, Append(names, n.val))))

-----------------------------------------------------------------------------
(* Removing, making and moving.                                            *)

\* FatFile::openCluster: the directory that an object's entry is in.
openCluster(o) ==
    IF o.dirCluster = 0 THEN rootDir
    ELSE [closedFile EXCEPT !.attr = "dir", !.read = TRUE, !.first = o.dirCluster]

\* Fault: the long name of a removed entry stays.
removeLFN_none(v, index, ord, sum, order) == done(v)

\* The long name of the removed entry at index, backwards, until its last
\* one; an entry that is not one of it is an error.
RECURSIVE removeLFN(_, _, _, _, _)
removeLFN(v, index, ord, sum, order) ==
    IF order > ord THEN fail(v)
    ELSE Then(cacheDir(v, index - order), LAMBDA c :
        LET e == entryRead(c)
            gone == putEntry(c, index - order, [e EXCEPT !.kind = "deleted"])
        IN  IF e.kind # "lfn" \/ e.order # order \/ e.sum # sum THEN fail(c)
            ELSE IF e.last THEN cacheSync(gone)
            ELSE removeLFN(gone, index, ord, sum, order + 1))

\* Fault: the entry goes, and its clusters stay.
remove_keepsChain(v) ==
    Then(cacheDirEntry(v, ForWrite), LAMBDA c :
        cacheSync([c EXCEPT !.f = closedFile,
                      !.cache.data[Slot(v.f.dirIndex)] =
                          [@ EXCEPT !.kind = "deleted"]]))

\* FatFile::remove: first the clusters are freed, then the entry is marked,
\* then its long name.
remove(v) ==
    LET o == v.f
        freed == IF o.first = 0 THEN done(v) ELSE freeChain(v, o.first)
        mark(c) == [cacheSync([c EXCEPT !.f = closedFile,
                                 !.cache.data[Slot(o.dirIndex)] =
                                     [@ EXCEPT !.kind = "deleted"]])
                       EXCEPT !.val = cachedEntry(c).sfn]
    IN  IF ~o.write THEN fail(v)
        ELSE Then(Then(Then(freed, LAMBDA r : cacheDirEntry(r, ForWrite)), mark), LAMBDA m :
            IF o.lfnOrd = 0 THEN m
            ELSE removeLFN([m EXCEPT !.d = openCluster(o)],
                           o.dirIndex, o.lfnOrd, m.val, 1))

\* Fault: the directory is not looked through.
isEmpty_unchecked(v) == done(v)

\* FatFile::rmdir: an empty directory is removed like a file.
RECURSIVE isEmpty(_)
isEmpty(v) ==
    With(readDirCache(v, TRUE), LAMBDA r :
        IF ~r.ok \/ entryRead(r).kind = "free" THEN [r EXCEPT !.ok = ~r.d.readError]
        ELSE IF isFileOrSubdir(entryRead(r)) THEN fail(r)
        ELSE isEmpty(r))
rmdir(v) ==
    IF v.f.attr # "dir" THEN fail(v)
    ELSE Then(isEmpty([v EXCEPT !.d = [v.f EXCEPT !.pos = 0, !.cur = 0]]), LAMBDA e :
        remove([e EXCEPT !.f.attr = "file", !.f.write = TRUE]))

dotEntry(first) == [freeEntry EXCEPT !.kind = "dot", !.first = first]

\* FatFile::mkdir in the directory d: a new file becomes a directory whose
\* first cluster holds the entries of itself and of its parent.
mkdir(v, name) ==
    LET stored == Then(Then(openName(v, name, CreateNew), LAMBDA o :
            addDirCluster([o EXCEPT !.f.attr = "dir", !.f.write = FALSE], "f")), LAMBDA m :
                syncFile([m EXCEPT !.f.first = m.f.cur, !.f.pos = 0, !.f.cur = 0]))
    IN  Then(Then(Then(stored, LAMBDA s : cacheDirEntry(s, ForWrite)), LAMBDA c :
                 prepare([c EXCEPT !.cache.data[Slot(c.f.dirIndex)] =
                              [@ EXCEPT !.kind = "dir"]],
                         clusterStartSector(c.f.first), ForWrite)),
             LAMBDA c : cacheSync(putEntry(putEntry(c, 0, dotEntry(c.f.first)),
                                           1, dotEntry(v.d.first))))

\* What is removed: an entry without clusters.
oldEntry(o) == [o EXCEPT !.first = 0, !.write = TRUE, !.dirty = FALSE, !.attr = "file"]

\* FatFile::rename of an open file to another name in the directory d. The
\* new entry gets the old one's clusters before the old one is removed.
rename(v, name) ==
    IF v.f.attr # "file" THEN fail(v)
    ELSE With(cacheDirEntry(done(syncFile(v)), ForRead), LAMBDA s :
        With(Then(s, LAMBDA o :
                 openName([o EXCEPT !.f = closedFile, !.d = v.d], name,
                          [CreateNew EXCEPT !.mode = "w"])), LAMBDA new :
            LET this == [s.f EXCEPT !.dirSector = new.f.dirSector,
                            !.dirIndex = new.f.dirIndex, !.lfnOrd = new.f.lfnOrd,
                            !.dirCluster = new.f.dirCluster]
                entry == cachedEntry(s)
                move(c) == [c EXCEPT !.cache.data[Slot(this.dirIndex)] =
                               [@ EXCEPT !.kind = entry.kind, !.first = entry.first,
                                         !.size = entry.size]]
            IN  IF ~new.ok THEN [new EXCEPT !.f = s.f]
                ELSE [Then(Then(Then(cacheDirEntry([new EXCEPT !.f = this], ForWrite), move),
                                LAMBDA m : remove([m EXCEPT !.f = oldEntry(s.f)])),
                           cacheSync) EXCEPT !.f = this]))
=============================================================================
