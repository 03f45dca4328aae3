--------------------------- MODULE ExFatDirectory ---------------------------
(***************************************************************************)
(* Directories of an exFAT volume (openPrivate, mkdir, rename, remove and  *)
(* rmdir of ExFatFile). Parts[n] is the name n, cut into what one entry    *)
(* holds of it, and Hash[n] stands for its length and hash, which several  *)
(* names may share.                                                        *)
(***************************************************************************)
EXTENDS ExFatFile

CONSTANTS Parts, Hash

NoName == "openNext"        \* the null pointer that openNext hands over

\* Flags of open: mode is "r", "w" or "rw".
ReadOnly == [mode |-> "r", create |-> FALSE, excl |-> FALSE, trunc |-> FALSE,
             atEnd |-> FALSE, append |-> FALSE]
CreateNew == [ReadOnly EXCEPT !.mode = "rw", !.create = TRUE, !.excl = TRUE]

entriesNeeded(name) == IF name = NoName THEN 3 ELSE 2 + Len(Parts[name])

Modes(o, flags) == [o EXCEPT !.read = flags.mode # "w", !.write = flags.mode # "r",
                             !.append = flags.append]

-----------------------------------------------------------------------------
(* Growing a directory.                                                    *)

RECURSIVE zeroSectors(_, _, _)
zeroSectors(v, sector, count) ==
    IF count = 0 THEN v
    ELSE Then(prepare(v, sector, ReserveForWrite), LAMBDA p :
        zeroSectors([p EXCEPT !.cache.data = [word \in Words |-> endEntry]],
                    sector + 1, count - 1))

\* ExFatFile::addDirCluster; the root has no entry to be brought up to date.
addDirCluster(v, k) ==
    LET isRoot == v[k].attr = "root"
        sized == IF isRoot THEN chainSize(v, RootCluster) ELSE v
    IN  Then(addCluster(sized, k), LAMBDA a :
            Then(zeroSectors(a, clusterStartSector(a[k].cur), SectorsPerCluster), LAMBDA z :
                syncFile(IF isRoot THEN z
                         ELSE [z EXCEPT ![k].dirty = TRUE,
                                        ![k].length = @ + BytesPerCluster,
                                        ![k].valid = @ + BytesPerCluster], k)))

-----------------------------------------------------------------------------
(* Opening.                                                                *)

\* What the loop of openPrivate remembers: unused entries in a row and the
\* first of them, whether it is in the set of a file, the object made of it,
\* and the parts of the name that were the same.
SearchStart == [freeCount |-> 0, freePos |-> closedFile.dirPos, inSet |-> FALSE,
                obj |-> closedFile, same |-> 0]

\* Where the entry last read from d is.
posRead(v) == [cluster |-> v.d.cur, position |-> v.d.pos - 1, contiguous |-> FALSE]

\* Fault: an entry in use does not end a row of unused ones.
countFree_anywhere(a, v, e, need) ==
    IF e.used THEN a
    ELSE [a EXCEPT !.freePos = IF a.freeCount = 0 THEN posRead(v) ELSE @,
                   !.freeCount = IF @ < need THEN @ + 1 ELSE @]

\* Unused entries in a row count until there are enough; within a set in use
\* there are none.
countFree(a, v, e, need) ==
    IF ~e.used
    THEN [a EXCEPT !.freePos = IF a.freeCount = 0 THEN posRead(v) ELSE @,
                   !.freeCount = IF @ < need THEN @ + 1 ELSE @]
    ELSE IF ~a.inSet /\ a.freeCount < need THEN [a EXCEPT !.freeCount = 0] ELSE a

\* The object when the entry e has been looked at. sameName tells whether the
\* set may still be the one of the name.
inSet(a, v, e, name, flags) ==
    LET o == a.obj IN
    CASE ~e.used -> [a EXCEPT !.inSet = FALSE]
      [] e.used /\ ~a.inSet /\ e.type # "file" -> a
      [] e.used /\ ~a.inSet /\ e.type = "file" ->
            [a EXCEPT !.inSet = TRUE, !.same = 0,
               !.obj = [closedFile EXCEPT !.attr = e.attr, !.setCount = e.setCount,
                          !.dirPos = [posRead(v) EXCEPT !.contiguous = v.d.contiguous]]]
      [] e.used /\ a.inSet /\ e.type = "stream" ->
            [a EXCEPT !.inSet = name = NoName \/ e.hash = Hash[name],
               !.obj = [Modes(o, flags) EXCEPT !.contiguous = e.contiguous,
                           !.valid = e.valid, !.first = e.first, !.length = e.length]]
      [] e.used /\ a.inSet /\ e.type = "name" ->
            IF e.part = Parts[name][a.same + 1] THEN [a EXCEPT !.same = @ + 1]
                                                ELSE [a EXCEPT !.inSet = FALSE]
      [] e.used /\ a.inSet /\ e.type = "file" -> [a EXCEPT !.inSet = FALSE]

\* The set is the one looked for: the next one, or the one of the whole name.
isFound(a, e, name) ==
    /\ a.inSet
    /\ IF name = NoName THEN e.type = "stream"
                        ELSE e.type = "name" /\ a.same = Len(Parts[name])

\* The search. found tells how it ended: "set", "none" or "error".
RECURSIVE search(_, _, _, _)
search(v, name, flags, a) ==
    With(read(v, "d", 1), LAMBDA r :
        IF ~r.ok THEN [v |-> r, a |-> a, found |-> "error"]
        ELSE IF r.val = <<>> THEN [v |-> r, a |-> a, found |-> "none"]
        ELSE With(inSet(countFree(a, r, r.val[1], entriesNeeded(name)),
                        r, r.val[1], name, flags), LAMBDA next :
            IF isFound(next, r.val[1], name) THEN [v |-> r, a |-> next, found |-> "set"]
            ELSE IF r.val[1].type = "end" THEN [v |-> r, a |-> next, found |-> "none"]
            ELSE search(r, name, flags, next)))

\* The unused entries that are missing for the set are read on, and at the end
\* of the directory it grows.
RECURSIVE moreFree(_, _, _)
moreFree(v, a, need) ==
    IF ~v.ok \/ a.freeCount >= need THEN [v |-> v, a |-> a]
    ELSE With(read(v, "d", 1), LAMBDA r :
        IF r.val # <<>> \/ ~r.ok THEN moreFree(r, countFree(a, r, endEntry, need), need)
        ELSE moreFree([addDirCluster(r, "d") EXCEPT !.d.cur = r.d.cur], a, need))

\* The entries of a new set, from number is on; a place in use is an error.
RECURSIVE createSet(_, _, _)
createSet(v, name, is) ==
    IF is > v.f.setCount THEN v
    ELSE Then(dirCache(v, "f", is, ForWrite), LAMBDA c :
        IF cachedEntry(c, "f", is).used THEN fail(c)
        ELSE createSet(putEntry(c, "f", is,
            CASE is = 0 -> [endEntry EXCEPT !.type = "file", !.used = TRUE,
                               !.attr = "file", !.setCount = v.f.setCount]
              [] is = 1 -> [endEntry EXCEPT !.type = "stream", !.used = TRUE,
                               !.hash = Hash[name]]
              [] is > 1 -> [endEntry EXCEPT !.type = "name", !.used = TRUE,
                               !.part = Parts[name][is - 1]]),
            name, is + 1))

\* The part of openPrivate that makes a new file.
create(s, name, flags) ==
    With(moreFree(s.v, s.a, entriesNeeded(name)), LAMBDA more :
        LET new == [Modes(closedFile, flags) EXCEPT !.attr = "file", !.dirty = TRUE,
                       !.setCount = entriesNeeded(name) - 1,
                       !.dirPos = [more.a.freePos EXCEPT
                                      !.contiguous = more.v.d.contiguous]]
        IN  Then(Then(more.v, LAMBDA m : createSet([m EXCEPT !.f = new], name, 0)),
                 LAMBDA c : syncFile(c, "f")))

\* What openPrivate does with the set it has found.
openFound(v, o, flags) ==
    LET opened == [v EXCEPT !.f = o]
    IN  IF \/ flags.excl
           \/ o.attr = "dir" /\ (flags.trunc \/ flags.atEnd \/ o.write)
           \/ flags.trunc /\ ~o.write
        THEN fail(v)
        ELSE IF flags.trunc
        THEN Then(seekSet(opened, "f", 0), truncate)
        ELSE IF flags.atEnd THEN seekSet(opened, "f", o.valid)
        ELSE opened

\* ExFatFile::openPrivate in the directory d; name may be NoName, for the
\* next file. The object of a call that fails is given up (FsBaseFile::open).
openPrivate(v, name, flags) ==
    IF isOpen(v.f) \/ ~isDir(v.d) THEN fail(v)
    ELSE Else(
        With(search(IF name = NoName THEN done(v) ELSE seekSet(v, "d", 0),
                    name, flags, SearchStart), LAMBDA s :
            CASE s.found = "error" -> fail(s.v)
              [] s.found = "set" -> openFound(s.v, s.a.obj, flags)
              [] s.found = "none" -> IF flags.create /\ flags.mode # "r" /\ name # NoName
                                     THEN create(s, name, flags) ELSE fail(s.v)),
        LAMBDA r : [r EXCEPT !.f = closedFile])

\* ExFatFile::open of a path, from the root.
RECURSIVE openPath(_, _, _)
openPath(v, path, flags) ==
    LET last == Len(path) = 1 IN
    Then(openPrivate(v, path[1], IF last THEN flags ELSE ReadOnly), LAMBDA p :
        IF last THEN p
        ELSE openPath([close(p) EXCEPT !.d = p.f, !.ok = TRUE], Tail(path), flags))

\* ExFatFile::getName: the parts of the name, left in val.
RECURSIVE getName(_, _, _)
getName(v, is, parts) ==
    IF is > v.f.setCount THEN [v EXCEPT !.val = parts]
    ELSE Then(dirCache(v, "f", is, ForRead), LAMBDA c :
        LET e == cachedEntry(c, "f", is)
        IN  IF e.type # "name" THEN fail(c) ELSE getName(c, is + 1, Append(parts, e.part)))

\* SdFat_Store::_ls: the names of a directory, until openNext finds no more.
RECURSIVE listFrom(_, _)
listFrom(v, names) ==
    With(openPrivate([v EXCEPT !.f = closedFile], NoName, ReadOnly), LAMBDA child :
        IF ~child.ok THEN [done(child) EXCEPT !.val = names]
        ELSE With(getName(child, 2, <<>>), LAMBDA n : listFrom(n, Append(names, n.val))))

-----------------------------------------------------------------------------
(* Removing, making and moving.                                            *)

RECURSIVE unuse(_, _)
unuse(v, is) ==
    IF is > v.f.setCount THEN v
    ELSE Then(dirCache(v, "f", is, ForWrite), LAMBDA c :
        unuse(putEntry(c, "f", is, [cachedEntry(c, "f", is) EXCEPT !.used = FALSE]),
              is + 1))

\* ExFatFile::remove: first the clusters are freed, then the set is unused.
remove(v) ==
    LET o == v.f
        freed == IF o.first = 0 THEN done(v)
                 ELSE IF o.contiguous THEN bitmapModify(v, o.first, clustersOf(o), FALSE)
                 ELSE freeChain(v, o.first)
    IN  IF ~o.write THEN fail(v)
        ELSE Then(Then(freed, LAMBDA r : unuse(r, 0)), LAMBDA u :
            sync([u EXCEPT !.f = closedFile]))

\* ExFatFile::rmdir: a directory without entries in use goes like a file.
RECURSIVE isEmpty(_)
isEmpty(v) ==
    Then(read(v, "f", 1), LAMBDA r :
        IF r.val = <<>> \/ (~r.val[1].used /\ r.val[1].type = "end") THEN r
        ELSE IF r.val[1].used THEN fail(r) ELSE isEmpty(r))
rmdir(v) ==
    IF v.f.attr # "dir" THEN fail(v)
    ELSE Then(isEmpty(seekSet(v, "f", 0)), LAMBDA e :
        remove([e EXCEPT !.f.attr = "file", !.f.write = TRUE]))

\* ExFatFile::mkdir in the directory d: a new file becomes a directory and is
\* given a cluster. (On the way its entries have a length and no cluster.)
mkdir(v, name) ==
    LET grown == Then(openPrivate(v, name, CreateNew), LAMBDA o :
                     addDirCluster([o EXCEPT !.f.attr = "dir"], "f"))
    IN  Then(grown, LAMBDA g :
            syncFile([g EXCEPT !.f = [@ EXCEPT !.first = g.f.cur, !.pos = 0, !.cur = 0,
                         !.read = TRUE, !.write = FALSE, !.append = FALSE,
                         !.contiguous = TRUE, !.dirty = TRUE]], "f"))

\* ExFatFile::rename of an open file: a new set gets what the object knows,
\* and the old one is removed without clusters.
rename(v, name) ==
    LET old == v.f
        this(new) == [old EXCEPT !.dirPos = new.dirPos, !.setCount = new.setCount,
                                 !.dirty = TRUE]
        gone == [old EXCEPT !.first = 0, !.read = FALSE, !.write = TRUE,
                            !.append = FALSE, !.contiguous = FALSE, !.attr = "file"]
    IN  IF old.attr \notin {"file", "dir"} THEN fail(v)
        ELSE With(openPrivate([v EXCEPT !.f = closedFile], name,
                              [CreateNew EXCEPT !.mode = "w"]), LAMBDA new :
            IF ~new.ok THEN [new EXCEPT !.f = old]
            ELSE With(syncFile([new EXCEPT !.f = this(new.f)], "f"), LAMBDA moved :
                [Then(moved, LAMBDA m : remove([m EXCEPT !.f = gone]))
                    EXCEPT !.f = moved.f]))
=============================================================================
