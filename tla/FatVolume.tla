------------------------------ MODULE FatVolume ------------------------------
(***************************************************************************)
(* A FAT32 volume in use: two file objects and the calls a program makes   *)
(* on them and on paths, one after the other, over a card that may fail an *)
(* access.                                                                 *)
(*                                                                         *)
(* The program is the environment. Two rules limit it, both kept by the    *)
(* firmware: a path is not opened twice at a time, and not removed while   *)
(* it is open.                                                             *)
(***************************************************************************)
EXTENDS FatDirectory, FiniteSets, Functions

CONSTANTS
    Handles,        \* file objects
    Letter,         \* per object, the bytes it writes, over and over
    Unwritten,      \* stands for every other content of a file
    Paths,          \* paths the program uses for files
    NewNames,       \* names it may rename a file to, in the root
    Directories,    \* names of directories it may make there
    Modes,          \* flags it opens files with
    MaxSize,        \* bound on the size of a file and on positions
    Lengths,        \* numbers of bytes a call may ask for
    Positions,      \* positions it seeks to
    MaxCalls,       \* bound on the number of calls
    Careful,        \* it does not read on behind the end of the file, where
                    \* a failed write can leave an object
    Faults          \* what the card may do during a call

VARIABLES
    vol,            \* device, buffer and search start
    file,           \* the file objects
    faulted,        \* an access has failed
    calls,          \* number of calls so far
    view            \* View(vol, file), kept so that it is computed once a step

NoFault == [io |-> 1000, noise |-> <<>>]

fvars == <<vol, file, faulted, calls, view>>

-----------------------------------------------------------------------------
(* What is on the volume.                                                  *)

FatEntry(dev, c) == dev[FatSector(c)][c % BytesPerSector]

\* The chain that starts at c; it ends with 0 where the table gives no next
\* cluster and no end.
RECURSIVE ChainFrom(_, _, _)
ChainFrom(dev, c, seen) ==
    IF c \notin Clusters \/ c \in seen THEN <<0>>
    ELSE LET next == FatEntry(dev, c)
         IN  IF next > LastCluster THEN <<c>>
             ELSE <<c>> \o ChainFrom(dev, next, seen \cup {c})
Chain(dev, first) == IF first = 0 THEN <<>> ELSE ChainFrom(dev, first, {})
Sound(chain) == \A i \in DOMAIN chain : chain[i] # 0

\* Word number i of a chain, from 0.
WordAt(dev, chain, i) ==
    LET cluster == chain[1 + i \div BytesPerCluster]
    IN  dev[clusterStartSector(cluster) + sectorOfCluster(i)][i % BytesPerSector]

\* The words of a chain, and of a directory the entries up to the first free.
WordsOf(dev, chain) ==
    IF Sound(chain)
    THEN [i \in 1 .. Len(chain) * BytesPerCluster |-> WordAt(dev, chain, i - 1)]
    ELSE <<>>
UpToFree(es) ==
    LET ends == {i \in DOMAIN es : es[i].kind = "free"}
    IN  IF ends = {} THEN es
        ELSE SubSeq(es, 1, (CHOOSE i \in ends : \A j \in ends : i <= j) - 1)
EntriesOf(dev, first) == UpToFree(WordsOf(dev, Chain(dev, first)))

\* The files and directories of a device, with their paths and first clusters.
FilesIn(es, first, above) ==
    {[path |-> Append(above, es[i].name), kind |-> es[i].kind,
      first |-> es[i].first, size |-> es[i].size, dir |-> first, index |-> i - 1]
         : i \in {j \in DOMAIN es : isFileOrSubdir(es[j])}}
Listed(dev, first, above) == FilesIn(EntriesOf(dev, first), first, above)
Found(dev) ==
    With(Listed(dev, RootCluster, <<>>), LAMBDA top :
        top \cup UNION {Listed(dev, e.first, e.path) :
                            e \in {t \in top : t.kind = "dir" /\ t.first # 0}})

\* The bytes of a file; what no object wrote is not told apart.
Letters == UNION {Range(Letter[h]) : h \in Handles}
Told(w) == IF w \in Letters THEN w ELSE Unwritten
ContentOf(dev, e) ==
    With(WordsOf(dev, Chain(dev, e.first)), LAMBDA all :
        IF e.size > Len(all) THEN <<Unwritten>>
        ELSE [i \in 1 .. e.size |-> Told(all[i])])

\* What the program sees: with the buffer, and with the size and first
\* cluster of the object that has a file open. Files and directories
\* (entries), the bytes of the files, and the path of each object.
OpenOn(files, e) ==
    {h \in Handles : LET o == files[h] IN
        /\ isOpen(o) /\ o.dirIndex = e.index
        /\ e.dir = IF o.dirCluster = 0 THEN RootCluster ELSE o.dirCluster}
Updated(files, e) ==
    IF OpenOn(files, e) = {} THEN e
    ELSE LET o == files[CHOOSE h \in OpenOn(files, e) : TRUE]
         IN  [e EXCEPT !.first = o.first, !.size = o.size]
PathsOf(live, kind) == {e.path : e \in {d \in live : d.kind = kind}}
ViewOf(dev, found, live, files) ==
    [entries |-> live,
     store |-> [p \in PathsOf(live, "file") |->
                   ContentOf(dev, CHOOSE e \in live : e.path = p)],
     dirs |-> PathsOf(live, "dir"),
     path |-> [h \in Handles |->
                  LET mine == {e \in found : h \in OpenOn(files, e)}
                  IN  IF mine = {} THEN <<>> ELSE (CHOOSE e \in mine : TRUE).path]]
View(volume, files) ==
    LET dev == Seen(volume)
    IN  With(Found(dev), LAMBDA found :
            ViewOf(dev, found, {Updated(files, e) : e \in found}, files))

InUse(p) == \E h \in Handles : isOpen(file[h]) /\ view.path[h] = p

-----------------------------------------------------------------------------
(* The calls.                                                              *)

\* Geometry: the table twice, then the clusters; the root directory has one.
Formatted ==
    [s \in 0 .. LastSector |->
        IF s < DataStartSector
        THEN [w \in Words |->
                LET c == (s % SectorsPerFat) * BytesPerSector + w
                IN  IF c <= RootCluster \/ c > LastCluster THEN EOC ELSE Free]
        ELSE [w \in Words |-> freeEntry]]

Init ==
    /\ vol = mount(Formatted)
    /\ file = [h \in Handles |-> closedFile]
    /\ faulted = FALSE
    /\ calls = 0
    /\ view = View(vol, file)

\* The call on object h, or on an object of its own, has led to v.
Called(v, files) ==
    /\ calls < MaxCalls /\ calls' = calls + 1
    /\ vol' = volumeOf(v)
    /\ file' = files
    /\ faulted' = (faulted \/ v.io < 0)
    /\ view' = View(volumeOf(v), files)
Return(h, v) == Called(v, [file EXCEPT ![h] = v.f])
ReturnAlone(v) == Called(v, file)

Begin(h, fault) == call(vol, file[h], fault)
BeginAlone(fault) == call(vol, closedFile, fault)

Data(h, at) ==
    [i \in 1 .. MaxSize |-> Letter[h][1 + ((at + i - 1) % Len(Letter[h]))]]
WriteAt(h) == IF file[h].append THEN file[h].size ELSE file[h].pos

ForUpdate == [ReadOnly EXCEPT !.mode = "rw"]
AtEnd     == [ForUpdate EXCEPT !.create = TRUE, !.atEnd = TRUE]
Anew      == [ForUpdate EXCEPT !.trunc = TRUE, !.create = TRUE, !.append = TRUE]

opened(h, p, flags, fault) == openPath(Begin(h, fault), p, flags)
written(h, n, fault) == write(Begin(h, fault), SubSeq(Data(h, WriteAt(h)), 1, n))
made(name, fault) == mkdir(BeginAlone(fault), name)

MayOpen(h, p) == ~isOpen(file[h]) /\ ~InUse(p)
Open(h, p, flags, fault) == MayOpen(h, p) /\ Return(h, opened(h, p, flags, fault))

MayWrite(h, n) == isOpen(file[h]) /\ WriteAt(h) + n <= MaxSize
Write(h, n, fault) == MayWrite(h, n) /\ Return(h, written(h, n, fault))

Read(h, n, fault) ==
    /\ isOpen(file[h]) /\ file[h].pos + n <= MaxSize
    /\ Careful => file[h].pos <= file[h].size
    /\ Return(h, read(Begin(h, fault), n))

Seek(h, pos, fault) == isOpen(file[h]) /\ Return(h, seekSet(Begin(h, fault), "f", pos))

Truncate(h, fault) == isOpen(file[h]) /\ Return(h, truncate(Begin(h, fault)))

PreAllocate(h, n, fault) ==
    isOpen(file[h]) /\ Return(h, preAllocate(Begin(h, fault), n))

Contiguous(h, fault) == isOpen(file[h]) /\ Return(h, contiguousRange(Begin(h, fault)))

Sync(h, fault) == isOpen(file[h]) /\ Return(h, syncFile(Begin(h, fault)))

Close(h, fault) == isOpen(file[h]) /\ Return(h, close(Begin(h, fault)))

Rename(h, name, fault) == isOpen(file[h]) /\ Return(h, rename(Begin(h, fault), name))

Remove(p, fault) ==
    /\ ~InUse(p)
    /\ ReturnAlone(Then(openPath(BeginAlone(fault), p, [ReadOnly EXCEPT !.mode = "w"]),
                        remove))

Mkdir(name, fault) == ReturnAlone(made(name, fault))

Rmdir(name, fault) ==
    ReturnAlone(Then(openPath(BeginAlone(fault), <<name>>, ReadOnly), rmdir))

List(fault) == ReturnAlone(listFrom(BeginAlone(fault), <<>>))

Next == \E fault \in Faults :
    \/ \E h \in Handles :
          \/ \E p \in Paths, flags \in Modes : Open(h, p, flags, fault)
          \/ \E n \in Lengths : Write(h, n, fault) \/ Read(h, n, fault)
                                \/ PreAllocate(h, n, fault)
          \/ \E pos \in Positions : Seek(h, pos, fault)
          \/ \E name \in NewNames : Rename(h, name, fault)
          \/ Truncate(h, fault) \/ Contiguous(h, fault) \/ Sync(h, fault) \/ Close(h, fault)
    \/ \E p \in Paths : Remove(p, fault)
    \/ \E name \in Directories : Mkdir(name, fault) \/ Rmdir(name, fault)
    \/ List(fault)

Spec == Init /\ [][Next]_fvars
-----------------------------------------------------------------------------
(* Properties.                                                             *)

\* Every chain that an entry or an open object leads to has an end, no two of
\* them meet, and they hold at least the size; so no file's bytes are changed
\* through another one. A directory has a cluster. The table is sound on the
\* device and as the library sees it, nothing leads into the middle of a chain,
\* and the buffer is marked as what it is: a sector of the table, or not.
ChainsOf(dev) ==
    [e \in view.entries \cup {[path |-> <<>>, kind |-> "dir", first |-> RootCluster,
                       size |-> 0, dir |-> 0, index |-> 0]} |-> Chain(dev, e.first)]
ChainsSound ==
    LET chains == ChainsOf(Seen(vol)) IN
    /\ \A e \in DOMAIN chains :
          /\ Sound(chains[e])
          /\ e.size <= Len(chains[e]) * BytesPerCluster
          /\ e.kind = "dir" => chains[e] # <<>>
    /\ \A d, e \in DOMAIN chains :
          d # e => Range(chains[d]) \cap Range(chains[e]) = {}
    /\ IsSound(TableOf(vol.dev)) /\ IsSound(TableOf(Seen(vol))) /\ BufferMarked(vol)
    /\ \A e \in view.entries :
          e.first # 0 => IsHead(TableOf(Seen(vol)), e.first)

\* No cluster is lost: one that is not free belongs to a file or directory.
NoneLost ==
    LET chains == ChainsOf(Seen(vol)) IN
    ~faulted => {c \in Clusters : FatEntry(Seen(vol), c) # Free} =
                    UNION {Range(chains[e]) : e \in DOMAIN chains}

\* Wherever an open object seeks to, it reads what the file holds there.
ReadsBack ==
    \A h \in Handles : isOpen(file[h]) /\ file[h].read /\ ~faulted =>
        /\ view.path[h] \in DOMAIN view.store
        /\ \A pos \in 0 .. file[h].size, n \in Lengths :
            LET bytes == view.store[view.path[h]]
                s == seekSet(Begin(h, NoFault), "f", pos)
                r == read(s, n)
                left == file[h].size - pos
                expected == SubSeq(bytes, pos + 1,
                                   pos + (IF n < left THEN n ELSE left))
            IN  s.ok /\ r.ok /\ [i \in DOMAIN r.val |-> Told(r.val[i])] = expected

\* Listing the root gives the names of what is in it, each once.
ListComplete ==
    LET names == listFrom(BeginAlone(NoFault), <<>>).val
        there == {e \in view.entries : Len(e.path) = 1}
    IN  ~faulted => /\ Range(names) = {e.path[1] : e \in there}
                    /\ Len(names) = Cardinality(there)

\* Every path that is there can be opened again.
FoundAgain ==
    \A e \in view.entries : ~faulted =>
        With(openPath(BeginAlone(NoFault), e.path, ReadOnly), LAMBDA o :
            o.ok /\ o.f.dirIndex = e.index /\ o.f.attr = e.kind)

\* The volume keeps the promise of FileStore.
Store == INSTANCE FileStore WITH
    store <- view.store,
    dirs <- view.dirs,
    cursor <- [h \in Handles |->
        LET o == file[h] IN
        [open |-> isOpen(o), path |-> view.path[h], pos |-> o.pos,
         append |-> o.append, raw |-> o.preallocate, broken |-> o.writeError]]
IsFileStore == Store!AbstractSpec
=============================================================================
