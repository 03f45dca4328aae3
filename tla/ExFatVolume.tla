----------------------------- MODULE ExFatVolume -----------------------------
(***************************************************************************)
(* An exFAT volume in use: file objects and the calls a program makes on   *)
(* them and on paths, one after the other, on a card that may be full.     *)
(*                                                                         *)
(* The program is the environment. It opens a path once at a time, does    *)
(* not remove one that is open, and after a write that failed it closes    *)
(* the file and leaves it alone, as the firmware's loggers do.             *)
(***************************************************************************)
EXTENDS ExFatDirectory, FiniteSetsExt, Functions

CONSTANTS
    Handles,        \* file objects
    Letter,         \* per object, the bytes it writes, over and over
    Unwritten,      \* stands for every other content of a file
    Paths,          \* paths the program uses for files
    NewNames,       \* names it may rename a file to, in the root
    Directories,    \* names of directories it may make there
    OpenModes,      \* flags it opens files with
    MaxSize,        \* bound on the size of a file
    Lengths,        \* numbers of bytes a write or a preallocation may ask for
    Positions,      \* positions it seeks to
    MaxCalls        \* bound on the number of calls

VARIABLES
    vol,            \* device, buffer and search start
    file,           \* the file objects
    spoiled,        \* history: paths of files a write of which has failed
    hung,           \* a call does not return
    calls,          \* number of calls so far
    view,           \* View(vol, file), kept so that it is computed once a step
    unsealed        \* history: the most sets that the device had without their
                    \* sum at any moment of the last call, and those at its end

xvars == <<vol, file, spoiled, hung, calls, view, unsealed>>

-----------------------------------------------------------------------------
(* What is on the volume.                                                  *)

\* The chain that starts at c; it ends with 0 where it has no sound end.
RECURSIVE ChainFrom(_, _, _)
ChainFrom(dev, c, seen) ==
    IF c \notin Clusters \/ c \in seen THEN <<0>>
    ELSE IF FatEntry(dev, c) = EOC THEN <<c>>
    ELSE <<c>> \o ChainFrom(dev, FatEntry(dev, c), seen \cup {c})

\* The clusters of a file or directory: those that its length takes, or its
\* chain.
ClustersOf(dev, e) ==
    IF e.first = 0 THEN <<>>
    ELSE IF e.contiguous
    THEN [i \in 1 .. 1 + (e.length - 1) \div BytesPerCluster |-> e.first + i - 1]
    ELSE ChainFrom(dev, e.first, {})
Sound(clusters) == Range(clusters) \subseteq Clusters

WordAt(dev, clusters, i) ==
    dev[clusterStartSector(clusters[1 + i \div BytesPerCluster]) + sectorOfCluster(i)]
       [i % BytesPerSector]
WordsOf(dev, clusters) ==
    IF Sound(clusters)
    THEN [i \in 1 .. Len(clusters) * BytesPerCluster |-> WordAt(dev, clusters, i - 1)]
    ELSE <<>>

RootEntry == [path |-> <<>>, attr |-> "dir", first |-> RootCluster, contiguous |-> FALSE,
              valid |-> 0, length |-> 0, index |-> 0, sealed |-> TRUE]

\* The name that a path's last parts make.
NameOf(parts) == IF \E n \in DOMAIN Parts : Parts[n] = parts
                 THEN CHOOSE n \in DOMAIN Parts : Parts[n] = parts ELSE "?"

\* The files and directories that the directory dir lists; a set of entries
\* that begins at i.
SetAt(es, i) == [j \in 0 .. es[i].setCount |-> es[i + j]]
FileOf(s, dir, i) ==
    [path |-> Append(dir.path, NameOf([j \in 1 .. s[0].setCount - 1 |-> s[j + 1].part])),
     attr |-> s[0].attr, first |-> s[1].first, contiguous |-> s[1].contiguous,
     valid |-> s[1].valid, length |-> s[1].length, index |-> i - 1,
     sealed |-> s[0].sum = [j \in 1 .. s[0].setCount + 1 |-> Summed(s[j - 1])]]
FilesIn(es, dir) ==
    LET ends == {i \in DOMAIN es : es[i].type = "end"}
        used == {i \in DOMAIN es : es[i].used /\ es[i].type = "file" /\
                                   \A j \in ends : i < j}
    IN  {FileOf(SetAt(es, i), dir, i) : i \in used}
Listed(dev, dir) == FilesIn(WordsOf(dev, ClustersOf(dev, dir)), dir)
Found(dev) ==
    With(Listed(dev, RootEntry), LAMBDA top :
        top \cup UNION {Listed(dev, e) : e \in {t \in top : t.attr = "dir"}})

\* How many sets of the device are without their sum, wherever a call that
\* writes log may be cut. A cluster that a directory gets on the way is looked
\* at as if it were empty until the call has cleared it (addDirCluster).
SectorsOf(clusters) ==
    {clusterStartSector(c) + i : c \in Range(clusters) \cap Clusters,
                                 i \in 0 .. SectorsPerCluster - 1}
DirectorySectors(dev) ==
    UNION {SectorsOf(ClustersOf(dev, e)) :
              e \in {RootEntry} \cup {d \in Found(dev) : d.attr = "dir"}}
OnlyEntries(dev) ==
    With(DirectorySectors(dev), LAMBDA ours :
        [s \in DOMAIN dev |->
            IF s < clusterStartSector(RootCluster) \/ s \in ours THEN dev[s]
            ELSE [w \in Words |-> endEntry]])
UnsealedAt(dev, log) ==
    With(OnlyEntries(dev), LAMBDA start :
        [n \in 0 .. Len(log) |->
            Cardinality({e \in Found(WrittenUpTo(start, log, n)) : ~e.sealed})])

\* The bytes of a file; what no object wrote is not told apart.
Letters == UNION {Range(Letter[h]) : h \in Handles}
Told(w) == IF w \in Letters THEN w ELSE Unwritten
ContentOf(dev, e) ==
    With(WordsOf(dev, ClustersOf(dev, e)), LAMBDA all :
        IF e.valid > Len(all) THEN <<Unwritten>>
        ELSE [i \in 1 .. e.valid |-> Told(all[i])])

\* What the program sees: with the buffer, and with what the object that has
\* a file open knows of it.
OpenOn(files, paths, e) == {h \in Handles : isOpen(files[h]) /\ paths[h] = e.path}
Updated(files, paths, e) ==
    IF OpenOn(files, paths, e) = {} THEN e
    ELSE LET o == files[CHOOSE h \in OpenOn(files, paths, e) : TRUE]
         IN  [e EXCEPT !.first = o.first, !.contiguous = o.contiguous,
                       !.valid = o.valid, !.length = o.length]
PathsOf(live, attr) == {e.path : e \in {d \in live : d.attr = attr}}
View(volume, files, paths) ==
    LET dev == Seen(volume)
    IN  With({Updated(files, paths, e) : e \in Found(dev)}, LAMBDA live :
            [entries |-> live, path |-> paths,
             store |-> [p \in PathsOf(live, "file") |->
                           ContentOf(dev, CHOOSE e \in live : e.path = p)],
             dirs |-> PathsOf(live, "dir")])

Opened(p) == \E h \in Handles : isOpen(file[h]) /\ view.path[h] = p

-----------------------------------------------------------------------------
(* The calls.                                                              *)

\* The volume as it was formatted: the bitmap and the root are in use.
Formatted ==
    [s \in 0 .. LastSector |->
        [w \in Words |->
            IF s < ClusterHeapStartSector
            THEN LET c == s * BytesPerSector + w
                 IN  IF c \in RootCluster + 1 .. LastCluster THEN Free ELSE EOC
            ELSE IF s < clusterStartSector(RootCluster)
            THEN (s - ClusterHeapStartSector) * BytesPerSector + w <= RootCluster - 2
            ELSE endEntry]]

NoPaths == [h \in Handles |-> <<>>]
Closed == [h \in Handles |-> closedFile]

Init ==
    /\ vol = volumeOf(mount(Formatted))
    /\ file = Closed
    /\ spoiled = {} /\ hung = FALSE /\ calls = 0
    /\ view = View(vol, file, NoPaths)
    /\ unsealed = [most |-> 0, last |-> 0]

\* The call has led to v.
Called(v, files, paths) ==
    /\ calls < MaxCalls /\ calls' = calls + 1
    /\ ~hung /\ hung' = v.hung
    /\ vol' = volumeOf(v)
    /\ file' = files
    /\ view' = View(volumeOf(v), files, paths)
    /\ unsealed' = With(UnsealedAt(vol.dev, v.log), LAMBDA at :
                       [most |-> Max(Range(at)), last |-> at[Len(v.log)]])
Return(h, v) == Called(v, [file EXCEPT ![h] = v.f], view.path)
ReturnAlone(v) == Called(v, file, view.path)
\* The object has the path given then, if the call succeeds or if not.
ReturnAt(h, v, path, otherwise) ==
    Called(v, [file EXCEPT ![h] = v.f],
           [view.path EXCEPT ![h] = IF v.ok THEN path ELSE otherwise])
Wrote(h, v) ==
    /\ Return(h, v)
    /\ spoiled' = IF v.ok THEN spoiled ELSE spoiled \cup {view.path[h]}

Begin(h) == call(vol, file[h])
BeginAlone == call(vol, closedFile)
MayUse(h) == isOpen(file[h]) /\ ~file[h].writeError

Data(h, at) ==
    [i \in 1 .. MaxSize |-> Letter[h][1 + ((at + i - 1) % Len(Letter[h]))]]
WriteAt(h) == IF file[h].append THEN file[h].valid ELSE file[h].pos

ForUpdate == [ReadOnly EXCEPT !.mode = "rw"]
AtEnd     == [ForUpdate EXCEPT !.create = TRUE, !.atEnd = TRUE]
Anew      == [ForUpdate EXCEPT !.trunc = TRUE, !.create = TRUE, !.append = TRUE]

Open(h, p, flags) ==
    /\ ~isOpen(file[h]) /\ ~Opened(p) /\ p \notin spoiled
    /\ ReturnAt(h, openPath(Begin(h), p, flags), p, <<>>)
    /\ UNCHANGED spoiled

Write(h, n) ==
    /\ MayUse(h) /\ WriteAt(h) + n <= MaxSize
    /\ Wrote(h, write(Begin(h), SubSeq(Data(h, WriteAt(h)), 1, n)))

Seek(h, pos) ==
    MayUse(h) /\ Return(h, seekSet(Begin(h), "f", pos)) /\ UNCHANGED spoiled

Truncate(h) == MayUse(h) /\ Return(h, truncate(Begin(h))) /\ UNCHANGED spoiled

PreAllocate(h, n) ==
    MayUse(h) /\ Return(h, preAllocate(Begin(h), n)) /\ UNCHANGED spoiled

Sync(h) == MayUse(h) /\ Return(h, syncFile(Begin(h), "f")) /\ UNCHANGED spoiled

Close(h) ==
    /\ isOpen(file[h]) /\ ReturnAt(h, close(Begin(h)), <<>>, <<>>)
    /\ UNCHANGED spoiled

Rename(h, name) ==
    /\ MayUse(h) /\ ReturnAt(h, rename(Begin(h), name), <<name>>, view.path[h])
    /\ UNCHANGED spoiled

Remove(p) ==
    /\ ~Opened(p) /\ p \notin spoiled
    /\ ReturnAlone(Then(openPath(BeginAlone, p, [ReadOnly EXCEPT !.mode = "w"]), remove))
    /\ UNCHANGED spoiled

Mkdir(name) == ReturnAlone(mkdir(BeginAlone, name)) /\ UNCHANGED spoiled

Rmdir(name) ==
    /\ ReturnAlone(Then(openPath(BeginAlone, <<name>>, ReadOnly), rmdir))
    /\ UNCHANGED spoiled

\* The card is mounted again (ExFatVolume::begin), with every file closed.
Mount == file = Closed /\ ReturnAlone(mount(vol.dev)) /\ UNCHANGED spoiled

Next ==
    \/ \E h \in Handles :
          \/ \E p \in Paths, flags \in OpenModes : Open(h, p, flags)
          \/ \E n \in Lengths : Write(h, n) \/ PreAllocate(h, n)
          \/ \E pos \in Positions : Seek(h, pos)
          \/ \E name \in NewNames : Rename(h, name)
          \/ Truncate(h) \/ Sync(h) \/ Close(h)
    \/ \E p \in Paths : Remove(p)
    \/ \E name \in Directories : Mkdir(name) \/ Rmdir(name)
    \/ Mount

Spec == Init /\ [][Next]_xvars
-----------------------------------------------------------------------------
(* Properties.                                                             *)

\* The table is sound, every file and directory has sound clusters, enough for
\* its length, and they are marked in the bitmap, no two share one, and unless a
\* write has failed no other cluster is marked: whether the clusters of a file
\* follow each other or are chained, and whoever changed from one to the other.
Healthy == {e \in view.entries : e.path \notin spoiled} \cup {RootEntry}
BitmapExact ==
    LET dev == Seen(vol)
        clusters == [e \in Healthy |-> ClustersOf(dev, e)]
        all == UNION {Range(clusters[e]) : e \in Healthy}
        marked == {c \in Clusters : InUse(dev, c)}
    IN  /\ TableSound(dev)
        /\ \A e \in Healthy :
              /\ Sound(clusters[e])
              /\ e.valid <= e.length /\ e.length <= Len(clusters[e]) * BytesPerCluster
        /\ \A d, e \in Healthy : d # e => Range(clusters[d]) \cap Range(clusters[e]) = {}
        /\ all \cup 2 .. RootCluster \subseteq marked
        /\ spoiled = {} => marked = all \cup 2 .. RootCluster

\* Another system ignores a set of entries whose checksum is wrong. A set may
\* lie in two sectors, so that the device has it without its sum while a call
\* stores it (syncDir, and openPrivate for a new one): after every call all sets
\* have the sum of what they hold, and wherever in a call the power goes, all but
\* one. (This library reads a set whatever its sum.)
SetsSealed == unsealed.last = 0 /\ unsealed.most <= 1

\* Listing the root gives the names of what is in it, each once.
ListComplete ==
    LET there == {e \in view.entries : Len(e.path) = 1} IN
    With(listFrom(BeginAlone, <<>>).val, LAMBDA names :
        /\ {NameOf(names[i]) : i \in DOMAIN names} = {e.path[1] : e \in there}
        /\ Len(names) = Cardinality(there))

\* A listing names what is there, and every path that is there can be opened
\* again, by its hash and the parts of its name, and reads as it should.
FoundAgain ==
    /\ ListComplete
    /\ \A e \in view.entries : With(openPath(BeginAlone, e.path, ReadOnly), LAMBDA o :
        /\ o.ok /\ o.f.dirPos.position = e.index /\ o.f.attr = e.attr
        /\ e.attr = "file" /\ ~Opened(e.path) /\ e.path \notin spoiled =>
              With(read(o, "f", MaxSize), LAMBDA r :
                  r.ok /\ [i \in DOMAIN r.val |-> Told(r.val[i])] = view.store[e.path]))

\* A search for free clusters returns, with "1 if no space".
SearchEnds == ~hung

\* The volume keeps the promise of FileStore.
Store == INSTANCE FileStore WITH
    store <- view.store,
    dirs <- view.dirs,
    cursor <- [h \in Handles |->
        LET o == file[h] IN
        [open |-> isOpen(o), path |-> view.path[h], pos |-> o.pos,
         append |-> o.append, raw |-> FALSE, broken |-> o.writeError]]
IsFileStore == Store!AbstractSpec
=============================================================================
