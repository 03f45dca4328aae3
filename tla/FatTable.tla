------------------------------ MODULE FatTable ------------------------------
(***************************************************************************)
(* The file allocation table (FatPartition) of a FAT32 volume: chains of   *)
(* clusters, how they grow and how they are freed. The table is read and   *)
(* written through the one buffer that the data shares (no separate FAT    *)
(* cache on the ESP32), so every look at it may write a dirty data sector. *)
(***************************************************************************)
EXTENDS SectorCache

CONSTANTS SectorsPerCluster,
          LastCluster         \* m_lastCluster; the first one is 2

ASSUME TableAssumption ==
    /\ SectorsPerCluster \in Nat \ {0} /\ LastCluster \in Nat
    /\ LastCluster >= 2
    /\ SectorsPerFat * BytesPerSector > LastCluster

Clusters == 2 .. LastCluster
Free == 0
EOC == LastCluster + 1      \* stands for every value behind the last cluster
RootCluster == 2            \* m_rootDirStart

BytesPerCluster == SectorsPerCluster * BytesPerSector
FatStartSector == 0
DataStartSector == FatStartSector + 2 * SectorsPerFat
FatSector(cluster) == FatStartSector + cluster \div BytesPerSector
clusterStartSector(cluster) == DataStartSector + (cluster - 2) * SectorsPerCluster
sectorOfCluster(position) == (position \div BytesPerSector) % SectorsPerCluster
LastSector == clusterStartSector(LastCluster + 1) - 1

\* FatPartition::init: an empty buffer, and the search for free clusters
\* starts over. (The boot sector, which gives the geometry, never changes.)
mount(dev) ==
    [dev |-> dev, cache |-> emptyCache(dev[FatStartSector]), search |-> 1]

\* Fields fg (-1 error, 0 end of chain, 1 a value) and val of the record.
fatGet(v, cluster) ==
    IF cluster \notin Clusters THEN [fail(v) EXCEPT !.fg = -1]
    ELSE With(prepare(v, FatSector(cluster), OfFat(ForRead)), LAMBDA p :
        LET next == p.cache.data[cluster % BytesPerSector]
        IN  IF ~p.ok THEN [p EXCEPT !.fg = -1]
            ELSE IF next > LastCluster THEN [p EXCEPT !.fg = 0]
            ELSE [p EXCEPT !.fg = 1, !.val = next])

fatPut(v, cluster, value) ==
    IF cluster \notin Clusters THEN fail(v)
    ELSE Then(prepare(v, FatSector(cluster), OfFat(ForWrite)), LAMBDA p :
        [p EXCEPT !.cache.data[cluster % BytesPerSector] = value])

fatPutEOC(v, cluster) == fatPut(v, cluster, EOC)

\* The search of allocateCluster: if current is behind the search start, the
\* clusters after current come first, and then those from the search start up
\* to current. What is found is in val.
findFree(v, current) ==
    LET near == v.search < current
        ahead == IF near THEN LastCluster - current ELSE 0
        tries == ahead + (IF near THEN current - 1 ELSE LastCluster) - v.search
        nth(k) == IF k <= ahead THEN current + k ELSE v.search + k - ahead
        look(g, k) ==
            Then(fatGet(g, nth(k)), LAMBDA h :
                IF h.fg = 1 /\ h.val = Free
                THEN [h EXCEPT !.val = nth(k), !.search = IF k > ahead THEN nth(k) ELSE @]
                ELSE [h EXCEPT !.val = 0])
        after[k \in 0 .. tries] ==
            IF k = 0 THEN [done(v) EXCEPT !.val = 0]
            ELSE Then(after[k - 1], LAMBDA g : IF g.val # 0 THEN g ELSE look(g, k))
    IN  Then(after[tries], LAMBDA g :
            IF g.val = 0 THEN [fail(g) EXCEPT !.full = TRUE] ELSE g)

\* Fault: the new cluster is linked before its own end is marked.
link_first(v, current, new) ==
    Then(IF current = 0 THEN v ELSE fatPut(v, current, new), LAMBDA p :
        fatPutEOC(p, new))

\* The end of chain is marked in the new cluster before a chain leads to it.
link(v, current, new) ==
    Then(fatPutEOC(v, new), LAMBDA p :
        IF current = 0 THEN p ELSE fatPut(p, current, new))

\* FatPartition::allocateCluster: the new cluster is in val.
allocateCluster(v, current) ==
    Then(findFree(v, current),
         LAMBDA s : [link(s, current, s.val) EXCEPT !.val = s.val])

\* The search of allocContiguous for count free clusters in a row, one cluster
\* after the other from the search start: bgn is the first of the row so far,
\* and what the search skips keeps the search start where it is.
lookForRun(l, end, count) ==
    With(fatGet(l.v, end), LAMBDA g :
        IF ~g.ok THEN [l EXCEPT !.v = g]
        ELSE IF g.fg = 0 \/ g.val # Free
        THEN [l EXCEPT !.v = g, !.bgn = end + 1, !.setStart = @ /\ l.bgn = end]
        ELSE [l EXCEPT !.v = g, !.found = end - l.bgn + 1 = count])
findRun(v, count) ==
    LET after[k \in 0 .. LastCluster - v.search] ==
            IF k = 0 THEN [v |-> done(v), bgn |-> v.search + 1, setStart |-> TRUE,
                           found |-> FALSE]
            ELSE With(after[k - 1], LAMBDA l :
                IF l.found \/ ~l.v.ok THEN l ELSE lookForRun(l, v.search + k, count))
    IN  With(after[LastCluster - v.search], LAMBDA l :
            IF ~l.found THEN fail(l.v)
            ELSE [l.v EXCEPT !.val = l.bgn,
                             !.search = IF l.setStart THEN l.bgn + count - 1 ELSE @])

\* Links end - 1 to end, down to bgn.
linkRun(v, bgn, end) ==
    LET after[k \in 0 .. end - bgn] ==
            IF k = 0 THEN v
            ELSE Then(after[k - 1], LAMBDA p : fatPut(p, end - k, end - k + 1))
    IN  after[end - bgn]

\* FatPartition::allocContiguous: the first cluster is in val.
allocContiguous(v, count) ==
    Then(findRun(v, count), LAMBDA r :
        Then(fatPutEOC(r, r.val + count - 1), LAMBDA p :
            [linkRun(p, r.val, r.val + count - 1) EXCEPT !.val = r.val]))

\* A cluster freed below the search start lowers it.
lowerSearch(search, cluster) == IF cluster < search THEN cluster - 1 ELSE search

\* FatPartition::freeChain: while the entry of a cluster leads to another one.
freeNext(v) ==
    Then(fatGet(v, v.val), LAMBDA g :
        Then(fatPut(g, v.val, Free), LAMBDA p :
            [p EXCEPT !.search = lowerSearch(@, v.val)]))
freeChain(v, cluster) ==
    LET after[k \in 0 .. LastCluster] ==
            IF k = 0 THEN [done(v) EXCEPT !.fg = 1, !.val = cluster]
            ELSE Then(after[k - 1], LAMBDA s : IF s.fg = 0 THEN s ELSE freeNext(s))
    IN  after[LastCluster]

-----------------------------------------------------------------------------
(* What a call finds on a mounted volume, and leaves behind.               *)

TableSectors == 0 .. SectorsPerFat - 1
TableContents == [Words -> Nat]
InCopy(sector) == sector - SectorsPerFat \in TableSectors

\* The table on a device, an entry for each cluster.
TableOf(dev) == [c \in Clusters |-> dev[FatSector(c)][c % BytesPerSector]]

\* An entry is free, ends a chain or leads to a cluster that is in use, and no
\* two lead to the same.
IsSound(T) ==
    /\ \A c \in Clusters : T[c] # 1
    /\ \A c \in Clusters : T[c] \in Clusters => T[T[c]] # Free
    /\ \A c \in Clusters, d \in Clusters :
           T[c] = T[d] /\ T[c] \in Clusters => c = d

\* A chain begins here.
IsHead(T, head) ==
    head \in Clusters /\ T[head] # Free /\ \A c \in Clusters : T[c] # head

\* The buffer is marked for the copy exactly when it is of the table.
BufferMarked(v) ==
    LET c == v.cache IN
    /\ c.sector = NoSector => c.dirty = FALSE /\ c.mirror = FALSE
    /\ c.mirror = TRUE => c.sector \in TableSectors
    /\ c.sector \in TableSectors =>
           c.data \in TableContents /\ (c.dirty = TRUE => c.mirror = TRUE)
    /\ ~InCopy(c.sector)
=============================================================================
