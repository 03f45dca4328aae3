----------------------------- MODULE ExFatTable -----------------------------
(***************************************************************************)
(* The clusters of an exFAT volume (ExFatPartition): a bitmap of those in  *)
(* use, which lies in the first clusters of the heap, and a table of       *)
(* chains, which only files need whose clusters do not follow each other.  *)
(* Both go through the one buffer of the volume, and there is one table.   *)
(* A word is a bit of the bitmap, an entry of the table, an entry of a     *)
(* directory or a byte of a file.                                          *)
(***************************************************************************)
EXTENDS SectorCache

CONSTANTS SectorsPerCluster,
          ClusterCount        \* m_clusterCount; the first cluster is 2

BytesPerCluster == SectorsPerCluster * BytesPerSector
BitmapClusters == 1 + (ClusterCount - 1) \div BytesPerCluster
RootCluster == 2 + BitmapClusters       \* m_rootDirectoryCluster
LastCluster == ClusterCount + 1
Clusters == 2 .. LastCluster

\* The bits behind the last cluster's are there, and never set.
ASSUME TableAssumption ==
    /\ SectorsPerCluster \in Nat \ {0} /\ ClusterCount \in Nat \ {0}
    /\ RootCluster <= LastCluster
    /\ ClusterCount % BytesPerCluster # 0
    /\ SectorsPerFat * BytesPerSector > LastCluster

MaxIo == 1000               \* accesses left: no fault
Free == 0
EOC == LastCluster + 1      \* EXFAT_EOC, 0xFFFFFFFF

ClusterHeapStartSector == SectorsPerFat
FatSector(cluster) == cluster \div BytesPerSector
BitmapSector(bit) == ClusterHeapStartSector + bit \div BytesPerSector
clusterStartSector(cluster) ==
    ClusterHeapStartSector + (cluster - 2) * SectorsPerCluster
sectorOfCluster(position) == (position \div BytesPerSector) % SectorsPerCluster
LastSector == clusterStartSector(LastCluster + 1) - 1

-----------------------------------------------------------------------------
(* The bitmap.                                                             *)

\* One bit of the search of bitmapFind for count clear bits in a row, bgn being
\* the first of them so far. The end is compared with start after it has been
\* raised, and goes back to 0 without being compared.
lookAt(l, start, count) ==
    With(prepare(l.v, BitmapSector(l.bit), ForRead), LAMBDA p :
        LET end == l.bit + 1
            bgn == IF p.cache.data[l.bit % BytesPerSector] THEN end ELSE l.bgn
            stop(v) == [l EXCEPT !.v = v, !.over = TRUE]
        IN  IF ~p.ok THEN stop(p)
            ELSE IF end - bgn = count THEN stop([p EXCEPT !.val = bgn + 2])
            ELSE IF end = start THEN stop([fail(p) EXCEPT !.val = 1])
            ELSE IF end = ClusterCount THEN [l EXCEPT !.v = p, !.bgn = 0, !.bit = 0]
            ELSE [l EXCEPT !.v = p, !.bgn = bgn, !.bit = end])

\* A search that has been everywhere without an end is where it was before, at
\* 0, and does the same again: hung stands for its going on for ever.
findRun(v, start, count) ==
    LET after[k \in 0 .. ClusterCount] ==
            IF k = 0 THEN [v |-> v, bgn |-> start, bit |-> start, over |-> FALSE]
            ELSE With(after[k - 1], LAMBDA l :
                IF l.over THEN l ELSE lookAt(l, start, count))
    IN  With(after[ClusterCount], LAMBDA l :
            IF l.over THEN l.v ELSE [fail(l.v) EXCEPT !.val = 1, !.hung = TRUE])

\* ExFatPartition::bitmapFind, from cluster on, or from the search start: the
\* first cluster of the run is in val.
bitmapFind(v, cluster, count) ==
    LET from == IF cluster # 0 THEN cluster - 2 ELSE v.search
        start == IF from >= ClusterCount THEN 0 ELSE from
    IN  Then(findRun(v, start, count), LAMBDA r :
            IF cluster = 0 /\ count = 1 THEN [r EXCEPT !.search = r.val - 2] ELSE r)

\* Turns count bits over, from bit on; each must have had the other value. (A
\* count that is not positive ends behind the last cluster: the bits there are
\* clear, and such a count only ever clears.)
flipBit(v, bit, value) ==
    Then(prepare(v, BitmapSector(bit), ForWrite), LAMBDA p :
        IF p.cache.data[bit % BytesPerSector] = value THEN fail(p)
        ELSE [p EXCEPT !.cache.data[bit % BytesPerSector] = value])
flip(v, bit, count, value) ==
    LET turns == IF count > 0 THEN count ELSE BitmapClusters * BytesPerCluster - bit
        after[k \in 0 .. turns] ==
            IF k = 0 THEN done(v)
            ELSE Then(after[k - 1], LAMBDA w : flipBit(w, bit + k - 1, value))
    IN  after[turns]

\* ExFatPartition::bitmapModify; start + count is computed in 32 bits.
bitmapModify(v, cluster, count, value) ==
    LET start == cluster - 2
        end == start + count
        within == start <= v.search /\ v.search < end
        search == IF value /\ within THEN IF end < ClusterCount THEN end ELSE 0
                  ELSE IF ~value /\ start < v.search THEN start ELSE v.search
    IN  IF end \notin 0 .. ClusterCount THEN fail(v)
        ELSE flip([v EXCEPT !.search = search], start, count, value)

-----------------------------------------------------------------------------
(* The table.                                                              *)

\* Fields fg (-1 error, 0 end of chain, 1 a value) and val of the record.
fatGet(v, cluster) ==
    IF cluster > LastCluster THEN [fail(v) EXCEPT !.fg = -1]
    ELSE With(prepare(v, FatSector(cluster), ForRead), LAMBDA p :
        LET next == p.cache.data[cluster % BytesPerSector]
        IN  IF ~p.ok THEN [p EXCEPT !.fg = -1]
            ELSE IF next = EOC THEN [p EXCEPT !.fg = 0]
            ELSE [p EXCEPT !.fg = 1, !.val = next])

fatPut(v, cluster, value) ==
    IF cluster \notin Clusters THEN fail(v)
    ELSE Then(prepare(v, FatSector(cluster), ForWrite), LAMBDA p :
        [p EXCEPT !.cache.data[cluster % BytesPerSector] = value])

\* A cluster leaves its chain; it is in val, and then the next one is.
unchain(v) ==
    LET cluster == v.val
    IN  Then(fatGet(v, cluster), LAMBDA g : fatPut(g, cluster, Free))

\* Fault: the bits of a run are not cleared where the chain leaves it.
freeNext_lastRun(l) ==
    With(unchain(l.v), LAMBDA p :
        IF p.ok /\ p.fg = 0
        THEN [l EXCEPT !.v = bitmapModify(p, l.start, l.v.val - l.start + 1, FALSE)]
        ELSE [l EXCEPT !.v = p,
                       !.start = IF p.val = l.v.val + 1 THEN @ ELSE p.val])

\* The table's entries go one by one, and the bits of a run, from start on,
\* where the chain jumps or ends.
freeNext(l) ==
    With(unchain(l.v), LAMBDA p :
        IF p.ok /\ (p.fg = 0 \/ p.val # l.v.val + 1)
        THEN [v |-> bitmapModify(p, l.start, l.v.val - l.start + 1, FALSE),
              start |-> p.val]
        ELSE [l EXCEPT !.v = p])

\* ExFatPartition::freeChain.
freeChain(v, cluster) ==
    LET after[k \in 0 .. ClusterCount] ==
            IF k = 0 THEN [v |-> [done(v) EXCEPT !.fg = 1, !.val = cluster],
                           start |-> cluster]
            ELSE With(after[k - 1], LAMBDA l :
                IF ~l.v.ok \/ l.v.fg = 0 THEN l ELSE freeNext(l))
    IN  after[ClusterCount].v

\* ExFatPartition::chainSize follows a chain to its end; a chain that cannot
\* be read has size 0.
chainSize(v, cluster) ==
    LET after[k \in 0 .. ClusterCount] ==
            IF k = 0 THEN [v |-> [v EXCEPT !.fg = 1, !.val = cluster], n |-> 0]
            ELSE With(after[k - 1], LAMBDA l :
                IF l.v.fg # 1 THEN l
                ELSE [v |-> fatGet(l.v, l.v.val), n |-> l.n + 1])
    IN  With(after[ClusterCount], LAMBDA l :
            [done(l.v) EXCEPT !.val = IF l.v.fg = 0 THEN l.n ELSE 0])

-----------------------------------------------------------------------------
(* What is on the volume.                                                  *)

FatEntry(dev, c) == dev[FatSector(c)][c % BytesPerSector]
InUse(dev, c) == dev[BitmapSector(c - 2)][(c - 2) % BytesPerSector]

\* No chain is on a cluster that is free or leads to one, and no two chains
\* lead to the same cluster.
TableSound(dev) ==
    /\ \A c \in Clusters : FatEntry(dev, c) # Free => InUse(dev, c)
    /\ \A c \in Clusters :
          FatEntry(dev, c) \in Clusters => InUse(dev, FatEntry(dev, c))
    /\ \A c \in Clusters, e \in Clusters :
          FatEntry(dev, c) \in Clusters /\ FatEntry(dev, e) = FatEntry(dev, c) => e = c

-----------------------------------------------------------------------------
\* ExFatPartition::init: an empty buffer, and a search that sets the search
\* start to the first free cluster.
mount(dev) ==
    bitmapFind([dev |-> dev, cache |-> emptyCache(dev[0]), search |-> 0,
                log |-> <<>>, io |-> MaxIo, noise |-> <<>>, ok |-> TRUE,
                hung |-> FALSE, val |-> 0],
               0, 1)
=============================================================================
