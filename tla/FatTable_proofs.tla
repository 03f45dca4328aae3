--------------------------- MODULE FatTable_proofs ---------------------------
(***************************************************************************)
(* Theorems about one call on the table of a FAT volume of any size, on a  *)
(* card that may fail any access and lose power after any sector written.  *)
(*                                                                         *)
(* A call is safe (Safe) when the table on the device has been one of      *)
(* those allowed after each of its writes so far (Cuts), when the library  *)
(* sees such a table now and when, as long as nothing has failed, its      *)
(* buffer is as good as the device. Every function of the cache and of     *)
(* the table takes a safe call in which nothing has failed to a safe one;  *)
(* the theorems say, besides, what it does to the table and to the other   *)
(* sectors: allocateCluster, allocContiguous, freeChain, reads and writes  *)
(* around the buffer, and the mount after a loss of power. A read that     *)
(* fails may leave any words in the buffer under the number of the old     *)
(* sector: nothing is said of calls that go on from such a buffer.         *)
(*                                                                         *)
(* What the layers above keep in a call, and the words that they keep in   *)
(* sectors that are not of the table, are parameters.                      *)
(***************************************************************************)
EXTENDS FatTable, FiniteSetTheorems, Loops

CONSTANTS MoreFields,   \* what the layers above keep in the record of a call,
          MoreValues,   \* its values,
          MoreWords     \* and what they keep in sectors

-----------------------------------------------------------------------------
(* Types.                                                                  *)

Sectors == 0 .. LastSector
Contents == [Words -> Nat \cup MoreWords]
Devices == {dev \in [Sectors -> Contents] : \A s \in TableSectors : dev[s] \in TableContents}
Caches == [sector : Sectors \cup {NoSector}, dirty : BOOLEAN, mirror : BOOLEAN,
           data : Contents]
Writes == [sector : Sectors, data : Contents]
Noises == {noise \in UNION {[X -> Contents] : X \in SUBSET Sectors} :
              \A s \in TableSectors \cap DOMAIN noise : noise[s] \in TableContents}
Fields == {"dev", "log", "io", "noise", "cache", "ok", "search", "fg", "val", "full"}
              \cup MoreFields
Values == Devices \cup Seq(Writes) \cup Int \cup Noises \cup BOOLEAN \cup Caches
              \cup MoreValues
Calls ==
    {v \in [Fields -> Values] :
        /\ v.dev \in Devices /\ v.log \in Seq(Writes) /\ v.io \in Int /\ v.noise \in Noises
        /\ v.cache \in Caches /\ v.ok \in BOOLEAN /\ v.search \in 1 .. LastCluster}

\* Of the fields, those of the device and the buffer alone differ.
OverDevice == {"dev", "log", "io", "cache", "ok"}
Beside(v, w, X) == \A x \in Fields \ X : w[x] = v[x]

LEMMA okIs ==
    ASSUME NEW v \in Calls, NEW b \in BOOLEAN
    PROVE  /\ [v EXCEPT !.ok = b] \in Calls /\ [v EXCEPT !.ok = b].ok = b
           /\ Beside(v, [v EXCEPT !.ok = b], {"ok"})
  BY DEF Calls, Fields, Values, Beside

LEMMA accessIs ==
    ASSUME NEW v \in Calls, NEW sector \in Int
    PROVE  /\ access(v, sector) \in Calls
           /\ Beside(v, access(v, sector), {"io", "ok"})
           /\ access(v, sector).ok = TRUE => sector \in Sectors
  <1> DEFINE a == access(v, sector)
             b == (v.io # 0 /\ sector \in DOMAIN v.dev)
  <1>1. /\ v.io - 1 \in Int /\ v.io - 1 \in Values /\ b \in BOOLEAN /\ b \in Values
        /\ DOMAIN v.dev = Sectors
    BY DEF Calls, Devices, Values
  <1>2. a = [v EXCEPT !.io = v.io - 1, !.ok = b]
    BY DEF access
  <1> HIDE DEF a, b
  <1>3. /\ a \in [Fields -> Values] /\ a.io = v.io - 1 /\ a.ok = b
        /\ Beside(v, a, {"io", "ok"})
    BY <1>1, <1>2 DEF Calls, Beside, Fields
  <1>4. a \in Calls
    BY <1>1, <1>3 DEF Calls, Beside, Fields
  <1>5. b => sector \in Sectors
    BY <1>1 DEF b
  <1> QED
    BY <1>3, <1>4, <1>5 DEF a

-----------------------------------------------------------------------------
(* Where an entry of the table lies.                                       *)

\* Quotient and remainder.
LEMMA Quotient ==
    ASSUME NEW C \in Nat \ {0}, NEW a \in Nat
    PROVE  /\ a = C * (a \div C) + (a % C)
           /\ a % C \in 0 .. C - 1 /\ a \div C \in Nat
  OBVIOUS

\* The two copies of the table are sectors of the device.
LEMMA Geometry ==
    /\ LastSector \in Nat
    /\ \A s \in TableSectors : s \in Sectors /\ s + SectorsPerFat \in Sectors
    /\ \A s \in TableSectors, t \in TableSectors : s + SectorsPerFat # t
    /\ NoSector \notin Sectors
  <1> DEFINE n == LastCluster + 1 - 2
             m == n * SectorsPerCluster
  <1>1. n \in Nat \ {0} /\ SectorsPerCluster \in Nat \ {0} /\ SectorsPerFat \in Nat \ {0}
    BY SectorAssumption, TableAssumption
  <1>2. m \in Nat \ {0}
    <2> HIDE DEF n
    <2> QED
      BY <1>1
  <1>3. LastSector = 0 + 2 * SectorsPerFat + m - 1
    <2>1. DataStartSector = 2 * SectorsPerFat /\ DataStartSector \in Nat
      BY <1>1 DEF DataStartSector, FatStartSector
    <2>2. clusterStartSector(LastCluster + 1) = DataStartSector + m
      BY <1>1, <2>1, TableAssumption DEF clusterStartSector
    <2> HIDE DEF m
    <2> QED
      BY <1>1, <1>2, <2>1, <2>2 DEF LastSector
  <1> HIDE DEF m
  <1> QED
    BY <1>1, <1>2, <1>3 DEF Sectors, TableSectors, NoSector

\* Every cluster has an entry in the table.
LEMMA EntryPlace ==
    ASSUME NEW c \in Clusters
    PROVE  /\ FatSector(c) \in TableSectors /\ FatSector(c) \in Sectors
           /\ c % BytesPerSector \in Words
  <1>1. /\ BytesPerSector \in Nat \ {0} /\ SectorsPerFat \in Nat \ {0} /\ c \in Nat
        /\ SectorsPerFat * BytesPerSector > c
    BY SectorAssumption, TableAssumption DEF Clusters
  <1> DEFINE q == c \div BytesPerSector
             r == c % BytesPerSector
  <1>2. c = BytesPerSector * q + r /\ r \in 0 .. BytesPerSector - 1 /\ q \in Nat
    BY <1>1, Quotient
  <1>3. FatSector(c) = q
    BY <1>2 DEF FatSector, FatStartSector
  <1> HIDE DEF q, r
  <1>4. q < SectorsPerFat
    <2>1. ASSUME q >= SectorsPerFat PROVE FALSE
      <3>1. BytesPerSector * q >= SectorsPerFat * BytesPerSector
        BY <1>1, <1>2, <2>1
      <3> QED
        BY <1>1, <1>2, <3>1
    <2> QED
      BY <1>1, <1>2, <2>1
  <1>5. q \in TableSectors
    BY <1>1, <1>2, <1>4 DEF TableSectors
  <1> QED
    BY <1>2, <1>3, <1>5, Geometry DEF Words, r

\* No other cluster has the same.
LEMMA EntryOfOne ==
    ASSUME NEW c \in Clusters, NEW d \in Clusters, FatSector(c) = FatSector(d),
           c % BytesPerSector = d % BytesPerSector
    PROVE  c = d
  <1>1. BytesPerSector \in Nat \ {0} /\ c \in Nat /\ d \in Nat
    BY SectorAssumption, TableAssumption DEF Clusters
  <1>2. c \div BytesPerSector = d \div BytesPerSector
    BY <1>1 DEF FatSector, FatStartSector
  <1>3. c = BytesPerSector * (c \div BytesPerSector) + (c % BytesPerSector)
    BY <1>1, Quotient
  <1>4. d = BytesPerSector * (d \div BytesPerSector) + (d % BytesPerSector)
    BY <1>1, Quotient
  <1> QED
    BY <1>2, <1>3, <1>4

-----------------------------------------------------------------------------
(* What a loss of power leaves.                                            *)

\* One write after the other.
LEMMA WrittenIs ==
    ASSUME NEW dev \in [Sectors -> Contents], NEW log \in Seq(Writes),
           NEW n \in 0 .. Len(log)
    PROVE  /\ WrittenUpTo(dev, log, n) \in [Sectors -> Contents]
           /\ n = 0 => WrittenUpTo(dev, log, n) = dev
           /\ n # 0 => WrittenUpTo(dev, log, n) =
                  [WrittenUpTo(dev, log, n - 1) EXCEPT ![log[n].sector] = log[n].data]
  <1> DEFINE S == [Sectors -> Contents]
             Step(k, x) == [x EXCEPT ![log[k].sector] = log[k].data]
             G == [p \in Int \X S |-> Step(p[1], p[2])]
             Is(f, m) == f = [k \in 0 .. m |-> IF k = 0 THEN dev ELSE Step(k, f[k - 1])]
             w(m) == CHOOSE f : Is(f, m)
  <1>0. Len(log) \in Nat
    OBVIOUS
  <1>1. ASSUME NEW k \in 1 .. Len(log), NEW x \in S PROVE Step(k, x) \in S
    <2>1. log[k] \in Writes
      OBVIOUS
    <2>2. log[k].data \in Contents
      BY <2>1 DEF Writes
    <2> QED
      BY <2>2
  <1> HIDE DEF S, Step
  <1>2. ASSUME NEW k \in 1 .. Len(log), NEW x \in S PROVE G[<<k, x>>] = Step(k, x)
    OBVIOUS
  <1> HIDE DEF G
  <1>3. ASSUME NEW m \in 0 .. Len(log)
        PROVE  Is(w(m), m) /\ \A k \in 0 .. m : w(m)[k] \in S
    <2> DEFINE T == Nat \X S
    <2>1. \E f \in [0 .. m -> S] : Loop(f, dev, G, m)
      <3>1. \A k \in 1 .. m, x \in S : <<k - 1, x>> \in T =>
                G[<<k, x>>] \in S /\ <<k, G[<<k, x>>]>> \in T
        <4>1. \A k \in 1 .. m : k \in 1 .. Len(log) /\ k \in Nat
          BY <1>0
        <4> QED
          BY <4>1, <1>1, <1>2
      <3>2. dev \in S /\ <<0, dev>> \in T /\ m \in Nat
        BY <1>0 DEF S
      <3> HIDE DEF T
      <3>3. \E f \in [0 .. m -> S] :
                Loop(f, dev, G, m) /\ \A k \in 0 .. m : <<k, f[k]>> \in T
        BY ONLY <3>1, <3>2, LoopRuns
      <3> QED
        BY <3>3
    <2>2. PICK f \in [0 .. m -> S] : Loop(f, dev, G, m)
      BY <2>1
    <2>3. ASSUME NEW k \in 0 .. m, k # 0 PROVE G[<<k, f[k - 1]>>] = Step(k, f[k - 1])
      <3>1. k - 1 \in 0 .. m /\ k \in 1 .. Len(log)
        BY <1>0, <2>3
      <3>2. f[k - 1] \in S
        BY <3>1
      <3> QED
        BY <3>1, <3>2, <1>2
    <2>4. Is(f, m)
      BY <2>2, <2>3 DEF Loop
    <2>5. Is(w(m), m)
      BY <2>4, Zenon
    <2> DEFINE u == w(m)
    <2>6. Is(u, m)
      BY <2>5
    <2> HIDE DEF w, u
    <2>7. u[0] = dev /\ \A k \in 1 .. m : u[k] = Step(k, u[k - 1])
      BY <1>0, <2>6
    <2>8. dev \in S
      BY DEF S
    <2>9. ASSUME NEW k \in 1 .. m, u[k - 1] \in S PROVE u[k] \in S
      <3>1. k \in 1 .. Len(log)
        BY <1>0
      <3> QED
        BY <1>1, <2>7, <2>9, <3>1
    <2>a. m \in Nat
      BY <1>0
    <2> HIDE DEF Is
    <2>10. \A k \in 0 .. m : u[k] \in S
      BY <2>a, <2>7, <2>8, <2>9, LoopKeeps
    <2> QED
      BY <2>6, <2>10 DEF u
  <1>4. \A m : WrittenUpTo(dev, log, m) = w(m)[m]
    BY DEF WrittenUpTo, Step
  <1> HIDE DEF w
  <1>5. w(n)[n] \in S /\ (n = 0 => w(n)[n] = dev)
    BY <1>0, <1>3
  <1>6. ASSUME n # 0 PROVE w(n)[n] = Step(n, w(n - 1)[n - 1])
    <2> DEFINE m == n - 1
    <2>1. m \in 0 .. Len(log) /\ n \in 1 .. Len(log) /\ m \in 0 .. n
      BY <1>0, <1>6
    <2>2. /\ w(n)[0] = dev /\ \A k \in 1 .. n : w(n)[k] = Step(k, w(n)[k - 1])
          /\ w(m)[0] = dev /\ \A k \in 1 .. m : w(m)[k] = Step(k, w(m)[k - 1])
      <3> HIDE DEF Is
      <3>1. Is(w(n), n) /\ Is(w(m), m) /\ n \in Nat /\ m \in Nat
        BY <1>0, <1>3, <2>1
      <3> QED
        BY <3>1 DEF Is
    <2>3. \A k \in 0 .. m : w(n)[k] = w(m)[k]
      <3> DEFINE E == {p \in S \X S : p[1] = p[2]}
                 h == [k \in 0 .. m |-> <<w(n)[k], w(m)[k]>>]
      <3>1. h[0] \in E
        BY <2>1, <2>2, <1>5 DEF S
      <3>2. \A k \in 1 .. m : h[k - 1] \in E => h[k] \in E
        <4> TAKE k \in 1 .. m
        <4>1. k \in 0 .. m /\ k - 1 \in 0 .. m /\ k \in 1 .. n /\ k \in 0 .. n
          BY <1>0, <2>1
        <4>2. w(n)[k] = Step(k, w(n)[k - 1]) /\ w(m)[k] = Step(k, w(m)[k - 1])
          BY <2>2, <4>1
        <4>3. w(n)[k] \in S /\ w(m)[k] \in S
          BY <1>3, <2>1, <4>1
        <4> QED
          BY <4>1, <4>2, <4>3
      <3>3. \A k \in 0 .. m : h[k] = <<w(n)[k], w(m)[k]>>
        OBVIOUS
      <3>a. m \in Nat
        BY <1>0, <2>1
      <3> HIDE DEF h, E, m
      <3>4. \A k \in 0 .. m : h[k] \in E
        BY <3>a, <3>1, <3>2, LoopKeeps
      <3> QED
        BY <3>3, <3>4 DEF E
    <2>4. m \in 0 .. m /\ n \in 1 .. n
      BY <1>0, <1>6
    <2>5. w(n)[n] = Step(n, w(n)[n - 1])
      BY <2>2, <2>4
    <2> QED
      BY <2>3, <2>4, <2>5
  <1> QED
    BY <1>4, <1>5, <1>6 DEF S, Step

\* What is appended comes last.
OneMore(dev, log, e) ==
    /\ \A n \in 0 .. Len(log) :
           WrittenUpTo(dev, Append(log, e), n) = WrittenUpTo(dev, log, n)
    /\ Len(Append(log, e)) = Len(log) + 1
    /\ WrittenUpTo(dev, Append(log, e), Len(log) + 1) =
           [WrittenUpTo(dev, log, Len(log)) EXCEPT ![e.sector] = e.data]

LEMMA WrittenOn ==
    ASSUME NEW dev \in [Sectors -> Contents], NEW log \in Seq(Writes), NEW e \in Writes
    PROVE  OneMore(dev, log, e)
  <1> DEFINE l == Append(log, e)
             m == Len(log)
             f == [n \in 0 .. m |-> <<WrittenUpTo(dev, l, n), WrittenUpTo(dev, log, n)>>]
             S == [Sectors -> Contents]
             E == {p \in S \X S : p[1] = p[2]}
  <1>1. /\ m \in Nat /\ l \in Seq(Writes) /\ Len(l) = m + 1 /\ l[m + 1] = e
        /\ \A n \in 1 .. m : l[n] = log[n]
    OBVIOUS
  <1> HIDE DEF l, m, E
  <1>2. \A n \in 0 .. m : f[n] = <<WrittenUpTo(dev, l, n), WrittenUpTo(dev, log, n)>>
    OBVIOUS
  <1> HIDE DEF f
  <1>3. \A n \in 0 .. m : n \in 0 .. Len(l) /\ n \in 0 .. Len(log)
    BY <1>1 DEF m
  <1>4. f[0] \in E
    <2>1. 0 \in 0 .. m
      BY <1>1
    <2>2. 0 \in 0 .. Len(l) /\ 0 \in 0 .. Len(log)
      BY <1>3, <2>1
    <2>3. WrittenUpTo(dev, log, 0) = dev
      BY <2>2, WrittenIs
    <2>4. WrittenUpTo(dev, l, 0) = dev
      BY <1>1, <2>2, WrittenIs
    <2>5. f[0] = <<dev, dev>>
      BY <1>2, <2>1, <2>3, <2>4
    <2> QED
      BY <2>5 DEF E
  <1>5. ASSUME NEW n \in 1 .. m, f[n - 1] \in E PROVE f[n] \in E
    <2>1. n \in 0 .. m /\ n - 1 \in 0 .. m /\ n # 0
      BY <1>1
    <2>2. WrittenUpTo(dev, l, n - 1) = WrittenUpTo(dev, log, n - 1)
      BY <1>2, <1>5, <2>1 DEF E
    <2>3. WrittenUpTo(dev, l, n) =
              [WrittenUpTo(dev, l, n - 1) EXCEPT ![l[n].sector] = l[n].data]
      <3>1. l \in Seq(Writes) /\ n \in 0 .. Len(l)
        BY <1>1, <1>3, <2>1
      <3> QED
        BY <2>1, <3>1, WrittenIs
    <2>4. WrittenUpTo(dev, log, n) =
              [WrittenUpTo(dev, log, n - 1) EXCEPT ![log[n].sector] = log[n].data]
      BY <1>3, <2>1, WrittenIs
    <2>5. WrittenUpTo(dev, l, n) = WrittenUpTo(dev, log, n)
      BY <1>1, <2>2, <2>3, <2>4
    <2>6. WrittenUpTo(dev, log, n) \in S
      BY <1>3, <2>1, WrittenIs
    <2>7. f[n] = <<WrittenUpTo(dev, log, n), WrittenUpTo(dev, log, n)>>
      BY <1>2, <2>1, <2>5
    <2> QED
      BY <2>6, <2>7 DEF E
  <1>6. \A n \in 0 .. m : f[n] \in E
    BY <1>1, <1>4, <1>5, LoopKeeps
  <1>7. \A n \in 0 .. m : WrittenUpTo(dev, l, n) = WrittenUpTo(dev, log, n)
    BY <1>2, <1>6 DEF E
  <1>8. WrittenUpTo(dev, l, m + 1) =
            [WrittenUpTo(dev, l, m) EXCEPT ![e.sector] = e.data]
    <2>1. m + 1 \in 0 .. Len(l) /\ m + 1 # 0 /\ (m + 1) - 1 = m
      BY <1>1
    <2> DEFINE n == m + 1
    <2>2. n \in 0 .. Len(l) /\ n # 0 /\ n - 1 = m /\ l[n] = e
      BY <1>1, <2>1
    <2> HIDE DEF n
    <2>3. WrittenUpTo(dev, l, n) =
              [WrittenUpTo(dev, l, n - 1) EXCEPT ![l[n].sector] = l[n].data]
      BY <1>1, <2>2, WrittenIs
    <2> QED
      BY <2>2, <2>3 DEF n
  <1>9. m \in 0 .. m
    BY <1>1
  <1> QED
    BY <1>1, <1>7, <1>8, <1>9 DEF l, m, OneMore

-----------------------------------------------------------------------------
(* The table, and what is promised of a call.                              *)

\* Sectors that are not those of the copy are the same.
Alike(d, e) == \A s \in Sectors : InCopy(s) \/ e[s] = d[s]

\* After any number of the writes of the call, the table on the device is
\* one of Ts.
Cuts(d0, v, Ts) ==
    /\ WrittenUpTo(d0, v.log, Len(v.log)) = v.dev
    /\ \A n \in 0 .. Len(v.log) : /\ WrittenUpTo(d0, v.log, n) \in Devices
                                  /\ TableOf(WrittenUpTo(d0, v.log, n)) \in Ts

\* The copy of the table is one, but for what the buffer has still to write and
\* for what an earlier loss of power left undone.
CopyGood(d0, v) ==
    \A s \in TableSectors :
        \/ v.dev[s + SectorsPerFat] = v.dev[s]
        \/ d0[s + SectorsPerFat] # d0[s]
        \/ v.cache.sector = s /\ v.cache.dirty = TRUE

\* The buffer is as it is marked and, as long as no access has failed, as good
\* as the device.
BufferGood(v) == BufferMarked(v) /\ (v.ok = TRUE => BufferClean(v))

\* The calls on a device that was d0 with all of this, whose table is one of
\* Ts wherever the power may go, and as the library sees it.
Safe(d0, Ts) ==
    {v \in Calls : /\ BufferGood(v) /\ CopyGood(d0, v) /\ Cuts(d0, v, Ts)
                   /\ TableOf(Seen(v)) \in Ts}

LEMMA AlikeOn ==
    ASSUME NEW c, NEW d, NEW e, Alike(c, d), Alike(d, e)
    PROVE  Alike(c, e)
  BY DEF Alike

\* The copy is not the table.
LEMMA NotInCopy == \A s \in TableSectors : ~InCopy(s)
  BY Geometry, SectorAssumption DEF InCopy, TableSectors

LEMMA AlikeTables ==
    ASSUME NEW d, NEW e, Alike(d, e)
    PROVE  TableOf(e) = TableOf(d)
  <1>1. \A c \in Clusters : e[FatSector(c)] = d[FatSector(c)]
    BY EntryPlace, NotInCopy DEF Alike
  <1> QED
    BY <1>1 DEF TableOf

-----------------------------------------------------------------------------
(* The device and the buffer.                                              *)

LEMMA BesideOn ==
    ASSUME NEW u, NEW v, NEW w, NEW X, NEW Y, NEW Z, X \subseteq Z, Y \subseteq Z,
           Beside(u, v, X), Beside(v, w, Y)
    PROVE  Beside(u, w, Z)
  BY DEF Beside

LEMMA cacheIs ==
    ASSUME NEW v \in Calls, NEW c \in Caches
    PROVE  /\ [v EXCEPT !.cache = c] \in Calls /\ [v EXCEPT !.cache = c].cache = c
           /\ Beside(v, [v EXCEPT !.cache = c], {"cache"})
  BY DEF Calls, Fields, Values, Beside

\* A write that succeeds is in the log and on the device.
LEMMA writeSectorIs ==
    ASSUME NEW v \in Calls, NEW sector \in Int, NEW data \in Contents,
           sector \in TableSectors => data \in TableContents
    PROVE  LET w == writeSector(v, sector, data)
           IN  /\ w \in Calls /\ Beside(v, w, {"dev", "log", "io", "ok"})
               /\ w.ok # TRUE => w.dev = v.dev /\ w.log = v.log
               /\ w.ok = TRUE =>
                      /\ sector \in Sectors /\ w.dev = [v.dev EXCEPT ![sector] = data]
                      /\ w.log = Append(v.log, [sector |-> sector, data |-> data])
  <1> DEFINE w == writeSector(v, sector, data)
             a == access(v, sector)
             dev == [a.dev EXCEPT ![sector] = data]
             e == [sector |-> sector, data |-> data]
             log == Append(a.log, e)
             u == [a EXCEPT !.dev = dev, !.log = log]
  <1>1. /\ a \in Calls /\ Beside(v, a, {"io", "ok"})
        /\ a.ok = TRUE => sector \in Sectors
    BY accessIs
  <1>2. a.dev = v.dev /\ a.log = v.log /\ a.ok \in BOOLEAN
    BY <1>1 DEF Beside, Fields, Calls
  <1>3. w = IF a.ok THEN u ELSE a
    BY DEF writeSector, Then
  <1>4. CASE a.ok = TRUE
    <2> HIDE DEF a
    <2>1. dev \in Devices
      <3>1. a.dev \in Devices /\ sector \in Sectors
        BY <1>1, <1>4 DEF Calls
      <3>2. /\ dev \in [Sectors -> Contents]
            /\ \A s \in TableSectors : dev[s] = IF s = sector THEN data ELSE a.dev[s]
        BY <3>1, Geometry DEF Devices
      <3> HIDE DEF dev
      <3> QED
        BY <3>1, <3>2 DEF Devices
    <2>2. log \in Seq(Writes)
      <3>1. e \in Writes
        BY <1>1, <1>4 DEF Writes
      <3>2. a.log \in Seq(Writes)
        BY <1>1 DEF Calls
      <3> HIDE DEF e
      <3> QED
        BY <3>1, <3>2
    <2> HIDE DEF dev, log
    <2>3. /\ u \in Calls /\ Beside(a, u, {"dev", "log"}) /\ u.dev = dev
          /\ u.log = log /\ u.ok = a.ok
      BY <1>1, <2>1, <2>2 DEF Calls, Fields, Values, Beside
    <2> HIDE DEF u
    <2>4. Beside(v, u, {"dev", "log", "io", "ok"})
      BY <1>1, <2>3, BesideOn
    <2>5. w = u
      BY <1>3, <1>4
    <2> QED
      BY <1>1, <1>2, <1>4, <2>3, <2>4, <2>5 DEF dev, log
  <1>5. CASE a.ok # TRUE
    <2> HIDE DEF a
    <2>1. w = a
      BY <1>2, <1>3, <1>5
    <2>2. Beside(v, a, {"dev", "log", "io", "ok"})
      BY <1>1 DEF Beside
    <2> QED
      BY <1>1, <1>2, <1>5, <2>1, <2>2
  <1> QED
    BY <1>4, <1>5

\* One more moment at which the power may go.
LEMMA CutsWritten ==
    ASSUME NEW d0 \in [Sectors -> Contents], NEW Ts, NEW v \in Calls, NEW w \in Calls,
           Cuts(d0, v, Ts), NEW sector \in Sectors, NEW data \in Contents,
           w.dev = [v.dev EXCEPT ![sector] = data],
           w.log = Append(v.log, [sector |-> sector, data |-> data]),
           TableOf(w.dev) \in Ts
    PROVE  Cuts(d0, w, Ts)
  <1> DEFINE e == [sector |-> sector, data |-> data]
             m == Len(v.log)
  <1>1. e \in Writes /\ e.sector = sector /\ e.data = data
    BY DEF Writes
  <1>2. v.log \in Seq(Writes) /\ m \in Nat
    BY DEF Calls
  <1>3. w.log = Append(v.log, e)
    OBVIOUS
  <1> HIDE DEF e
  <1>4. /\ \A n \in 0 .. m : WrittenUpTo(d0, w.log, n) = WrittenUpTo(d0, v.log, n)
        /\ Len(w.log) = m + 1
        /\ WrittenUpTo(d0, w.log, m + 1) =
               [WrittenUpTo(d0, v.log, m) EXCEPT ![e.sector] = e.data]
    <2>1. v.log \in Seq(Writes) /\ d0 \in [Sectors -> Contents]
      BY <1>2
    <2>2. OneMore(d0, v.log, e)
      BY ONLY <1>1, <2>1, WrittenOn
    <2> QED
      BY <1>3, <2>2 DEF OneMore
  <1>5. WrittenUpTo(d0, w.log, m + 1) = w.dev
    BY <1>1, <1>4 DEF Cuts
  <1>6. \A n \in 0 .. m : /\ WrittenUpTo(d0, w.log, n) \in Devices
                         /\ TableOf(WrittenUpTo(d0, w.log, n)) \in Ts
    BY <1>4 DEF Cuts
  <1>8. w.dev \in Devices
    BY DEF Calls
  <1>7. \A n \in 0 .. m + 1 : n \in 0 .. m \/ n = m + 1
    BY <1>2
  <1> HIDE DEF m
  <1> QED
    BY <1>4, <1>5, <1>6, <1>7, <1>8 DEF Cuts

\* Nothing written, nothing changed.
LEMMA CutsSame ==
    ASSUME NEW d0, NEW Ts, NEW v, NEW w, Cuts(d0, v, Ts), w.dev = v.dev, w.log = v.log
    PROVE  Cuts(d0, w, Ts)
  BY DEF Cuts

\* The table on the device is one of those that a loss of power may leave.
LEMMA CutsNow ==
    ASSUME NEW d0, NEW Ts, NEW v \in Calls, Cuts(d0, v, Ts)
    PROVE  TableOf(v.dev) \in Ts
  <1>1. Len(v.log) \in 0 .. Len(v.log)
    BY DEF Calls
  <1> QED
    BY <1>1 DEF Cuts

\* A sector outside the table changes nothing in it.
LEMMA TableElsewhere ==
    ASSUME NEW dev \in [Sectors -> Contents], NEW sector, sector \notin TableSectors,
           NEW data, NEW e, e = [dev EXCEPT ![sector] = data]
    PROVE  TableOf(e) = TableOf(dev)
  <1>1. \A c \in Clusters : e[FatSector(c)] = dev[FatSector(c)]
    BY EntryPlace
  <1> QED
    BY <1>1 DEF TableOf

\* What a function that leaves the buffer on its sector keeps.
Written(v, s) ==
    /\ Beside(v, s, OverDevice) /\ Alike(Seen(v), Seen(s))
    /\ s.cache = [v.cache EXCEPT !.dirty = s.cache.dirty]
    /\ s.ok = TRUE => s.cache.dirty = FALSE

\* The buffer is written to its sector and to the copy. Whatever fails, the
\* library sees the same, and so does it after a loss of power or before.
LEMMA syncSafe ==
    ASSUME NEW d0 \in [Sectors -> Contents], NEW Ts, NEW v \in Safe(d0, Ts), v.ok = TRUE
    PROVE  sync(v) \in Safe(d0, Ts) /\ Written(v, sync(v))
  <1> DEFINE c == v.cache
             s == sync(v)
             w == writeSector(v, c.sector, c.data)
             copy == c.sector + SectorsPerFat
             m == IF w.ok THEN IF c.mirror THEN writeSector(w, copy, c.data) ELSE w
                  ELSE w
  <1>1. /\ v \in Calls /\ BufferGood(v) /\ CopyGood(d0, v) /\ Cuts(d0, v, Ts)
        /\ TableOf(Seen(v)) \in Ts
    BY DEF Safe
  <1>2. /\ c \in Caches /\ c.dirty \in BOOLEAN /\ c.mirror \in BOOLEAN
        /\ c.data \in Contents /\ v.dev \in Devices /\ v.dev \in [Sectors -> Contents]
        /\ c.sector \in Sectors \cup {NoSector}
    BY <1>1 DEF Calls, Caches, Devices
  <1>3. CASE c.dirty = FALSE
    <2>1. s = [v EXCEPT !.ok = TRUE]
      BY <1>3 DEF sync, done
    <2> HIDE DEF s
    <2>2. s \in Calls /\ Beside(v, s, {"ok"})
      BY <1>1, <2>1, okIs
    <2>3. s.dev = v.dev /\ s.log = v.log /\ s.cache = v.cache
      BY <2>2 DEF Beside, Fields
    <2>4. Seen(s) = Seen(v)
      BY <2>3 DEF Seen
    <2>5. s \in Safe(d0, Ts)
      BY <1>1, <2>2, <2>3, <2>4, CutsSame
         DEF Safe, BufferGood, BufferMarked, BufferClean, CopyGood
    <2>6. Beside(v, s, OverDevice)
      BY <2>2 DEF Beside, OverDevice
    <2>7. s.cache = [v.cache EXCEPT !.dirty = s.cache.dirty]
      BY <1>2, <2>3 DEF Caches
    <2> QED
      BY <1>3, <2>3, <2>4, <2>5, <2>6, <2>7 DEF s, Written, Alike
  <1>4. CASE c.dirty = TRUE
    <2>1. s = IF m.ok THEN [m EXCEPT !.cache.dirty = FALSE] ELSE m
      BY <1>4 DEF sync, Then
    <2>2. /\ c.sector \in Sectors /\ c.sector \in Int /\ ~InCopy(c.sector)
          /\ (c.mirror = TRUE <=> c.sector \in TableSectors)
          /\ (c.sector \in TableSectors => c.data \in TableContents)
      BY <1>1, <1>2, <1>4 DEF BufferGood, BufferMarked, BufferClean, Sectors
    <2>3. Seen(v) = [v.dev EXCEPT ![c.sector] = c.data]
      BY <1>4 DEF Seen
    <2>4. /\ w \in Calls /\ Beside(v, w, {"dev", "log", "io", "ok"})
          /\ w.ok # TRUE => w.dev = v.dev /\ w.log = v.log
          /\ w.ok = TRUE =>
                /\ w.dev = [v.dev EXCEPT ![c.sector] = c.data]
                /\ w.log = Append(v.log, [sector |-> c.sector, data |-> c.data])
      <3> DEFINE x == c.sector
                 y == c.data
      <3>1. x \in Int /\ y \in Contents /\ (x \in TableSectors => y \in TableContents)
        BY <1>2, <2>2
      <3>2. w = writeSector(v, x, y)
        OBVIOUS
      <3> HIDE DEF x, y, w
      <3>3. /\ w \in Calls /\ Beside(v, w, {"dev", "log", "io", "ok"})
            /\ w.ok # TRUE => w.dev = v.dev /\ w.log = v.log
            /\ w.ok = TRUE =>
                  /\ w.dev = [v.dev EXCEPT ![x] = y]
                  /\ w.log = Append(v.log, [sector |-> x, data |-> y])
        BY <1>1, <3>1, <3>2, writeSectorIs
      <3> QED
        BY <3>3 DEF x, y
    <2> HIDE DEF w, m, s
    <2>5. w.cache = c /\ w.ok \in BOOLEAN
      BY <2>4 DEF Beside, Fields, Calls
    <2>6. Seen(w) = [w.dev EXCEPT ![c.sector] = c.data]
      BY <1>4, <2>5 DEF Seen
    <2> HIDE DEF c
    <2>7. Cuts(d0, w, Ts)
      <3>1. CASE w.ok = TRUE
        BY <1>1, <1>2, <2>2, <2>3, <2>4, <3>1, CutsWritten
      <3>2. CASE w.ok # TRUE
        BY <1>1, <2>4, <3>2, CutsSame
      <3> QED
        BY <3>1, <3>2
    <2>8. Seen(w) = Seen(v)
      BY <1>2, <2>2, <2>3, <2>4, <2>6
    <2>9. w \in Safe(d0, Ts)
      <3>1. BufferGood(w)
        BY <1>1, <1>4, <2>2, <2>5 DEF BufferGood, BufferMarked, BufferClean, c
      <3>2. CopyGood(d0, w)
        <4> SUFFICES ASSUME NEW t \in TableSectors, d0[t + SectorsPerFat] = d0[t]
                     PROVE  \/ w.dev[t + SectorsPerFat] = w.dev[t]
                            \/ w.cache.sector = t /\ w.cache.dirty = TRUE
          BY DEF CopyGood
        <4>1. CASE c.sector = t
          BY <1>4, <2>5, <4>1
        <4>2. CASE c.sector # t
          <5>1. t + SectorsPerFat # c.sector
            BY <2>2, SectorAssumption DEF InCopy, TableSectors
          <5>2. v.dev[t + SectorsPerFat] = v.dev[t]
            BY <1>1, <4>2 DEF CopyGood, c
          <5> QED
            BY <1>2, <2>4, <4>2, <5>1, <5>2, Geometry
        <4> QED
          BY <4>1, <4>2
      <3> QED
        BY <1>1, <2>4, <2>7, <2>8, <3>1, <3>2 DEF Safe
    <2>10. Beside(v, w, OverDevice)
      BY <2>4 DEF Beside, OverDevice
    <2>11. c = [c EXCEPT !.dirty = TRUE]
      BY <1>2, <1>4 DEF Caches
    <2>12. CASE w.ok # TRUE
      <3>1. m = w
        BY <2>5, <2>12 DEF m
      <3>2. s = w
        BY <2>1, <2>5, <2>12, <3>1
      <3> QED
        BY <1>4, <2>5, <2>8, <2>9, <2>10, <2>11, <2>12, <3>2 DEF Written, Alike, c, s
    <2>13. CASE w.ok = TRUE
      <3>1. w.dev = Seen(v)
        BY <2>3, <2>4, <2>13
      <3>2. /\ m \in Calls /\ Beside(w, m, {"dev", "log", "io", "ok"})
            /\ Cuts(d0, m, Ts)
            /\ \/ m.dev = w.dev
               \/ c.mirror = TRUE /\ m.dev = [w.dev EXCEPT ![copy] = c.data]
            /\ m.ok = TRUE /\ c.mirror = TRUE =>
                   m.dev = [w.dev EXCEPT ![copy] = c.data]
        <4>1. CASE c.mirror = FALSE
          <5>1. m = w
            BY <2>5, <2>13, <4>1 DEF m
          <5> QED
            BY <2>4, <2>7, <4>1, <5>1 DEF Beside
        <4>2. CASE c.mirror = TRUE
          <5>1. m = writeSector(w, copy, c.data)
            BY <2>5, <2>13, <4>2 DEF m
          <5>2. copy \in Int /\ copy \notin TableSectors
            BY <2>2, <4>2, Geometry, SectorAssumption DEF TableSectors
          <5> HIDE DEF copy
          <5>3. /\ m \in Calls /\ Beside(w, m, {"dev", "log", "io", "ok"})
                /\ m.ok # TRUE => m.dev = w.dev /\ m.log = w.log
                /\ m.ok = TRUE =>
                      /\ copy \in Sectors /\ m.dev = [w.dev EXCEPT ![copy] = c.data]
                      /\ m.log = Append(w.log, [sector |-> copy, data |-> c.data])
            <6> DEFINE y == c.data
            <6>1. y \in Contents /\ m = writeSector(w, copy, y)
              BY <1>2, <5>1
            <6> HIDE DEF y
            <6>2. /\ m \in Calls /\ Beside(w, m, {"dev", "log", "io", "ok"})
                  /\ m.ok # TRUE => m.dev = w.dev /\ m.log = w.log
                  /\ m.ok = TRUE =>
                        /\ copy \in Sectors /\ m.dev = [w.dev EXCEPT ![copy] = y]
                        /\ m.log = Append(w.log, [sector |-> copy, data |-> y])
              BY <2>4, <5>2, <6>1, writeSectorIs
            <6> QED
              BY <6>2 DEF y
          <5>4. CASE m.ok = TRUE
            <6>1. w.dev \in [Sectors -> Contents] /\ TableOf(w.dev) \in Ts
              BY <1>1, <2>4, <3>1 DEF Calls, Devices
            <6>2. TableOf(m.dev) \in Ts
              <7> DEFINE y == c.data
                         x == w.dev
              <7>1. m.dev = [x EXCEPT ![copy] = y] /\ x \in [Sectors -> Contents]
                BY <5>3, <5>4, <6>1
              <7> HIDE DEF x, y
              <7>2. TableOf(m.dev) = TableOf(x)
                BY ONLY <5>2, <7>1, TableElsewhere
              <7> QED
                BY <6>1, <7>2 DEF x
            <6>3. Cuts(d0, m, Ts)
              BY <1>2, <2>4, <2>7, <5>3, <5>4, <6>2, CutsWritten
            <6> QED
              BY <4>2, <5>3, <5>4, <6>3
          <5>5. CASE m.ok # TRUE
            BY <2>7, <4>2, <5>3, <5>5, CutsSame
          <5> QED
            BY <5>4, <5>5
        <4> QED
          BY <1>2, <4>1, <4>2
      <3>3. /\ m.cache = c /\ m.ok \in BOOLEAN /\ m.dev \in [Sectors -> Contents]
            /\ w.dev \in [Sectors -> Contents]
        BY <2>4, <2>5, <3>2 DEF Beside, Fields, Calls, Devices
      <3>4. Beside(v, m, OverDevice)
        BY <2>10, <3>2 DEF Beside, OverDevice
      <3>5. \A t \in Sectors : m.dev[t] = w.dev[t] \/ (InCopy(t) /\ t = copy /\ m.dev[t] = c.data)
        <4>1. c.mirror = TRUE => InCopy(copy)
          BY <2>2, SectorAssumption DEF InCopy, TableSectors
        <4> HIDE DEF copy
        <4> QED
          BY <3>2, <3>3, <4>1
      <3>6. w.dev[c.sector] = c.data
        BY <1>2, <2>2, <2>4, <2>13
      <3>7. m.dev[c.sector] = c.data
        BY <2>2, <3>5, <3>6
      <3>8. Alike(Seen(v), m.dev)
        BY <3>1, <3>5 DEF Alike
      <3>9. \A t \in TableSectors : t # c.sector /\ d0[t + SectorsPerFat] = d0[t] =>
                m.dev[t + SectorsPerFat] = m.dev[t]
        <4> SUFFICES ASSUME NEW t \in TableSectors, t # c.sector,
                            d0[t + SectorsPerFat] = d0[t]
                     PROVE  m.dev[t + SectorsPerFat] = m.dev[t]
          OBVIOUS
        <4>1. t \in Sectors /\ t + SectorsPerFat \in Sectors /\ ~InCopy(t)
              /\ t + SectorsPerFat # c.sector
          BY <2>2, Geometry, NotInCopy, SectorAssumption DEF InCopy, TableSectors
        <4>2. t + SectorsPerFat # copy
          BY <2>2, SectorAssumption DEF TableSectors, Sectors
        <4>3. m.dev[t] = w.dev[t] /\ m.dev[t + SectorsPerFat] = w.dev[t + SectorsPerFat]
          BY <3>5, <4>1, <4>2
        <4>4. w.dev[t] = v.dev[t] /\ w.dev[t + SectorsPerFat] = v.dev[t + SectorsPerFat]
          BY <1>2, <2>2, <2>4, <2>13, <4>1
        <4>5. v.dev[t + SectorsPerFat] = v.dev[t]
          BY <1>1 DEF CopyGood, c
        <4> QED
          BY <4>3, <4>4, <4>5
      <3>10. CASE m.ok # TRUE
        <4>1. s = m
          BY <2>1, <3>3, <3>10
        <4>2. Seen(m) = m.dev
          <5>1. Seen(m) = [m.dev EXCEPT ![c.sector] = c.data]
            BY <1>4, <3>3 DEF Seen
          <5> QED
            BY <2>2, <3>3, <3>7, <5>1
        <4>3. BufferGood(m)
          BY <1>1, <1>4, <3>3 DEF BufferGood, BufferMarked, BufferClean, c
        <4>4. CopyGood(d0, m)
          BY <1>4, <3>3, <3>9 DEF CopyGood
        <4>5. TableOf(Seen(m)) \in Ts
          BY <1>1, <3>8, <4>2, AlikeTables
        <4>6. m \in Safe(d0, Ts)
          BY <3>2, <4>3, <4>4, <4>5 DEF Safe
        <4>7. s.cache = [v.cache EXCEPT !.dirty = s.cache.dirty]
          BY <1>4, <2>11, <3>3, <4>1 DEF c
        <4> QED
          BY <3>4, <3>8, <3>10, <4>1, <4>2, <4>6, <4>7 DEF Written, s
      <3>11. CASE m.ok = TRUE
        <4> DEFINE b == [c EXCEPT !.dirty = FALSE]
        <4>1. s = [m EXCEPT !.cache = b]
          BY <2>1, <3>3, <3>11
        <4>2. b \in Caches /\ b.dirty = FALSE /\ b.sector = c.sector /\ b.data = c.data
              /\ b.mirror = c.mirror
          BY <1>2 DEF Caches
        <4> HIDE DEF b
        <4>3. s \in Calls /\ s.cache = b /\ Beside(m, s, {"cache"})
          BY <3>2, <4>1, <4>2, cacheIs
        <4>4. s.dev = m.dev /\ s.log = m.log
          BY <4>3 DEF Beside, Fields
        <4>5. Seen(s) = m.dev
          BY <4>2, <4>3, <4>4 DEF Seen
        <4>6. BufferGood(s)
          BY <1>1, <2>2, <3>7, <4>2, <4>3, <4>4, Geometry
             DEF BufferGood, BufferMarked, BufferClean, c
        <4>7. CopyGood(d0, s)
          <5> SUFFICES ASSUME NEW t \in TableSectors, d0[t + SectorsPerFat] = d0[t]
                       PROVE  s.dev[t + SectorsPerFat] = s.dev[t]
            BY DEF CopyGood
          <5>1. CASE t # c.sector
            BY <3>9, <4>4, <5>1
          <5>2. CASE t = c.sector
            <6>1. c.mirror = TRUE
              BY <2>2, <5>2
            <6>2. copy \in Sectors /\ copy = t + SectorsPerFat
              BY <5>2, Geometry
            <6>3. m.dev = [w.dev EXCEPT ![copy] = c.data]
              BY <3>2, <3>11, <6>1
            <6> HIDE DEF copy
            <6>4. m.dev[copy] = c.data
              BY <3>3, <6>2, <6>3
            <6> QED
              BY <3>7, <4>4, <5>2, <6>2, <6>4
          <5> QED
            BY <5>1, <5>2
        <4>8. Cuts(d0, s, Ts)
          BY <3>2, <4>4, CutsSame
        <4>9. TableOf(Seen(s)) \in Ts
          BY <1>1, <3>8, <4>5, AlikeTables
        <4>10. s \in Safe(d0, Ts)
          BY <4>3, <4>6, <4>7, <4>8, <4>9 DEF Safe
        <4>11. Beside(v, s, OverDevice)
          BY <3>4, <4>3 DEF Beside, OverDevice
        <4>12. s.cache = [v.cache EXCEPT !.dirty = s.cache.dirty]
          BY <4>2, <4>3 DEF b, c
        <4> QED
          BY <3>8, <4>2, <4>3, <4>5, <4>10, <4>11, <4>12 DEF Written, s
      <3> QED
        BY <3>3, <3>10, <3>11
    <2> QED
      BY <2>5, <2>12, <2>13
  <1> QED
    BY <1>2, <1>3, <1>4

\* How the sectors of the table and the other ones are asked for.
Options(sector) == IF sector \in TableSectors THEN {OfFat(ForRead), OfFat(ForWrite)}
                                               ELSE {ForRead, ForWrite}
LEMMA OptionsAre ==
    ASSUME NEW sector, NEW option \in Options(sector)
    PROVE  /\ option.noRead = FALSE /\ option.write \in BOOLEAN
           /\ option.mirror \in BOOLEAN
           /\ option.mirror = TRUE <=> sector \in TableSectors
  <1>1. /\ ForRead.noRead = FALSE /\ ForRead.write = FALSE /\ ForRead.mirror = FALSE
        /\ ForWrite.noRead = FALSE /\ ForWrite.write = TRUE /\ ForWrite.mirror = FALSE
    BY DEF ForRead, ForWrite
  <1>2. /\ OfFat(ForRead).noRead = FALSE /\ OfFat(ForRead).write = FALSE
        /\ OfFat(ForRead).mirror = TRUE
        /\ OfFat(ForWrite).noRead = FALSE /\ OfFat(ForWrite).write = TRUE
        /\ OfFat(ForWrite).mirror = TRUE
    BY DEF ForRead, ForWrite, OfFat
  <1> QED
    BY <1>1, <1>2 DEF Options

\* What a function that may take the buffer to another sector keeps.
Kept(v, w) == Beside(v, w, OverDevice) /\ Alike(Seen(v), Seen(w))

\* The sector is in the buffer, as the library sees it.
Holds(v, sector) == v.cache.sector = sector /\ v.cache.data = Seen(v)[sector]

\* The buffer is as good as what it holds.
LEMMA HoldsGood ==
    ASSUME NEW d0, NEW Ts, NEW v \in Safe(d0, Ts),
           v.ok = TRUE, v.cache.sector \in Sectors
    PROVE  Holds(v, v.cache.sector)
  <1>1. /\ v \in Calls /\ BufferGood(v) /\ v.dev \in [Sectors -> Contents]
        /\ v.cache.dirty \in BOOLEAN /\ v.cache.sector # NoSector
    BY Geometry DEF Safe, Calls, Devices, Caches
  <1>2. CASE v.cache.dirty = TRUE
    BY <1>1, <1>2 DEF Holds, Seen
  <1>3. CASE v.cache.dirty = FALSE
    BY <1>1, <1>3 DEF Holds, Seen, BufferGood, BufferMarked, BufferClean
  <1> QED
    BY <1>1, <1>2, <1>3

\* A read that fails may leave other words in the buffer, and nothing else.
ReadWell(v, sector, r) ==
    /\ Beside(v, r, {"io", "ok", "cache"})
    /\ r.cache = [v.cache EXCEPT !.data = r.cache.data]
    /\ r.ok = TRUE => r.cache.data = v.dev[sector]
    /\ v.cache.sector \in TableSectors /\ v.cache.data \in TableContents /\ r.ok # TRUE =>
           r.cache.data \in TableContents
LEMMA readSectorIs ==
    ASSUME NEW v \in Calls, NEW sector \in Sectors
    PROVE  readSector(v, sector) \in Calls /\ ReadWell(v, sector, readSector(v, sector))
  <1> DEFINE a == access(v, sector)
             good == [a.cache EXCEPT !.data = a.dev[sector]]
             noise == a.noise[a.cache.sector]
             bad == [a.cache EXCEPT !.data = noise]
             x == [a EXCEPT !.cache = good]
             y == [a EXCEPT !.cache = bad]
             r == readSector(v, sector)
  <1>1. a \in Calls /\ Beside(v, a, {"io", "ok"})
    <2>1. sector \in Int
      BY DEF Sectors
    <2> QED
      BY <2>1, accessIs
  <1>2. r = IF a.ok THEN x ELSE IF a.cache.sector \in DOMAIN a.noise THEN y ELSE a
    BY DEF readSector, With
  <1> HIDE DEF a, r
  <1>3. /\ a.ok \in BOOLEAN /\ a.cache \in Caches /\ a.dev \in [Sectors -> Contents]
        /\ a.noise \in Noises /\ a.cache = v.cache /\ a.dev = v.dev
    BY <1>1 DEF Calls, Devices, Beside, Fields
  <1>4. CASE a.ok = TRUE
    <2>1. r = x
      BY <1>2, <1>4
    <2>2. good \in Caches /\ good.data = v.dev[sector] /\ good = [v.cache EXCEPT !.data = good.data]
      BY <1>3 DEF Caches
    <2> HIDE DEF good
    <2>3. x \in Calls /\ x.cache = good /\ Beside(a, x, {"cache"})
      BY <1>1, <2>2, cacheIs
    <2>4. Beside(v, x, {"io", "ok", "cache"}) /\ x.ok = TRUE
      BY <1>1, <1>4, <2>3 DEF Beside, Fields
    <2> QED
      BY <2>1, <2>2, <2>3, <2>4 DEF ReadWell, r
  <1>5. CASE a.ok # TRUE /\ a.cache.sector \in DOMAIN a.noise
    <2>1. r = y
      BY <1>2, <1>3, <1>5
    <2>2. /\ noise \in Contents
          /\ a.cache.sector \in TableSectors => noise \in TableContents
      <3>1. PICK X \in SUBSET Sectors : a.noise \in [X -> Contents]
        BY <1>3 DEF Noises
      <3>2. \A t \in TableSectors \cap DOMAIN a.noise : a.noise[t] \in TableContents
        BY <1>3 DEF Noises
      <3> QED
        BY <1>5, <3>1, <3>2
    <2> HIDE DEF noise
    <2>3. bad \in Caches /\ bad.data = noise /\ bad = [v.cache EXCEPT !.data = bad.data]
      BY <1>3, <2>2 DEF Caches
    <2> HIDE DEF bad
    <2>4. y \in Calls /\ y.cache = bad /\ Beside(a, y, {"cache"})
      BY <1>1, <2>3, cacheIs
    <2>5. Beside(v, y, {"io", "ok", "cache"}) /\ y.ok # TRUE
      BY <1>1, <1>5, <2>4 DEF Beside, Fields
    <2> QED
      BY <1>3, <2>1, <2>2, <2>3, <2>4, <2>5 DEF ReadWell, r
  <1>6. CASE a.ok # TRUE /\ a.cache.sector \notin DOMAIN a.noise
    <2>1. r = a
      BY <1>2, <1>3, <1>6
    <2>2. a.cache = [v.cache EXCEPT !.data = a.cache.data]
      BY <1>3 DEF Caches
    <2>3. Beside(v, a, {"io", "ok", "cache"})
      BY <1>1 DEF Beside
    <2> QED
      BY <1>1, <1>3, <1>6, <2>1, <2>2, <2>3 DEF ReadWell, r
  <1> QED
    BY <1>4, <1>5, <1>6

\* Whatever the buffer had is written before it takes another sector.
LEMMA loadSafe ==
    ASSUME NEW d0 \in [Sectors -> Contents], NEW Ts, NEW v \in Safe(d0, Ts),
           v.ok = TRUE,
           NEW sector \in Sectors, ~InCopy(sector), NEW option \in Options(sector)
    PROVE  LET l == load(v, sector, option)
           IN  /\ l \in Safe(d0, Ts) /\ Kept(v, l)
               /\ l.ok = TRUE => l.cache.sector = sector
  <1> DEFINE s == sync(v)
             r == readSector(s, sector)
             c == [emptyCache(r.cache.data) EXCEPT !.sector = sector]
             u == [r EXCEPT !.cache = c]
             l == load(v, sector, option)
  <1>1. s \in Safe(d0, Ts) /\ Written(v, s)
    BY syncSafe
  <1>2. s \in Calls /\ s.ok \in BOOLEAN /\ Kept(v, s)
    BY <1>1 DEF Safe, Calls, Written, Kept
  <1>3. l = IF s.ok THEN IF r.ok THEN u ELSE r ELSE s
    BY OptionsAre DEF load, Then
  <1> HIDE DEF s, l
  <1>4. CASE s.ok # TRUE
    <2>1. l = s
      BY <1>2, <1>3, <1>4
    <2> QED
      BY <1>1, <1>2, <1>4, <2>1 DEF l
  <1>5. CASE s.ok = TRUE
    <2>1. s.cache.dirty = FALSE /\ Seen(s) = s.dev
      BY <1>1, <1>5 DEF Written, Seen
    <2>2. r \in Calls /\ r.ok \in BOOLEAN /\ ReadWell(s, sector, r)
      BY <1>2, readSectorIs DEF Calls
    <2> HIDE DEF r
    <2>3. /\ r.dev = s.dev /\ r.log = s.log /\ r.dev \in [Sectors -> Contents]
          /\ r.dev \in Devices /\ r.cache \in Caches /\ r.cache.dirty = FALSE
          /\ r.cache.sector = s.cache.sector /\ r.cache.mirror = s.cache.mirror
      <3>1. s.cache \in Caches /\ r.cache = [s.cache EXCEPT !.data = r.cache.data]
        BY <1>2, <2>2 DEF ReadWell, Calls
      <3>2. /\ r.cache.dirty = s.cache.dirty /\ r.cache.sector = s.cache.sector
            /\ r.cache.mirror = s.cache.mirror
        <4> DEFINE d == r.cache.data
        <4>1. r.cache = [s.cache EXCEPT !.data = d]
          BY <3>1
        <4> HIDE DEF d
        <4> QED
          BY <3>1, <4>1 DEF Caches
      <3>3. r.dev = s.dev /\ r.log = s.log
        BY <2>2 DEF ReadWell, Beside, Fields
      <3> QED
        BY <2>1, <2>2, <3>2, <3>3 DEF Calls, Devices
    <2>4. Seen(r) = Seen(s)
      BY <2>1, <2>3 DEF Seen
    <2>5. Kept(v, r)
      <3>1. Beside(v, r, OverDevice)
        BY <1>2, <2>2 DEF ReadWell, Beside, OverDevice, Kept
      <3> QED
        BY <1>2, <2>4, <3>1 DEF Kept
    <2>6. CopyGood(d0, r) /\ Cuts(d0, r, Ts) /\ TableOf(Seen(r)) \in Ts
      BY <1>1, <2>1, <2>3, <2>4, CutsSame DEF Safe, CopyGood
    <2>7. CASE r.ok # TRUE
      <3>1. l = r
        BY <1>3, <1>5, <2>2, <2>7
      <3>2. BufferGood(r)
        <4>1. BufferMarked(s)
          BY <1>1 DEF Safe, BufferGood
        <4>2. r.cache.sector \in TableSectors => r.cache.data \in TableContents
          BY <2>2, <2>3, <2>7, <4>1 DEF ReadWell, BufferMarked
        <4> QED
          BY <2>1, <2>3, <2>7, <4>1, <4>2 DEF BufferGood, BufferMarked
      <3> QED
        BY <2>2, <2>5, <2>6, <2>7, <3>1, <3>2 DEF Safe, l
    <2>8. CASE r.ok = TRUE
      <3>1. l = u
        BY <1>3, <1>5, <2>2, <2>8
      <3>2. /\ c \in Caches /\ c.sector = sector /\ c.dirty = FALSE /\ c.mirror = FALSE
            /\ c.data = r.dev[sector]
        BY <2>2, <2>3, <2>8 DEF ReadWell, Caches, emptyCache
      <3> HIDE DEF c
      <3>3. u \in Calls /\ u.cache = c /\ Beside(r, u, {"cache"})
        BY <2>2, <3>2, cacheIs
      <3> HIDE DEF u
      <3>4. u.dev = r.dev /\ u.log = r.log
        BY <3>3 DEF Beside, Fields
      <3>5. Seen(u) = Seen(r)
        BY <2>1, <2>3, <2>4, <3>2, <3>3, <3>4 DEF Seen
      <3>6. BufferGood(u)
        BY <2>3, <3>2, <3>3, <3>4, Geometry
           DEF BufferGood, BufferMarked, BufferClean, Devices
      <3>7. CopyGood(d0, u)
        BY <2>3, <2>6, <3>4 DEF CopyGood
      <3>8. u \in Safe(d0, Ts)
        BY <2>6, <3>3, <3>4, <3>5, <3>6, <3>7, CutsSame DEF Safe
      <3>9. Beside(v, u, OverDevice)
        BY <2>5, <3>3 DEF Kept, Beside, OverDevice
      <3>10. Kept(v, u)
        BY <2>5, <3>5, <3>9 DEF Kept
      <3> QED
        BY <3>1, <3>2, <3>3, <3>8, <3>10 DEF l
    <2> QED
      BY <2>2, <2>7, <2>8
  <1> QED
    BY <1>2, <1>4, <1>5

\* The buffer has the sector that was asked for, as the library sees it; if
\* it cannot, what the library sees is on the device.
LEMMA prepareSafe ==
    ASSUME NEW d0 \in [Sectors -> Contents], NEW Ts, NEW v \in Safe(d0, Ts),
           v.ok = TRUE,
           NEW sector \in Sectors, ~InCopy(sector), NEW option \in Options(sector)
    PROVE  LET p == prepare(v, sector, option)
           IN  /\ p \in Safe(d0, Ts) /\ Kept(v, p)
               /\ p.ok = TRUE => /\ Holds(p, sector)
                                 /\ option.write = TRUE => p.cache.dirty = TRUE
  <1> DEFINE q == IF v.cache.sector = sector THEN done(v) ELSE load(v, sector, option)
             c == [q.cache EXCEPT !.dirty = @ \/ option.write,
                                  !.mirror = @ \/ option.mirror]
             u == [q EXCEPT !.cache = c]
             p == prepare(v, sector, option)
  <1>1. /\ q \in Safe(d0, Ts) /\ Kept(v, q)
        /\ q.ok = TRUE => q.cache.sector = sector
    <2>1. CASE v.cache.sector = sector
      <3>1. q = [v EXCEPT !.ok = TRUE]
        BY <2>1 DEF done
      <3> HIDE DEF q
      <3>2. q \in Calls /\ Beside(v, q, {"ok"})
        BY <3>1, okIs DEF Safe
      <3>3. q.dev = v.dev /\ q.log = v.log /\ q.cache = v.cache
        BY <3>2 DEF Beside, Fields
      <3>4. Seen(q) = Seen(v)
        BY <3>3 DEF Seen
      <3>5. q \in Safe(d0, Ts)
        BY <3>2, <3>3, <3>4, CutsSame
           DEF Safe, BufferGood, BufferMarked, BufferClean, CopyGood
      <3>6. Kept(v, q)
        BY <3>2, <3>4 DEF Kept, Beside, OverDevice, Alike
      <3> QED
        BY <2>1, <3>3, <3>5, <3>6
    <2>2. CASE v.cache.sector # sector
      <3>1. q = load(v, sector, option)
        BY <2>2
      <3> HIDE DEF q
      <3> QED
        BY <3>1, loadSafe
    <2> QED
      BY <2>1, <2>2
  <1>2. p = IF q.ok THEN u ELSE q
    BY DEF prepare, Then
  <1> HIDE DEF q
  <1>3. q \in Calls /\ q.ok \in BOOLEAN /\ q.cache \in Caches /\ BufferGood(q)
        /\ CopyGood(d0, q) /\ q.dev \in [Sectors -> Contents]
    BY <1>1 DEF Safe, Calls, Devices
  <1>4. CASE q.ok # TRUE
    <2>1. p = q
      BY <1>2, <1>3, <1>4
    <2> HIDE DEF p
    <2> QED
      BY <1>1, <1>4, <2>1 DEF p
  <1>5. CASE q.ok = TRUE
    <2>1. p = u
      BY <1>2, <1>5
    <2>2. Holds(q, sector)
      BY <1>1, <1>5, HoldsGood
    <2>3. /\ c \in Caches /\ c.sector = sector /\ c.data = q.cache.data
          /\ c.dirty = (q.cache.dirty \/ option.write)
          /\ c.mirror = (q.cache.mirror \/ option.mirror)
      BY <1>1, <1>3, <1>5, OptionsAre DEF Caches
    <2> HIDE DEF c
    <2>4. u \in Calls /\ u.cache = c /\ Beside(q, u, {"cache"})
      BY <1>3, <2>3, cacheIs
    <2> HIDE DEF u, p
    <2>5. u.dev = q.dev /\ u.log = q.log
      BY <2>4 DEF Beside, Fields
    <2>6. c.dirty = TRUE <=> (q.cache.dirty = TRUE \/ option.write = TRUE)
      BY <1>3, <2>3, OptionsAre DEF Caches
    <2>7. c.mirror = TRUE <=> (q.cache.mirror = TRUE \/ sector \in TableSectors)
      BY <1>3, <2>3, OptionsAre DEF Caches
    <2>8. Seen(u) = Seen(q)
      <3>1. q.cache.sector = sector /\ q.cache.data = Seen(q)[sector]
        BY <2>2 DEF Holds
      <3>2. Seen(q) \in [Sectors -> Contents]
        BY <1>3 DEF Seen, Caches
      <3>3. [Seen(q) EXCEPT ![sector] = q.cache.data] = Seen(q)
        BY <3>1, <3>2
      <3>4. [q.dev EXCEPT ![sector] = q.cache.data] = Seen(q)
        <4>1. CASE q.cache.dirty = TRUE
          BY <3>1, <4>1 DEF Seen
        <4>2. CASE q.cache.dirty = FALSE
          BY <3>3, <4>2 DEF Seen
        <4> QED
          BY <1>3, <4>1, <4>2 DEF Caches
      <3>5. CASE c.dirty = TRUE
        BY <2>3, <2>4, <2>5, <3>4, <3>5 DEF Seen
      <3>6. CASE c.dirty = FALSE
        <4>1. q.cache.dirty = FALSE
          BY <1>3, <2>6, <3>6 DEF Caches
        <4> QED
          BY <2>4, <2>5, <3>6, <4>1 DEF Seen
      <3> QED
        BY <2>3, <3>5, <3>6 DEF Caches
    <2>9. BufferGood(u)
      <3>1. q.cache.sector = sector /\ sector # NoSector
        BY <2>2, Geometry DEF Holds
      <3>2. c.dirty = FALSE => q.cache.dirty = FALSE
        BY <1>3, <2>6 DEF Caches
      <3>3. q.ok = TRUE => BufferClean(q)
        BY <1>3 DEF BufferGood
      <3>4. BufferClean(u)
        BY <1>5, <2>3, <2>4, <2>5, <3>1, <3>2, <3>3 DEF BufferClean
      <3>5. BufferMarked(u)
        BY <1>3, <2>3, <2>4, <2>6, <2>7, <3>1, <3>2 DEF BufferGood, BufferMarked
      <3> QED
        BY <3>4, <3>5 DEF BufferGood
    <2>10. CopyGood(d0, u)
      BY <1>1, <1>3, <1>5, <2>3, <2>4, <2>5, <2>6 DEF CopyGood
    <2>11. u \in Safe(d0, Ts)
      BY <1>1, <2>4, <2>5, <2>8, <2>9, <2>10, CutsSame DEF Safe
    <2>12. Kept(v, u)
      BY <1>1, <2>4, <2>8 DEF Kept, Beside, OverDevice
    <2>13. Holds(u, sector)
      BY <2>2, <2>3, <2>4, <2>8 DEF Holds
    <2> QED
      BY <2>1, <2>4, <2>6, <2>11, <2>12, <2>13 DEF p
  <1> QED
    BY <1>3, <1>4, <1>5

-----------------------------------------------------------------------------
(* Entries of the table.                                                   *)

Tables == [Clusters -> Nat]

\* The table as the library sees it.
SeenTable(v) == TableOf(Seen(v))

\* Sectors that are neither of the table nor of its copy are the same.
SameData(d, e) ==
    \A s \in Sectors : s \in TableSectors \/ InCopy(s) \/ e[s] = d[s]
LEMMA SameDataOn ==
    ASSUME NEW c, NEW d, NEW e, SameData(c, d), SameData(d, e)
    PROVE  SameData(c, e)
  BY DEF SameData
LEMMA AlikeData ==
    ASSUME NEW d, NEW e, Alike(d, e)
    PROVE  SameData(d, e)
  BY DEF Alike, SameData

\* Fields that are not about the device are free.
LEMMA SafeSame ==
    ASSUME NEW d0, NEW Ts, NEW u \in Safe(d0, Ts), NEW w \in Calls,
           w.dev = u.dev, w.log = u.log, w.cache = u.cache,
           w.ok = TRUE => u.ok = TRUE \/ BufferClean(u)
    PROVE  w \in Safe(d0, Ts) /\ Seen(w) = Seen(u)
  <1>1. Seen(w) = Seen(u)
    BY DEF Seen
  <1> QED
    BY <1>1, CutsSame DEF Safe, BufferGood, BufferMarked, BufferClean, CopyGood

\* The library sees a table.
LEMMA SeenTyped ==
    ASSUME NEW d0, NEW Ts, NEW v \in Safe(d0, Ts)
    PROVE  /\ Seen(v) \in Devices /\ SeenTable(v) \in Tables /\ SeenTable(v) \in Ts
           /\ v \in Calls /\ v.ok \in BOOLEAN
  <1>1. /\ v \in Calls /\ BufferGood(v) /\ v.dev \in Devices /\ v.cache \in Caches
        /\ v.cache.dirty \in BOOLEAN /\ v.cache.data \in Contents /\ v.ok \in BOOLEAN
    BY DEF Safe, Calls, Caches
  <1>2. Seen(v) \in Devices
    <2>1. CASE v.cache.dirty = FALSE
      BY <1>1, <2>1 DEF Seen
    <2>2. CASE v.cache.dirty = TRUE
      <3>1. Seen(v) = [v.dev EXCEPT ![v.cache.sector] = v.cache.data]
        BY <2>2 DEF Seen
      <3>2. v.cache.sector \in Sectors
        BY <1>1, <2>2 DEF BufferGood, BufferMarked, BufferClean, Caches
      <3>3. /\ Seen(v) \in [Sectors -> Contents]
            /\ \A s \in Sectors :
                  Seen(v)[s] = IF s = v.cache.sector THEN v.cache.data ELSE v.dev[s]
        BY <1>1, <3>1, <3>2 DEF Devices
      <3>4. \A s \in TableSectors : Seen(v)[s] \in TableContents
        BY <1>1, <3>3, Geometry DEF BufferGood, BufferMarked, BufferClean, Devices
      <3> QED
        BY <3>3, <3>4 DEF Devices
    <2> QED
      BY <1>1, <2>1, <2>2
  <1>3. \A c \in Clusters : Seen(v)[FatSector(c)][c % BytesPerSector] \in Nat
    BY <1>2, EntryPlace DEF Devices, TableContents
  <1>4. SeenTable(v) \in Tables
    BY <1>3 DEF SeenTable, TableOf, Tables
  <1> QED
    BY <1>1, <1>2, <1>4 DEF Safe, SeenTable

\* What a look at the table may change.
OverTable == OverDevice \cup {"fg", "val"}

\* An entry is read as the library sees it, or not at all.
fatGetWell(v, c, g) ==
    /\ Beside(v, g, OverTable) /\ Alike(Seen(v), Seen(g))
    /\ SeenTable(g) = SeenTable(v)
    /\ g.ok = TRUE =>
          /\ c \in Clusters
          /\ \/ g.fg = 1 /\ g.val = SeenTable(v)[c] /\ g.val <= LastCluster
             \/ g.fg = 0 /\ SeenTable(v)[c] > LastCluster /\ g.val = v.val
    /\ g.ok # TRUE => g.fg = -1
LEMMA fatGetSafe ==
    ASSUME NEW d0 \in [Sectors -> Contents], NEW Ts, NEW v \in Safe(d0, Ts),
           v.ok = TRUE, NEW c
    PROVE  fatGet(v, c) \in Safe(d0, Ts) /\ fatGetWell(v, c, fatGet(v, c))
  <1> DEFINE g == fatGet(v, c)
  <1>1. v \in Calls
    BY DEF Safe
  <1>2. CASE c \notin Clusters
    <2> DEFINE u == [v EXCEPT !.ok = FALSE]
               w == [u EXCEPT !.fg = -1]
    <2>1. g = w
      BY <1>2 DEF fatGet, fail
    <2>2. u \in Calls /\ Beside(v, u, {"ok"}) /\ u.ok = FALSE
      BY <1>1, okIs
    <2> HIDE DEF u
    <2>3. w \in Calls /\ Beside(u, w, {"fg"}) /\ w.fg = -1
      BY <2>2 DEF Calls, Fields, Values, Beside
    <2> HIDE DEF g, w
    <2>4. w.dev = v.dev /\ w.log = v.log /\ w.cache = v.cache /\ w.ok = FALSE
      BY <2>2, <2>3 DEF Beside, Fields
    <2>5. w \in Safe(d0, Ts) /\ Seen(w) = Seen(v)
      BY <2>3, <2>4, SafeSame
    <2>6. Beside(v, w, OverTable)
      BY <2>2, <2>3 DEF Beside, OverTable, OverDevice
    <2> QED
      BY <2>1, <2>3, <2>4, <2>5, <2>6 DEF g, fatGetWell, Alike, SeenTable
  <1>3. CASE c \in Clusters
    <2> DEFINE p == prepare(v, FatSector(c), OfFat(ForRead))
               next == p.cache.data[c % BytesPerSector]
               x == [p EXCEPT !.fg = -1]
               y == [p EXCEPT !.fg = 0]
               z == [p EXCEPT !.fg = 1, !.val = next]
    <2>1. g = IF ~p.ok THEN x ELSE IF next > LastCluster THEN y ELSE z
      BY <1>3 DEF fatGet, With
    <2>2. /\ FatSector(c) \in TableSectors /\ FatSector(c) \in Sectors
          /\ ~InCopy(FatSector(c)) /\ c % BytesPerSector \in Words
      BY <1>3, EntryPlace, NotInCopy
    <2>3. OfFat(ForRead) \in Options(FatSector(c))
      BY <2>2 DEF Options
    <2>4. /\ p \in Safe(d0, Ts) /\ Kept(v, p)
          /\ p.ok = TRUE => Holds(p, FatSector(c))
      BY <2>2, <2>3, prepareSafe
    <2> HIDE DEF p, g
    <2>5. /\ p \in Calls /\ p.ok \in BOOLEAN /\ Seen(p) \in Devices
          /\ SeenTable(p) \in Tables /\ SeenTable(p) = SeenTable(v)
      BY <2>4, SeenTyped, AlikeTables DEF Kept, SeenTable
    <2>6. p.ok = TRUE => next = SeenTable(v)[c] /\ next \in Nat
      <3>1. SeenTable(p)[c] = Seen(p)[FatSector(c)][c % BytesPerSector]
        BY <1>3 DEF SeenTable, TableOf
      <3>2. SeenTable(p)[c] \in Nat
        BY <1>3, <2>5 DEF Tables
      <3> QED
        BY <2>4, <2>5, <3>1, <3>2 DEF Holds
    <2> HIDE DEF next
    <2>7. /\ x \in Calls /\ Beside(p, x, {"fg"}) /\ x.fg = -1
          /\ y \in Calls /\ Beside(p, y, {"fg"}) /\ y.fg = 0
      BY <2>5 DEF Calls, Fields, Values, Beside
    <2>8. ASSUME next \in Nat
          PROVE  z \in Calls /\ Beside(p, z, {"fg", "val"}) /\ z.fg = 1 /\ z.val = next
      <3>1. z \in [Fields -> Values]
        <4>1. p \in [Fields -> Values] /\ 1 \in Values /\ next \in Values
          BY <2>5, <2>8 DEF Calls, Values
        <4> QED
          BY <4>1
      <3>2. Beside(p, z, {"fg", "val"}) /\ z.fg = 1 /\ z.val = next
        BY <2>5 DEF Calls, Fields, Beside
      <3> HIDE DEF z
      <3>3. /\ z.dev = p.dev /\ z.log = p.log /\ z.io = p.io /\ z.cache = p.cache
            /\ z.noise = p.noise /\ z.ok = p.ok /\ z.search = p.search
        BY <3>2 DEF Beside, Fields
      <3> QED
        BY <2>5, <3>1, <3>2, <3>3 DEF Calls
    <2> HIDE DEF x, y, z
    <2>9. ASSUME NEW t \in Calls, Beside(p, t, {"fg", "val"})
          PROVE  /\ t \in Safe(d0, Ts) /\ Beside(v, t, OverTable)
                 /\ Alike(Seen(v), Seen(t)) /\ SeenTable(t) = SeenTable(v)
                 /\ t.ok = p.ok
      <3>1. t.dev = p.dev /\ t.log = p.log /\ t.cache = p.cache /\ t.ok = p.ok
        BY <2>9 DEF Beside, Fields
      <3>2. t \in Safe(d0, Ts) /\ Seen(t) = Seen(p)
        BY <2>4, <2>9, <3>1, SafeSame
      <3>3. Beside(v, t, OverTable)
        BY <2>4, <2>9 DEF Kept, Beside, OverTable
      <3> QED
        BY <2>4, <2>5, <3>1, <3>2, <3>3 DEF Kept, SeenTable
    <2>10. CASE p.ok # TRUE
      <3>1. g = x
        BY <2>1, <2>5, <2>10
      <3>2. Beside(p, x, {"fg", "val"})
        BY <2>7 DEF Beside
      <3> QED
        BY <2>7, <2>9, <2>10, <3>1, <3>2 DEF fatGetWell, g
    <2>11. CASE p.ok = TRUE /\ next > LastCluster
      <3>1. g = y
        BY <2>1, <2>11
      <3>2. Beside(p, y, {"fg", "val"})
        BY <2>7 DEF Beside
      <3>3. y.val = v.val
        BY <2>4, <2>7 DEF Beside, Fields, Kept, OverDevice
      <3> QED
        BY <1>3, <2>6, <2>7, <2>9, <2>11, <3>1, <3>2, <3>3 DEF fatGetWell, g
    <2>12. CASE p.ok = TRUE /\ ~(next > LastCluster)
      <3>1. g = z
        BY <2>1, <2>12
      <3>2. z.val <= LastCluster
        BY <2>6, <2>8, <2>12, TableAssumption
      <3> QED
        BY <1>3, <2>6, <2>8, <2>9, <2>12, <3>1, <3>2 DEF fatGetWell, g
    <2> QED
      BY <2>5, <2>10, <2>11, <2>12
  <1> QED
    BY <1>2, <1>3

\* One entry is replaced and nothing else, or nothing at all.
fatPutWell(v, c, value, w) ==
    /\ Beside(v, w, OverDevice) /\ SameData(Seen(v), Seen(w))
    /\ w.ok = TRUE =>
          c \in Clusters /\ SeenTable(w) = [SeenTable(v) EXCEPT ![c] = value]
    /\ w.ok # TRUE => SeenTable(w) = SeenTable(v)
LEMMA fatPutSafe ==
    ASSUME NEW d0 \in [Sectors -> Contents], NEW Ts, NEW v \in Safe(d0, Ts),
           v.ok = TRUE, NEW c,
           NEW value \in Nat,
           c \in Clusters => [SeenTable(v) EXCEPT ![c] = value] \in Ts
    PROVE  fatPut(v, c, value) \in Safe(d0, Ts) /\ fatPutWell(v, c, value, fatPut(v, c, value))
  <1> DEFINE w == fatPut(v, c, value)
  <1>1. v \in Calls
    BY DEF Safe
  <1>2. CASE c \notin Clusters
    <2>1. w = [v EXCEPT !.ok = FALSE]
      BY <1>2 DEF fatPut, fail
    <2> HIDE DEF w
    <2>2. w \in Calls /\ Beside(v, w, {"ok"}) /\ w.ok = FALSE
      BY <1>1, <2>1, okIs
    <2>3. w.dev = v.dev /\ w.log = v.log /\ w.cache = v.cache
      BY <2>2 DEF Beside, Fields
    <2>4. w \in Safe(d0, Ts) /\ Seen(w) = Seen(v)
      BY <2>2, <2>3, SafeSame
    <2>5. Beside(v, w, OverDevice)
      BY <2>2 DEF Beside, OverDevice
    <2> QED
      BY <2>2, <2>4, <2>5 DEF fatPutWell, SameData, SeenTable, w
  <1>3. CASE c \in Clusters
    <2> DEFINE s == FatSector(c)
               i == c % BytesPerSector
               p == prepare(v, s, OfFat(ForWrite))
               b == [p.cache EXCEPT !.data = [@ EXCEPT ![i] = value]]
               u == [p EXCEPT !.cache = b]
    <2>1. w = IF p.ok THEN u ELSE p
      BY <1>3 DEF fatPut, Then
    <2>2. /\ s \in TableSectors /\ s \in Sectors /\ ~InCopy(s) /\ i \in Words
      BY <1>3, EntryPlace, NotInCopy
    <2>3. OfFat(ForWrite) \in Options(s) /\ OfFat(ForWrite).write = TRUE
      BY <2>2 DEF Options, OfFat, ForWrite
    <2> HIDE DEF s
    <2>4. /\ p \in Safe(d0, Ts) /\ Kept(v, p)
          /\ p.ok = TRUE => Holds(p, s) /\ p.cache.dirty = TRUE
      BY <2>2, <2>3, prepareSafe
    <2> HIDE DEF p, w
    <2>5. /\ p \in Calls /\ p.ok \in BOOLEAN /\ Seen(p) \in Devices
          /\ SeenTable(p) \in Tables /\ SeenTable(p) = SeenTable(v)
          /\ BufferGood(p) /\ CopyGood(d0, p) /\ p.cache \in Caches
          /\ p.dev \in [Sectors -> Contents]
      BY <2>4, SeenTyped, AlikeTables DEF Kept, SeenTable, Safe, Calls, Devices
    <2>6. CASE p.ok # TRUE
      <3>1. w = p
        BY <2>1, <2>5, <2>6
      <3> QED
        BY <2>4, <2>5, <2>6, <3>1, AlikeData DEF fatPutWell, Kept, w
    <2>7. CASE p.ok = TRUE
      <3>1. w = u
        BY <2>1, <2>7
      <3>2. /\ p.cache.sector = s /\ p.cache.dirty = TRUE /\ p.cache.data = Seen(p)[s]
            /\ p.cache.mirror = TRUE /\ p.cache.data \in TableContents
        BY <2>2, <2>4, <2>5, <2>7 DEF Holds, BufferGood, BufferMarked, BufferClean
      <3>3. /\ b.data \in TableContents /\ b.sector = s /\ b.dirty = TRUE
            /\ b.mirror = TRUE
            /\ \A j \in Words : b.data[j] = IF j = i THEN value ELSE p.cache.data[j]
        BY <2>2, <2>5, <3>2 DEF Caches, TableContents
      <3>4. b \in Caches
        <4>1. b.data \in Contents
          BY <3>3 DEF Contents, TableContents
        <4> QED
          BY <2>5, <3>3, <4>1 DEF Caches
      <3> HIDE DEF b
      <3>5. u \in Calls /\ u.cache = b /\ Beside(p, u, {"cache"})
        BY <2>5, <3>4, cacheIs
      <3> HIDE DEF u
      <3>6. u.dev = p.dev /\ u.log = p.log /\ u.ok = p.ok
        BY <3>5 DEF Beside, Fields
      <3>7. Seen(p) = [p.dev EXCEPT ![s] = p.cache.data] /\ Seen(u) = [p.dev EXCEPT ![s] = b.data]
        BY <3>2, <3>3, <3>5, <3>6 DEF Seen
      <3>8. \A t \in Sectors : Seen(u)[t] = IF t = s THEN b.data ELSE Seen(p)[t]
        BY <2>5, <3>7
      <3>9. SeenTable(u) = [SeenTable(p) EXCEPT ![c] = value]
        <4>1. ASSUME NEW d \in Clusters
              PROVE  Seen(u)[FatSector(d)][d % BytesPerSector] =
                         IF d = c THEN value ELSE SeenTable(p)[d]
          <5>1. /\ FatSector(d) \in Sectors /\ d % BytesPerSector \in Words
                /\ SeenTable(p)[d] = Seen(p)[FatSector(d)][d % BytesPerSector]
            BY EntryPlace DEF SeenTable, TableOf
          <5>2. CASE FatSector(d) # s
            BY <3>8, <5>1, <5>2 DEF s
          <5>3. CASE FatSector(d) = s
            <6>1. d = c <=> d % BytesPerSector = i
              BY <1>3, <5>3, EntryOfOne DEF s
            <6> HIDE DEF i
            <6> QED
              BY <3>2, <3>3, <3>8, <5>1, <5>3, <6>1
          <5> QED
            BY <5>2, <5>3
        <4>2. SeenTable(u) = [d \in Clusters |-> Seen(u)[FatSector(d)][d % BytesPerSector]]
          BY DEF SeenTable, TableOf
        <4> QED
          BY <1>3, <2>5, <4>1, <4>2 DEF Tables
      <3>10. SeenTable(u) \in Ts
        BY <1>3, <2>5, <3>9
      <3>11. BufferGood(u)
        BY <2>2, <2>5, <3>2, <3>3, <3>5, <3>6, Geometry
           DEF BufferGood, BufferMarked, BufferClean
      <3>12. CopyGood(d0, u)
        BY <2>5, <3>2, <3>3, <3>5, <3>6 DEF CopyGood
      <3>13. Cuts(d0, u, Ts)
        BY <2>4, <3>6, CutsSame DEF Safe
      <3>14. u \in Safe(d0, Ts)
        BY <3>5, <3>10, <3>11, <3>12, <3>13 DEF Safe, SeenTable
      <3>15. Beside(v, u, OverDevice)
        BY <2>4, <3>5 DEF Kept, Beside, OverDevice
      <3>16. SameData(Seen(v), Seen(u))
        <4>1. SameData(Seen(p), Seen(u))
          BY <2>2, <3>8 DEF SameData
        <4> QED
          BY <2>4, <4>1, AlikeData, SameDataOn DEF Kept
      <3> QED
        BY <1>3, <2>5, <2>7, <3>1, <3>6, <3>9, <3>14, <3>15, <3>16 DEF fatPutWell, w
    <2> QED
      BY <2>5, <2>6, <2>7
  <1> QED
    BY <1>2, <1>3

LEMMA valIs ==
    ASSUME NEW v \in Calls, NEW x \in Int
    PROVE  /\ [v EXCEPT !.val = x] \in Calls /\ [v EXCEPT !.val = x].val = x
           /\ Beside(v, [v EXCEPT !.val = x], {"val"})
  BY DEF Calls, Fields, Values, Beside
LEMMA fgIs ==
    ASSUME NEW v \in Calls, NEW x \in Int
    PROVE  /\ [v EXCEPT !.fg = x] \in Calls /\ [v EXCEPT !.fg = x].fg = x
           /\ Beside(v, [v EXCEPT !.fg = x], {"fg"})
  BY DEF Calls, Fields, Values, Beside
LEMMA searchIs ==
    ASSUME NEW v \in Calls, NEW x \in 1 .. LastCluster
    PROVE  /\ [v EXCEPT !.search = x] \in Calls /\ [v EXCEPT !.search = x].search = x
           /\ Beside(v, [v EXCEPT !.search = x], {"search"})
  <1>1. x \in Int
    OBVIOUS
  <1> QED
    BY <1>1 DEF Calls, Fields, Values, Beside
LEMMA fullIs ==
    ASSUME NEW v \in Calls, NEW b \in BOOLEAN
    PROVE  /\ [v EXCEPT !.full = b] \in Calls /\ [v EXCEPT !.full = b].full = b
           /\ Beside(v, [v EXCEPT !.full = b], {"full"})
  BY DEF Calls, Fields, Values, Beside

\* What the fields besides the device are worth to a call.
LEMMA SafeBeside ==
    ASSUME NEW d0, NEW Ts, NEW u \in Safe(d0, Ts), NEW w \in Calls,
           NEW X, X \subseteq Fields \ {"dev", "log", "cache"}, Beside(u, w, X),
           "ok" \notin X \/ u.ok = TRUE \/ w.ok # TRUE
    PROVE  w \in Safe(d0, Ts) /\ Seen(w) = Seen(u)
  <1>1. /\ w.dev = u.dev /\ w.log = u.log /\ w.cache = u.cache
        /\ "ok" \notin X => w.ok = u.ok
    BY DEF Beside, Fields
  <1> QED
    BY <1>1, SafeSame

-----------------------------------------------------------------------------
(* The search for a free cluster.                                          *)

\* The clusters that the search looks at.
Looked(v, current) ==
    IF v.search < current
    THEN (current + 1 .. LastCluster) \cup (v.search + 1 .. current - 1)
    ELSE v.search + 1 .. LastCluster

\* The order in which it does.
Ahead(v, current) == IF v.search < current THEN LastCluster - current ELSE 0
Tries(v, current) ==
    Ahead(v, current) + (IF v.search < current THEN current - 1 ELSE LastCluster) - v.search
Nth(v, current, k) ==
    IF k <= Ahead(v, current) THEN current + k ELSE v.search + k - Ahead(v, current)
LEMMA SearchOrder ==
    ASSUME NEW v \in Calls, NEW current \in {0} \cup Clusters
    PROVE  /\ Tries(v, current) \in Nat
           /\ \A k \in 1 .. Tries(v, current) : Nth(v, current, k) \in Looked(v, current)
           /\ \A c \in Looked(v, current) : \E k \in 1 .. Tries(v, current) :
                  c = Nth(v, current, k)
           /\ Looked(v, current) \subseteq Clusters \ {current}
  <1>1. v.search \in 1 .. LastCluster /\ LastCluster \in Nat /\ current \in 0 .. LastCluster
    BY TableAssumption DEF Calls, Clusters
  <1> DEFINE n == v.search
             m == LastCluster
  <1> HIDE DEF m
  <1>2. CASE n < current
    <2>1. /\ Looked(v, current) = (current + 1 .. m) \cup (n + 1 .. current - 1)
          /\ Ahead(v, current) = m - current
      BY <1>2 DEF Looked, Ahead, m
    <2>2. Tries(v, current) = m - current + (current - 1) - n
      BY <1>2, <2>1 DEF Tries
    <2>3. \A k : Nth(v, current, k) = IF k <= m - current THEN current + k
                                      ELSE n + k - (m - current)
      BY <2>1 DEF Nth
    <2> HIDE DEF n
    <2>4. n \in 1 .. m /\ m \in Nat /\ current \in 0 .. m
      BY <1>1 DEF n, m
    <2>5. \A k \in 1 .. m - current + (current - 1) - n :
              Nth(v, current, k) \in (current + 1 .. m) \cup (n + 1 .. current - 1)
      BY <1>2, <2>3, <2>4
    <2>6. ASSUME NEW c \in (current + 1 .. m) \cup (n + 1 .. current - 1)
          PROVE  \E k \in 1 .. m - current + (current - 1) - n : c = Nth(v, current, k)
      <3>1. CASE c > current
        <4>1. c - current \in 1 .. m - current + (current - 1) - n
          BY <1>2, <2>4, <3>1
        <4>2. c = Nth(v, current, c - current)
          BY <1>2, <2>3, <2>4, <3>1
        <4> QED
          BY <4>1, <4>2
      <3>2. CASE ~(c > current)
        <4> DEFINE k == c - n + (m - current)
        <4>1. k \in 1 .. m - current + (current - 1) - n
          BY <1>2, <2>4, <3>2
        <4>2. ~(k <= m - current) /\ c = n + k - (m - current)
          BY <1>2, <2>4, <3>2
        <4> HIDE DEF k
        <4> QED
          BY <2>3, <4>1, <4>2
      <3> QED
        BY <3>1, <3>2
    <2>7. (current + 1 .. m) \cup (n + 1 .. current - 1) \subseteq Clusters \ {current}
      BY <1>2, <2>4 DEF Clusters, m
    <2> QED
      BY <1>2, <2>1, <2>2, <2>4, <2>5, <2>6, <2>7
  <1>3. CASE ~(n < current)
    <2>1. Looked(v, current) = n + 1 .. m /\ Ahead(v, current) = 0
      BY <1>3 DEF Looked, Ahead, m
    <2>2. Tries(v, current) = m - n
      BY <1>1, <1>3, <2>1 DEF Tries, m
    <2>3. \A k \in Int : k > 0 => Nth(v, current, k) = n + k
      BY <1>1, <2>1 DEF Nth
    <2> HIDE DEF n
    <2>4. n \in 1 .. m /\ m \in Nat /\ current \in 0 .. m
      BY <1>1 DEF n, m
    <2>5. \A c \in n + 1 .. m : c - n \in 1 .. m - n /\ c = n + (c - n)
      BY <2>4
    <2>6. n + 1 .. m \subseteq Clusters \ {current}
      BY <1>3, <2>4 DEF Clusters, m
    <2>7. \A k \in 1 .. m - n : Nth(v, current, k) \in n + 1 .. m
      BY <2>3, <2>4
    <2>8. \A c \in n + 1 .. m : \E k \in 1 .. m - n : c = Nth(v, current, k)
      BY <2>3, <2>4, <2>5
    <2> QED
      BY <2>1, <2>2, <2>4, <2>6, <2>7, <2>8
  <1> QED
    BY <1>2, <1>3

\* What the search knows after k looks.
Searched(v, current, k, g) ==
    /\ Beside(v, g, OverTable \cup {"search"}) /\ Alike(Seen(v), Seen(g))
    /\ g.ok = TRUE =>
          \/ /\ g.val = 0
             /\ \A j \in 1 .. k : SeenTable(v)[Nth(v, current, j)] # Free
          \/ g.val \in Looked(v, current) /\ SeenTable(v)[g.val] = Free

\* One look.
Look(v, current, g, k) ==
    IF fatGet(g, Nth(v, current, k)).ok
    THEN LET h == fatGet(g, Nth(v, current, k))
         IN  IF h.fg = 1 /\ h.val = Free
             THEN [h EXCEPT !.val = Nth(v, current, k),
                            !.search = IF k > Ahead(v, current)
                                       THEN Nth(v, current, k) ELSE @]
             ELSE [h EXCEPT !.val = 0]
    ELSE fatGet(g, Nth(v, current, k))
SearchStep(v, current, k, g) ==
    IF g.ok THEN IF g.val # 0 THEN g ELSE Look(v, current, g, k) ELSE g
LEMMA SearchGoesOn ==
    ASSUME NEW d0 \in [Sectors -> Contents], NEW Ts, NEW v \in Safe(d0, Ts),
           NEW current \in {0} \cup Clusters, NEW k \in 1 .. Tries(v, current),
           NEW g \in Safe(d0, Ts), Searched(v, current, k - 1, g)
    PROVE  /\ SearchStep(v, current, k, g) \in Safe(d0, Ts)
           /\ Searched(v, current, k, SearchStep(v, current, k, g))
  <1> DEFINE t == SearchStep(v, current, k, g)
             c == Nth(v, current, k)
             h == fatGet(g, c)
  <1>1. /\ v \in Calls /\ g \in Calls /\ g.ok \in BOOLEAN
        /\ SeenTable(g) = SeenTable(v) /\ SeenTable(v) \in Tables
    BY SeenTyped, AlikeTables DEF Searched, SeenTable
  <1>2. c \in Looked(v, current) /\ c \in Clusters /\ k \in Nat
    BY <1>1, SearchOrder
  <1>3. c \in 1 .. LastCluster /\ c \in Int /\ c # 0 /\ \A j \in 1 .. k : j \in 1 .. k - 1 \/ j = k
    BY <1>2, TableAssumption DEF Clusters
  <1>4. CASE g.ok # TRUE
    <2>1. t = g
      BY <1>1, <1>4 DEF SearchStep
    <2> QED
      BY <1>4, <2>1 DEF Searched
  <1>5. CASE g.ok = TRUE /\ g.val # 0
    <2>1. t = g
      BY <1>5 DEF SearchStep
    <2> QED
      BY <1>5, <2>1 DEF Searched
  <1>6. CASE g.ok = TRUE /\ g.val = 0
    <2>1. h \in Safe(d0, Ts) /\ fatGetWell(g, c, h)
      BY <1>6, fatGetSafe
    <2> DEFINE n == IF k > Ahead(v, current) THEN c ELSE h.search
               u == [h EXCEPT !.val = c]
               x == [u EXCEPT !.search = n]
               y == [h EXCEPT !.val = 0]
    <2>2. t = IF h.ok THEN IF h.fg = 1 /\ h.val = Free THEN x ELSE y ELSE h
      BY <1>6 DEF SearchStep, Look
    <2> HIDE DEF h, t
    <2>3. h \in Calls /\ h.ok \in BOOLEAN /\ h.search \in 1 .. LastCluster
      BY <2>1, SeenTyped DEF Calls
    <2>4. Beside(v, h, OverTable \cup {"search"}) /\ Alike(Seen(v), Seen(h))
      BY <2>1, AlikeOn DEF Searched, fatGetWell, Beside
    <2>5. CASE h.ok # TRUE
      <3>1. t = h
        BY <2>2, <2>3, <2>5
      <3> QED
        BY <2>1, <2>4, <2>5, <3>1 DEF Searched, t
    <2>6. CASE h.ok = TRUE /\ h.fg = 1 /\ h.val = Free
      <3>1. t = x
        BY <2>2, <2>6
      <3> HIDE DEF c
      <3>2. u \in Calls /\ Beside(h, u, {"val"}) /\ u.val = c
        BY <1>3, <2>3, valIs
      <3>3. n \in 1 .. LastCluster
        BY <1>3, <2>3
      <3> HIDE DEF u, n
      <3>4. x \in Calls /\ Beside(u, x, {"search"})
        BY <3>2, <3>3, searchIs
      <3> HIDE DEF x
      <3>5. Beside(h, x, {"val", "search"}) /\ x.val = c /\ x.ok = TRUE
        BY <2>6, <3>2, <3>4 DEF Beside, Fields
      <3>6. {"val", "search"} \subseteq Fields \ {"dev", "log", "cache"}
        BY DEF Fields
      <3>7. x \in Safe(d0, Ts) /\ Seen(x) = Seen(h)
        BY <2>1, <3>4, <3>5, <3>6, SafeBeside
      <3>8. Beside(v, x, OverTable \cup {"search"})
        BY <2>4, <3>5 DEF Beside, OverTable
      <3>9. SeenTable(v)[c] = Free
        BY <1>1, <2>1, <2>6 DEF fatGetWell
      <3> QED
        BY <1>2, <2>4, <3>1, <3>5, <3>7, <3>8, <3>9 DEF Searched, t, c
    <2>7. CASE h.ok = TRUE /\ ~(h.fg = 1 /\ h.val = Free)
      <3>1. t = y
        BY <2>2, <2>7
      <3>2. y \in Calls /\ Beside(h, y, {"val"}) /\ y.val = 0
        BY <2>3, valIs
      <3> HIDE DEF y
      <3>3. {"val"} \subseteq Fields \ {"dev", "log", "cache"}
        BY DEF Fields
      <3>4. y \in Safe(d0, Ts) /\ Seen(y) = Seen(h)
        BY <2>1, <3>2, <3>3, SafeBeside
      <3>5. Beside(v, y, OverTable \cup {"search"})
        BY <2>4, <3>2 DEF Beside, OverTable
      <3>6. SeenTable(v)[c] # Free
        <4>1. CASE h.fg = 1
          BY <1>1, <2>1, <2>7, <4>1 DEF fatGetWell
        <4>2. CASE h.fg # 1
          BY <1>1, <1>2, <2>1, <2>7, <4>2, TableAssumption DEF fatGetWell, Free, Tables
        <4> QED
          BY <4>1, <4>2
      <3>7. \A j \in 1 .. k - 1 : SeenTable(v)[Nth(v, current, j)] # Free
        <4>1. 0 \notin Looked(v, current)
          BY <1>1, SearchOrder DEF Clusters
        <4> QED
          BY <1>6, <4>1 DEF Searched
      <3>8. \A j \in 1 .. k : SeenTable(v)[Nth(v, current, j)] # Free
        BY <1>3, <3>6, <3>7
      <3> QED
        BY <2>4, <3>1, <3>2, <3>4, <3>5, <3>8 DEF Searched, t
    <2> QED
      BY <2>3, <2>5, <2>6, <2>7
  <1> QED
    BY <1>1, <1>4, <1>5, <1>6

\* A free cluster is found that no chain leads to, or a read has failed, or no
\* cluster that the search looks at is free.
findFreeWell(v, current, s) ==
    /\ Beside(v, s, OverTable \cup {"search", "full"}) /\ Alike(Seen(v), Seen(s))
    /\ s.ok = TRUE => s.val \in Looked(v, current) /\ SeenTable(v)[s.val] = Free
    /\ \/ s.full = v.full
       \/ s.ok # TRUE /\ \A c \in Looked(v, current) : SeenTable(v)[c] # Free
LEMMA findFreeSafe ==
    ASSUME NEW d0 \in [Sectors -> Contents], NEW Ts, NEW v \in Safe(d0, Ts),
           v.ok = TRUE,
           NEW current \in {0} \cup Clusters
    PROVE  /\ findFree(v, current) \in Safe(d0, Ts)
           /\ findFreeWell(v, current, findFree(v, current))
  <1> DEFINE S == Safe(d0, Ts)
             n == Tries(v, current)
             u == [v EXCEPT !.ok = TRUE]
             b == [u EXCEPT !.val = 0]
             T == {p \in Nat \X S : Searched(v, current, p[1], p[2])}
             Step(k, g) == SearchStep(v, current, k, g)
             G == [p \in Int \X S |-> Step(p[1], p[2])]
             Is(f) == f = [k \in 0 .. n |-> IF k = 0 THEN b ELSE Step(k, f[k - 1])]
             after == CHOOSE f : Is(f)
             a == after[n]
             x == [a EXCEPT !.ok = FALSE]
             y == [x EXCEPT !.full = TRUE]
             s == findFree(v, current)
  <1>1. v \in Calls /\ n \in Nat
    BY SeenTyped, SearchOrder
  <1>2. s = IF a.ok THEN IF a.val = 0 THEN y ELSE a ELSE a
    BY DEF findFree, Then, fail, done, SearchStep, Look, Nth, Tries, Ahead
  <1>3. b \in S /\ Searched(v, current, 0, b)
    <2>1. u \in Calls /\ Beside(v, u, {"ok"})
      BY <1>1, okIs
    <2> HIDE DEF u
    <2>2. b \in Calls /\ b.val = 0 /\ Beside(u, b, {"val"})
      BY <2>1, valIs
    <2> HIDE DEF b
    <2>3. Beside(v, b, {"ok", "val"})
      BY <2>1, <2>2 DEF Beside
    <2>4. {"ok", "val"} \subseteq Fields \ {"dev", "log", "cache"}
      BY DEF Fields
    <2>5. b \in Safe(d0, Ts) /\ Seen(b) = Seen(v)
      BY <2>2, <2>3, <2>4, SafeBeside
    <2>6. Beside(v, b, OverTable \cup {"search"})
      BY <2>3 DEF Beside, OverTable, OverDevice
    <2> QED
      BY <2>2, <2>5, <2>6 DEF Searched, Alike
  <1> HIDE DEF s, n, b, a, x, y
  <1>4. ASSUME NEW k \in 1 .. n, NEW g \in S, <<k - 1, g>> \in T
        PROVE  Step(k, g) \in S /\ <<k, Step(k, g)>> \in T
    <2>1. Searched(v, current, k - 1, g) /\ k \in Nat /\ k \in 1 .. Tries(v, current)
      BY <1>1, <1>4 DEF n
    <2> QED
      BY <2>1, SearchGoesOn
  <1>5. ASSUME NEW k \in Int, NEW g \in S PROVE G[<<k, g>>] = Step(k, g)
    OBVIOUS
  <1>6. <<0, b>> \in T
    BY <1>3
  <1> HIDE DEF S, T, G, Step
  <1>7. \E f : Is(f)
    <2>1. ASSUME NEW k \in 1 .. n, NEW g \in S, <<k - 1, g>> \in T
          PROVE  G[<<k, g>>] \in S /\ <<k, G[<<k, g>>]>> \in T
      BY <1>1, <1>4, <1>5, <2>1
    <2>2. \E f \in [0 .. n -> S] :
              Loop(f, b, G, n) /\ \A k \in 0 .. n : <<k, f[k]>> \in T
      BY ONLY <1>1, <1>3, <1>6, <2>1, LoopRuns
    <2>3. PICK f \in [0 .. n -> S] : Loop(f, b, G, n)
      BY <2>2
    <2>4. ASSUME NEW k \in 0 .. n, k # 0 PROVE G[<<k, f[k - 1]>>] = Step(k, f[k - 1])
      <3>1. k - 1 \in 0 .. n /\ k \in Int
        BY <1>1, <2>4
      <3>2. f[k - 1] \in S
        BY <3>1
      <3> QED
        BY <3>1, <3>2, <1>5
    <2>5. Is(f)
      BY <2>3, <2>4 DEF Loop
    <2> QED
      BY <2>5
  <1>8. Is(after)
    BY <1>7, Zenon
  <1> HIDE DEF after
  <1>9. after[0] = b /\ \A k \in 1 .. n : after[k] = Step(k, after[k - 1])
    BY <1>1, <1>8
  <1> HIDE DEF Is
  <1>10. <<0, after[0]>> \in T
    BY <1>6, <1>9
  <1>11. ASSUME NEW k \in 1 .. n, <<k - 1, after[k - 1]>> \in T
         PROVE  <<k, after[k]>> \in T
    <2>1. after[k - 1] \in S
      BY <1>11 DEF T
    <2> QED
      BY <1>4, <1>9, <1>11, <2>1
  <1>12. <<n, after[n]>> \in T
    <2>1. \A k \in 0 .. n : <<k, after[k]>> \in T
      BY ONLY <1>1, <1>10, <1>11, LoopKeepsAt
    <2> QED
      BY <1>1, <2>1
  <1>13. a \in Safe(d0, Ts) /\ Searched(v, current, n, a)
    BY <1>12 DEF T, S, a
  <1>14. a \in Calls /\ a.ok \in BOOLEAN
    BY <1>13, SeenTyped
  <1>15. CASE a.ok # TRUE \/ a.val # 0
    <2>1. s = a
      BY <1>2, <1>14, <1>15
    <2>2. Beside(v, a, OverTable \cup {"search", "full"})
      BY <1>13 DEF Searched, Beside
    <2>3. a.full = v.full
      BY <1>13 DEF Searched, Beside, Fields, OverTable, OverDevice
    <2> QED
      BY <1>13, <1>15, <2>1, <2>2, <2>3 DEF Searched, findFreeWell, s
  <1>16. CASE a.ok = TRUE /\ a.val = 0
    <2>1. s = y
      BY <1>2, <1>16
    <2>2. x \in Calls /\ x.ok = FALSE /\ Beside(a, x, {"ok"})
      BY <1>14, okIs DEF x
    <2>3. y \in Calls /\ y.full = TRUE /\ Beside(x, y, {"full"})
      BY <2>2, fullIs DEF y
    <2>4. Beside(a, y, {"ok", "full"}) /\ y.ok = FALSE
      BY <2>2, <2>3 DEF Beside, Fields
    <2>5. {"ok", "full"} \subseteq Fields \ {"dev", "log", "cache"}
      BY DEF Fields
    <2>6. y \in Safe(d0, Ts) /\ Seen(y) = Seen(a)
      BY <1>13, <2>3, <2>4, <2>5, SafeBeside
    <2>7. Beside(v, y, OverTable \cup {"search", "full"})
      BY <1>13, <2>4 DEF Searched, Beside, OverTable, OverDevice
    <2>8. \A c \in Looked(v, current) : SeenTable(v)[c] # Free
      <3>1. 0 \notin Looked(v, current)
        BY <1>1, SearchOrder DEF Clusters
      <3>2. \A j \in 1 .. n : SeenTable(v)[Nth(v, current, j)] # Free
        BY <1>13, <1>16, <3>1 DEF Searched
      <3> QED
        BY <1>1, <3>2, SearchOrder DEF n
    <2> QED
      BY <1>13, <2>1, <2>4, <2>6, <2>7, <2>8 DEF Searched, findFreeWell, s
  <1> QED
    BY <1>14, <1>15, <1>16

-----------------------------------------------------------------------------
(* Sound tables.                                                           *)

SoundTables == {T \in Tables : IsSound(T)}

Marked(T, new) == [T EXCEPT ![new] = EOC]
Linked(T, current, new) ==
    IF current = 0 THEN Marked(T, new) ELSE [Marked(T, new) EXCEPT ![current] = new]

\* The mark of an end, and those of free clusters, are no clusters.
LEMMA NoClusters == /\ EOC \in Nat \ Clusters /\ EOC > LastCluster /\ EOC # 1 /\ EOC # Free
                    /\ Free \in Nat \ Clusters /\ Free # 1 /\ 1 \notin Clusters
                    /\ Clusters \subseteq Nat /\ 0 \notin Clusters
  BY TableAssumption DEF EOC, Clusters, Free

\* A free cluster that gets a mark, and then a cluster that leads to it.
LEMMA MarkedSound ==
    ASSUME NEW T \in SoundTables, NEW new \in Clusters
    PROVE  Marked(T, new) \in SoundTables
  <1> DEFINE M == Marked(T, new)
  <1>1. M \in Tables /\ \A c \in Clusters : M[c] = IF c = new THEN EOC ELSE T[c]
    BY NoClusters DEF SoundTables, IsSound, Tables, Marked
  <1> HIDE DEF M
  <1>2. \A c \in Clusters : M[c] # 1
    BY <1>1, NoClusters DEF SoundTables, IsSound
  <1>3. \A c \in Clusters : M[c] \in Clusters => M[c] = T[c] /\ M[M[c]] # Free
    BY <1>1, NoClusters DEF SoundTables, IsSound
  <1> QED
    BY <1>1, <1>2, <1>3 DEF SoundTables, IsSound, M
LEMMA LinkedSound ==
    ASSUME NEW T \in SoundTables, NEW new \in Clusters, T[new] = Free,
           NEW current \in ({0} \cup Clusters) \ {new}
    PROVE  Linked(T, current, new) \in SoundTables
  <1> DEFINE M == Marked(T, new)
             L == [M EXCEPT ![current] = new]
  <1>1. M \in SoundTables
    BY MarkedSound
  <1>2. CASE current = 0
    BY <1>1, <1>2 DEF Linked
  <1>3. CASE current \in Clusters
    <2>1. /\ M \in Tables /\ \A c \in Clusters : M[c] = IF c = new THEN EOC ELSE T[c]
          /\ T \in Tables
      BY NoClusters DEF SoundTables, IsSound, Tables, Marked
    <2> HIDE DEF M
    <2>2. L \in Tables /\ \A c \in Clusters : L[c] = IF c = current THEN new ELSE M[c]
      BY <1>3, <2>1, NoClusters DEF Tables
    <2>3. \A c \in Clusters : M[c] # new
      BY <2>1, NoClusters DEF SoundTables, IsSound
    <2>4. M[new] # Free /\ current # new
      BY <2>1, NoClusters
    <2> HIDE DEF L
    <2>5. \A c \in Clusters : L[c] # 1
      BY <1>1, <2>2, NoClusters DEF SoundTables, IsSound
    <2>6. \A c \in Clusters : L[c] \in Clusters => L[L[c]] # Free
      BY <1>1, <1>3, <2>2, <2>4, NoClusters DEF SoundTables, IsSound
    <2>7. \A c \in Clusters, d \in Clusters : L[c] = L[d] /\ L[c] \in Clusters => c = d
      BY <1>1, <2>2, <2>3 DEF SoundTables, IsSound
    <2>8. L \in SoundTables
      BY <2>2, <2>5, <2>6, <2>7 DEF SoundTables, IsSound
    <2>9. Linked(T, current, new) = L
      BY <1>3, NoClusters DEF Linked, L, M
    <2> QED
      BY <2>8, <2>9
  <1> QED
    BY <1>2, <1>3

-----------------------------------------------------------------------------
(* Allocation.                                                             *)

\* A cluster is marked before a chain leads to it.
LEMMA linkSafe ==
    ASSUME NEW d0 \in [Sectors -> Contents], NEW v \in Safe(d0, SoundTables),
           v.ok = TRUE,
           NEW new \in Clusters, SeenTable(v)[new] = Free,
           NEW current \in ({0} \cup Clusters) \ {new}
    PROVE  LET l == link(v, current, new)
           IN  /\ l \in Safe(d0, SoundTables)
               /\ Beside(v, l, OverDevice) /\ SameData(Seen(v), Seen(l))
               /\ l.ok = TRUE => SeenTable(l) = Linked(SeenTable(v), current, new)
               /\ l.ok # TRUE => SeenTable(l) \in {SeenTable(v), Marked(SeenTable(v), new)}
  <1> DEFINE p == fatPut(v, new, EOC)
             q == fatPut(p, current, new)
             l == link(v, current, new)
             T == SeenTable(v)
  <1>1. T \in SoundTables /\ EOC \in Nat /\ new \in Nat
    BY SeenTyped, NoClusters
  <1> HIDE DEF T
  <1>2. Marked(T, new) \in SoundTables /\ Linked(T, current, new) \in SoundTables
    BY <1>1, MarkedSound, LinkedSound DEF T
  <1>3. p \in Safe(d0, SoundTables) /\ fatPutWell(v, new, EOC, p)
    BY <1>1, <1>2, fatPutSafe DEF Marked, T
  <1>4. l = IF p.ok THEN IF current = 0 THEN p ELSE q ELSE p
    BY DEF link, Then, fatPutEOC
  <1> HIDE DEF p, l
  <1>5. p.ok \in BOOLEAN
    BY <1>3, SeenTyped
  <1>6. CASE p.ok # TRUE
    <2>1. l = p
      BY <1>4, <1>5, <1>6
    <2> QED
      BY <1>3, <1>6, <2>1 DEF fatPutWell, l, T
  <1>7. CASE p.ok = TRUE
    <2>1. SeenTable(p) = Marked(T, new)
      BY <1>3, <1>7 DEF fatPutWell, Marked, T
    <2>2. CASE current = 0
      <3>1. l = p
        BY <1>4, <1>7, <2>2
      <3> QED
        BY <1>3, <1>7, <2>1, <2>2, <3>1 DEF fatPutWell, Linked, l, T
    <2>3. CASE current # 0
      <3>1. l = q
        BY <1>4, <1>7, <2>3
      <3>2. Linked(T, current, new) = [SeenTable(p) EXCEPT ![current] = new]
        BY <2>1, <2>3 DEF Linked
      <3>3. q \in Safe(d0, SoundTables) /\ fatPutWell(p, current, new, q)
        <4>1. current \in Clusters => [SeenTable(p) EXCEPT ![current] = new] \in SoundTables
          BY <1>2, <3>2
        <4> QED
          BY <1>1, <1>3, <1>7, <4>1, fatPutSafe
      <3> HIDE DEF q
      <3>4. Beside(v, q, OverDevice) /\ SameData(Seen(v), Seen(q))
        BY <1>3, <3>3, SameDataOn DEF fatPutWell, Beside
      <3> QED
        BY <2>1, <3>1, <3>2, <3>3, <3>4 DEF fatPutWell, l, T
    <2> QED
      BY <2>2, <2>3
  <1> QED
    BY <1>5, <1>6, <1>7

\* allocateCluster gives the chain of current a cluster that was free, and
\* marks it as the end before the chain leads to it: wherever an access fails
\* or the power goes, every chain of the table stays one. A cluster is found
\* unless an access fails or none of those looked at is free.
THEOREM ClusterAllocated ==
    ASSUME NEW d0 \in [Sectors -> Contents], NEW v \in Safe(d0, SoundTables),
           v.ok = TRUE,
           NEW current \in {0} \cup Clusters
    PROVE  LET a == allocateCluster(v, current)
               T == SeenTable(v)
           IN  /\ a \in Safe(d0, SoundTables)
               /\ Beside(v, a, OverTable \cup {"search", "full"})
               /\ SameData(Seen(v), Seen(a))
               /\ a.ok = TRUE => /\ a.val \in Clusters \ {current} /\ T[a.val] = Free
                                 /\ SeenTable(a) = Linked(T, current, a.val)
               /\ a.ok # TRUE =>
                     \/ SeenTable(a) = T
                     \/ \E new \in Clusters : T[new] = Free /\ SeenTable(a) = Marked(T, new)
               /\ a.full = v.full \/ \A c \in Looked(v, current) : T[c] # Free
  <1> DEFINE s == findFree(v, current)
             l == link(s, current, s.val)
             u == [l EXCEPT !.val = s.val]
             a == allocateCluster(v, current)
  <1>1. s \in Safe(d0, SoundTables) /\ findFreeWell(v, current, s)
    BY findFreeSafe
  <1>2. a = IF s.ok THEN u ELSE s
    BY DEF allocateCluster, Then
  <1> HIDE DEF s, a
  <1>3. /\ s.ok \in BOOLEAN /\ SeenTable(s) = SeenTable(v)
        /\ SameData(Seen(v), Seen(s))
    BY <1>1, SeenTyped, AlikeTables, AlikeData DEF findFreeWell, SeenTable
  <1>4. CASE s.ok # TRUE
    <2>1. a = s
      BY <1>2, <1>3, <1>4
    <2> QED
      BY <1>1, <1>3, <1>4, <2>1 DEF findFreeWell, a
  <1>5. CASE s.ok = TRUE
    <2>1. a = u
      BY <1>2, <1>5
    <2>2. s.val \in Looked(v, current) /\ SeenTable(s)[s.val] = Free
      BY <1>1, <1>3, <1>5 DEF findFreeWell
    <2>3. s.val \in Clusters \ {current} /\ current \in ({0} \cup Clusters) \ {s.val}
      BY <2>2, SearchOrder, SeenTyped DEF Clusters
    <2> DEFINE new == s.val
    <2>4. new \in Clusters /\ new \in Int /\ current \in ({0} \cup Clusters) \ {new}
      <3>1. new \in Clusters /\ current \in ({0} \cup Clusters) \ {new}
        BY <2>3
      <3> HIDE DEF new
      <3> QED
        BY <3>1, NoClusters
    <2>5. l = link(s, current, new) /\ u = [l EXCEPT !.val = new]
      OBVIOUS
    <2> HIDE DEF new, l, u
    <2>6. /\ l \in Safe(d0, SoundTables)
          /\ Beside(s, l, OverDevice) /\ SameData(Seen(s), Seen(l))
          /\ l.ok = TRUE => SeenTable(l) = Linked(SeenTable(s), current, new)
          /\ l.ok # TRUE => SeenTable(l) \in {SeenTable(s), Marked(SeenTable(s), new)}
      BY <1>1, <1>5, <2>2, <2>4, <2>5, linkSafe DEF new
    <2>7. u \in Calls /\ u.val = new /\ Beside(l, u, {"val"})
      BY <2>4, <2>5, <2>6, SeenTyped, valIs
    <2>8. {"val"} \subseteq Fields \ {"dev", "log", "cache"} /\ u.ok = l.ok
      BY <2>7 DEF Fields, Beside
    <2>9. u \in Safe(d0, SoundTables) /\ Seen(u) = Seen(l)
      BY <2>6, <2>7, <2>8, SafeBeside
    <2>10. Beside(v, u, OverTable \cup {"search", "full"})
      BY <1>1, <2>6, <2>7 DEF findFreeWell, Beside, OverTable
    <2>11. SameData(Seen(v), Seen(u))
      BY <1>3, <2>6, <2>9, SameDataOn
    <2>12. u.full = s.full
      BY <2>6, <2>7 DEF Beside, Fields, OverDevice
    <2>13. u.full = v.full \/ \A c \in Looked(v, current) : SeenTable(v)[c] # Free
      BY <1>1, <1>5, <2>12 DEF findFreeWell
    <2> QED
      BY <1>3, <2>1, <2>2, <2>4, <2>6, <2>7, <2>8, <2>9, <2>10, <2>11, <2>13
         DEF SeenTable, a, new
  <1> QED
    BY <1>3, <1>4, <1>5

\* A row of free clusters made a chain.
Row(T, bgn, end) ==
    [c \in Clusters |-> IF c \in bgn .. end - 1 THEN c + 1
                        ELSE IF c = end THEN EOC ELSE T[c]]
FreeRow(T, bgn, end) ==
    /\ bgn \in Int /\ end \in Int /\ bgn <= end
    /\ bgn .. end \subseteq Clusters /\ \A c \in bgn .. end : T[c] = Free
LEMMA RowSound ==
    ASSUME NEW T \in SoundTables, NEW bgn, NEW end, FreeRow(T, bgn, end)
    PROVE  Row(T, bgn, end) \in SoundTables
  <1> DEFINE R == Row(T, bgn, end)
  <1>0. bgn \in Int /\ end \in Int /\ bgn <= end
    BY DEF FreeRow
  <1>1. /\ \A c \in Clusters : R[c] = IF c \in bgn .. end - 1 THEN c + 1
                                    ELSE IF c = end THEN EOC ELSE T[c]
        /\ R = [c \in Clusters |-> R[c]]
    BY DEF Row
  <1>2. T \in Tables /\ \A c \in Clusters : c \in Nat
    BY NoClusters DEF SoundTables, IsSound
  <1> HIDE DEF R
  <1>3. \A c \in bgn .. end : T[c] = Free /\ c \in Clusters
    BY DEF FreeRow
  <1>4. \A c \in bgn .. end - 1 : c \in bgn .. end /\ c + 1 \in bgn .. end
    BY <1>0
  <1>5. \A c \in bgn .. end : R[c] = EOC \/ R[c] \in Clusters
    BY <1>0, <1>1, <1>3, <1>4
  <1>6. \A c \in Clusters : c \notin bgn .. end => R[c] = T[c]
    BY <1>0, <1>1
  <1>7. \A c \in Clusters : R[c] \in Nat /\ R[c] # 1
    BY <1>2, <1>5, <1>6, NoClusters DEF SoundTables, IsSound, Tables
  <1>8. \A c \in Clusters : c \notin bgn .. end /\ R[c] \in Clusters =>
            R[c] \notin bgn .. end /\ R[R[c]] # Free
    BY <1>3, <1>6, NoClusters DEF SoundTables, IsSound
  <1>9. \A c \in bgn .. end : R[c] \in Clusters => c \in bgn .. end - 1 /\ R[c] = c + 1
    BY <1>0, <1>1, <1>3, NoClusters
  <1>10. \A c \in bgn .. end : R[c] \in Clusters => R[c] \in bgn .. end /\ R[R[c]] # Free
    BY <1>4, <1>5, <1>9, NoClusters
  <1>11. ASSUME NEW c \in Clusters, NEW d \in Clusters, R[c] = R[d], R[c] \in Clusters
         PROVE  c = d
    <2>1. CASE c \in bgn .. end
      <3>1. R[d] \in bgn .. end /\ d \in bgn .. end
        BY <1>8, <1>10, <1>11, <2>1
      <3> QED
        BY <1>0, <1>9, <1>11, <2>1, <3>1
    <2>2. CASE c \notin bgn .. end
      <3>1. d \notin bgn .. end
        BY <1>8, <1>10, <1>11, <2>2
      <3> QED
        BY <1>6, <1>11, <2>2, <3>1 DEF SoundTables, IsSound
    <2> QED
      BY <2>1, <2>2
  <1>12. R \in Tables
    BY <1>1, <1>7 DEF Tables
  <1> QED
    BY <1>7, <1>8, <1>10, <1>11, <1>12 DEF SoundTables, IsSound, R

\* A row begins with its end, and grows to the front.
LEMMA RowOn ==
    ASSUME NEW T \in Tables
    PROVE  /\ \A end \in Clusters : Row(T, end, end) = Marked(T, end)
           /\ \A bgn \in Clusters, end \in Clusters : bgn + 1 <= end =>
                  Row(T, bgn, end) = [Row(T, bgn + 1, end) EXCEPT ![bgn] = bgn + 1]
  <1>1. \A c \in Clusters : c \in Nat
    BY NoClusters
  <1>2. ASSUME NEW end \in Clusters PROVE Row(T, end, end) = Marked(T, end)
    <2>1. \A c : c \notin end .. end - 1
      BY <1>1
    <2>2. Marked(T, end) = [c \in Clusters |-> IF c = end THEN EOC ELSE T[c]]
      BY DEF Marked, Tables
    <2> QED
      BY <2>1, <2>2 DEF Row
  <1>3. ASSUME NEW bgn \in Clusters, NEW end \in Clusters, bgn + 1 <= end
        PROVE  Row(T, bgn, end) = [Row(T, bgn + 1, end) EXCEPT ![bgn] = bgn + 1]
    <2>1. bgn \in Nat /\ end \in Nat
      BY <1>1
    <2>2. \A c \in Clusters : c \in bgn .. end - 1 <=> c = bgn \/ c \in bgn + 1 .. end - 1
      BY <1>1, <1>3, <2>1
    <2>3. bgn # end
      BY <1>3, <2>1
    <2> QED
      BY <2>2, <2>3 DEF Row
  <1> QED
    BY <1>2, <1>3

\* The run is linked from its end down: what of it is linked is a row.
linkRunWell(T, bgn, end, b, p) ==
    /\ p.ok = TRUE => SeenTable(p) = Row(T, b, end)
    /\ p.ok # TRUE => \E e \in bgn .. end : SeenTable(p) = Row(T, e, end)
LinkStep(v, end, k, p) ==
    IF p.ok THEN fatPut(p, end - k, end - k + 1) ELSE p
LEMMA LinkGoesOn ==
    ASSUME NEW d0 \in [Sectors -> Contents], NEW v \in Safe(d0, SoundTables),
           NEW T \in SoundTables, NEW bgn, NEW end, FreeRow(T, bgn, end),
           NEW k \in 1 .. end - bgn,
           NEW p \in Safe(d0, SoundTables), Beside(v, p, OverDevice),
           SameData(Seen(v), Seen(p)), linkRunWell(T, bgn, end, end - (k - 1), p)
    PROVE  LET q == LinkStep(v, end, k, p)
           IN  /\ q \in Safe(d0, SoundTables) /\ Beside(v, q, OverDevice)
               /\ SameData(Seen(v), Seen(q)) /\ linkRunWell(T, bgn, end, end - k, q)
  <1> DEFINE q == LinkStep(v, end, k, p)
             c == end - k
  <1>1. /\ bgn \in Int /\ end \in Int /\ bgn <= end /\ bgn .. end \subseteq Clusters
        /\ k \in Int /\ p.ok \in BOOLEAN
    BY SeenTyped DEF FreeRow
  <1>2. /\ c \in bgn .. end /\ c \in Clusters /\ end \in Clusters /\ c + 1 \in Clusters
        /\ c + 1 \in bgn .. end /\ c + 1 <= end /\ end - (k - 1) = c + 1 /\ c \in Nat
        /\ c + 1 \in Nat
    <2>1. /\ c \in bgn .. end /\ end \in bgn .. end /\ c + 1 \in bgn .. end
          /\ end - (k - 1) = c + 1 /\ c + 1 <= end
      BY <1>1
    <2> HIDE DEF c
    <2> QED
      BY <1>1, <2>1, NoClusters
  <1>3. q = IF p.ok THEN fatPut(p, c, c + 1) ELSE p
    BY DEF LinkStep
  <1> HIDE DEF q, c
  <1>4. CASE p.ok # TRUE
    <2>1. q = p
      BY <1>1, <1>3, <1>4
    <2> QED
      BY <1>4, <2>1 DEF linkRunWell, q
  <1>5. CASE p.ok = TRUE
    <2>1. SeenTable(p) = Row(T, c + 1, end)
      BY <1>2, <1>5 DEF linkRunWell
    <2>2. Row(T, c, end) = [SeenTable(p) EXCEPT ![c] = c + 1]
      BY <1>2, <2>1, RowOn DEF SoundTables, IsSound
    <2>3. Row(T, c, end) \in SoundTables
      <3>1. FreeRow(T, c, end)
        BY <1>1, <1>2 DEF FreeRow
      <3> QED
        BY <3>1, RowSound
    <2>4. q \in Safe(d0, SoundTables) /\ fatPutWell(p, c, c + 1, q)
      <3>1. [SeenTable(p) EXCEPT ![c] = c + 1] \in SoundTables
        BY <2>2, <2>3
      <3>2. c + 1 \in Nat
        BY <1>2
      <3>3. q = fatPut(p, c, c + 1)
        BY <1>3, <1>5
      <3> QED
        BY <1>5, <3>1, <3>2, <3>3, fatPutSafe
    <2>5. Beside(v, q, OverDevice) /\ SameData(Seen(v), Seen(q))
      BY <2>4, SameDataOn DEF fatPutWell, Beside
    <2>6. linkRunWell(T, bgn, end, c, q)
      BY <1>2, <2>1, <2>2, <2>4 DEF fatPutWell, linkRunWell
    <2> QED
      BY <2>4, <2>5, <2>6 DEF q, c
  <1> QED
    BY <1>1, <1>4, <1>5
LEMMA linkRunSafe ==
    ASSUME NEW d0 \in [Sectors -> Contents], NEW v \in Safe(d0, SoundTables),
           NEW T \in SoundTables, NEW bgn, NEW end, FreeRow(T, bgn, end),
           v.ok = TRUE, SeenTable(v) = Row(T, end, end)
    PROVE  LET l == linkRun(v, bgn, end)
           IN  /\ l \in Safe(d0, SoundTables) /\ Beside(v, l, OverDevice)
               /\ SameData(Seen(v), Seen(l)) /\ linkRunWell(T, bgn, end, bgn, l)
  <1> DEFINE S == Safe(d0, SoundTables)
             n == end - bgn
             U == {x \in Nat \X S :
                     /\ Beside(v, x[2], OverDevice) /\ SameData(Seen(v), Seen(x[2]))
                     /\ linkRunWell(T, bgn, end, end - x[1], x[2])}
             Step(k, p) == LinkStep(v, end, k, p)
             G == [x \in Int \X S |-> Step(x[1], x[2])]
             Is(f) == f = [k \in 0 .. n |-> IF k = 0 THEN v ELSE Step(k, f[k - 1])]
             after == CHOOSE f : Is(f)
             l == linkRun(v, bgn, end)
  <1>1. n \in Nat
    BY DEF FreeRow
  <1>0. end - n = bgn /\ end - 0 = end /\ \A k \in 1 .. n : k \in 1 .. end - bgn
    BY DEF FreeRow
  <1>2. l = after[n]
    BY DEF linkRun, Then, LinkStep
  <1>3. <<0, v>> \in U
    BY <1>0 DEF Beside, SameData, linkRunWell
  <1> HIDE DEF l, n
  <1>4. ASSUME NEW k \in 1 .. n, NEW p \in S, <<k - 1, p>> \in U
        PROVE  Step(k, p) \in S /\ <<k, Step(k, p)>> \in U
    <2>1. /\ Beside(v, p, OverDevice) /\ SameData(Seen(v), Seen(p))
          /\ linkRunWell(T, bgn, end, end - (k - 1), p)
      BY <1>4
    <2>2. k \in Nat /\ k \in 1 .. end - bgn
      BY <1>0, <1>1
    <2> QED
      BY <2>1, <2>2, LinkGoesOn
  <1>5. ASSUME NEW k \in Int, NEW p \in S PROVE G[<<k, p>>] = Step(k, p)
    OBVIOUS
  <1>6. v \in S
    OBVIOUS
  <1> HIDE DEF S, G, Step
  <1>7. \A k, p : <<k, p>> \in U => p \in S /\ linkRunWell(T, bgn, end, end - k, p)
             /\ Beside(v, p, OverDevice) /\ SameData(Seen(v), Seen(p))
    OBVIOUS
  <1> HIDE DEF U
  <1>8. \E f : Is(f)
    <2>1. ASSUME NEW k \in 1 .. n, NEW p \in S, <<k - 1, p>> \in U
          PROVE  G[<<k, p>>] \in S /\ <<k, G[<<k, p>>]>> \in U
      BY <1>1, <1>4, <1>5, <2>1
    <2>2. \E f \in [0 .. n -> S] :
              Loop(f, v, G, n) /\ \A k \in 0 .. n : <<k, f[k]>> \in U
      BY ONLY <1>1, <1>3, <1>6, <2>1, LoopRuns
    <2>3. PICK f \in [0 .. n -> S] : Loop(f, v, G, n)
      BY <2>2
    <2>4. ASSUME NEW k \in 0 .. n, k # 0 PROVE G[<<k, f[k - 1]>>] = Step(k, f[k - 1])
      <3>1. k - 1 \in 0 .. n /\ k \in Int
        BY <1>1, <2>4
      <3>2. f[k - 1] \in S
        BY <3>1
      <3> QED
        BY <3>1, <3>2, <1>5
    <2>5. Is(f)
      BY <2>3, <2>4 DEF Loop
    <2> QED
      BY <2>5
  <1>9. Is(after)
    BY <1>8, Zenon
  <1> HIDE DEF after
  <1>10. after[0] = v /\ \A k \in 1 .. n : after[k] = Step(k, after[k - 1])
    BY <1>1, <1>9
  <1> HIDE DEF Is
  <1>11. <<0, after[0]>> \in U
    BY <1>3, <1>10
  <1>12. ASSUME NEW k \in 1 .. n, <<k - 1, after[k - 1]>> \in U
         PROVE  <<k, after[k]>> \in U
    <2>1. after[k - 1] \in S
      BY <1>7, <1>12
    <2> QED
      BY <1>4, <1>10, <1>12, <2>1
  <1>13. <<n, after[n]>> \in U
    <2>1. \A k \in 0 .. n : <<k, after[k]>> \in U
      BY ONLY <1>1, <1>11, <1>12, LoopKeepsAt
    <2> QED
      BY <1>1, <2>1
  <1> QED
    BY <1>0, <1>2, <1>7, <1>13 DEF S, l

\* What the search for count clusters in a row knows after k looks.
RunOf(S) == [v : S, bgn : Nat, setStart : BOOLEAN, found : BOOLEAN]
RunSought(v, count, k, l) ==
    /\ Beside(v, l.v, OverTable) /\ Alike(Seen(v), Seen(l.v))
    /\ l.bgn \in Clusters \cup {EOC} /\ l.bgn <= v.search + k + 1
    /\ l.found = TRUE =>
          /\ l.v.ok = TRUE /\ l.bgn + count - 1 <= v.search + k
          /\ \A c \in l.bgn .. l.bgn + count - 1 : SeenTable(v)[c] = Free
    /\ l.found # TRUE =>
          \A c \in l.bgn .. v.search + k : l.v.ok # TRUE \/ SeenTable(v)[c] = Free
RunStep(v, count, k, l) ==
    IF l.found \/ ~l.v.ok THEN l ELSE lookForRun(l, v.search + k, count)
LEMMA RunGoesOn ==
    ASSUME NEW d0 \in [Sectors -> Contents], NEW Ts, NEW v \in Safe(d0, Ts),
           NEW count \in Nat \ {0}, NEW k \in 1 .. LastCluster - v.search,
           NEW l \in RunOf(Safe(d0, Ts)), RunSought(v, count, k - 1, l)
    PROVE  /\ RunStep(v, count, k, l) \in RunOf(Safe(d0, Ts))
           /\ RunSought(v, count, k, RunStep(v, count, k, l))
  <1> DEFINE m == RunStep(v, count, k, l)
             c == v.search + k
             g == fatGet(l.v, c)
             f == [l EXCEPT !.v = g]
             x == [l EXCEPT !.v = g, !.bgn = c + 1, !.setStart = @ /\ l.bgn = c]
             y == [l EXCEPT !.v = g, !.found = c - l.bgn + 1 = count]
  <1>1. /\ v.search \in 1 .. LastCluster /\ l.v \in Safe(d0, Ts) /\ l.v.ok \in BOOLEAN
        /\ l.found \in BOOLEAN /\ l.setStart \in BOOLEAN /\ l.bgn \in Nat
        /\ SeenTable(v) \in Tables /\ SeenTable(l.v) = SeenTable(v)
    <2>1. l.v \in Safe(d0, Ts) /\ l.found \in BOOLEAN /\ l.setStart \in BOOLEAN /\ l.bgn \in Nat
      BY DEF RunOf
    <2> QED
      BY <2>1, SeenTyped, AlikeTables DEF RunSought, SeenTable, Calls
  <1>2. k \in Nat /\ c \in Clusters /\ c \in Nat /\ c + 1 \in Clusters \cup {EOC}
        /\ c = v.search + (k - 1) + 1 /\ LastCluster \in Nat
    BY <1>1, TableAssumption DEF Clusters, EOC
  <1>3. \A e : e \in l.bgn .. v.search + k => e \in l.bgn .. v.search + (k - 1) \/ e = c
    BY <1>1, <1>2
  <1>4. CASE l.found = TRUE \/ l.v.ok # TRUE
    <2>1. m = l
      BY <1>1, <1>4 DEF RunStep
    <2> HIDE DEF m
    <2>2. l.bgn <= v.search + k + 1
      BY <1>1, <1>2 DEF RunSought
    <2>3. l.bgn + count - 1 <= v.search + (k - 1) => l.bgn + count - 1 <= v.search + k
      BY <1>1, <1>2
    <2>4. ASSUME l.found = TRUE PROVE RunSought(v, count, k, l)
      BY <2>2, <2>3, <2>4 DEF RunSought
    <2>5. ASSUME l.found # TRUE PROVE RunSought(v, count, k, l)
      BY <1>4, <2>2, <2>5 DEF RunSought
    <2>6. RunSought(v, count, k, l)
      BY <2>4, <2>5
    <2> QED
      BY <2>1, <2>6 DEF m
  <1>5. CASE l.found # TRUE /\ l.v.ok = TRUE
    <2>1. g \in Safe(d0, Ts) /\ fatGetWell(l.v, c, g)
      BY <1>1, <1>5, fatGetSafe
    <2>2. m = IF ~g.ok THEN f ELSE IF g.fg = 0 \/ g.val # Free THEN x ELSE y
      BY <1>1, <1>5 DEF RunStep, lookForRun, With
    <2> HIDE DEF m, g, c
    <2>3. /\ Beside(v, g, OverTable) /\ Alike(Seen(v), Seen(g)) /\ g.ok \in BOOLEAN
      BY <2>1, AlikeOn, SeenTyped DEF RunSought, fatGetWell, Beside
    <2>4. f \in RunOf(Safe(d0, Ts)) /\ f.v = g /\ f.bgn = l.bgn /\ f.found = l.found
      BY <2>1 DEF RunOf
    <2>5. /\ x \in RunOf(Safe(d0, Ts)) /\ x.v = g /\ x.bgn = c + 1 /\ x.found = l.found
      <3>1. c + 1 \in Nat /\ (l.setStart /\ l.bgn = c) \in BOOLEAN
        BY <1>2
      <3> QED
        BY <2>1, <3>1 DEF RunOf
    <2>6. /\ y \in RunOf(Safe(d0, Ts)) /\ y.v = g /\ y.bgn = l.bgn
          /\ y.found = (c - l.bgn + 1 = count)
      BY <1>1, <1>2, <2>1 DEF RunOf
    <2> HIDE DEF f, x, y
    <2>7. l.bgn \in Clusters \cup {EOC} /\ l.bgn <= c /\ l.bgn <= v.search + k + 1
      BY <1>1, <1>2 DEF RunSought, c
    <2>8. CASE g.ok # TRUE
      <3>1. m = f
        BY <2>2, <2>3, <2>8
      <3>2. RunSought(v, count, k, f)
        BY <1>5, <2>3, <2>4, <2>7, <2>8 DEF RunSought
      <3> QED
        BY <2>4, <3>1, <3>2 DEF m
    <2>9. CASE g.ok = TRUE /\ (g.fg = 0 \/ g.val # Free)
      <3>1. m = x
        BY <2>2, <2>9
      <3>2. \A e : e \notin c + 1 .. v.search + k
        BY <1>1, <1>2 DEF c
      <3>3. c + 1 <= v.search + k + 1
        BY <1>1, <1>2 DEF c
      <3>4. RunSought(v, count, k, x)
        BY <1>2, <1>5, <2>3, <2>5, <3>2, <3>3 DEF RunSought
      <3> QED
        BY <2>5, <3>1, <3>4 DEF m
    <2>10. CASE g.ok = TRUE /\ ~(g.fg = 0 \/ g.val # Free)
      <3>1. m = y
        BY <2>2, <2>10
      <3>2. SeenTable(v)[c] = Free
        BY <1>1, <2>1, <2>10 DEF fatGetWell
      <3>3. \A e \in l.bgn .. v.search + k : SeenTable(v)[e] = Free
        BY <1>3, <1>5, <3>2 DEF RunSought
      <3>4. y.found = TRUE => l.bgn + count - 1 = v.search + k
        <4>1. y.found = TRUE => c - l.bgn + 1 = count
          BY <2>6
        <4>2. c = v.search + k /\ v.search \in Nat /\ c \in Nat
          BY <1>1, <1>2 DEF c
        <4> QED
          BY <1>1, <1>2, <4>1, <4>2
      <3>6. ASSUME y.found = TRUE PROVE RunSought(v, count, k, y)
        <4>1. v.search + k <= v.search + k
          BY <1>1, <1>2
        <4>2. \A e \in l.bgn .. l.bgn + count - 1 : SeenTable(v)[e] = Free
          BY <3>3, <3>4, <3>6
        <4> QED
          BY <2>3, <2>6, <2>7, <2>10, <3>4, <3>6, <4>1, <4>2 DEF RunSought
      <3>7. ASSUME y.found # TRUE PROVE RunSought(v, count, k, y)
        BY <2>3, <2>6, <2>7, <2>10, <3>3, <3>7 DEF RunSought
      <3>5. RunSought(v, count, k, y)
        BY <3>6, <3>7
      <3> QED
        BY <2>6, <3>1, <3>5 DEF m
    <2> QED
      BY <2>3, <2>8, <2>9, <2>10
  <1> QED
    BY <1>1, <1>4, <1>5

\* A row of free clusters is found, or nothing.
findRunWell(v, count, r) ==
    /\ Beside(v, r, OverTable \cup {"search"}) /\ Alike(Seen(v), Seen(r))
    /\ r.ok = TRUE => FreeRow(SeenTable(v), r.val, r.val + count - 1)
LEMMA findRunSafe ==
    ASSUME NEW d0 \in [Sectors -> Contents], NEW Ts, NEW v \in Safe(d0, Ts),
           v.ok = TRUE,
           NEW count \in Nat \ {0}
    PROVE  findRun(v, count) \in Safe(d0, Ts) /\ findRunWell(v, count, findRun(v, count))
  <1> DEFINE S == RunOf(Safe(d0, Ts))
             n == LastCluster - v.search
             w == [v EXCEPT !.ok = TRUE]
             b == [v |-> w, bgn |-> v.search + 1, setStart |-> TRUE, found |-> FALSE]
             U == {p \in Nat \X S : RunSought(v, count, p[1], p[2])}
             Step(k, l) == RunStep(v, count, k, l)
             G == [p \in Int \X S |-> Step(p[1], p[2])]
             Is(f) == f = [k \in 0 .. n |-> IF k = 0 THEN b ELSE Step(k, f[k - 1])]
             after == CHOOSE f : Is(f)
             l == after[n]
             m == IF l.setStart THEN l.bgn + count - 1 ELSE l.v.search
             x == [l.v EXCEPT !.val = l.bgn]
             y == [l.v EXCEPT !.val = l.bgn,
                              !.search = IF l.setStart THEN l.bgn + count - 1 ELSE @]
             z == [l.v EXCEPT !.ok = FALSE]
             r == findRun(v, count)
  <1>1. v \in Calls /\ v.search \in 1 .. LastCluster /\ LastCluster \in Nat
    BY SeenTyped, TableAssumption DEF Calls
  <1>2. n \in Nat
    BY <1>1
  <1>3. r = IF ~l.found THEN z ELSE y
    BY DEF findRun, With, fail, done, RunStep
  <1>0. y = [x EXCEPT !.search = m]
    OBVIOUS
  <1>4. b \in S /\ RunSought(v, count, 0, b)
    <2>1. w \in Calls /\ Beside(v, w, {"ok"})
      BY <1>1, okIs
    <2> HIDE DEF w
    <2>2. {"ok"} \subseteq Fields \ {"dev", "log", "cache"}
      BY DEF Fields
    <2>3. w \in Safe(d0, Ts) /\ Seen(w) = Seen(v)
      BY <2>1, <2>2, SafeBeside
    <2>4. Beside(v, w, OverTable) /\ Alike(Seen(v), Seen(w))
      BY <2>1, <2>3 DEF Beside, OverTable, OverDevice, Alike
    <2>5. b \in S
      BY <1>1, <2>3 DEF RunOf
    <2>6. v.search + 1 \in Clusters \cup {EOC} /\ \A c : c \notin v.search + 1 .. v.search + 0
      BY <1>1 DEF Clusters, EOC
    <2>7. v.search + 1 <= v.search + 0 + 1
      BY <1>1
    <2> QED
      BY <2>4, <2>5, <2>6, <2>7 DEF RunSought
  <1> HIDE DEF r, b, l, m, x, y, z, w
  <1>5. ASSUME NEW k \in 1 .. n, NEW g \in S, <<k - 1, g>> \in U
        PROVE  Step(k, g) \in S /\ <<k, Step(k, g)>> \in U
    <2>1. RunSought(v, count, k - 1, g) /\ k \in Nat /\ k \in 1 .. LastCluster - v.search
      BY <1>1, <1>5
    <2> QED
      BY <2>1, RunGoesOn
  <1>6. ASSUME NEW k \in Int, NEW g \in S PROVE G[<<k, g>>] = Step(k, g)
    OBVIOUS
  <1>7. <<0, b>> \in U
    BY <1>4
  <1>8. \A k, g : <<k, g>> \in U => g \in S /\ RunSought(v, count, k, g)
    OBVIOUS
  <1> HIDE DEF S, U, G, Step, n
  <1>9. \E f : Is(f)
    <2>1. ASSUME NEW k \in 1 .. n, NEW g \in S, <<k - 1, g>> \in U
          PROVE  G[<<k, g>>] \in S /\ <<k, G[<<k, g>>]>> \in U
      BY <1>2, <1>5, <1>6, <2>1
    <2>2. b \in S
      BY <1>4
    <2>3. \E f \in [0 .. n -> S] :
              Loop(f, b, G, n) /\ \A k \in 0 .. n : <<k, f[k]>> \in U
      BY ONLY <1>2, <1>7, <2>1, <2>2, LoopRuns
    <2>4. PICK f \in [0 .. n -> S] : Loop(f, b, G, n)
      BY <2>3
    <2>5. ASSUME NEW k \in 0 .. n, k # 0 PROVE G[<<k, f[k - 1]>>] = Step(k, f[k - 1])
      <3>1. k - 1 \in 0 .. n /\ k \in Int
        BY <1>2, <2>5
      <3>2. f[k - 1] \in S
        BY <3>1
      <3> QED
        BY <3>1, <3>2, <1>6
    <2>6. Is(f)
      BY <2>4, <2>5 DEF Loop
    <2> QED
      BY <2>6
  <1>10. Is(after)
    BY <1>9, Zenon
  <1> HIDE DEF after
  <1>11. after[0] = b /\ \A k \in 1 .. n : after[k] = Step(k, after[k - 1])
    BY <1>2, <1>10
  <1> HIDE DEF Is
  <1>12. <<0, after[0]>> \in U
    BY <1>7, <1>11
  <1>13. ASSUME NEW k \in 1 .. n, <<k - 1, after[k - 1]>> \in U
         PROVE  <<k, after[k]>> \in U
    <2>1. after[k - 1] \in S
      BY <1>8, <1>13
    <2> QED
      BY <1>5, <1>11, <1>13, <2>1
  <1>14. <<n, after[n]>> \in U
    <2>1. \A k \in 0 .. n : <<k, after[k]>> \in U
      BY ONLY <1>2, <1>12, <1>13, LoopKeepsAt
    <2> QED
      BY <1>2, <2>1
  <1>15. l \in RunOf(Safe(d0, Ts)) /\ RunSought(v, count, n, l)
    BY <1>8, <1>14 DEF S, l
  <1>16. /\ l.v \in Safe(d0, Ts) /\ l.v \in Calls /\ l.found \in BOOLEAN
         /\ l.setStart \in BOOLEAN /\ l.bgn \in Nat /\ l.v.search \in 1 .. LastCluster
    <2>1. l.v \in Safe(d0, Ts) /\ l.found \in BOOLEAN /\ l.setStart \in BOOLEAN /\ l.bgn \in Nat
      BY <1>15 DEF RunOf
    <2> QED
      BY <2>1, SeenTyped DEF Calls
  <1>17. CASE l.found = TRUE
    <2>1. r = y
      BY <1>3, <1>17
    <2>2. l.bgn + count - 1 <= v.search + n /\ v.search + n = LastCluster
      BY <1>1, <1>15, <1>17 DEF RunSought, n
    <2>3. l.bgn \in Clusters
      BY <1>15, <1>16, <2>2, <1>1 DEF RunSought, EOC
    <2>4. l.bgn + count - 1 \in 1 .. LastCluster /\ l.bgn .. l.bgn + count - 1 \subseteq Clusters
      BY <1>1, <1>16, <2>2, <2>3 DEF Clusters
    <2>5. FreeRow(SeenTable(v), l.bgn, l.bgn + count - 1)
      BY <1>15, <1>16, <1>17, <2>4 DEF RunSought, FreeRow
    <2>6. x \in Calls /\ x.val = l.bgn /\ Beside(l.v, x, {"val"})
      BY <1>16, valIs DEF x
    <2>7. m \in 1 .. LastCluster
      BY <1>16, <2>4 DEF m
    <2>8. y \in Calls /\ Beside(x, y, {"search"})
      BY <1>0, <2>6, <2>7, searchIs
    <2>9. Beside(l.v, y, {"val", "search"}) /\ y.val = l.bgn
      BY <2>6, <2>8 DEF Beside, Fields
    <2>10. y.dev = l.v.dev /\ y.log = l.v.log /\ y.cache = l.v.cache /\ l.v.ok = TRUE
      BY <1>15, <1>17, <2>9 DEF Beside, Fields, RunSought
    <2>11. y \in Safe(d0, Ts) /\ Seen(y) = Seen(l.v)
      <3> DEFINE u == l.v
      <3>1. /\ u \in Safe(d0, Ts) /\ y.dev = u.dev /\ y.log = u.log
            /\ y.cache = u.cache /\ (y.ok = TRUE => u.ok = TRUE)
        BY <1>16, <2>10
      <3> HIDE DEF u
      <3>2. y \in Safe(d0, Ts) /\ Seen(y) = Seen(u)
        BY ONLY <2>8, <3>1, SafeSame
      <3> QED
        BY <3>2 DEF u
    <2>12. Beside(v, y, OverTable \cup {"search"})
      BY <1>15, <2>9 DEF RunSought, Beside, OverTable
    <2> QED
      BY <1>15, <2>1, <2>5, <2>9, <2>11, <2>12 DEF RunSought, findRunWell, r
  <1>18. CASE l.found = FALSE
    <2>1. r = z
      BY <1>3, <1>18
    <2>2. z \in Calls /\ z.ok = FALSE /\ Beside(l.v, z, {"ok"})
      BY <1>16, okIs DEF z
    <2>3. z.dev = l.v.dev /\ z.log = l.v.log /\ z.cache = l.v.cache /\ z.ok # TRUE
      BY <2>2 DEF Beside, Fields
    <2>4. z \in Safe(d0, Ts) /\ Seen(z) = Seen(l.v)
      <3> DEFINE u == l.v
      <3>1. /\ u \in Safe(d0, Ts) /\ z.dev = u.dev /\ z.log = u.log
            /\ z.cache = u.cache /\ (z.ok = TRUE => u.ok = TRUE)
        BY <1>16, <2>3
      <3> HIDE DEF u
      <3>2. z \in Safe(d0, Ts) /\ Seen(z) = Seen(u)
        BY ONLY <2>2, <3>1, SafeSame
      <3> QED
        BY <3>2 DEF u
    <2>5. Beside(v, z, OverTable \cup {"search"})
      BY <1>15, <2>2 DEF RunSought, Beside, OverTable, OverDevice
    <2> QED
      BY <1>15, <2>1, <2>2, <2>4, <2>5 DEF RunSought, findRunWell, r
  <1> QED
    BY <1>16, <1>17, <1>18

\* allocContiguous makes a chain of a row of clusters that were all free, from
\* its end to its beginning: wherever an access fails or the power goes, every
\* chain of the table is one, and what is linked so far is the end of the row.
THEOREM RunAllocated ==
    ASSUME NEW d0 \in [Sectors -> Contents], NEW v \in Safe(d0, SoundTables),
           v.ok = TRUE,
           NEW count \in Nat \ {0}
    PROVE  LET a == allocContiguous(v, count)
               T == SeenTable(v)
           IN  /\ a \in Safe(d0, SoundTables)
               /\ Beside(v, a, OverTable \cup {"search"})
               /\ SameData(Seen(v), Seen(a))
               /\ a.ok = TRUE =>
                     /\ FreeRow(T, a.val, a.val + count - 1)
                     /\ SeenTable(a) = Row(T, a.val, a.val + count - 1)
               /\ a.ok # TRUE =>
                     \/ SeenTable(a) = T
                     \/ \E bgn \in Clusters, end \in Clusters :
                            FreeRow(T, bgn, end) /\ SeenTable(a) = Row(T, bgn, end)
  <1> DEFINE r == findRun(v, count)
             T == SeenTable(v)
             bgn == r.val
             end == r.val + count - 1
             p == fatPut(r, end, EOC)
             l == linkRun(p, bgn, end)
             u == [l EXCEPT !.val = bgn]
             a == allocContiguous(v, count)
  <1>1. r \in Safe(d0, SoundTables) /\ findRunWell(v, count, r)
    BY findRunSafe
  <1>2. a = IF r.ok THEN IF p.ok THEN u ELSE p ELSE r
    BY DEF allocContiguous, Then, fatPutEOC
  <1> HIDE DEF r, a
  <1>3. /\ r.ok \in BOOLEAN /\ SeenTable(r) = T /\ SameData(Seen(v), Seen(r))
        /\ T \in SoundTables /\ T \in Tables
    BY <1>1, SeenTyped, AlikeTables, AlikeData DEF findRunWell, SeenTable
  <1>4. CASE r.ok # TRUE
    <2>1. a = r
      BY <1>2, <1>3, <1>4
    <2> QED
      BY <1>1, <1>3, <1>4, <2>1 DEF findRunWell, a
  <1>5. CASE r.ok = TRUE
    <2>1. FreeRow(T, bgn, end)
      BY <1>1, <1>5 DEF findRunWell
    <2> HIDE DEF bgn, end, T
    <2>2. /\ bgn \in Int /\ bgn \in Clusters /\ end \in Clusters /\ end \in Int
          /\ bgn <= end /\ end \in bgn .. end
      <3>1. /\ bgn \in Int /\ end \in Int /\ bgn <= end /\ bgn .. end \subseteq Clusters
        BY <2>1 DEF FreeRow
      <3>2. bgn \in bgn .. end /\ end \in bgn .. end
        BY <3>1
      <3> QED
        BY <3>1, <3>2
    <2>3. Marked(T, end) \in SoundTables /\ Row(T, end, end) = Marked(T, end)
      BY <1>3, <2>2, MarkedSound, RowOn
    <2>4. p \in Safe(d0, SoundTables) /\ fatPutWell(r, end, EOC, p)
      <3>1. [SeenTable(r) EXCEPT ![end] = EOC] \in SoundTables
        BY <1>3, <2>3 DEF Marked, T
      <3>2. EOC \in Nat
        BY NoClusters
      <3> QED
        BY <1>1, <1>5, <3>1, <3>2, fatPutSafe
    <2> HIDE DEF p
    <2>5. /\ p.ok \in BOOLEAN /\ SameData(Seen(v), Seen(p))
          /\ Beside(v, p, OverTable \cup {"search"})
      <3>1. SameData(Seen(v), Seen(p))
        BY <1>3, <2>4, SameDataOn DEF fatPutWell
      <3> QED
        BY <1>1, <2>4, <3>1, SeenTyped DEF findRunWell, fatPutWell, Beside, OverTable
    <2>6. CASE p.ok # TRUE
      <3>1. a = p
        BY <1>2, <1>5, <2>5, <2>6
      <3>2. SeenTable(p) = T
        BY <1>3, <2>4, <2>6 DEF fatPutWell
      <3> QED
        BY <2>4, <2>5, <2>6, <3>1, <3>2 DEF a, T
    <2>7. CASE p.ok = TRUE
      <3>1. a = u
        BY <1>2, <1>5, <2>7
      <3>2. SeenTable(p) = Row(T, end, end)
        BY <1>3, <2>3, <2>4, <2>7 DEF fatPutWell, Marked
      <3>3. /\ l \in Safe(d0, SoundTables) /\ Beside(p, l, OverDevice)
            /\ SameData(Seen(p), Seen(l)) /\ linkRunWell(T, bgn, end, bgn, l)
        BY <1>3, <2>1, <2>4, <2>7, <3>2, linkRunSafe
      <3> HIDE DEF l
      <3>4. u \in Calls /\ u.val = bgn /\ Beside(l, u, {"val"})
        BY <2>2, <3>3, SeenTyped, valIs
      <3> HIDE DEF u
      <3>5. {"val"} \subseteq Fields \ {"dev", "log", "cache"} /\ u.ok = l.ok
        BY <3>4 DEF Fields, Beside
      <3>6. u \in Safe(d0, SoundTables) /\ Seen(u) = Seen(l)
        BY <3>3, <3>4, <3>5, SafeBeside
      <3>7. Beside(v, u, OverTable \cup {"search"})
        BY <2>5, <3>3, <3>4 DEF Beside, OverTable
      <3>8. SameData(Seen(v), Seen(u))
        BY <2>5, <3>3, <3>6, SameDataOn
      <3>9. u.ok = TRUE => SeenTable(u) = Row(T, bgn, end)
        BY <3>3, <3>5, <3>6 DEF linkRunWell, SeenTable
      <3>10. u.ok # TRUE => \E b \in Clusters, e \in Clusters :
                                FreeRow(T, b, e) /\ SeenTable(u) = Row(T, b, e)
        <4> HAVE u.ok # TRUE
        <4>1. PICK b \in bgn .. end : SeenTable(l) = Row(T, b, end)
          BY <3>3, <3>5 DEF linkRunWell
        <4>2. FreeRow(T, b, end) /\ b \in Clusters
          BY <2>1, <2>2 DEF FreeRow
        <4> QED
          BY <2>2, <3>6, <4>1, <4>2 DEF SeenTable
      <3>11. end = u.val + count - 1
        BY <3>4 DEF end, bgn
      <3> HIDE DEF r
      <3> QED
        BY <2>1, <3>1, <3>4, <3>6, <3>7, <3>8, <3>9, <3>10, <3>11 DEF a, T
    <2> QED
      BY <2>5, <2>6, <2>7
  <1> QED
    BY <1>3, <1>4, <1>5

-----------------------------------------------------------------------------
(* Freeing.                                                                *)

\* The clusters of a chain: those in every set that has its head and, with a
\* cluster, the one that it leads to.
Closed(T, Y) == \A c \in Y : T[c] \in Clusters => T[c] \in Y
Chain(T, head) ==
    {c \in Clusters : \A Y \in SUBSET Clusters : head \in Y /\ Closed(T, Y) => c \in Y}
Freed(T, X) == [c \in Clusters |-> IF c \in X THEN Free ELSE T[c]]

\* A chain has its head and, with a cluster, the one that it leads to.
LEMMA ChainIs ==
    ASSUME NEW T \in Tables, NEW head \in Clusters
    PROVE  /\ head \in Chain(T, head) /\ Closed(T, Chain(T, head))
           /\ Chain(T, head) \subseteq Clusters
           /\ \A Y \in SUBSET Clusters :
                  head \in Y /\ Closed(T, Y) => Chain(T, head) \subseteq Y
  BY DEF Chain, Closed

\* What follows the cluster where a file is cut, once the cut is made, is a
\* chain with a head of its own.
LEMMA CutHead ==
    ASSUME NEW T \in SoundTables, NEW c \in Clusters, T[c] \in Clusters
    PROVE  [T EXCEPT ![c] = EOC] \in SoundTables /\ IsHead([T EXCEPT ![c] = EOC], T[c])
  <1> DEFINE M == [T EXCEPT ![c] = EOC]
  <1>1. M \in SoundTables
    BY MarkedSound DEF Marked
  <1>2. \A d \in Clusters : M[d] = IF d = c THEN EOC ELSE T[d]
    BY DEF SoundTables, IsSound, Tables
  <1> HIDE DEF M
  <1>3. M[T[c]] # Free
    BY <1>2, NoClusters DEF SoundTables, IsSound
  <1>4. \A d \in Clusters : M[d] # T[c]
    BY <1>2, NoClusters DEF SoundTables, IsSound
  <1> QED
    BY <1>1, <1>3, <1>4 DEF IsHead, M

\* What of a chain may be freed: a part X that, but for the cluster val, has
\* whatever its clusters lead to.
Cut(T, head, X, val) ==
    /\ X \subseteq Chain(T, head) /\ val \in Chain(T, head) \ X
    /\ head \in X \cup {val}
    /\ \A c \in X : T[c] \in Clusters => T[c] \in X \cup {val}
    /\ T[val] # Free /\ \A c \in Clusters : c \in X \/ T[c] # val
CutOn(T, head, X, val, Z) ==
    /\ Freed(T, X)[val] = T[val]
    /\ [Freed(T, X) EXCEPT ![val] = Free] = Freed(T, Z)
    /\ Freed(T, Z) \in SoundTables
    /\ Z \subseteq Chain(T, head)
    /\ T[val] \in Clusters => Cut(T, head, Z, T[val])
    /\ T[val] \notin Clusters => Z = Chain(T, head)
LEMMA CutGoesOn ==
    ASSUME NEW T \in SoundTables, NEW head \in Clusters, NEW X, NEW val,
           Cut(T, head, X, val), Freed(T, X) \in SoundTables
    PROVE  CutOn(T, head, X, val, X \cup {val})
  <1> DEFINE C == Chain(T, head)
             S == Freed(T, X)
             Z == X \cup {val}
             R == Freed(T, Z)
  <1>1. /\ T \in Tables /\ C \subseteq Clusters /\ Closed(T, C) /\ head \in C
        /\ \A Y \in SUBSET Clusters : head \in Y /\ Closed(T, Y) => C \subseteq Y
    BY ChainIs DEF SoundTables, IsSound
  <1> HIDE DEF C
  <1>2. /\ X \subseteq C /\ val \in C /\ val \notin X /\ val \in Clusters
        /\ head \in Z /\ Z \subseteq C /\ Z \in SUBSET Clusters
    BY <1>1 DEF Cut, C
  <1>3. /\ \A c \in Clusters : S[c] = IF c \in X THEN Free ELSE T[c]
        /\ \A c \in Clusters : R[c] = IF c \in Z THEN Free ELSE T[c]
        /\ \A c \in Clusters : R[c] = IF c = val THEN Free ELSE S[c]
        /\ R = [c \in Clusters |-> R[c]] /\ S \in SoundTables
    BY DEF Freed
  <1>4. [S EXCEPT ![val] = Free] = R
    BY <1>2 DEF Freed
  <1>5. S[val] = T[val]
    BY <1>2, <1>3
  <1>6. \A c \in Clusters : S[c] # val
    BY <1>2, <1>3, NoClusters DEF Cut
  <1> HIDE DEF S, R
  <1>7. R \in SoundTables
    <2>1. R \in Tables
      BY <1>3, NoClusters DEF SoundTables, IsSound, Tables
    <2>2. \A c \in Clusters : R[c] # 1
      BY <1>3, NoClusters DEF SoundTables, IsSound
    <2>3. \A c \in Clusters : R[c] \in Clusters => R[c] = S[c] /\ R[R[c]] # Free
      BY <1>3, <1>6, NoClusters DEF SoundTables, IsSound
    <2>4. \A c \in Clusters, d \in Clusters : S[c] = S[d] /\ S[c] \in Clusters => c = d
      BY <1>3 DEF SoundTables, IsSound
    <2>5. \A c \in Clusters, d \in Clusters : R[c] = R[d] /\ R[c] \in Clusters => c = d
      BY <2>3, <2>4
    <2> QED
      BY <2>1, <2>2, <2>3, <2>5 DEF SoundTables, IsSound
  <1>8. \A c \in X : T[c] \in Clusters => T[c] \in Z
    BY DEF Cut
  <1>9. T[val] \in Clusters => Cut(T, head, Z, T[val])
    <2> HAVE T[val] \in Clusters
    <2>1. T[val] \in C
      BY <1>1, <1>2 DEF Closed
    <2>2. S[T[val]] # Free
      BY <1>2, <1>3, <1>5 DEF SoundTables, IsSound
    <2>3. T[val] \notin X /\ T[val] # val /\ T[T[val]] # Free
      BY <1>2, <1>3, <1>5, <1>6, <2>2
    <2>4. \A c \in Clusters : c \in Z \/ T[c] # T[val]
      BY <1>2 DEF SoundTables, IsSound
    <2> QED
      BY <1>2, <1>8, <2>1, <2>3, <2>4 DEF Cut, C
  <1>10. T[val] \notin Clusters => Z = C
    <2> HAVE T[val] \notin Clusters
    <2>1. Closed(T, Z)
      BY <1>8 DEF Closed
    <2> QED
      BY <1>1, <1>2, <2>1
  <1> QED
    BY <1>2, <1>4, <1>5, <1>7, <1>9, <1>10 DEF C, S, R, CutOn

\* What is so after k rounds: k clusters are free, and the next one is known;
\* or all of them are. None of them lies below the start of the search.
FreedWell(v, head, X, k, s) ==
    LET T == SeenTable(v) IN
    /\ Beside(v, s, OverTable \cup {"search"}) /\ SameData(Seen(v), Seen(s))
    /\ X \subseteq Chain(T, head) /\ SeenTable(s) = Freed(T, X)
    /\ s.search <= v.search /\ \A c \in X : s.search <= c
    /\ s.ok = TRUE =>
          \/ s.fg = 1 /\ Cut(T, head, X, s.val) /\ Cardinality(X) = k
          \/ s.fg = 0 /\ X = Chain(T, head)
LEMMA FreeGoesOn ==
    ASSUME NEW d0 \in [Sectors -> Contents], NEW v \in Safe(d0, SoundTables),
           NEW head \in Clusters, NEW k \in Nat \ {0}, NEW s \in Safe(d0, SoundTables),
           NEW X, FreedWell(v, head, X, k - 1, s), s.ok = TRUE, s.fg = 1
    PROVE  /\ freeNext(s) \in Safe(d0, SoundTables)
           /\ \E Z : FreedWell(v, head, Z, k, freeNext(s))
  <1> DEFINE T == SeenTable(v)
             c == s.val
             Z == X \cup {c}
             g == fatGet(s, c)
             p == fatPut(g, c, Free)
             n == lowerSearch(p.search, c)
             u == [p EXCEPT !.search = n]
             t == freeNext(s)
  <1>1. t = IF g.ok THEN IF p.ok THEN u ELSE p ELSE g
    BY DEF freeNext, Then
  <1>2. /\ T \in SoundTables /\ T \in Tables /\ SeenTable(s) = Freed(T, X)
        /\ Freed(T, X) \in SoundTables /\ Cut(T, head, X, c) /\ Cardinality(X) = k - 1
        /\ X \subseteq Chain(T, head) /\ Chain(T, head) \subseteq Clusters /\ c \in Chain(T, head)
        /\ s.search <= v.search /\ \A e \in X : s.search <= e
    BY SeenTyped, ChainIs DEF FreedWell, Cut
  <1>3. /\ s.search \in 1 .. LastCluster /\ v.search \in 1 .. LastCluster
        /\ c \in Clusters /\ c \in Nat /\ LastCluster \in Nat
    BY <1>2, SeenTyped, NoClusters, TableAssumption DEF Calls
  <1>4. /\ Freed(T, X)[c] = T[c] /\ [Freed(T, X) EXCEPT ![c] = Free] = Freed(T, Z)
        /\ Freed(T, Z) \in SoundTables /\ Z \subseteq Chain(T, head)
        /\ T[c] \in Clusters => Cut(T, head, Z, T[c])
        /\ T[c] \notin Clusters => Z = Chain(T, head)
    <2> HIDE DEF T, c
    <2>1. T \in SoundTables /\ head \in Clusters /\ Cut(T, head, X, c) /\ Freed(T, X) \in SoundTables
      BY <1>2
    <2>2. CutOn(T, head, X, c, Z)
      BY <2>1, CutGoesOn
    <2> QED
      BY <2>2 DEF CutOn
  <1>5. Cardinality(Z) = k
    <2>1. IsFiniteSet(Clusters)
      BY <1>3, FS_Interval DEF Clusters
    <2>2. X \in SUBSET Clusters /\ c \notin X
      BY <1>2 DEF Cut
    <2>3. IsFiniteSet(X)
      BY <2>1, <2>2, FS_Subset
    <2> HIDE DEF c
    <2>4. Cardinality(X \cup {c}) = Cardinality(X) + 1
      BY <2>2, <2>3, FS_AddElement
    <2> QED
      BY <1>2, <2>4
  <1>6. g \in Safe(d0, SoundTables) /\ fatGetWell(s, c, g)
    BY fatGetSafe
  <1> HIDE DEF T, c, t, g, Z
  <1>7. /\ g.ok \in BOOLEAN /\ SeenTable(g) = Freed(T, X) /\ g.search = s.search
        /\ SameData(Seen(v), Seen(g)) /\ Beside(v, g, OverTable \cup {"search"})
    <2>1. SeenTable(g) = Freed(T, X)
      BY <1>2, <1>6 DEF fatGetWell
    <2>2. SameData(Seen(v), Seen(g))
      BY <1>6, AlikeData, SameDataOn DEF fatGetWell, FreedWell
    <2>3. g.search = s.search
      BY <1>6 DEF fatGetWell, Beside, Fields, OverTable, OverDevice
    <2>4. Beside(v, g, OverTable \cup {"search"})
      BY <1>6 DEF fatGetWell, FreedWell, Beside
    <2> QED
      BY <1>6, <2>1, <2>2, <2>3, <2>4, SeenTyped
  <1>8. CASE g.ok # TRUE
    <2>1. t = g
      BY <1>1, <1>7, <1>8
    <2>2. FreedWell(v, head, X, k, g)
      BY <1>2, <1>7, <1>8 DEF FreedWell, T
    <2> QED
      BY <1>6, <2>1, <2>2 DEF t
  <1>9. CASE g.ok = TRUE
    <2>1. p \in Safe(d0, SoundTables) /\ fatPutWell(g, c, Free, p)
      <3>1. [SeenTable(g) EXCEPT ![c] = Free] \in SoundTables
        BY <1>4, <1>7
      <3>2. Free \in Nat
        BY NoClusters
      <3> QED
        BY <1>6, <1>9, <3>1, <3>2, fatPutSafe
    <2> HIDE DEF p
    <2>2. /\ p.ok \in BOOLEAN /\ p.search = s.search /\ p.fg = g.fg /\ p.val = g.val
          /\ SameData(Seen(v), Seen(p)) /\ Beside(v, p, OverTable \cup {"search"})
      <3>1. SameData(Seen(v), Seen(p))
        BY <1>7, <2>1, SameDataOn DEF fatPutWell
      <3>2. p.search = s.search /\ p.fg = g.fg /\ p.val = g.val
        BY <1>7, <2>1 DEF fatPutWell, Beside, Fields, OverDevice
      <3>3. Beside(v, p, OverTable \cup {"search"})
        BY <1>7, <2>1 DEF fatPutWell, Beside, OverTable
      <3> QED
        BY <2>1, <3>1, <3>2, <3>3, SeenTyped
    <2>3. CASE p.ok # TRUE
      <3>1. t = p
        BY <1>1, <1>9, <2>2, <2>3
      <3>2. SeenTable(p) = Freed(T, X)
        BY <1>7, <2>1, <2>3 DEF fatPutWell
      <3>3. FreedWell(v, head, X, k, p)
        BY <1>2, <2>2, <2>3, <3>2 DEF FreedWell, T
      <3> QED
        BY <2>1, <3>1, <3>3 DEF t
    <2>4. CASE p.ok = TRUE
      <3>1. t = u
        BY <1>1, <1>9, <2>4
      <3>2. n \in 1 .. LastCluster /\ n <= s.search /\ n <= c
        BY <1>3, <2>2 DEF lowerSearch, Clusters
      <3> HIDE DEF n
      <3>3. u \in Calls /\ Beside(p, u, {"search"}) /\ u.search = n
        BY <2>1, <3>2, SeenTyped, searchIs
      <3> HIDE DEF u
      <3>4. {"search"} \subseteq Fields \ {"dev", "log", "cache"}
        BY DEF Fields
      <3>5. u \in Safe(d0, SoundTables) /\ Seen(u) = Seen(p)
        BY <2>1, <3>3, <3>4, SafeBeside
      <3>6. u.fg = g.fg /\ u.val = g.val /\ u.ok = TRUE
        BY <2>2, <2>4, <3>3 DEF Beside, Fields
      <3>7. Beside(v, u, OverTable \cup {"search"})
        BY <2>2, <3>3 DEF Beside
      <3>8. SeenTable(u) = Freed(T, Z)
        BY <1>4, <1>7, <2>1, <2>4, <3>5 DEF fatPutWell, SeenTable
      <3>9. n <= v.search /\ \A e \in Z : n <= e
        <4>1. \A e \in Z : e \in Nat /\ (e \in X \/ e = c)
          BY <1>2, <1>3, NoClusters DEF Z
        <4> QED
          BY <1>2, <1>3, <3>2, <4>1
      <3>10. \/ u.fg = 1 /\ Cut(T, head, Z, u.val)
             \/ u.fg = 0 /\ Z = Chain(T, head)
        <4>1. SeenTable(s)[c] = T[c] /\ T[c] \in Nat /\ T[c] # Free /\ T[c] # 1
          BY <1>2, <1>3, <1>4 DEF Tables, SoundTables, IsSound, Cut
        <4>2. CASE g.fg = 1 /\ g.val = SeenTable(s)[c] /\ g.val <= LastCluster
          <5>1. T[c] \in Clusters
            BY <1>3, <4>1, <4>2 DEF Clusters, Free
          <5> QED
            BY <1>4, <3>6, <4>1, <4>2, <5>1
        <4>3. CASE g.fg = 0 /\ SeenTable(s)[c] > LastCluster
          <5>1. T[c] \notin Clusters
            BY <1>3, <4>1, <4>3 DEF Clusters
          <5> QED
            BY <1>4, <3>6, <4>3, <5>1
        <4> QED
          BY <1>6, <1>9, <4>2, <4>3 DEF fatGetWell
      <3>11. SameData(Seen(v), Seen(u))
        BY <2>2, <3>5
      <3>12. FreedWell(v, head, Z, k, u)
        BY <1>4, <1>5, <3>3, <3>6, <3>7, <3>8, <3>9, <3>10, <3>11 DEF FreedWell, T
      <3> QED
        BY <3>1, <3>5, <3>12 DEF t
    <2> QED
      BY <2>2, <2>3, <2>4
  <1> QED
    BY <1>7, <1>8, <1>9

FreeStep(k, s) == IF s.ok THEN IF s.fg = 0 THEN s ELSE freeNext(s) ELSE s

\* freeChain frees the chain that begins with head, all of it and nothing else,
\* in one pass over it: wherever an access fails or the power goes, what is
\* left of it is a chain, and no chain leads to a cluster that is free. None
\* of the clusters freed lies below the place where the next search starts.
THEOREM ChainFreed ==
    ASSUME NEW d0 \in [Sectors -> Contents], NEW v \in Safe(d0, SoundTables),
           v.ok = TRUE,
           NEW head, IsHead(SeenTable(v), head)
    PROVE  LET f == freeChain(v, head)
               T == SeenTable(v)
           IN  /\ f \in Safe(d0, SoundTables)
               /\ Beside(v, f, OverTable \cup {"search"})
               /\ SameData(Seen(v), Seen(f))
               /\ f.search <= v.search
               /\ \E X \in SUBSET Chain(T, head) :
                     /\ SeenTable(f) = Freed(T, X) /\ \A c \in X : f.search <= c
                     /\ f.ok = TRUE => X = Chain(T, head)
  <1> DEFINE S == Safe(d0, SoundTables)
             T == SeenTable(v)
             n == LastCluster
             w == [v EXCEPT !.ok = TRUE]
             x == [w EXCEPT !.fg = 1]
             b == [x EXCEPT !.val = head]
             U == {y \in Nat \X S : \E X : FreedWell(v, head, X, y[1], y[2])}
             Step(k, s) == FreeStep(k, s)
             G == [y \in Int \X S |-> Step(y[1], y[2])]
             Is(f) == f = [k \in 0 .. n |-> IF k = 0 THEN b ELSE Step(k, f[k - 1])]
             after == CHOOSE f : Is(f)
             f == freeChain(v, head)
  <1>1. n \in Nat /\ v \in Calls /\ v.search \in 1 .. LastCluster /\ LastCluster \in Nat
    BY SeenTyped, TableAssumption DEF Calls
  <1>2. n \in Nat
    BY <1>1
  <1>3. T \in Tables /\ head \in Clusters /\ head \in Int /\ Chain(T, head) \subseteq Clusters
        /\ IsHead(T, head) /\ head \in Chain(T, head)
    BY SeenTyped, ChainIs, NoClusters DEF IsHead
  <1>4. f = after[n]
    <2>1. [done(v) EXCEPT !.fg = 1, !.val = head] = b
      BY DEF done
    <2> QED
      BY ONLY <2>1 DEF freeChain, Then, FreeStep
  <1>5. b \in S /\ FreedWell(v, head, {}, 0, b)
    <2>1. w \in Calls /\ Beside(v, w, {"ok"})
      BY <1>1, okIs
    <2> HIDE DEF w
    <2>2. x \in Calls /\ x.fg = 1 /\ Beside(w, x, {"fg"})
      BY <2>1, fgIs
    <2> HIDE DEF x
    <2>3. b \in Calls /\ b.val = head /\ Beside(x, b, {"val"})
      BY <1>3, <2>2, valIs
    <2> HIDE DEF b
    <2>4. Beside(v, b, {"ok", "fg", "val"}) /\ b.fg = 1 /\ b.search = v.search
      BY <2>1, <2>2, <2>3 DEF Beside, Fields
    <2>5. {"ok", "fg", "val"} \subseteq Fields \ {"dev", "log", "cache"}
      BY DEF Fields
    <2>6. b \in Safe(d0, SoundTables) /\ Seen(b) = Seen(v)
      BY <2>3, <2>4, <2>5, SafeBeside
    <2>7. Beside(v, b, OverTable \cup {"search"})
      BY <2>4 DEF Beside, OverTable, OverDevice
    <2>8. SeenTable(b) = Freed(T, {})
      BY <1>3, <2>6 DEF SeenTable, Tables, Freed
    <2>9. Cut(T, head, {}, head)
      BY <1>3 DEF Cut, IsHead
    <2>10. Cardinality({}) = 0
      BY FS_EmptySet
    <2>11. b.search <= v.search
      BY <1>1, <2>4
    <2> QED
      BY <2>3, <2>4, <2>6, <2>7, <2>8, <2>9, <2>10, <2>11 DEF FreedWell, SameData
  <1> HIDE DEF f, b, w, x
  <1>6. ASSUME NEW k \in 1 .. n, NEW s \in S, <<k - 1, s>> \in U
        PROVE  Step(k, s) \in S /\ <<k, Step(k, s)>> \in U
    <2>1. PICK X : FreedWell(v, head, X, k - 1, s)
      BY <1>6
    <2>2. k \in Nat \ {0} /\ k \in Nat /\ s.ok \in BOOLEAN
      BY <1>1, SeenTyped
    <2>3. CASE s.ok # TRUE \/ s.fg = 0
      <3>1. Step(k, s) = s
        BY <2>2, <2>3 DEF FreeStep
      <3>2. FreedWell(v, head, X, k, s)
        <4>1. ASSUME s.fg = 0, s.ok = TRUE PROVE X = Chain(SeenTable(v), head)
          BY <2>1, <4>1 DEF FreedWell
        <4> QED
          BY <2>1, <2>3, <4>1 DEF FreedWell
      <3> QED
        BY <2>2, <3>1, <3>2
    <2>4. CASE s.ok = TRUE /\ s.fg # 0
      <3>1. Step(k, s) = freeNext(s) /\ s.fg = 1
        BY <2>1, <2>4 DEF FreeStep, FreedWell
      <3>2. freeNext(s) \in S /\ \E Z : FreedWell(v, head, Z, k, freeNext(s))
        BY <1>3, <2>1, <2>2, <2>4, <3>1, FreeGoesOn
      <3> QED
        BY <2>2, <3>1, <3>2
    <2> QED
      BY <2>2, <2>3, <2>4
  <1>7. ASSUME NEW k \in Int, NEW s \in S PROVE G[<<k, s>>] = Step(k, s)
    OBVIOUS
  <1>8. <<0, b>> \in U
    BY <1>5
  <1>9. \A k, s : <<k, s>> \in U => s \in S /\ \E X : FreedWell(v, head, X, k, s)
    OBVIOUS
  <1> HIDE DEF S, U, G, Step, n, T
  <1>10. \E g : Is(g)
    <2>1. ASSUME NEW k \in 1 .. n, NEW s \in S, <<k - 1, s>> \in U
          PROVE  G[<<k, s>>] \in S /\ <<k, G[<<k, s>>]>> \in U
      BY <1>2, <1>6, <1>7, <2>1
    <2>2. b \in S
      BY <1>9, <1>8
    <2>3. \E g \in [0 .. n -> S] :
              Loop(g, b, G, n) /\ \A k \in 0 .. n : <<k, g[k]>> \in U
      BY ONLY <1>2, <1>8, <2>1, <2>2, LoopRuns
    <2>4. PICK g \in [0 .. n -> S] : Loop(g, b, G, n)
      BY <2>3
    <2>5. ASSUME NEW k \in 0 .. n, k # 0 PROVE G[<<k, g[k - 1]>>] = Step(k, g[k - 1])
      <3>1. k - 1 \in 0 .. n /\ k \in Int
        BY <1>2, <2>5
      <3>2. g[k - 1] \in S
        BY <3>1
      <3> QED
        BY <3>1, <3>2, <1>7
    <2>6. Is(g)
      BY <2>4, <2>5 DEF Loop
    <2> QED
      BY <2>6
  <1>11. Is(after)
    BY <1>10, Zenon
  <1> HIDE DEF after
  <1>12. after[0] = b /\ \A k \in 1 .. n : after[k] = Step(k, after[k - 1])
    BY <1>2, <1>11
  <1> HIDE DEF Is
  <1>13. <<0, after[0]>> \in U
    BY <1>8, <1>12
  <1>14. ASSUME NEW k \in 1 .. n, <<k - 1, after[k - 1]>> \in U
         PROVE  <<k, after[k]>> \in U
    <2>1. after[k - 1] \in S
      BY <1>9, <1>14
    <2> QED
      BY <1>6, <1>12, <1>14, <2>1
  <1>15. <<n, after[n]>> \in U
    <2>1. \A k \in 0 .. n : <<k, after[k]>> \in U
      BY ONLY <1>2, <1>13, <1>14, LoopKeepsAt
    <2> QED
      BY <1>2, <2>1
  <1>16. PICK X : FreedWell(v, head, X, n, f)
    BY <1>4, <1>9, <1>15
  <1>17. f \in Safe(d0, SoundTables)
    BY <1>4, <1>9, <1>15 DEF S
  <1>18. Cardinality(X) # n
    <2>1. X \in SUBSET Clusters
      BY <1>3, <1>16 DEF FreedWell, T
    <2>2. IsFiniteSet(Clusters) /\ Cardinality(Clusters) = LastCluster - 1
      BY <1>1, FS_Interval, TableAssumption DEF Clusters
    <2>3. Cardinality(X) <= LastCluster - 1
      BY <2>1, <2>2, FS_Subset
    <2> QED
      BY <1>1, <2>3 DEF n
  <1>19. f.ok = TRUE => X = Chain(T, head)
    BY <1>16, <1>18 DEF FreedWell, T
  <1> QED
    BY <1>16, <1>17, <1>19 DEF FreedWell, T, f

-----------------------------------------------------------------------------
(* Around the buffer.                                                      *)

\* The sectors behind the two copies of the table.
LEMMA BehindTable ==
    ASSUME NEW t \in Int, t >= DataStartSector
    PROVE  t \notin TableSectors /\ ~InCopy(t) /\ t # NoSector
  BY SectorAssumption
     DEF DataStartSector, FatStartSector, InCopy, TableSectors, NoSector

\* cacheSafeRead reads around the buffer what the library would see through it:
\* a sector that is dirty in it is written first.
THEOREM ReadAround ==
    ASSUME NEW d0 \in [Sectors -> Contents], NEW Ts, NEW v \in Safe(d0, Ts),
           v.ok = TRUE,
           NEW sector \in Sectors, NEW count \in Nat \ {0}
    PROVE  LET r == cacheSafeRead(v, sector, count)
           IN  /\ r \in Safe(d0, Ts) /\ Kept(v, r)
               /\ r.ok = TRUE => \A t \in sector .. sector + count - 1 :
                      t \in Sectors /\ (InCopy(t) \/ r.dev[t] = Seen(v)[t])
  <1> DEFINE s == IF isCached(v, sector, count) THEN sync(v) ELSE done(v)
             last == sector + count - 1
             a == access(s, last)
             r == cacheSafeRead(v, sector, count)
  <1>1. /\ v \in Calls /\ sector \in Nat /\ last \in Int /\ LastSector \in Nat
        /\ v.dev \in [Sectors -> Contents] /\ v.cache \in Caches /\ BufferGood(v)
    BY SeenTyped, Geometry DEF Sectors, Safe, Calls, Devices
  <1>2. r = IF s.ok THEN a ELSE s
    BY DEF cacheSafeRead, Then
  <1>3. /\ s \in Safe(d0, Ts) /\ Kept(v, s)
        /\ s.ok = TRUE => \A t \in (sector .. last) \cap Sectors :
                             InCopy(t) \/ s.dev[t] = Seen(v)[t]
    <2>1. CASE isCached(v, sector, count)
      <3>1. s = sync(v)
        BY <2>1
      <3> HIDE DEF s
      <3>2. s \in Safe(d0, Ts) /\ Written(v, s)
        BY <3>1, syncSafe
      <3>3. s.ok = TRUE => Seen(s) = s.dev
        BY <3>2 DEF Written, Seen
      <3> QED
        BY <3>2, <3>3 DEF Written, Kept, Alike
    <2>2. CASE ~isCached(v, sector, count)
      <3>1. s = [v EXCEPT !.ok = TRUE]
        BY <2>2 DEF done
      <3> HIDE DEF s
      <3>2. s \in Calls /\ Beside(v, s, {"ok"})
        BY <1>1, <3>1, okIs
      <3>3. {"ok"} \subseteq Fields \ {"dev", "log", "cache"}
        BY DEF Fields
      <3>4. s \in Safe(d0, Ts) /\ Seen(s) = Seen(v)
        BY <3>2, <3>3, SafeBeside
      <3>5. Kept(v, s) /\ s.dev = v.dev
        BY <3>2, <3>4 DEF Kept, Beside, OverDevice, Alike, Fields
      <3>6. ASSUME NEW t \in (sector .. last) \cap Sectors PROVE v.dev[t] = Seen(v)[t]
        <4>1. t # v.cache.sector
          <5>1. sector <= t /\ t < sector + count
            BY <1>1
          <5> QED
            BY <2>2, <5>1 DEF isCached
        <4> QED
          BY <1>1, <4>1 DEF Seen
      <3> QED
        BY <3>4, <3>5, <3>6
    <2> QED
      BY <2>1, <2>2
  <1> HIDE DEF s, r
  <1>4. s \in Calls /\ s.ok \in BOOLEAN
    BY <1>3, SeenTyped
  <1>5. CASE s.ok # TRUE
    <2>1. r = s
      BY <1>2, <1>4, <1>5
    <2> QED
      BY <1>3, <1>5, <2>1 DEF r
  <1>6. CASE s.ok = TRUE
    <2>1. r = a
      BY <1>2, <1>6
    <2>2. a \in Calls /\ Beside(s, a, {"io", "ok"}) /\ (a.ok = TRUE => last \in Sectors)
      BY <1>1, <1>4, accessIs
    <2> HIDE DEF a
    <2>3. {"io", "ok"} \subseteq Fields \ {"dev", "log", "cache"}
      BY DEF Fields
    <2>4. a \in Safe(d0, Ts) /\ Seen(a) = Seen(s) /\ a.dev = s.dev
      <3>1. a \in Safe(d0, Ts) /\ Seen(a) = Seen(s)
        BY <1>3, <1>6, <2>2, <2>3, SafeBeside
      <3>2. a.dev = s.dev
        BY <2>2 DEF Beside, Fields
      <3> QED
        BY <3>1, <3>2
    <2>5. Kept(v, a)
      BY <1>3, <2>2, <2>4 DEF Kept, Beside, OverDevice
    <2>6. last \in Sectors => \A t \in sector .. last : t \in Sectors
      BY <1>1 DEF Sectors
    <2>7. a.ok = TRUE => \A t \in sector .. last :
              t \in Sectors /\ (InCopy(t) \/ a.dev[t] = Seen(v)[t])
      BY <1>3, <1>6, <2>2, <2>4, <2>6
    <2> QED
      BY <2>1, <2>4, <2>5, <2>7 DEF r
  <1> QED
    BY <1>4, <1>5, <1>6

\* What k sectors written one after the other leave.
WroteWell(u, sector, datas, k, w) ==
    /\ Beside(u, w, OverDevice) /\ w.cache = u.cache
    /\ \A t \in Sectors : t \in sector .. sector + k - 1 \/ w.dev[t] = u.dev[t]
    /\ w.ok = TRUE =>
          \A j \in 1 .. k : sector + j - 1 \in Sectors /\ w.dev[sector + j - 1] = datas[j]
WriteStep(sector, datas, k, w) ==
    IF w.ok THEN writeSector(w, sector + k - 1, datas[k]) ELSE w
LEMMA WriteGoesOn ==
    ASSUME NEW d0 \in [Sectors -> Contents], NEW Ts, NEW u \in Safe(d0, Ts),
           NEW sector \in Nat, sector >= DataStartSector, NEW datas \in Seq(Contents),
           NEW k \in 1 .. Len(datas), u.cache.sector # sector + k - 1,
           NEW w \in Safe(d0, Ts), WroteWell(u, sector, datas, k - 1, w)
    PROVE  LET x == WriteStep(sector, datas, k, w)
           IN  x \in Safe(d0, Ts) /\ WroteWell(u, sector, datas, k, x)
  <1> DEFINE x == WriteStep(sector, datas, k, w)
             t == sector + k - 1
             y == writeSector(w, t, datas[k])
  <1>1. /\ w \in Calls /\ w.ok \in BOOLEAN /\ datas[k] \in Contents /\ k \in Nat
        /\ t \in Int /\ t >= DataStartSector /\ DataStartSector \in Nat
        /\ w.dev \in [Sectors -> Contents] /\ w.dev \in Devices /\ w.cache \in Caches
        /\ BufferGood(w) /\ CopyGood(d0, w) /\ Cuts(d0, w, Ts) /\ TableOf(Seen(w)) \in Ts
    BY SeenTyped, SectorAssumption
       DEF Safe, Calls, Devices, DataStartSector, FatStartSector
  <1>2. t \notin TableSectors /\ ~InCopy(t) /\ t # w.cache.sector
    BY <1>1, BehindTable DEF WroteWell
  <1>3. \A s : s \in sector .. sector + (k - 1) - 1 => s \in sector .. sector + k - 1 /\ s # t
    BY <1>1
  <1>4. x = IF w.ok THEN y ELSE w
    BY DEF WriteStep
  <1>5. \A j \in 1 .. k : j \in 1 .. k - 1 \/ j = k
    BY <1>1
  <1>6. ASSUME NEW z, z.dev = w.dev, z.ok # TRUE, z.cache = w.cache, Beside(w, z, OverDevice)
        PROVE  WroteWell(u, sector, datas, k, z)
    BY <1>3, <1>6 DEF WroteWell, Beside
  <1>7. CASE w.ok # TRUE
    <2>1. x = w
      BY <1>1, <1>4, <1>7
    <2>2. Beside(w, w, OverDevice)
      BY DEF Beside
    <2> QED
      BY <1>6, <1>7, <2>1, <2>2
  <1>8. CASE w.ok = TRUE
    <2>1. x = y
      BY <1>4, <1>8
    <2>2. /\ y \in Calls /\ Beside(w, y, {"dev", "log", "io", "ok"})
          /\ y.ok # TRUE => y.dev = w.dev /\ y.log = w.log
          /\ y.ok = TRUE =>
                 /\ t \in Sectors /\ y.dev = [w.dev EXCEPT ![t] = datas[k]]
                 /\ y.log = Append(w.log, [sector |-> t, data |-> datas[k]])
      <3> DEFINE data == datas[k]
      <3>1. /\ w \in Calls /\ t \in Int /\ data \in Contents
            /\ t \in TableSectors => data \in TableContents
        BY <1>1, <1>2
      <3>2. y = writeSector(w, t, data)
        OBVIOUS
      <3> HIDE DEF t, y, data
      <3>3. /\ y \in Calls /\ Beside(w, y, {"dev", "log", "io", "ok"})
            /\ y.ok # TRUE => y.dev = w.dev /\ y.log = w.log
            /\ y.ok = TRUE =>
                   /\ t \in Sectors /\ y.dev = [w.dev EXCEPT ![t] = data]
                   /\ y.log = Append(w.log, [sector |-> t, data |-> data])
        BY ONLY <3>1, <3>2, writeSectorIs
      <3> QED
        BY <3>3 DEF data
    <2> HIDE DEF x, y
    <2>3. y.cache = w.cache /\ Beside(w, y, OverDevice)
      BY <2>2 DEF Beside, Fields, OverDevice
    <2>4. CASE y.ok # TRUE
      <3>1. y \in Safe(d0, Ts)
        BY <2>2, <2>3, <2>4, SafeSame
      <3> QED
        BY <1>6, <2>1, <2>2, <2>3, <2>4, <3>1 DEF x
    <2>5. CASE y.ok = TRUE
      <3> HIDE DEF t
      <3>1. /\ t \in Sectors /\ y.dev = [w.dev EXCEPT ![t] = datas[k]]
            /\ \A s \in Sectors : y.dev[s] = IF s = t THEN datas[k] ELSE w.dev[s]
            /\ y.dev \in [Sectors -> Contents]
        BY <1>1, <2>2, <2>5
      <3>2. TableOf(y.dev) = TableOf(w.dev)
        <4>1. /\ w.dev \in [Sectors -> Contents] /\ t \notin TableSectors
              /\ y.dev = [w.dev EXCEPT ![t] = datas[k]]
          BY <1>1, <1>2, <3>1
        <4> QED
          BY ONLY <4>1, TableElsewhere
      <3>3. Cuts(d0, y, Ts)
        <4>1. TableOf(y.dev) \in Ts
          BY <1>1, <3>2, CutsNow
        <4> QED
          BY <1>1, <2>2, <2>5, <3>1, <4>1, CutsWritten
      <3>4. BufferGood(y)
        <4>1. w.cache.sector # NoSector => w.cache.sector \in Sectors
          BY <1>1 DEF Caches
        <4>2. w.cache.sector \in Sectors => y.dev[w.cache.sector] = w.dev[w.cache.sector]
          BY <1>2, <3>1
        <4> QED
          BY <1>1, <1>8, <2>3, <4>1, <4>2 DEF BufferGood, BufferMarked, BufferClean
      <3>5. CopyGood(d0, y)
        <4> SUFFICES ASSUME NEW s \in TableSectors
                     PROVE  y.dev[s] = w.dev[s] /\ y.dev[s + SectorsPerFat] = w.dev[s + SectorsPerFat]
          BY <1>1, <2>3 DEF CopyGood
        <4>1. s \in Sectors /\ s + SectorsPerFat \in Sectors /\ s # t /\ s + SectorsPerFat # t
          BY <1>2, Geometry, SectorAssumption DEF InCopy, TableSectors
        <4> QED
          BY <3>1, <4>1
      <3>6. TableOf(Seen(y)) = TableOf(Seen(w))
        <4>1. \A c \in Clusters : Seen(y)[FatSector(c)] = Seen(w)[FatSector(c)]
          <5> SUFFICES ASSUME NEW c \in Clusters
                       PROVE  Seen(y)[FatSector(c)] = Seen(w)[FatSector(c)]
            OBVIOUS
          <5>1. FatSector(c) \in Sectors /\ FatSector(c) # t
            BY <1>2, EntryPlace
          <5>2. y.dev[FatSector(c)] = w.dev[FatSector(c)]
            BY <3>1, <5>1
          <5>3. CASE w.cache.dirty = FALSE
            BY <2>3, <5>2, <5>3 DEF Seen
          <5>4. CASE w.cache.dirty = TRUE
            BY <1>1, <2>3, <3>1, <5>1, <5>2, <5>4 DEF Seen
          <5> QED
            BY <1>1, <5>3, <5>4 DEF Caches
        <4> QED
          BY <4>1 DEF TableOf
      <3>7. y \in Safe(d0, Ts)
        BY <1>1, <2>2, <3>3, <3>4, <3>5, <3>6 DEF Safe
      <3>8. t \in sector .. sector + k - 1
        BY <1>1 DEF t
      <3>9. \A s \in Sectors : s \in sector .. sector + k - 1 \/ y.dev[s] = u.dev[s]
        BY <1>3, <3>1, <3>8 DEF WroteWell
      <3>10. \A j \in 1 .. k : sector + j - 1 \in Sectors /\ y.dev[sector + j - 1] = datas[j]
        <4> SUFFICES ASSUME NEW j \in 1 .. k
                     PROVE  sector + j - 1 \in Sectors /\ y.dev[sector + j - 1] = datas[j]
          OBVIOUS
        <4>1. CASE j = k
          BY <3>1, <4>1 DEF t
        <4>2. CASE j \in 1 .. k - 1
          <5>1. sector + j - 1 # t
            BY <1>1, <4>2 DEF t
          <5>2. sector + j - 1 \in Sectors /\ w.dev[sector + j - 1] = datas[j]
            BY <1>8, <4>2 DEF WroteWell
          <5> QED
            BY <3>1, <5>1, <5>2
        <4> QED
          BY <1>5, <4>1, <4>2
      <3>11. Beside(u, y, OverDevice) /\ y.cache = u.cache
        BY <2>3 DEF WroteWell, Beside
      <3>12. WroteWell(u, sector, datas, k, y)
        BY <3>9, <3>10, <3>11 DEF WroteWell
      <3> QED
        BY <2>1, <3>7, <3>12 DEF x
    <2> QED
      BY <2>2, <2>4, <2>5 DEF Calls
  <1> QED
    BY <1>1, <1>7, <1>8
LEMMA writeSectorsSafe ==
    ASSUME NEW d0 \in [Sectors -> Contents], NEW Ts, NEW u \in Safe(d0, Ts),
           NEW sector \in Nat, sector >= DataStartSector, NEW datas \in Seq(Contents),
           \A k \in 1 .. Len(datas) : u.cache.sector # sector + k - 1
    PROVE  LET w == writeSectors(u, sector, datas)
           IN  w \in Safe(d0, Ts) /\ WroteWell(u, sector, datas, Len(datas), w)
  <1> DEFINE S == Safe(d0, Ts)
             n == Len(datas)
             U == {x \in Nat \X S : WroteWell(u, sector, datas, x[1], x[2])}
             Step(k, w) == WriteStep(sector, datas, k, w)
             G == [x \in Int \X S |-> Step(x[1], x[2])]
             Is(f) == f = [k \in 0 .. n |-> IF k = 0 THEN u ELSE Step(k, f[k - 1])]
             after == CHOOSE f : Is(f)
             w == writeSectors(u, sector, datas)
  <1>1. n \in Nat
    OBVIOUS
  <1>2. w = after[n]
    BY DEF writeSectors, Then, WriteStep
  <1>3. <<0, u>> \in U
    BY DEF Beside, WroteWell
  <1>4. ASSUME NEW k \in 1 .. n, NEW x \in S, <<k - 1, x>> \in U
        PROVE  Step(k, x) \in S /\ <<k, Step(k, x)>> \in U
    <2>1. WroteWell(u, sector, datas, k - 1, x) /\ k \in Nat /\ k \in 1 .. Len(datas)
      BY <1>1, <1>4
    <2>2. u.cache.sector # sector + k - 1
      BY <2>1
    <2> QED
      BY <2>1, <2>2, WriteGoesOn
  <1>5. ASSUME NEW k \in Int, NEW x \in S PROVE G[<<k, x>>] = Step(k, x)
    OBVIOUS
  <1>6. \A k, x : <<k, x>> \in U => x \in S /\ WroteWell(u, sector, datas, k, x)
    OBVIOUS
  <1> HIDE DEF S, U, G, Step, n, w
  <1>7. \E f : Is(f)
    <2>1. ASSUME NEW k \in 1 .. n, NEW x \in S, <<k - 1, x>> \in U
          PROVE  G[<<k, x>>] \in S /\ <<k, G[<<k, x>>]>> \in U
      BY <1>1, <1>4, <1>5, <2>1
    <2>2. u \in S
      BY <1>3, <1>6
    <2>3. \E f \in [0 .. n -> S] :
              Loop(f, u, G, n) /\ \A k \in 0 .. n : <<k, f[k]>> \in U
      BY ONLY <1>1, <1>3, <2>1, <2>2, LoopRuns
    <2>4. PICK f \in [0 .. n -> S] : Loop(f, u, G, n)
      BY <2>3
    <2>5. ASSUME NEW k \in 0 .. n, k # 0 PROVE G[<<k, f[k - 1]>>] = Step(k, f[k - 1])
      <3>1. k - 1 \in 0 .. n /\ k \in Int
        BY <1>1, <2>5
      <3>2. f[k - 1] \in S
        BY <3>1
      <3> QED
        BY <3>1, <3>2, <1>5
    <2>6. Is(f)
      BY <2>4, <2>5 DEF Loop
    <2> QED
      BY <2>6
  <1>8. Is(after)
    BY <1>7, Zenon
  <1> HIDE DEF after
  <1>9. after[0] = u /\ \A k \in 1 .. n : after[k] = Step(k, after[k - 1])
    BY <1>1, <1>8
  <1> HIDE DEF Is
  <1>10. <<0, after[0]>> \in U
    BY <1>3, <1>9
  <1>11. ASSUME NEW k \in 1 .. n, <<k - 1, after[k - 1]>> \in U
         PROVE  <<k, after[k]>> \in U
    <2>1. after[k - 1] \in S
      BY <1>6, <1>11
    <2> QED
      BY <1>4, <1>9, <1>11, <2>1
  <1>12. <<n, after[n]>> \in U
    <2>1. \A k \in 0 .. n : <<k, after[k]>> \in U
      BY ONLY <1>1, <1>10, <1>11, LoopKeepsAt
    <2> QED
      BY <1>1, <2>1
  <1> QED
    BY <1>2, <1>6, <1>12 DEF S, n, w

\* cacheSafeWrite replaces the sectors that it writes around the buffer, and no
\* other one that the library sees: not the table, not what is dirty in the
\* buffer, and, if an access fails, none behind the sectors asked for either.
THEOREM WrittenAround ==
    ASSUME NEW d0 \in [Sectors -> Contents], NEW Ts, NEW v \in Safe(d0, Ts),
           v.ok = TRUE,
           NEW sector \in Nat, sector >= DataStartSector, NEW datas \in Seq(Contents)
    PROVE  LET w == cacheSafeWrite(v, sector, datas)
           IN  /\ w \in Safe(d0, Ts) /\ Beside(v, w, OverDevice)
               /\ SeenTable(w) = SeenTable(v)
               /\ \A t \in Sectors : t \in sector .. sector + Len(datas) - 1
                                     \/ Seen(w)[t] = Seen(v)[t]
               /\ w.ok = TRUE => \A k \in 1 .. Len(datas) :
                      sector + k - 1 \in Sectors /\ Seen(w)[sector + k - 1] = datas[k]
  <1> DEFINE n == Len(datas)
             c == emptyCache(v.cache.data)
             i == [v EXCEPT !.cache = c]
             u == IF isCached(v, sector, n) THEN i ELSE v
             w == cacheSafeWrite(v, sector, datas)
             run == sector .. sector + n - 1
  <1>1. /\ v \in Calls /\ n \in Nat /\ v.dev \in [Sectors -> Contents]
        /\ v.cache \in Caches /\ v.cache.dirty \in BOOLEAN
        /\ BufferGood(v) /\ CopyGood(d0, v) /\ Cuts(d0, v, Ts) /\ TableOf(Seen(v)) \in Ts
    BY SeenTyped DEF Safe, Calls, Devices, Caches
  <1>2. \A t \in run : t \in Int /\ t >= DataStartSector /\ t \notin TableSectors /\ ~InCopy(t)
    <2>1. DataStartSector \in Nat
      BY SectorAssumption DEF DataStartSector, FatStartSector
    <2> QED
      BY <1>1, <2>1, BehindTable
  <1>3. w = writeSectors(u, sector, datas)
    BY DEF cacheSafeWrite, invalidate
  <1>4. /\ u \in Safe(d0, Ts) /\ Beside(v, u, OverDevice) /\ u.cache.sector \notin run
        /\ \A t \in Sectors : t \in run \/ Seen(u)[t] = Seen(v)[t]
    <2>1. CASE ~isCached(v, sector, n)
      <3>1. u = v
        BY <2>1
      <3>2. v.cache.sector \notin run
        BY <1>1, <2>1 DEF isCached
      <3>3. Beside(v, v, OverDevice)
        BY DEF Beside
      <3> QED
        BY <3>1, <3>2, <3>3
    <2>2. CASE isCached(v, sector, n)
      <3>1. u = i
        BY <2>2
      <3>2. c \in Caches /\ c.sector = NoSector /\ c.dirty = FALSE /\ c.mirror = FALSE
        BY <1>1 DEF emptyCache, Caches
      <3> HIDE DEF c, u
      <3>3. i \in Calls /\ i.cache = c /\ Beside(v, i, {"cache"})
        BY <1>1, <3>2, cacheIs
      <3> HIDE DEF i
      <3>4. i.dev = v.dev /\ i.log = v.log /\ Seen(i) = v.dev
        BY <3>2, <3>3 DEF Beside, Fields, Seen
      <3>5. v.cache.sector \in run /\ v.cache.sector \in Int /\ v.cache.sector \in Sectors
        <4>1. v.cache.sector \in Sectors \cup {NoSector} /\ v.cache.sector \in Int
          BY <1>1 DEF Caches, Sectors, NoSector
        <4>2. v.cache.sector \in run
          BY <1>1, <2>2, <4>1 DEF isCached
        <4>3. v.cache.sector # NoSector
          BY <4>2 DEF NoSector
        <4> QED
          BY <4>1, <4>2, <4>3
      <3>6. NoSector \notin run /\ NoSector \notin TableSectors /\ ~InCopy(NoSector)
        BY SectorAssumption DEF NoSector, TableSectors, InCopy
      <3>7. BufferGood(i)
        BY <3>2, <3>3, <3>6 DEF BufferGood, BufferMarked, BufferClean
      <3>8. CopyGood(d0, i)
        BY <1>1, <1>2, <3>4, <3>5 DEF CopyGood
      <3>9. TableOf(Seen(i)) \in Ts
        BY <1>1, <3>4, CutsNow
      <3>10. i \in Safe(d0, Ts)
        BY <1>1, <3>3, <3>4, <3>7, <3>8, <3>9, CutsSame DEF Safe
      <3>11. \A t \in Sectors : t \in run \/ Seen(i)[t] = Seen(v)[t]
        BY <1>1, <3>4, <3>5 DEF Seen
      <3>12. Beside(v, i, OverDevice)
        BY <3>3 DEF Beside, OverDevice
      <3> QED
        BY <3>1, <3>2, <3>3, <3>6, <3>10, <3>11, <3>12
    <2> QED
      BY <2>1, <2>2
  <1> HIDE DEF u, w
  <1>5. w \in Safe(d0, Ts) /\ WroteWell(u, sector, datas, n, w)
    <2>1. \A k \in 1 .. Len(datas) : sector + k - 1 \in run
      BY <1>1
    <2>2. \A k \in 1 .. Len(datas) : u.cache.sector # sector + k - 1
      BY <1>4, <2>1
    <2> QED
      BY <1>3, <1>4, <2>2, writeSectorsSafe
  <1>6. /\ w.cache = u.cache /\ Beside(u, w, OverDevice)
        /\ \A t \in Sectors : t \in run \/ w.dev[t] = u.dev[t]
        /\ w.ok = TRUE => \A k \in 1 .. n :
               sector + k - 1 \in Sectors /\ w.dev[sector + k - 1] = datas[k]
    BY <1>5 DEF WroteWell
  <1>7. /\ u.dev \in [Sectors -> Contents] /\ w.dev \in [Sectors -> Contents]
        /\ u.cache \in Caches /\ u.cache.dirty \in BOOLEAN
    BY <1>4, <1>5, SeenTyped DEF Calls, Devices, Caches
  <1>8. \A t \in Sectors : t \in run \/ Seen(w)[t] = Seen(u)[t]
    <2>1. CASE u.cache.dirty = FALSE
      BY <1>6, <2>1 DEF Seen
    <2>2. CASE u.cache.dirty = TRUE
      BY <1>6, <1>7, <2>2 DEF Seen
    <2> QED
      BY <1>7, <2>1, <2>2
  <1>9. \A t \in Sectors : t \in run => Seen(w)[t] = w.dev[t]
    BY <1>4, <1>6, <1>7 DEF Seen
  <1>10. \A t \in Sectors : t \in run \/ Seen(w)[t] = Seen(v)[t]
    BY <1>4, <1>8
  <1>11. SeenTable(w) = SeenTable(v)
    <2>1. \A e \in Clusters : Seen(w)[FatSector(e)] = Seen(v)[FatSector(e)]
      BY <1>2, <1>10, EntryPlace
    <2> QED
      BY <2>1 DEF SeenTable, TableOf
  <1>12. w.ok = TRUE => \A k \in 1 .. n :
             sector + k - 1 \in Sectors /\ Seen(w)[sector + k - 1] = datas[k]
    <2>1. \A k \in 1 .. n : sector + k - 1 \in run
      BY <1>1
    <2> QED
      BY <1>6, <1>9, <2>1
  <1>13. Beside(v, w, OverDevice)
    BY <1>4, <1>6 DEF Beside
  <1> QED
    BY <1>5, <1>10, <1>11, <1>12, <1>13 DEF w

-----------------------------------------------------------------------------
(* Through the buffer.                                                     *)

\* A sector is prepared and its words are replaced (writePart of a file, the
\* zeroes of a new cluster, an entry of a directory).
putInBuffer(v, sector, option, data) ==
    Then(prepare(v, sector, option), LAMBDA p : [p EXCEPT !.cache.data = data])

\* Only the sector is seen differently.
OtherSeen(v, w, sector) ==
    \A t \in Sectors : t = sector \/ InCopy(t) \/ Seen(w)[t] = Seen(v)[t]

\* A buffer that is clean, or has the sector, may take it and its new words.
Taken(u, w, sector) ==
    /\ u.cache.dirty = FALSE \/ u.cache.sector = sector
    /\ w.dev = u.dev /\ w.log = u.log
    /\ w.cache.sector = sector /\ w.cache.dirty = TRUE /\ w.cache.mirror = FALSE
LEMMA takeSafe ==
    ASSUME NEW d0, NEW Ts, NEW u \in Safe(d0, Ts), NEW w \in Calls,
           NEW sector \in Sectors, sector \notin TableSectors, ~InCopy(sector),
           Taken(u, w, sector)
    PROVE  /\ w \in Safe(d0, Ts) /\ OtherSeen(u, w, sector)
           /\ Seen(w)[sector] = w.cache.data
  <1> USE DEF Taken
  <1>1. /\ u \in Calls /\ BufferGood(u) /\ CopyGood(d0, u) /\ Cuts(d0, u, Ts)
        /\ TableOf(Seen(u)) \in Ts /\ u.dev \in [Sectors -> Contents]
        /\ u.cache \in Caches /\ u.cache.dirty \in BOOLEAN
    BY DEF Safe, Calls, Devices, Caches
  <1>2. Seen(w) = [u.dev EXCEPT ![sector] = w.cache.data]
    BY DEF Seen
  <1>3. \A t \in Sectors : t # sector => Seen(u)[t] = u.dev[t]
    <2>1. CASE u.cache.dirty = FALSE
      BY <2>1 DEF Seen
    <2>2. CASE u.cache.dirty = TRUE
      BY <1>1, <2>2 DEF Seen
    <2> QED
      BY <1>1, <2>1, <2>2
  <1>4. \A t \in Sectors : t # sector => Seen(w)[t] = Seen(u)[t]
    BY <1>1, <1>2, <1>3
  <1>5. Seen(w)[sector] = w.cache.data
    BY <1>1, <1>2
  <1>6. TableOf(Seen(w)) = TableOf(Seen(u))
    <2>1. \A c \in Clusters : Seen(w)[FatSector(c)] = Seen(u)[FatSector(c)]
      BY <1>4, EntryPlace, Geometry
    <2> QED
      BY <2>1 DEF TableOf
  <1>7. BufferGood(w)
    BY Geometry DEF BufferGood, BufferMarked, BufferClean
  <1>8. CopyGood(d0, w)
    BY <1>1 DEF CopyGood
  <1> QED
    BY <1>1, <1>4, <1>5, <1>6, <1>7, <1>8, CutsSame DEF Safe, OtherSeen

\* A sector that is not of the table gets new words in the buffer: nothing else
\* is seen differently, and a dirty sector that the buffer had before is
\* written, not lost; if it cannot be, it stays in the buffer. If a read fails,
\* the device has all that the library saw; what is in the buffer is unknown.
THEOREM WrittenInBuffer ==
    ASSUME NEW d0 \in [Sectors -> Contents], NEW Ts, NEW v \in Safe(d0, Ts),
           v.ok = TRUE,
           NEW sector \in Sectors, sector >= DataStartSector, NEW data \in Contents,
           NEW option \in {ForWrite, ReserveForWrite}
    PROVE  LET w == putInBuffer(v, sector, option, data)
           IN  /\ w \in Safe(d0, Ts) /\ Beside(v, w, OverDevice)
               /\ OtherSeen(v, w, sector)
               /\ w.ok = TRUE => Seen(w)[sector] = data
               /\ w.ok # TRUE => Alike(Seen(v), Seen(w))
  <1> DEFINE p == prepare(v, sector, option)
             w == putInBuffer(v, sector, option, data)
             s == sync(v)
  <1>1. sector \notin TableSectors /\ ~InCopy(sector)
    BY BehindTable DEF Sectors
  <1>2. w = IF p.ok THEN [p EXCEPT !.cache.data = data] ELSE p
    BY DEF putInBuffer, Then
  <1>3. v \in Calls /\ v.cache \in Caches
    BY DEF Safe, Calls
  <1>4. CASE option = ForWrite \/ v.cache.sector = sector
    <2>1. p = prepare(v, sector, ForWrite)
      <3>1. /\ option.write = TRUE /\ ForWrite.write = TRUE
            /\ option.mirror = FALSE /\ ForWrite.mirror = FALSE
        BY DEF ForWrite, ForRead, ReserveForWrite
      <3>2. CASE option = ForWrite
        BY <3>2
      <3>3. CASE v.cache.sector = sector
        BY <3>1, <3>3 DEF prepare, Then
      <3> QED
        BY <1>4, <3>2, <3>3
    <2> HIDE DEF p, w
    <2>2. /\ p \in Safe(d0, Ts) /\ Kept(v, p)
          /\ p.ok = TRUE => p.cache.sector = sector /\ p.cache.dirty = TRUE
      <3>1. ForWrite \in Options(sector) /\ ForWrite.write = TRUE
        BY <1>1 DEF Options, ForWrite, ForRead
      <3>2. /\ p \in Safe(d0, Ts) /\ Kept(v, p)
            /\ p.ok = TRUE => Holds(p, sector) /\ p.cache.dirty = TRUE
        BY ONLY <1>1, <2>1, <3>1, prepareSafe, d0 \in [Sectors -> Contents],
                v \in Safe(d0, Ts), v.ok = TRUE, sector \in Sectors
      <3> QED
        BY <3>2 DEF Holds
    <2>3. p \in Calls /\ p.ok \in BOOLEAN /\ p.cache \in Caches /\ BufferGood(p)
      BY <2>2 DEF Safe, Calls
    <2>4. CASE p.ok # TRUE
      <3>1. w = p
        BY <1>2, <2>3, <2>4
      <3> QED
        BY <2>2, <2>4, <3>1 DEF Kept, OtherSeen, Alike, w
    <2>5. CASE p.ok = TRUE
      <3> DEFINE c == [p.cache EXCEPT !.data = data]
                 u == [p EXCEPT !.cache = c]
      <3>1. w = u
        BY <1>2, <2>3, <2>5 DEF Calls, Fields
      <3>2. c \in Caches /\ c.sector = sector /\ c.dirty = TRUE /\ c.mirror = FALSE
            /\ c.data = data
        BY <1>1, <2>2, <2>3, <2>5 DEF Caches, BufferGood, BufferMarked, BufferClean
      <3> HIDE DEF c
      <3>3. u \in Calls /\ u.cache = c /\ Beside(p, u, {"cache"})
        BY <2>3, <3>2, cacheIs
      <3> HIDE DEF u
      <3>4. u.dev = p.dev /\ u.log = p.log
        BY <3>3 DEF Beside, Fields
      <3>5. /\ u \in Safe(d0, Ts) /\ OtherSeen(p, u, sector)
            /\ Seen(u)[sector] = data
        <4>1. Taken(p, u, sector) /\ u.cache.data = data
          BY <2>2, <2>5, <3>2, <3>3, <3>4 DEF Taken
        <4> QED
          BY <1>1, <2>2, <3>3, <4>1, takeSafe
      <3>6. OtherSeen(v, u, sector)
        BY <2>2, <3>5 DEF OtherSeen, Kept, Alike
      <3>7. Beside(v, u, OverDevice) /\ u.ok = TRUE
        BY <2>2, <2>5, <3>3 DEF Kept, Beside, OverDevice, Fields
      <3> QED
        BY <3>1, <3>5, <3>6, <3>7 DEF w
    <2> QED
      BY <2>3, <2>4, <2>5
  <1>5. CASE option = ReserveForWrite /\ v.cache.sector # sector
    <2> DEFINE b == [emptyCache(s.cache.data) EXCEPT !.sector = sector]
               e == [s EXCEPT !.cache = b]
               c == [b EXCEPT !.dirty = TRUE, !.data = data]
               u == [s EXCEPT !.cache = c]
    <2>1. s \in Safe(d0, Ts) /\ Written(v, s) /\ s \in Calls /\ s.ok \in BOOLEAN
      BY syncSafe DEF Safe, Calls
    <2>2. option.noRead = TRUE /\ option.write = TRUE /\ option.mirror = FALSE
      BY <1>5 DEF ReserveForWrite, ForWrite, ForRead
    <2>3. p = IF s.ok THEN [e EXCEPT !.cache = [e.cache EXCEPT
                                !.dirty = @ \/ option.write,
                                !.mirror = @ \/ option.mirror]]
                      ELSE s
      <3>1. load(v, sector, option) = IF s.ok THEN IF s.ok THEN e ELSE s ELSE s
        BY <2>2 DEF load, Then
      <3>2. e.ok = s.ok
        BY <2>1 DEF Calls, Fields
      <3> HIDE DEF e, s
      <3>3. prepare(v, sector, option) =
                LET q == load(v, sector, option)
                IN  IF q.ok THEN [q EXCEPT !.cache = [q.cache EXCEPT
                                      !.dirty = @ \/ option.write,
                                      !.mirror = @ \/ option.mirror]]
                            ELSE q
        BY <1>5 DEF prepare, Then
      <3> QED
        BY <2>1, <3>1, <3>2, <3>3
    <2> HIDE DEF p, s, e
    <2>4. CASE s.ok # TRUE
      <3>1. p = s
        BY <2>1, <2>3, <2>4
      <3>2. w = s
        BY <1>2, <2>1, <2>4, <3>1
      <3> HIDE DEF w
      <3> QED
        BY <2>1, <2>4, <3>2 DEF w, Written, OtherSeen, Alike
    <2>5. CASE s.ok = TRUE
      <3>1. s.cache \in Caches /\ s.cache.data \in Contents /\ s.cache.dirty = FALSE
        BY <2>1, <2>5 DEF Calls, Caches, Written
      <3>2. c \in Caches /\ c.sector = sector /\ c.dirty = TRUE /\ c.mirror = FALSE
            /\ c.data = data
        BY <3>1 DEF Caches, emptyCache
      <3>3. b.dirty = FALSE /\ b.mirror = FALSE /\ b \in Caches
        BY <3>1 DEF Caches, emptyCache
      <3>4. w = u
        <4> DEFINE f == [b EXCEPT !.dirty = b.dirty \/ option.write,
                                  !.mirror = b.mirror \/ option.mirror]
                   q == [e EXCEPT !.cache = f]
        <4>1. e \in Calls /\ e.cache = b /\ Beside(s, e, {"cache"})
          BY <2>1, <3>3, cacheIs DEF e
        <4>2. f \in Caches /\ f = [b EXCEPT !.dirty = TRUE]
          BY <2>2, <3>3 DEF Caches
        <4>3. p = q
          BY <2>3, <2>5, <4>1
        <4> HIDE DEF f
        <4>4. q \in Calls /\ q.cache = f /\ Beside(e, q, {"cache"})
          BY <4>1, <4>2, cacheIs
        <4>5. p.ok = TRUE
          BY <2>5, <4>1, <4>3, <4>4 DEF Beside, Fields
        <4>6. w = [q EXCEPT !.cache = [f EXCEPT !.data = data]]
          BY <1>2, <4>3, <4>4, <4>5
        <4>7. [f EXCEPT !.data = data] = c
          BY <3>3, <4>2 DEF Caches
        <4>8. [q EXCEPT !.cache = c] = [s EXCEPT !.cache = c]
          BY <2>1 DEF Calls, e
        <4> QED
          BY <4>6, <4>7, <4>8
      <3> HIDE DEF c, b, w
      <3>5. u \in Calls /\ u.cache = c /\ Beside(s, u, {"cache"})
        BY <2>1, <3>2, cacheIs
      <3> HIDE DEF u
      <3>6. u.dev = s.dev /\ u.log = s.log
        BY <3>5 DEF Beside, Fields
      <3>7. /\ u \in Safe(d0, Ts) /\ OtherSeen(s, u, sector)
            /\ Seen(u)[sector] = data
        <4>1. Taken(s, u, sector) /\ u.cache.data = data
          BY <3>1, <3>2, <3>5, <3>6 DEF Taken
        <4> QED
          BY <1>1, <2>1, <3>5, <4>1, takeSafe
      <3>8. OtherSeen(v, u, sector)
        BY <2>1, <3>7 DEF OtherSeen, Written, Alike
      <3>9. Beside(v, u, OverDevice) /\ u.ok = TRUE
        BY <2>1, <2>5, <3>5 DEF Written, Beside, OverDevice, Fields
      <3> QED
        BY <3>4, <3>7, <3>8, <3>9 DEF w
    <2> QED
      BY <2>1, <2>4, <2>5
  <1> QED
    BY <1>4, <1>5

-----------------------------------------------------------------------------
(* Where a call begins.                                                    *)

\* A call on a mounted volume with a sound table, which has written nothing
\* yet, is one that the theorems are about.
LEMMA CallBegins ==
    ASSUME NEW v \in Calls, v.log = <<>>, BufferMarked(v), BufferClean(v),
           IsSound(TableOf(v.dev)), IsSound(TableOf(Seen(v)))
    PROVE  v.dev \in [Sectors -> Contents] /\ v \in Safe(v.dev, SoundTables)
  <1>1. v.dev \in Devices /\ v.dev \in [Sectors -> Contents] /\ v.cache \in Caches
    BY DEF Calls, Devices
  <1>2. ASSUME NEW dev \in Devices PROVE TableOf(dev) \in Tables
    BY EntryPlace DEF Devices, TableContents, TableOf, Tables
  <1>3. Seen(v) \in Devices
    <2>1. CASE v.cache.dirty = FALSE
      BY <1>1, <2>1 DEF Seen
    <2>2. CASE v.cache.dirty = TRUE
      <3>1. v.cache.sector \in Sectors
        BY <1>1, <2>2 DEF BufferGood, BufferMarked, BufferClean, Caches
      <3>2. v.cache.data \in Contents
        BY <1>1 DEF Caches
      <3>3. /\ Seen(v) \in [Sectors -> Contents]
            /\ \A s \in Sectors :
                   Seen(v)[s] = IF s = v.cache.sector THEN v.cache.data ELSE v.dev[s]
        BY <1>1, <2>2, <3>1, <3>2 DEF Seen
      <3> QED
        BY <1>1, <3>3, Geometry DEF Devices, BufferGood, BufferMarked, BufferClean
    <2> QED
      BY <1>1, <2>1, <2>2 DEF Caches
  <1>4. TableOf(v.dev) \in SoundTables /\ TableOf(Seen(v)) \in SoundTables
    BY <1>1, <1>2, <1>3 DEF SoundTables
  <1>5. Cuts(v.dev, v, SoundTables)
    <2>1. Len(v.log) = 0 /\ v.log \in Seq(Writes)
      BY DEF Calls
    <2>2. WrittenUpTo(v.dev, v.log, 0) = v.dev
      <3> DEFINE dev == v.dev
                 log == v.log
      <3>1. /\ dev \in [Sectors -> Contents] /\ log \in Seq(Writes)
            /\ 0 \in 0 .. Len(log)
        BY <1>1, <2>1
      <3> HIDE DEF dev, log
      <3>2. WrittenUpTo(dev, log, 0) = dev
        BY <3>1, WrittenIs
      <3> QED
        BY <3>2 DEF dev, log
    <2> QED
      BY <1>1, <1>4, <2>1, <2>2 DEF Cuts
  <1>6. CopyGood(v.dev, v) /\ BufferGood(v)
    BY DEF CopyGood, BufferGood
  <1> QED
    BY <1>1, <1>4, <1>5, <1>6 DEF Safe

\* When the power has been lost after any of the writes of a call, and the card
\* is mounted again, the next call is one that the theorems are about.
THEOREM MountedAgain ==
    ASSUME NEW d0 \in [Sectors -> Contents], NEW v \in Safe(d0, SoundTables),
           NEW n \in 0 .. Len(v.log), NEW w \in Calls,
           w.dev = mount(WrittenUpTo(d0, v.log, n)).dev,
           w.cache = mount(WrittenUpTo(d0, v.log, n)).cache, w.log = <<>>
    PROVE  w \in Safe(w.dev, SoundTables)
  <1> DEFINE dev == WrittenUpTo(d0, v.log, n)
  <1>1. IsSound(TableOf(dev))
    BY DEF Safe, Cuts, SoundTables
  <1>2. /\ w.dev = dev /\ w.cache.sector = NoSector /\ w.cache.dirty = FALSE
        /\ w.cache.mirror = FALSE
    BY DEF mount, emptyCache
  <1> HIDE DEF dev
  <1>3. BufferMarked(w) /\ BufferClean(w)
    BY <1>2, SectorAssumption DEF BufferMarked, BufferClean, NoSector, TableSectors, InCopy
  <1>4. Seen(w) = dev
    BY <1>2 DEF Seen
  <1> QED
    BY <1>1, <1>2, <1>3, <1>4, CallBegins
-----------------------------------------------------------------------------
(* Calls, one after the other: any number of the functions above, in any   *)
(* order, with a loss of power after any of their writes. A call that ends *)
(* with a failed read may have spoilt the buffer: then only the loss of    *)
(* power, and the mount after it, are followed.                            *)

VARIABLES call,     \* the call that runs, or the one that ran last
          before    \* history: the device when it began

\* A card whose table is sound has been mounted.
UseInit ==
    /\ call \in Calls /\ call.log = <<>> /\ BufferMarked(call) /\ BufferClean(call)
    /\ IsSound(TableOf(call.dev)) /\ IsSound(SeenTable(call))
    /\ before = call.dev

\* A call begins, any of its accesses being the one that fails, unless a read
\* that failed has left its words in the buffer.
CallStarts ==
    /\ BufferClean(call)
    /\ call' \in {w \in Calls : /\ w.dev = call.dev /\ w.cache = call.cache
                                /\ w.log = <<>>}
    /\ before' = call.dev

\* What the layers above do for themselves.
AboveTable ==
    call' \in {w \in Calls : /\ w.dev = call.dev /\ w.cache = call.cache
                             /\ w.log = call.log /\ (w.ok = TRUE => BufferClean(call))}

\* The table is read, a chain grows or is made, ends, or is freed from its head.
OnTable ==
    \/ \E c \in Clusters : call' = fatGet(call, c)
    \/ \E current \in {0} \cup Clusters : call' = allocateCluster(call, current)
    \/ \E count \in Nat \ {0} : call' = allocContiguous(call, count)
    \/ \E c \in Clusters : call' = fatPutEOC(call, c)
    \/ \E head \in Clusters :
          IsHead(SeenTable(call), head) /\ call' = freeChain(call, head)

\* Sectors of data are read and written through the buffer, or around it.
OnData ==
    \/ call' = sync(call)
    \/ \E sector \in Sectors :
          /\ sector >= DataStartSector
          /\ \/ call' = prepare(call, sector, ForRead)
             \/ \E count \in Nat \ {0} : call' = cacheSafeRead(call, sector, count)
             \/ \E datas \in Seq(Contents) : call' = cacheSafeWrite(call, sector, datas)
             \/ \E option \in {ForWrite, ReserveForWrite}, data \in Contents :
                    call' = putInBuffer(call, sector, option, data)

\* The power goes after some of the writes, and the card is mounted again.
PowerLost ==
    \E n \in 0 .. Len(call.log) :
        LET card == mount(WrittenUpTo(before, call.log, n))
        IN  /\ call' \in {w \in Calls : /\ w.dev = card.dev /\ w.cache = card.cache
                                        /\ w.log = <<>>}
            /\ before' = card.dev

\* What has failed is not gone on with in the call.
UseNext == \/ CallStarts \/ PowerLost
           \/ AboveTable /\ UNCHANGED before
           \/ call.ok = TRUE /\ (OnTable \/ OnData) /\ UNCHANGED before
UseSpec == UseInit /\ [][UseNext]_<<call, before>>

\* The table is sound on the device, wherever the power may go in the call, and
\* as the library sees it.
TableSound ==
    /\ IsSound(TableOf(call.dev)) /\ IsSound(SeenTable(call)) /\ BufferGood(call)
    /\ \A n \in 0 .. Len(call.log) : IsSound(TableOf(WrittenUpTo(before, call.log, n)))

UseInv == before \in [Sectors -> Contents] /\ call \in Safe(before, SoundTables)

LEMMA UseInvSound ==
    ASSUME UseInv
    PROVE  TableSound
  <1>1. TableOf(call.dev) \in SoundTables
    BY CutsNow DEF UseInv, Safe
  <1>2. TableOf(Seen(call)) \in SoundTables /\ BufferGood(call)
    BY DEF UseInv, Safe
  <1>3. \A n \in 0 .. Len(call.log) :
            TableOf(WrittenUpTo(before, call.log, n)) \in SoundTables
    BY DEF UseInv, Safe, Cuts
  <1> QED
    BY <1>1, <1>2, <1>3 DEF TableSound, SoundTables, SeenTable

\* No function, and no loss of power, leaves the states the theorems are about.
LEMMA UseKeeps ==
    ASSUME UseInv, UseNext
    PROVE  UseInv'
  <1> DEFINE T == SeenTable(call)
             S == Safe(before, SoundTables)
  <1>1. /\ before \in [Sectors -> Contents] /\ call \in S /\ call \in Calls
        /\ T \in SoundTables /\ T \in Tables
    BY SeenTyped DEF UseInv, SoundTables
  <1>2. ASSUME call' \in S, before' = before PROVE UseInv'
    BY <1>1, <1>2 DEF UseInv
  <1>3. CASE CallStarts
    <2>1. TableSound
      BY UseInvSound
    <2>2. PICK w \in Calls : /\ call' = w /\ w.dev = call.dev /\ w.cache = call.cache
                             /\ w.log = <<>> /\ before' = w.dev
      BY <1>3 DEF CallStarts
    <2>3. Seen(w) = Seen(call) /\ BufferMarked(w) /\ BufferClean(w)
      BY <1>3, <2>1, <2>2
         DEF Seen, BufferGood, BufferMarked, BufferClean, TableSound, CallStarts
    <2>4. w.dev \in [Sectors -> Contents] /\ w \in Safe(w.dev, SoundTables)
      BY <2>1, <2>2, <2>3, CallBegins DEF TableSound, SeenTable
    <2> QED
      BY <2>2, <2>4 DEF UseInv
  <1>4. CASE PowerLost
    <2>1. PICK n \in 0 .. Len(call.log), w \in Calls :
              /\ call' = w /\ w.log = <<>> /\ before' = w.dev
              /\ w.dev = mount(WrittenUpTo(before, call.log, n)).dev
              /\ w.cache = mount(WrittenUpTo(before, call.log, n)).cache
      BY <1>4 DEF PowerLost
    <2>2. w \in Safe(w.dev, SoundTables)
      BY <1>1, <2>1, MountedAgain
    <2>3. w.dev \in [Sectors -> Contents]
      BY DEF Calls, Devices
    <2> QED
      BY <2>1, <2>2, <2>3 DEF UseInv
  <1>5. CASE AboveTable /\ before' = before
    <2>1. PICK w \in Calls : /\ call' = w /\ w.dev = call.dev /\ w.cache = call.cache
                             /\ w.log = call.log /\ (w.ok = TRUE => BufferClean(call))
      BY <1>5 DEF AboveTable
    <2>2. w \in S
      BY <1>1, <2>1, SafeSame
    <2> QED
      BY <1>2, <1>5, <2>1, <2>2
  <1>6. CASE call.ok = TRUE /\ OnTable /\ before' = before
    <2>1. ASSUME NEW c \in Clusters, call' = fatGet(call, c) PROVE call' \in S
      BY <1>1, <1>6, <2>1, fatGetSafe
    <2>2. ASSUME NEW current \in {0} \cup Clusters, call' = allocateCluster(call, current)
          PROVE  call' \in S
      BY <1>1, <1>6, <2>2, ClusterAllocated
    <2>3. ASSUME NEW count \in Nat \ {0}, call' = allocContiguous(call, count)
          PROVE  call' \in S
      BY <1>1, <1>6, <2>3, RunAllocated
    <2>4. ASSUME NEW c \in Clusters, call' = fatPutEOC(call, c) PROVE call' \in S
      <3>1. [T EXCEPT ![c] = EOC] \in SoundTables
        BY <1>1, MarkedSound DEF Marked
      <3> QED
        BY <1>1, <1>6, <2>4, <3>1, NoClusters, fatPutSafe DEF fatPutEOC
    <2>5. ASSUME NEW head \in Clusters, IsHead(T, head), call' = freeChain(call, head)
          PROVE  call' \in S
      BY <1>1, <1>6, <2>5, ChainFreed
    <2> QED
      BY <1>2, <1>6, <2>1, <2>2, <2>3, <2>4, <2>5 DEF OnTable
  <1>7. CASE call.ok = TRUE /\ OnData /\ before' = before
    <2>1. ASSUME call' = sync(call) PROVE call' \in S
      BY <1>1, <1>7, <2>1, syncSafe
    <2>2. ASSUME NEW sector \in Sectors, sector >= DataStartSector,
                 call' = prepare(call, sector, ForRead)
          PROVE  call' \in S
      <3>1. sector \notin TableSectors /\ ~InCopy(sector)
        BY <2>2, BehindTable DEF Sectors
      <3>2. ForRead \in Options(sector)
        BY <3>1 DEF Options
      <3> QED
        BY <1>1, <1>7, <2>2, <3>1, <3>2, prepareSafe
    <2>3. ASSUME NEW sector \in Sectors, NEW count \in Nat \ {0},
                 call' = cacheSafeRead(call, sector, count)
          PROVE  call' \in S
      BY <1>1, <1>7, <2>3, ReadAround
    <2>4. ASSUME NEW sector \in Sectors, sector >= DataStartSector,
                 NEW datas \in Seq(Contents), call' = cacheSafeWrite(call, sector, datas)
          PROVE  call' \in S
      <3>1. sector \in Nat
        BY DEF Sectors
      <3> QED
        BY <1>1, <1>7, <2>4, <3>1, WrittenAround
    <2>5. ASSUME NEW sector \in Sectors, sector >= DataStartSector,
                 NEW option \in {ForWrite, ReserveForWrite}, NEW data \in Contents,
                 call' = putInBuffer(call, sector, option, data)
          PROVE  call' \in S
      BY <1>1, <1>7, <2>5, WrittenInBuffer
    <2> QED
      BY <1>2, <1>7, <2>1, <2>2, <2>3, <2>4, <2>5 DEF OnData
  <1> QED
    BY <1>3, <1>4, <1>5, <1>6, <1>7 DEF UseNext

\* Whatever the program does with clusters and sectors, as long as it frees
\* chains by their heads and mounts the card again where a failed read has
\* spoilt the buffer, whichever accesses fail and however often the power is
\* lost, no cluster gets into two chains and no chain leads to a free one.
THEOREM TableStaysSound == UseSpec => []TableSound
  <1>1. UseInit => UseInv
    BY CallBegins DEF UseInit, UseInv, SeenTable
  <1>2. UseInv /\ [UseNext]_<<call, before>> => UseInv'
    <2>1. CASE UseNext
      BY <2>1, UseKeeps
    <2>2. CASE UNCHANGED <<call, before>>
      BY <2>2 DEF UseInv
    <2> QED
      BY <2>1, <2>2
  <1>3. UseInv => TableSound
    BY UseInvSound
  <1> QED
    BY <1>1, <1>2, <1>3, PTL DEF UseSpec
=============================================================================
