-------------------------- MODULE ExFatTable_proofs --------------------------
(***************************************************************************)
(* Theorems about calls on the bitmap and the table of an exFAT volume of  *)
(* any size, on a card that may fail any access: what bitmapFind finds and *)
(* when it does not end, what bitmapModify turns over, and what freeChain  *)
(* clears, when they succeed and when they do not; and that the table      *)
(* stays sound whatever calls follow each other.                           *)
(*                                                                         *)
(* A call is good (Good) when the words of the bitmap and of the table are *)
(* what they should be, bits and numbers, in the buffer if it has to be    *)
(* written and on the device otherwise (Seen), and, as long as nothing has *)
(* failed, the buffer has what its sector has. A read that fails may leave *)
(* any words in the buffer: nothing is said here of calls that go on from  *)
(* there. What the layers above keep in a call, and the words that they    *)
(* keep in other places, are parameters.                                   *)
(***************************************************************************)
EXTENDS ExFatTable, FiniteSetTheorems, Loops

CONSTANTS MoreFields,   \* what the layers above keep in the record of a call,
          MoreValues,   \* its values,
          MoreWords     \* and what they keep in sectors

-----------------------------------------------------------------------------
(* Types.                                                                  *)

Sectors == 0 .. LastSector
Word == Nat \cup BOOLEAN \cup MoreWords
Contents == [Words -> Word]
Bits == 0 .. ClusterCount - 1
Devices ==
    {dev \in [Sectors -> Contents] :
        /\ \A b \in Bits : dev[BitmapSector(b)][b % BytesPerSector] \in BOOLEAN
        /\ \A c \in Clusters : dev[FatSector(c)][c % BytesPerSector] \in Nat}
Caches == [sector : Sectors \cup {NoSector}, dirty : BOOLEAN, mirror : BOOLEAN,
           data : Contents]
Writes == [sector : Sectors, data : Contents]
Noises == UNION {[X -> Contents] : X \in SUBSET Sectors}
Fields == {"dev", "log", "io", "noise", "cache", "ok", "search", "val", "hung"}
              \cup MoreFields
Values == [Sectors -> Contents] \cup Seq(Writes) \cup Int \cup Noises \cup BOOLEAN
              \cup Caches \cup MoreValues
Calls ==
    {v \in [Fields -> Values] :
        /\ v.dev \in [Sectors -> Contents] /\ v.log \in Seq(Writes) /\ v.io \in Int
        /\ v.noise \in Noises /\ v.cache \in Caches /\ v.ok \in BOOLEAN
        /\ v.search \in Bits /\ v.val \in Int /\ v.hung \in BOOLEAN}

\* There is no copy of the table, so none is to be written. As long as no access
\* has failed, a buffer that is not dirty has what its sector has.
BufferGood(v) ==
    /\ v.cache.mirror = FALSE
    /\ v.cache.dirty = TRUE => v.cache.sector \in Sectors
    /\ v.ok = TRUE => BufferClean(v)
Good == {v \in Calls : BufferGood(v) /\ Seen(v) \in Devices}

\* Of the fields, those of the device and the buffer alone differ.
OverDevice == {"dev", "log", "io", "cache", "ok"}
Beside(v, w, X) == \A x \in Fields \ X : w[x] = v[x]

LEMMA BesideOn ==
    ASSUME NEW u, NEW v, NEW w, NEW X, NEW Y, NEW Z, X \subseteq Z, Y \subseteq Z,
           Beside(u, v, X), Beside(v, w, Y)
    PROVE  Beside(u, w, Z)
  BY DEF Beside

LEMMA okIs ==
    ASSUME NEW v \in Calls, NEW b \in BOOLEAN
    PROVE  /\ [v EXCEPT !.ok = b] \in Calls /\ [v EXCEPT !.ok = b].ok = b
           /\ Beside(v, [v EXCEPT !.ok = b], {"ok"})
  BY DEF Calls, Fields, Values, Beside

LEMMA cacheIs ==
    ASSUME NEW v \in Calls, NEW c \in Caches
    PROVE  /\ [v EXCEPT !.cache = c] \in Calls /\ [v EXCEPT !.cache = c].cache = c
           /\ Beside(v, [v EXCEPT !.cache = c], {"cache"})
  BY DEF Calls, Fields, Values, Beside

LEMMA searchIs ==
    ASSUME NEW v \in Calls, NEW b \in Bits
    PROVE  /\ [v EXCEPT !.search = b] \in Calls /\ [v EXCEPT !.search = b].search = b
           /\ Beside(v, [v EXCEPT !.search = b], {"search"})
  <1>1. b \in Int
    BY DEF Bits
  <1> QED
    BY <1>1 DEF Calls, Fields, Values, Beside

LEMMA valIs ==
    ASSUME NEW v \in Calls, NEW x \in Int
    PROVE  /\ [v EXCEPT !.val = x] \in Calls /\ [v EXCEPT !.val = x].val = x
           /\ Beside(v, [v EXCEPT !.val = x], {"val"})
  BY DEF Calls, Fields, Values, Beside

LEMMA hungIs ==
    ASSUME NEW v \in Calls, NEW b \in BOOLEAN
    PROVE  /\ [v EXCEPT !.hung = b] \in Calls /\ [v EXCEPT !.hung = b].hung = b
           /\ Beside(v, [v EXCEPT !.hung = b], {"hung"})
  BY DEF Calls, Fields, Values, Beside

\* What is not the device or the buffer changes nothing of what is seen.
LEMMA GoodSame ==
    ASSUME NEW v \in Good, NEW w \in Calls, w.dev = v.dev, w.cache = v.cache,
           w.ok = TRUE => v.ok = TRUE \/ BufferClean(v)
    PROVE  w \in Good /\ Seen(w) = Seen(v)
  <1>1. Seen(w) = Seen(v)
    BY DEF Seen
  <1> QED
    BY <1>1 DEF Good, BufferGood, BufferClean

\* An access that there is left, of a sector that there is, succeeds.
LEMMA accessIs ==
    ASSUME NEW v \in Calls, NEW sector \in Int
    PROVE  /\ access(v, sector) \in Calls
           /\ Beside(v, access(v, sector), {"io", "ok"})
           /\ access(v, sector).io = v.io - 1
           /\ access(v, sector).ok = TRUE => sector \in Sectors
           /\ v.io > 0 /\ sector \in Sectors => access(v, sector).ok = TRUE
  <1> DEFINE a == access(v, sector)
             b == (v.io # 0 /\ sector \in DOMAIN v.dev)
  <1>1. /\ v.io - 1 \in Int /\ v.io - 1 \in Values /\ b \in BOOLEAN /\ b \in Values
        /\ DOMAIN v.dev = Sectors
    BY DEF Calls, Values
  <1>2. a = [v EXCEPT !.io = v.io - 1, !.ok = b]
    BY DEF access
  <1> HIDE DEF a, b
  <1>3. /\ a \in [Fields -> Values] /\ a.io = v.io - 1 /\ a.ok = b
        /\ Beside(v, a, {"io", "ok"})
    BY <1>1, <1>2 DEF Calls, Beside, Fields
  <1>4. a \in Calls
    BY <1>1, <1>3 DEF Calls, Beside, Fields
  <1>5. /\ b = TRUE => sector \in Sectors
        /\ v.io > 0 /\ sector \in Sectors => b = TRUE
    BY <1>1 DEF b
  <1> QED
    BY <1>3, <1>4, <1>5 DEF a

-----------------------------------------------------------------------------
(* Where a bit of the bitmap and an entry of the table lie.                *)

\* Quotient and remainder.
LEMMA Quotient ==
    ASSUME NEW C \in Nat \ {0}, NEW a \in Nat
    PROVE  /\ a = C * (a \div C) + (a % C)
           /\ a % C \in 0 .. C - 1 /\ a \div C \in Nat /\ a \div C <= a
  <1>1. /\ a = C * (a \div C) + (a % C)
        /\ a % C \in 0 .. C - 1 /\ a \div C \in Nat
    OBVIOUS
  <1> DEFINE q == a \div C
             r == a % C
  <1>2. q \in Nat /\ r \in Nat /\ a = C * q + r
    BY <1>1
  <1> HIDE DEF q, r
  <1>3. C * q >= q
    <2>1. (C - 1) \in Nat
      OBVIOUS
    <2>2. (C - 1) * q \in Nat
      BY <1>2, <2>1
    <2>3. C * q = (C - 1) * q + q
      BY <1>2
    <2> QED
      BY <1>2, <2>2, <2>3
  <1>4. q <= a
    BY <1>2, <1>3
  <1> QED
    BY <1>1, <1>4 DEF q

LEMMA Geometry ==
    /\ LastSector \in Nat /\ LastSector + 1 >= SectorsPerFat + ClusterCount
    /\ BytesPerSector \in Nat \ {0} /\ SectorsPerFat \in Nat \ {0}
    /\ ClusterCount \in Nat \ {0} /\ LastCluster = ClusterCount + 1
    /\ NoSector \notin Sectors
  <1> DEFINE n == LastCluster + 1 - 2
             m == n * SectorsPerCluster
  <1>1. n = ClusterCount /\ n \in Nat \ {0} /\ SectorsPerCluster \in Nat \ {0}
        /\ SectorsPerFat \in Nat \ {0} /\ BytesPerSector \in Nat \ {0}
        /\ LastCluster = ClusterCount + 1
    BY SectorAssumption, TableAssumption DEF LastCluster
  <1>2. m \in Nat /\ m >= n
    <2> HIDE DEF n
    <2>1. n * (SectorsPerCluster - 1) \in Nat
      <3>1. SectorsPerCluster - 1 \in Nat
        BY <1>1
      <3> QED
        BY <1>1, <3>1
    <2>2. m = n * (SectorsPerCluster - 1) + n
      BY <1>1
    <2> QED
      BY <1>1, <2>1, <2>2
  <1>3. LastSector = SectorsPerFat + m - 1
    BY <1>1 DEF LastSector, clusterStartSector, ClusterHeapStartSector
  <1> HIDE DEF m, n
  <1> QED
    BY <1>1, <1>2, <1>3 DEF Sectors, NoSector

\* The place of a word: its sector, and where it is in there.
Place(bit) == <<BitmapSector(bit), bit % BytesPerSector>>
Entry(cluster) == <<FatSector(cluster), cluster % BytesPerSector>>
Places(X) == {Place(b) : b \in X}
Entries(X) == {Entry(c) : c \in X}

\* Every cluster has a bit and an entry.
LEMMA PlaceIs ==
    ASSUME NEW b \in Bits
    PROVE  BitmapSector(b) \in Sectors /\ b % BytesPerSector \in Words
           /\ BitmapSector(b) >= SectorsPerFat
  <1>1. b \in Nat /\ b < ClusterCount
    BY Geometry DEF Bits
  <1>2. b % BytesPerSector \in 0 .. BytesPerSector - 1 /\ b \div BytesPerSector \in Nat
        /\ b \div BytesPerSector <= b
    BY <1>1, Geometry, Quotient
  <1>3. BitmapSector(b) = SectorsPerFat + b \div BytesPerSector
    BY DEF BitmapSector, ClusterHeapStartSector
  <1> DEFINE q == b \div BytesPerSector
  <1>4. q \in Nat /\ q <= b /\ BitmapSector(b) = SectorsPerFat + q
    BY <1>2, <1>3
  <1> HIDE DEF q
  <1> QED
    BY <1>1, <1>2, <1>4, Geometry DEF Words, Sectors

LEMMA EntryIs ==
    ASSUME NEW c \in Clusters
    PROVE  FatSector(c) \in Sectors /\ c % BytesPerSector \in Words
           /\ FatSector(c) < SectorsPerFat
  <1>1. /\ BytesPerSector \in Nat \ {0} /\ SectorsPerFat \in Nat \ {0} /\ c \in Nat
        /\ SectorsPerFat * BytesPerSector > c
    BY SectorAssumption, TableAssumption DEF Clusters, LastCluster
  <1> DEFINE q == c \div BytesPerSector
             r == c % BytesPerSector
  <1>2. c = BytesPerSector * q + r /\ r \in 0 .. BytesPerSector - 1 /\ q \in Nat
    BY <1>1, Quotient
  <1>3. FatSector(c) = q
    BY DEF FatSector
  <1> HIDE DEF q, r
  <1>4. q < SectorsPerFat
    <2>1. ASSUME q >= SectorsPerFat PROVE FALSE
      <3>1. BytesPerSector * q >= SectorsPerFat * BytesPerSector
        BY <1>1, <1>2, <2>1
      <3> QED
        BY <1>1, <1>2, <3>1
    <2> QED
      BY <1>1, <1>2, <2>1
  <1> QED
    BY <1>1, <1>2, <1>3, <1>4, Geometry DEF Words, Sectors, r

\* No other cluster has the same, and no entry is where a bit is.
LEMMA PlaceOfOne ==
    ASSUME NEW b \in Bits, NEW c \in Bits, Place(b) = Place(c)
    PROVE  b = c
  <1>1. BytesPerSector \in Nat \ {0} /\ b \in Nat /\ c \in Nat
    BY Geometry DEF Bits
  <1>2. /\ BitmapSector(b) = BitmapSector(c)
        /\ b % BytesPerSector = c % BytesPerSector
    BY DEF Place
  <1>3. b \div BytesPerSector \in Nat /\ c \div BytesPerSector \in Nat
    BY <1>1, Quotient
  <1>4. b \div BytesPerSector = c \div BytesPerSector
    BY <1>2, <1>3, Geometry DEF BitmapSector, ClusterHeapStartSector
  <1>5. b = BytesPerSector * (b \div BytesPerSector) + (b % BytesPerSector)
    BY <1>1, Quotient
  <1>6. c = BytesPerSector * (c \div BytesPerSector) + (c % BytesPerSector)
    BY <1>1, Quotient
  <1> QED
    BY <1>2, <1>4, <1>5, <1>6

LEMMA EntryOfOne ==
    ASSUME NEW c \in Clusters, NEW d \in Clusters, Entry(c) = Entry(d)
    PROVE  c = d
  <1>1. BytesPerSector \in Nat \ {0} /\ c \in Nat /\ d \in Nat
    BY Geometry DEF Clusters
  <1>2. /\ c \div BytesPerSector = d \div BytesPerSector
        /\ c % BytesPerSector = d % BytesPerSector
    BY DEF Entry, FatSector
  <1>3. c = BytesPerSector * (c \div BytesPerSector) + (c % BytesPerSector)
    BY <1>1, Quotient
  <1>4. d = BytesPerSector * (d \div BytesPerSector) + (d % BytesPerSector)
    BY <1>1, Quotient
  <1> QED
    BY <1>2, <1>3, <1>4

LEMMA PlacesApart ==
    ASSUME NEW b \in Bits, NEW c \in Clusters
    PROVE  Place(b) # Entry(c)
  <1>1. BitmapSector(b) # FatSector(c)
    BY PlaceIs, EntryIs, Geometry DEF Sectors
  <1> QED
    BY <1>1 DEF Place, Entry

-----------------------------------------------------------------------------
(* What the library sees.                                                  *)

\* The device with a word x in some places.
Put(d, X, x) == [s \in Sectors |-> [i \in Words |-> IF <<s, i>> \in X THEN x ELSE d[s][i]]]
BitsOf(d) == [b \in Bits |-> d[BitmapSector(b)][b % BytesPerSector]]
EntriesOf(d) == [c \in Clusters |-> d[FatSector(c)][c % BytesPerSector]]

LEMMA PutIs ==
    ASSUME NEW d \in [Sectors -> Contents], NEW X, NEW x \in Word
    PROVE  /\ Put(d, X, x) \in [Sectors -> Contents]
           /\ \A s \in Sectors, i \in Words :
                  Put(d, X, x)[s][i] = IF <<s, i>> \in X THEN x ELSE d[s][i]
  <1>1. ASSUME NEW s \in Sectors
        PROVE  [i \in Words |-> IF <<s, i>> \in X THEN x ELSE d[s][i]] \in Contents
    <2>1. d[s] \in Contents
      OBVIOUS
    <2>2. \A i \in Words : d[s][i] \in Word
      BY <2>1 DEF Contents
    <2> QED
      BY <2>2 DEF Contents
  <1> QED
    BY <1>1 DEF Put

\* Devices are alike that are so word for word.
LEMMA WordForWord ==
    ASSUME NEW d \in [Sectors -> Contents], NEW e \in [Sectors -> Contents],
           \A s \in Sectors, i \in Words : d[s][i] = e[s][i]
    PROVE  d = e
  <1>1. ASSUME NEW s \in Sectors PROVE d[s] = e[s]
    <2>1. d[s] \in Contents /\ e[s] \in Contents
      OBVIOUS
    <2>2. \A i \in Words : d[s][i] = e[s][i]
      OBVIOUS
    <2> QED
      BY <2>1, <2>2 DEF Contents
  <1> QED
    BY <1>1

LEMMA PutPut ==
    ASSUME NEW d \in [Sectors -> Contents], NEW X, NEW Y, NEW x \in Word
    PROVE  Put(Put(d, X, x), Y, x) = Put(d, X \cup Y, x)
  <1>1. Put(d, X, x) \in [Sectors -> Contents]
    BY PutIs
  <1>2. \A s \in Sectors, i \in Words :
            Put(Put(d, X, x), Y, x)[s][i] = Put(d, X \cup Y, x)[s][i]
    <2> TAKE s \in Sectors, i \in Words
    <2>1. Put(d, X, x)[s][i] = IF <<s, i>> \in X THEN x ELSE d[s][i]
      BY PutIs
    <2>2. Put(d, X \cup Y, x)[s][i] = IF <<s, i>> \in X \cup Y THEN x ELSE d[s][i]
      BY PutIs
    <2>3. Put(Put(d, X, x), Y, x)[s][i] =
              IF <<s, i>> \in Y THEN x ELSE Put(d, X, x)[s][i]
      BY <1>1, PutIs
    <2> QED
      BY <2>1, <2>2, <2>3, Zenon
  <1>3. /\ Put(Put(d, X, x), Y, x) \in [Sectors -> Contents]
        /\ Put(d, X \cup Y, x) \in [Sectors -> Contents]
    BY <1>1, PutIs
  <1> QED
    BY <1>2, <1>3, WordForWord

LEMMA PutNone ==
    ASSUME NEW d \in [Sectors -> Contents], NEW X, \A p : p \notin X, NEW x \in Word
    PROVE  Put(d, X, x) = d
  <1>1. Put(d, X, x) \in [Sectors -> Contents]
    BY PutIs
  <1>2. \A s \in Sectors, i \in Words : Put(d, X, x)[s][i] = d[s][i]
    <2> TAKE s \in Sectors, i \in Words
    <2>1. Put(d, X, x)[s][i] = IF <<s, i>> \in X THEN x ELSE d[s][i]
      BY PutIs
    <2>2. <<s, i>> \notin X
      OBVIOUS
    <2> QED
      BY <2>1, <2>2, Zenon
  <1> QED
    BY <1>1, <1>2, WordForWord

LEMMA PutRuns ==
    ASSUME NEW d \in [Sectors -> Contents], NEW X, NEW Y, NEW x \in BOOLEAN
    PROVE  Put(Put(d, Places(X), x), Places(Y), x) = Put(d, Places(X) \cup Places(Y), x)
  <1> DEFINE p == Places(X)
             q == Places(Y)
  <1>1. x \in Word
    BY DEF Word
  <1> HIDE DEF p, q
  <1>2. Put(Put(d, p, x), q, x) = Put(d, p \cup q, x)
    BY <1>1, PutPut
  <1> QED
    BY <1>2 DEF p, q

\* Words put elsewhere do not mind each other.
LEMMA PutApart ==
    ASSUME NEW d \in [Sectors -> Contents], NEW X, NEW Y, X \cap Y = {},
           NEW x \in Word, NEW y \in Word
    PROVE  Put(Put(d, X, x), Y, y) = Put(Put(d, Y, y), X, x)
  <1>1. Put(d, X, x) \in [Sectors -> Contents] /\ Put(d, Y, y) \in [Sectors -> Contents]
    BY PutIs
  <1>2. \A s \in Sectors, i \in Words :
            Put(Put(d, X, x), Y, y)[s][i] = Put(Put(d, Y, y), X, x)[s][i]
    <2> TAKE s \in Sectors, i \in Words
    <2>1. /\ Put(d, X, x)[s][i] = IF <<s, i>> \in X THEN x ELSE d[s][i]
          /\ Put(d, Y, y)[s][i] = IF <<s, i>> \in Y THEN y ELSE d[s][i]
      BY PutIs
    <2>2. /\ Put(Put(d, X, x), Y, y)[s][i] =
                 IF <<s, i>> \in Y THEN y ELSE Put(d, X, x)[s][i]
          /\ Put(Put(d, Y, y), X, x)[s][i] =
                 IF <<s, i>> \in X THEN x ELSE Put(d, Y, y)[s][i]
      BY <1>1, PutIs
    <2>3. ~(<<s, i>> \in X /\ <<s, i>> \in Y)
      OBVIOUS
    <2> QED
      BY <2>1, <2>2, <2>3, Zenon
  <1>3. /\ Put(Put(d, X, x), Y, y) \in [Sectors -> Contents]
        /\ Put(Put(d, Y, y), X, x) \in [Sectors -> Contents]
    BY <1>1, PutIs
  <1> QED
    BY <1>2, <1>3, WordForWord

\* Bits that are put are bits, and the entries stay.
LEMMA PutBits ==
    ASSUME NEW d \in Devices, NEW X, X \subseteq Bits, NEW x \in BOOLEAN
    PROVE  /\ Put(d, Places(X), x) \in Devices
           /\ BitsOf(Put(d, Places(X), x)) = [b \in Bits |-> IF b \in X THEN x ELSE BitsOf(d)[b]]
           /\ EntriesOf(Put(d, Places(X), x)) = EntriesOf(d)
  <1> DEFINE e == Put(d, Places(X), x)
  <1>1. /\ d \in [Sectors -> Contents] /\ e \in [Sectors -> Contents]
        /\ \A s \in Sectors, i \in Words :
               e[s][i] = IF <<s, i>> \in Places(X) THEN x ELSE d[s][i]
    <2>1. d \in [Sectors -> Contents] /\ x \in Word
      BY DEF Devices, Word
    <2> QED
      BY <2>1, PutIs
  <1> HIDE DEF e
  <1>2. ASSUME NEW b \in Bits
        PROVE  e[BitmapSector(b)][b % BytesPerSector] = IF b \in X THEN x ELSE BitsOf(d)[b]
    <2>1. Place(b) \in Places(X) <=> b \in X
      BY PlaceOfOne DEF Places
    <2> QED
      BY <1>1, <2>1, PlaceIs DEF Place, BitsOf
  <1>3. ASSUME NEW c \in Clusters
        PROVE  e[FatSector(c)][c % BytesPerSector] = EntriesOf(d)[c]
    <2>1. Entry(c) \notin Places(X)
      BY PlacesApart DEF Places
    <2> QED
      BY <1>1, <2>1, EntryIs DEF Entry, EntriesOf
  <1>4. e \in Devices
    BY <1>1, <1>2, <1>3 DEF Devices, BitsOf, EntriesOf
  <1>5. BitsOf(e) = [b \in Bits |-> IF b \in X THEN x ELSE BitsOf(d)[b]]
    BY <1>2 DEF BitsOf
  <1>6. EntriesOf(e) = EntriesOf(d)
    <2>1. EntriesOf(e) = [c \in Clusters |-> e[FatSector(c)][c % BytesPerSector]]
      BY DEF EntriesOf
    <2>2. EntriesOf(d) = [c \in Clusters |-> EntriesOf(d)[c]]
      BY DEF EntriesOf
    <2> QED
      BY <1>3, <2>1, <2>2
  <1> QED
    BY <1>4, <1>5, <1>6 DEF e

LEMMA PutEntries ==
    ASSUME NEW d \in Devices, NEW X, X \subseteq Clusters, NEW x \in Nat
    PROVE  /\ Put(d, Entries(X), x) \in Devices
           /\ EntriesOf(Put(d, Entries(X), x)) =
                  [c \in Clusters |-> IF c \in X THEN x ELSE EntriesOf(d)[c]]
           /\ BitsOf(Put(d, Entries(X), x)) = BitsOf(d)
  <1> DEFINE e == Put(d, Entries(X), x)
  <1>1. /\ d \in [Sectors -> Contents] /\ e \in [Sectors -> Contents]
        /\ \A s \in Sectors, i \in Words :
               e[s][i] = IF <<s, i>> \in Entries(X) THEN x ELSE d[s][i]
    <2>1. d \in [Sectors -> Contents] /\ x \in Word
      BY DEF Devices, Word
    <2> QED
      BY <2>1, PutIs
  <1> HIDE DEF e
  <1>2. ASSUME NEW b \in Bits
        PROVE  e[BitmapSector(b)][b % BytesPerSector] = BitsOf(d)[b]
    <2>1. Place(b) \notin Entries(X)
      BY PlacesApart DEF Entries
    <2> QED
      BY <1>1, <2>1, PlaceIs DEF Place, BitsOf
  <1>3. ASSUME NEW c \in Clusters
        PROVE  e[FatSector(c)][c % BytesPerSector] = IF c \in X THEN x ELSE EntriesOf(d)[c]
    <2>1. Entry(c) \in Entries(X) <=> c \in X
      BY EntryOfOne DEF Entries
    <2> QED
      BY <1>1, <2>1, EntryIs DEF Entry, EntriesOf
  <1>4. e \in Devices
    BY <1>1, <1>2, <1>3 DEF Devices, BitsOf, EntriesOf
  <1>5. EntriesOf(e) = [c \in Clusters |-> IF c \in X THEN x ELSE EntriesOf(d)[c]]
    BY <1>3 DEF EntriesOf
  <1>6. BitsOf(e) = BitsOf(d)
    <2>1. BitsOf(e) = [b \in Bits |-> e[BitmapSector(b)][b % BytesPerSector]]
      BY DEF BitsOf
    <2>2. BitsOf(d) = [b \in Bits |-> BitsOf(d)[b]]
      BY DEF BitsOf
    <2> QED
      BY <1>2, <2>1, <2>2
  <1> QED
    BY <1>4, <1>5, <1>6 DEF e

LEMMA SeenIs ==
    ASSUME NEW v \in Good
    PROVE  /\ Seen(v) \in Devices /\ Seen(v) \in [Sectors -> Contents]
           /\ BitsOf(Seen(v)) \in [Bits -> BOOLEAN]
           /\ EntriesOf(Seen(v)) \in [Clusters -> Nat]
  BY DEF Good, Devices, BitsOf, EntriesOf

-----------------------------------------------------------------------------
(* The device and the buffer.                                              *)

\* A write that succeeds is on the device.
LEMMA writeSectorIs ==
    ASSUME NEW v \in Calls, NEW sector \in Sectors, NEW data \in Contents
    PROVE  LET w == writeSector(v, sector, data)
           IN  /\ w \in Calls /\ Beside(v, w, {"dev", "log", "io", "ok"})
               /\ w.io = v.io - 1 /\ (v.io > 0 => w.ok = TRUE)
               /\ w.ok # TRUE => w.dev = v.dev
               /\ w.ok = TRUE => w.dev = [v.dev EXCEPT ![sector] = data]
  <1> DEFINE w == writeSector(v, sector, data)
             a == access(v, sector)
             dev == [a.dev EXCEPT ![sector] = data]
             e == [sector |-> sector, data |-> data]
             log == Append(a.log, e)
             u == [a EXCEPT !.dev = dev, !.log = log]
  <1>0. sector \in Int
    BY DEF Sectors
  <1>1. /\ a \in Calls /\ Beside(v, a, {"io", "ok"}) /\ a.io = v.io - 1
        /\ v.io > 0 => a.ok = TRUE
    BY <1>0, accessIs
  <1>2. a.dev = v.dev /\ a.ok \in BOOLEAN /\ v.io \in Int
    BY <1>1 DEF Beside, Fields, Calls
  <1>3. w = IF a.ok THEN u ELSE a
    BY DEF writeSector, Then
  <1>4. CASE a.ok = TRUE
    <2> HIDE DEF a
    <2>1. dev \in [Sectors -> Contents] /\ a.log \in Seq(Writes)
      BY <1>1 DEF Calls
    <2>2. log \in Seq(Writes)
      <3>1. e \in Writes
        BY DEF Writes
      <3> HIDE DEF e
      <3> QED
        BY <2>1, <3>1
    <2> HIDE DEF dev, log
    <2>3. /\ u \in Calls /\ Beside(a, u, {"dev", "log"}) /\ u.dev = dev
          /\ u.ok = a.ok /\ u.io = a.io
      BY <1>1, <2>1, <2>2 DEF Calls, Fields, Values, Beside
    <2> HIDE DEF u
    <2>4. Beside(v, u, {"dev", "log", "io", "ok"})
      BY <1>1, <2>3, BesideOn
    <2>5. w = u
      BY <1>3, <1>4
    <2> QED
      BY <1>1, <1>2, <1>4, <2>3, <2>4, <2>5 DEF dev
  <1>5. CASE a.ok # TRUE
    <2> HIDE DEF a
    <2>1. w = a
      BY <1>2, <1>3, <1>5
    <2>2. Beside(v, a, {"dev", "log", "io", "ok"})
      BY <1>1 DEF Beside
    <2> QED
      BY <1>1, <1>2, <1>5, <2>1, <2>2
  <1> QED
    BY <1>4, <1>5

\* What every function of the cache keeps.
Kept(v, w) == Beside(v, w, OverDevice) /\ Seen(w) = Seen(v)
LEMMA KeptOn ==
    ASSUME NEW u, NEW v, NEW w, Kept(u, v), Kept(v, w)
    PROVE  Kept(u, w)
  BY DEF Kept, Beside

\* A buffer that is written, or not, is still the same to the library.
syncWell(v, s) ==
    /\ s \in Good /\ Kept(v, s) /\ s.io \in v.io - 1 .. v.io
    /\ s.ok = TRUE => s.cache.dirty = FALSE
    /\ v.io > 0 => s.ok = TRUE
LEMMA syncIs ==
    ASSUME NEW v \in Good, v.ok = TRUE
    PROVE  syncWell(v, sync(v))
  <1> DEFINE c == v.cache
             s == sync(v)
             w == writeSector(v, c.sector, c.data)
             m == IF w.ok THEN IF c.mirror
                               THEN writeSector(w, c.sector + SectorsPerFat, c.data) ELSE w
                  ELSE w
             b == [c EXCEPT !.dirty = FALSE]
  <1>1. v \in Calls /\ BufferGood(v) /\ Seen(v) \in Devices
    BY DEF Good
  <1>2. /\ c \in Caches /\ c.dirty \in BOOLEAN /\ c.mirror = FALSE
        /\ c.data \in Contents /\ v.dev \in [Sectors -> Contents] /\ v.io \in Int
    BY <1>1 DEF Calls, Caches, BufferGood, BufferClean
  <1>3. CASE c.dirty = FALSE
    <2>1. s = [v EXCEPT !.ok = TRUE]
      BY <1>3 DEF sync, done
    <2> HIDE DEF s
    <2>2. s \in Calls /\ Beside(v, s, {"ok"}) /\ s.ok = TRUE
      BY <1>1, <2>1, okIs
    <2>3. s.dev = v.dev /\ s.io = v.io /\ s.cache = v.cache
      BY <2>2 DEF Beside, Fields
    <2>4. s \in Good /\ Seen(s) = Seen(v)
      BY <2>2, <2>3, GoodSame
    <2>5. Beside(v, s, OverDevice)
      BY <2>2 DEF Beside, OverDevice
    <2> QED
      BY <1>2, <1>3, <2>2, <2>3, <2>4, <2>5 DEF s, syncWell, Kept
  <1>4. CASE c.dirty = TRUE
    <2>1. c.sector \in Sectors
      BY <1>1, <1>4 DEF BufferGood, BufferClean
    <2>2. /\ w \in Calls /\ Beside(v, w, {"dev", "log", "io", "ok"})
          /\ w.io = v.io - 1 /\ (v.io > 0 => w.ok = TRUE)
          /\ w.ok # TRUE => w.dev = v.dev
          /\ w.ok = TRUE => w.dev = [v.dev EXCEPT ![c.sector] = c.data]
      <3> DEFINE x == c.sector
                 y == c.data
      <3>1. x \in Sectors /\ y \in Contents
        BY <1>2, <2>1
      <3>2. w = writeSector(v, x, y)
        OBVIOUS
      <3> HIDE DEF x, y, w
      <3>3. /\ w \in Calls /\ Beside(v, w, {"dev", "log", "io", "ok"})
            /\ w.io = v.io - 1 /\ (v.io > 0 => w.ok = TRUE)
            /\ w.ok # TRUE => w.dev = v.dev
            /\ w.ok = TRUE => w.dev = [v.dev EXCEPT ![x] = y]
        BY <1>1, <3>1, <3>2, writeSectorIs
      <3> QED
        BY <3>3 DEF x, y
    <2>3. s = IF m.ok THEN [m EXCEPT !.cache.dirty = FALSE] ELSE m
      BY <1>4 DEF sync, Then
    <2> HIDE DEF w, m, s
    <2>4. w.cache = c /\ w.ok \in BOOLEAN
      BY <2>2 DEF Beside, Fields, Calls
    <2>5. m = w
      BY <1>2, <2>4 DEF m
    <2>6. Seen(v) = [v.dev EXCEPT ![c.sector] = c.data]
      BY <1>4 DEF Seen
    <2> HIDE DEF c
    <2>7. CASE w.ok # TRUE
      <3>1. s = w
        BY <2>3, <2>4, <2>5, <2>7
      <3>2. w \in Good /\ Seen(w) = Seen(v)
        BY <2>2, <2>4, <2>7, GoodSame DEF c
      <3>3. Beside(v, w, OverDevice)
        BY <2>2 DEF Beside, OverDevice
      <3>4. w.io \in v.io - 1 .. v.io
        BY <1>2, <2>2
      <3>5. syncWell(v, w)
        BY <2>2, <2>7, <3>2, <3>3, <3>4 DEF syncWell, Kept
      <3> QED
        BY <3>1, <3>5 DEF s
    <2>8. CASE w.ok = TRUE
      <3>1. s = [w EXCEPT !.cache = b]
        BY <2>3, <2>4, <2>5, <2>8
      <3>2. b \in Caches /\ b.sector = c.sector /\ b.data = c.data /\ b.dirty = FALSE
            /\ b.mirror = FALSE
        BY <1>2 DEF Caches
      <3> HIDE DEF b
      <3>3. s \in Calls /\ s.cache = b /\ Beside(w, s, {"cache"})
        BY <2>2, <3>1, <3>2, cacheIs
      <3>4. s.dev = w.dev /\ s.ok = TRUE /\ s.io = w.io
        BY <2>8, <3>3 DEF Beside, Fields
      <3>5. Seen(s) = Seen(v)
        BY <2>2, <2>6, <2>8, <3>2, <3>3, <3>4 DEF Seen
      <3>6. BufferGood(s)
        BY <1>2, <2>1, <2>2, <2>8, <3>2, <3>3, <3>4 DEF BufferGood, BufferClean
      <3>7. s \in Good
        BY <1>1, <3>3, <3>5, <3>6 DEF Good
      <3>8. Beside(v, s, OverDevice)
        BY <2>2, <3>3 DEF Beside, OverDevice
      <3>9. s.io \in v.io - 1 .. v.io
        BY <1>2, <2>2, <3>4
      <3> QED
        BY <3>2, <3>3, <3>4, <3>5, <3>7, <3>8, <3>9 DEF s, syncWell, Kept
    <2> QED
      BY <2>4, <2>7, <2>8
  <1> QED
    BY <1>2, <1>3, <1>4

\* A read that fails may leave other words in the buffer, and nothing else.
ReadWell(v, sector, r) ==
    /\ Beside(v, r, {"io", "ok", "cache"})
    /\ r.cache = [v.cache EXCEPT !.data = r.cache.data]
    /\ r.ok = TRUE => r.cache.data = v.dev[sector]
    /\ r.io = v.io - 1 /\ (v.io > 0 => r.ok = TRUE)
LEMMA readSectorIs ==
    ASSUME NEW v \in Calls, NEW sector \in Sectors
    PROVE  readSector(v, sector) \in Calls /\ ReadWell(v, sector, readSector(v, sector))
  <1> DEFINE a == access(v, sector)
             good == [a.cache EXCEPT !.data = a.dev[sector]]
             noise == a.noise[a.cache.sector]
             bad == [a.cache EXCEPT !.data = noise]
             x == [a EXCEPT !.cache = good]
             y == [a EXCEPT !.cache = bad]
             r == readSector(v, sector)
  <1>1. /\ a \in Calls /\ Beside(v, a, {"io", "ok"}) /\ a.io = v.io - 1
        /\ v.io > 0 => a.ok = TRUE
    <2>1. sector \in Int
      BY DEF Sectors
    <2> QED
      BY <2>1, accessIs
  <1>2. r = IF a.ok THEN x ELSE IF a.cache.sector \in DOMAIN a.noise THEN y ELSE a
    BY DEF readSector, With
  <1> HIDE DEF a, r
  <1>3. /\ a.ok \in BOOLEAN /\ a.cache \in Caches /\ a.dev \in [Sectors -> Contents]
        /\ a.noise \in Noises /\ a.cache = v.cache /\ a.dev = v.dev
    BY <1>1 DEF Calls, Beside, Fields
  <1>4. CASE a.ok = TRUE
    <2>1. r = x
      BY <1>2, <1>4
    <2>2. /\ good \in Caches /\ good.data = v.dev[sector]
          /\ good = [v.cache EXCEPT !.data = good.data]
      BY <1>3 DEF Caches
    <2> HIDE DEF good
    <2>3. x \in Calls /\ x.cache = good /\ Beside(a, x, {"cache"})
      BY <1>1, <2>2, cacheIs
    <2>4. Beside(v, x, {"io", "ok", "cache"}) /\ x.ok = TRUE /\ x.io = a.io
      BY <1>1, <1>4, <2>3 DEF Beside, Fields
    <2> QED
      BY <1>1, <2>1, <2>2, <2>3, <2>4 DEF ReadWell, r
  <1>5. CASE a.ok # TRUE /\ a.cache.sector \in DOMAIN a.noise
    <2>1. r = y
      BY <1>2, <1>3, <1>5
    <2>2. noise \in Contents
      <3>1. PICK X \in SUBSET Sectors : a.noise \in [X -> Contents]
        BY <1>3 DEF Noises
      <3> QED
        BY <1>5, <3>1
    <2> HIDE DEF noise
    <2>3. bad \in Caches /\ bad.data = noise /\ bad = [v.cache EXCEPT !.data = bad.data]
      BY <1>3, <2>2 DEF Caches
    <2> HIDE DEF bad
    <2>4. y \in Calls /\ y.cache = bad /\ Beside(a, y, {"cache"})
      BY <1>1, <2>3, cacheIs
    <2>5. Beside(v, y, {"io", "ok", "cache"}) /\ y.ok # TRUE /\ y.io = a.io
      BY <1>1, <1>5, <2>4 DEF Beside, Fields
    <2> QED
      BY <1>1, <1>3, <1>5, <2>1, <2>3, <2>4, <2>5 DEF ReadWell, r
  <1>6. CASE a.ok # TRUE /\ a.cache.sector \notin DOMAIN a.noise
    <2>1. r = a
      BY <1>2, <1>3, <1>6
    <2>2. a.cache = [v.cache EXCEPT !.data = a.cache.data]
      BY <1>3 DEF Caches
    <2>3. Beside(v, a, {"io", "ok", "cache"})
      BY <1>1 DEF Beside
    <2> QED
      BY <1>1, <1>3, <1>6, <2>1, <2>2, <2>3 DEF ReadWell, r
  <1> QED
    BY <1>4, <1>5, <1>6

\* The buffer has a sector, as the library sees it.
Holds(v, sector) == v.cache.sector = sector /\ v.cache.data = Seen(v)[sector]
loadWell(v, sector, p) ==
    /\ p \in Good /\ Kept(v, p) /\ p.io \in v.io - 2 .. v.io
    /\ p.ok = TRUE => Holds(p, sector)
    /\ v.io > 1 => p.ok = TRUE
LEMMA loadIs ==
    ASSUME NEW v \in Good, v.ok = TRUE, NEW sector \in Sectors, NEW option,
           option.noRead = FALSE
    PROVE  loadWell(v, sector, load(v, sector, option))
  <1> DEFINE p == load(v, sector, option)
             s == sync(v)
             r == readSector(s, sector)
             b == [emptyCache(r.cache.data) EXCEPT !.sector = sector]
             u == [r EXCEPT !.cache = b]
  <1>0. sector \in Int /\ v.io \in Int
    BY DEF Sectors, Good, Calls
  <1>1. /\ s \in Good /\ Kept(v, s) /\ s.io \in v.io - 1 .. v.io
        /\ s.ok = TRUE => s.cache.dirty = FALSE
        /\ v.io > 0 => s.ok = TRUE
    BY syncIs DEF syncWell
  <1>2. p = IF s.ok THEN IF r.ok THEN u ELSE r ELSE s
    BY DEF load, Then
  <1>3. s \in Calls /\ s.ok \in BOOLEAN
    BY <1>1 DEF Good, Calls
  <1>4. CASE s.ok # TRUE
    <2> HIDE DEF s
    <2>1. p = s
      BY <1>2, <1>3, <1>4
    <2> HIDE DEF p
    <2> QED
      <3>1. s.io \in v.io - 2 .. v.io
        BY <1>0, <1>1
      <3>2. ~(v.io > 0)
        BY <1>1, <1>4
      <3>3. ~(v.io > 1)
        BY <1>0, <3>2
      <3> QED
        BY <1>1, <1>4, <2>1, <3>1, <3>3 DEF p, loadWell
  <1>5. CASE s.ok = TRUE
    <2> HIDE DEF s, p
    <2>1. r \in Calls /\ r.ok \in BOOLEAN /\ ReadWell(s, sector, r)
      BY <1>3, readSectorIs DEF Calls
    <2> HIDE DEF r
    <2>2. /\ s.cache.dirty = FALSE /\ s.cache \in Caches /\ s.cache.mirror = FALSE
          /\ Seen(s) = s.dev
      BY <1>1, <1>3, <1>5 DEF Seen, Good, BufferGood, Calls
    <2>3. /\ r.dev = s.dev /\ r.dev \in [Sectors -> Contents]
          /\ r.cache.dirty = FALSE /\ r.cache.mirror = FALSE
      <3>1. r.cache.dirty = s.cache.dirty /\ r.cache.mirror = s.cache.mirror
        <4> DEFINE d == r.cache.data
        <4>1. r.cache = [s.cache EXCEPT !.data = d]
          BY <2>1 DEF ReadWell
        <4> HIDE DEF d
        <4> QED
          BY <2>2, <4>1 DEF Caches
      <3> QED
        BY <2>1, <2>2, <3>1 DEF ReadWell, Calls, Beside, Fields
    <2>4. Seen(r) = Seen(s)
      BY <2>2, <2>3 DEF Seen
    <2>5. Kept(v, r)
      BY <1>1, <2>1, <2>4 DEF Kept, ReadWell, Beside, OverDevice
    <2>6. r.io \in v.io - 2 .. v.io /\ (v.io > 1 => r.ok = TRUE)
      <3>1. r.io = s.io - 1 /\ (s.io > 0 => r.ok = TRUE)
        BY <2>1 DEF ReadWell
      <3>2. s.io \in v.io - 1 .. v.io
        BY <1>1
      <3> QED
        BY <1>0, <3>1, <3>2
    <2>7. CASE r.ok # TRUE
      <3>1. p = r
        BY <1>2, <1>5, <2>1, <2>7
      <3>2. r \in Good
        BY <1>1, <2>1, <2>3, <2>4, <2>7 DEF Good, BufferGood
      <3> QED
        BY <2>5, <2>6, <2>7, <3>1, <3>2 DEF p, loadWell
    <2>8. CASE r.ok = TRUE
      <3>1. p = u
        BY <1>2, <1>5, <2>8
      <3>2. b \in Caches /\ b.sector = sector /\ b.data = r.dev[sector]
            /\ b.dirty = FALSE /\ b.mirror = FALSE
        <4>1. r.cache.data = r.dev[sector]
          BY <2>1, <2>3, <2>8 DEF ReadWell
        <4> QED
          BY <2>3, <4>1 DEF emptyCache, Caches, NoSector
      <3> HIDE DEF b
      <3>3. u \in Calls /\ u.cache = b /\ Beside(r, u, {"cache"})
        BY <2>1, <3>2, cacheIs
      <3> HIDE DEF u
      <3>4. u.dev = r.dev /\ u.ok = r.ok /\ u.io = r.io
        BY <3>3 DEF Beside, Fields
      <3>5. Seen(u) = r.dev /\ Seen(r) = r.dev
        BY <2>3, <3>2, <3>3, <3>4 DEF Seen
      <3>6. u \in Good
        <4>1. BufferGood(u)
          BY <3>2, <3>3, <3>4 DEF BufferGood, BufferClean
        <4> QED
          BY <1>1, <2>4, <3>3, <3>5, <4>1 DEF Good
      <3>7. Kept(v, u)
        BY <2>5, <3>3, <3>5 DEF Kept, Beside, OverDevice
      <3>8. Holds(u, sector)
        BY <3>2, <3>3, <3>5 DEF Holds
      <3> QED
        BY <2>6, <2>8, <3>1, <3>4, <3>6, <3>7, <3>8 DEF p, loadWell
    <2> QED
      BY <2>1, <2>7, <2>8
  <1> QED
    BY <1>3, <1>4, <1>5

\* A sector is brought into the buffer, or the call fails; nothing is seen of it.
prepareWell(v, sector, option, p) ==
    /\ p \in Good /\ Kept(v, p) /\ p.io \in v.io - 2 .. v.io
    /\ p.ok = TRUE => Holds(p, sector) /\ (option.write = TRUE => p.cache.dirty = TRUE)
    /\ v.io > 1 => p.ok = TRUE
LEMMA prepareIs ==
    ASSUME NEW v \in Good, v.ok = TRUE, NEW sector \in Sectors,
           NEW option \in {ForRead, ForWrite}
    PROVE  prepareWell(v, sector, option, prepare(v, sector, option))
  <1> DEFINE p == prepare(v, sector, option)
             q == IF v.cache.sector = sector THEN done(v) ELSE load(v, sector, option)
             b == [q.cache EXCEPT !.dirty = q.cache.dirty \/ option.write,
                                  !.mirror = q.cache.mirror \/ option.mirror]
             u == [q EXCEPT !.cache = b]
  <1>1. option.noRead = FALSE /\ option.mirror = FALSE /\ option.write \in BOOLEAN
    <2>1. CASE option = ForRead
      BY <2>1 DEF ForRead
    <2>2. CASE option = ForWrite
      BY <2>2 DEF ForRead, ForWrite
    <2> QED
      BY <2>1, <2>2
  <1>2. v \in Calls /\ v.io \in Int /\ v.dev \in [Sectors -> Contents] /\ v.cache \in Caches
    BY DEF Good, Calls
  <1>3. /\ q \in Good /\ Kept(v, q) /\ q.io \in v.io - 2 .. v.io
        /\ q.ok = TRUE => Holds(q, sector)
        /\ v.io > 1 => q.ok = TRUE
    <2>1. CASE v.cache.sector = sector
      <3>1. q = [v EXCEPT !.ok = TRUE]
        BY <2>1 DEF done
      <3> HIDE DEF q
      <3>2. q \in Calls /\ Beside(v, q, {"ok"}) /\ q.ok = TRUE
        BY <1>2, <3>1, okIs
      <3>3. q.dev = v.dev /\ q.cache = v.cache /\ q.io = v.io
        BY <3>2 DEF Beside, Fields
      <3>4. q \in Good /\ Seen(q) = Seen(v)
        BY <3>2, <3>3, GoodSame
      <3>5. Kept(v, q)
        BY <3>2, <3>4 DEF Kept, Beside, OverDevice
      <3>6. v.cache.data = Seen(v)[sector]
        <4>1. /\ v.cache.dirty \in BOOLEAN /\ sector # NoSector
              /\ v.cache.data \in Contents /\ BufferGood(v)
          BY <1>2, Geometry DEF Caches, Good
        <4>2. CASE v.cache.dirty = TRUE
          BY <1>2, <2>1, <4>1, <4>2 DEF Seen
        <4>3. CASE v.cache.dirty = FALSE
          BY <1>2, <2>1, <4>1, <4>3 DEF Seen, BufferGood, BufferClean
        <4> QED
          BY <4>1, <4>2, <4>3
      <3> QED
        BY <1>2, <2>1, <3>2, <3>3, <3>4, <3>5, <3>6 DEF Holds
    <2>2. CASE v.cache.sector # sector
      <3>1. q = load(v, sector, option)
        BY <2>2
      <3> HIDE DEF q
      <3> QED
        BY <1>1, <3>1, loadIs DEF loadWell
    <2> QED
      BY <2>1, <2>2
  <1>4. p = IF q.ok THEN u ELSE q
    BY DEF prepare, Then
  <1> HIDE DEF q, p
  <1>5. q \in Calls /\ q.ok \in BOOLEAN /\ q.cache \in Caches /\ q.dev \in [Sectors -> Contents]
        /\ BufferGood(q) /\ Seen(q) \in Devices
    BY <1>3 DEF Good, Calls
  <1>6. CASE q.ok # TRUE
    <2>1. p = q
      BY <1>4, <1>5, <1>6
    <2> QED
      BY <1>3, <1>6, <2>1 DEF p, prepareWell
  <1>7. CASE q.ok = TRUE
    <2>1. p = u
      BY <1>4, <1>7
    <2>2. /\ b \in Caches /\ b.sector = q.cache.sector /\ b.data = q.cache.data
          /\ b.dirty = (q.cache.dirty \/ option.write) /\ b.mirror = FALSE
          /\ q.cache.dirty \in BOOLEAN
      BY <1>1, <1>5 DEF Caches, BufferGood, BufferClean
    <2>3. q.cache.sector = sector /\ q.cache.data = Seen(q)[sector]
      BY <1>3, <1>7 DEF Holds
    <2> HIDE DEF b
    <2>4. u \in Calls /\ u.cache = b /\ Beside(q, u, {"cache"})
      BY <1>5, <2>2, cacheIs
    <2> HIDE DEF u
    <2>5. u.dev = q.dev /\ u.ok = TRUE /\ u.io = q.io
      BY <1>7, <2>4 DEF Beside, Fields
    <2>6. Seen(u) = Seen(q)
      <3>1. CASE b.dirty = q.cache.dirty
        BY <2>2, <2>4, <2>5, <3>1 DEF Seen
      <3>2. CASE b.dirty = TRUE /\ q.cache.dirty = FALSE
        <4>1. Seen(q) = q.dev /\ Seen(u) = [q.dev EXCEPT ![sector] = q.cache.data]
          BY <2>2, <2>3, <2>4, <2>5, <3>2 DEF Seen
        <4>2. q.cache.data = q.dev[sector]
          BY <2>3, <4>1
        <4> QED
          BY <1>5, <4>1, <4>2
      <3> QED
        BY <1>1, <2>2, <3>1, <3>2
    <2>7. BufferGood(u)
      <3>1. b.dirty = FALSE => q.cache.dirty = FALSE
        BY <1>1, <2>2
      <3> QED
        BY <1>5, <1>7, <2>2, <2>3, <2>4, <2>5, <3>1 DEF BufferGood, BufferClean
    <2>8. u \in Good
      BY <1>5, <2>4, <2>6, <2>7 DEF Good
    <2>9. Kept(v, u)
      BY <1>3, <2>4, <2>6 DEF Kept, Beside, OverDevice
    <2>10. Holds(u, sector) /\ (option.write = TRUE => u.cache.dirty = TRUE)
      BY <2>2, <2>3, <2>4, <2>6 DEF Holds
    <2> QED
      BY <1>3, <1>7, <2>1, <2>5, <2>8, <2>9, <2>10 DEF p, prepareWell
  <1> QED
    BY <1>5, <1>6, <1>7

-----------------------------------------------------------------------------
(* One word.                                                               *)

\* A word that is put into the buffer is seen at its place.
LEMMA wordIs ==
    ASSUME NEW p \in Good, NEW s \in Sectors, NEW i \in Words, NEW x \in Word,
           Holds(p, s), p.cache.dirty = TRUE, Put(Seen(p), {<<s, i>>}, x) \in Devices
    PROVE  LET u == [p EXCEPT !.cache.data[i] = x]
           IN  /\ u \in Good /\ Beside(p, u, {"cache"}) /\ u.ok = p.ok /\ u.io = p.io
               /\ Seen(u) = Put(Seen(p), {<<s, i>>}, x)
  <1> DEFINE c == p.cache
             data == [c.data EXCEPT ![i] = x]
             b == [c EXCEPT !.data = data]
             u == [p EXCEPT !.cache = b]
             e == Put(Seen(p), {<<s, i>>}, x)
  <1>1. p \in Calls /\ c \in Caches /\ p.dev \in [Sectors -> Contents] /\ c.sector = s
        /\ c.data = Seen(p)[s] /\ c.dirty = TRUE /\ BufferGood(p)
        /\ Seen(p) \in [Sectors -> Contents] /\ c.data \in Contents
    BY SeenIs DEF Good, Calls, Holds, Caches
  <1>2. [p EXCEPT !.cache.data[i] = x] = u
    OBVIOUS
  <1>3. data \in Contents /\ \A j \in Words : data[j] = IF j = i THEN x ELSE c.data[j]
    BY <1>1 DEF Contents
  <1> HIDE DEF data
  <1>4. b \in Caches /\ b.sector = s /\ b.data = data /\ b.dirty = TRUE
        /\ b.mirror = FALSE
    BY <1>1, <1>3 DEF Caches, BufferGood, BufferClean
  <1> HIDE DEF b
  <1>5. u \in Calls /\ u.cache = b /\ Beside(p, u, {"cache"})
    BY <1>1, <1>4, cacheIs
  <1> HIDE DEF u
  <1>6. u.dev = p.dev /\ u.ok = p.ok /\ u.io = p.io
    BY <1>5 DEF Beside, Fields
  <1>7. Seen(p) = [p.dev EXCEPT ![s] = c.data] /\ Seen(u) = [p.dev EXCEPT ![s] = data]
    BY <1>1, <1>4, <1>5, <1>6 DEF Seen
  <1>8. Seen(u) = e
    <2>1. Seen(u) \in [Sectors -> Contents]
      BY <1>1, <1>3, <1>7
    <2>2. e \in [Sectors -> Contents]
      BY <1>1, PutIs
    <2>3. ASSUME NEW t \in Sectors, NEW j \in Words PROVE Seen(u)[t][j] = e[t][j]
      <3>1. e[t][j] = IF <<t, j>> \in {<<s, i>>} THEN x ELSE Seen(p)[t][j]
        <4> DEFINE X == {<<s, i>>}
                   d == Seen(p)
        <4>1. d \in [Sectors -> Contents]
          BY <1>1
        <4> HIDE DEF X, d
        <4>2. Put(d, X, x)[t][j] = IF <<t, j>> \in X THEN x ELSE d[t][j]
          BY <4>1, PutIs
        <4> QED
          BY <4>2 DEF X, d
      <3>2. <<t, j>> \in {<<s, i>>} <=> t = s /\ j = i
        OBVIOUS
      <3>3. Seen(u)[t] = IF t = s THEN data ELSE Seen(p)[t]
        BY <1>1, <1>7
      <3> HIDE DEF e
      <3>4. CASE t = s
        <4>1. Seen(u)[t][j] = IF j = i THEN x ELSE Seen(p)[t][j]
          BY <1>1, <1>3, <3>3, <3>4
        <4> QED
          BY <3>1, <3>2, <3>4, <4>1, Zenon
      <3>5. CASE t # s
        BY <3>1, <3>2, <3>3, <3>5, Zenon
      <3> QED
        BY <3>4, <3>5
    <2> HIDE DEF e
    <2> QED
      BY <2>1, <2>2, <2>3, WordForWord
  <1>9. BufferGood(u)
    BY <1>4, <1>5 DEF BufferGood, BufferClean
  <1>10. u \in Good
    BY <1>5, <1>8, <1>9 DEF Good
  <1> QED
    BY <1>2, <1>5, <1>6, <1>8, <1>10

\* A bit is turned over when it has the other value, and nothing else is.
flipWell(v, bit, value, w) ==
    /\ w \in Good /\ Beside(v, w, OverDevice) /\ w.io \in v.io - 2 .. v.io
    /\ w.ok = TRUE => /\ BitsOf(Seen(v))[bit] # value
                      /\ Seen(w) = Put(Seen(v), Places({bit}), value)
    /\ w.ok # TRUE => /\ Seen(w) = Seen(v)
                      /\ v.io <= 1 \/ BitsOf(Seen(v))[bit] = value
LEMMA flipBitIs ==
    ASSUME NEW v \in Good, v.ok = TRUE, NEW bit \in Bits, NEW value \in BOOLEAN
    PROVE  flipWell(v, bit, value, flipBit(v, bit, value))
  <1> DEFINE s == BitmapSector(bit)
             i == bit % BytesPerSector
             p == prepare(v, s, ForWrite)
             f == [p EXCEPT !.ok = FALSE]
             u == [p EXCEPT !.cache.data[i] = value]
             w == flipBit(v, bit, value)
  <1>1. s \in Sectors /\ i \in Words /\ v.io \in Int
    BY PlaceIs DEF Good, Calls
  <1>2. prepareWell(v, s, ForWrite, p)
    BY <1>1, prepareIs
  <1>3. w = IF p.ok THEN IF p.cache.data[i] = value THEN f ELSE u ELSE p
    BY DEF flipBit, Then, fail
  <1>4. Places({bit}) = {<<s, i>>}
    BY DEF Places, Place
  <1>5. BitsOf(Seen(v))[bit] = Seen(v)[s][i]
    BY DEF BitsOf
  <1>6. /\ p \in Good /\ p \in Calls /\ p.ok \in BOOLEAN /\ p.io \in v.io - 2 .. v.io
        /\ Beside(v, p, OverDevice) /\ Seen(p) = Seen(v)
        /\ v.io > 1 => p.ok = TRUE
    BY <1>2 DEF prepareWell, Kept, Good, Calls
  <1>7. p.ok = TRUE => /\ Holds(p, s) /\ p.cache.dirty = TRUE
                       /\ p.cache.data[i] = Seen(v)[s][i]
    BY <1>2, <1>6 DEF prepareWell, Holds, ForWrite, ForRead
  <1> HIDE DEF p, w
  <1>8. CASE p.ok # TRUE
    <2>1. w = p
      BY <1>3, <1>6, <1>8
    <2>2. ~(v.io > 1)
      BY <1>6, <1>8
    <2>3. v.io <= 1
      BY <1>1, <2>2
    <2> QED
      BY <1>6, <1>8, <2>1, <2>3 DEF flipWell, w
  <1>9. CASE p.ok = TRUE /\ Seen(v)[s][i] = value
    <2>1. w = f
      BY <1>3, <1>7, <1>9
    <2>2. f \in Calls /\ f.ok = FALSE /\ Beside(p, f, {"ok"})
      BY <1>6, okIs
    <2> HIDE DEF f
    <2>3. f.dev = p.dev /\ f.cache = p.cache /\ f.io = p.io
      BY <2>2 DEF Beside, Fields
    <2>4. f \in Good /\ Seen(f) = Seen(p)
      BY <1>6, <2>2, <2>3, GoodSame
    <2>5. Beside(v, f, OverDevice)
      BY <1>6, <2>2 DEF Beside, OverDevice
    <2> QED
      BY <1>5, <1>6, <1>9, <2>1, <2>2, <2>3, <2>4, <2>5 DEF flipWell, w
  <1>10. CASE p.ok = TRUE /\ Seen(v)[s][i] # value
    <2>1. w = u
      BY <1>3, <1>7, <1>10
    <2>2. value \in Word
      BY DEF Word
    <2>3. Seen(v) \in Devices
      BY SeenIs
    <2>4. Put(Seen(p), {<<s, i>>}, value) \in Devices
      <3>1. {bit} \subseteq Bits
        OBVIOUS
      <3>2. Put(Seen(v), Places({bit}), value) \in Devices
        BY <2>3, <3>1, PutBits
      <3> QED
        BY <1>4, <1>6, <3>2
    <2>5. /\ u \in Good /\ Beside(p, u, {"cache"}) /\ u.ok = p.ok /\ u.io = p.io
          /\ Seen(u) = Put(Seen(p), {<<s, i>>}, value)
      <3> HIDE DEF s, i
      <3> QED
        BY <1>1, <1>6, <1>7, <1>10, <2>2, <2>4, wordIs
    <2> HIDE DEF u
    <2>6. Beside(v, u, OverDevice)
      BY <1>6, <2>5 DEF Beside, OverDevice
    <2> QED
      BY <1>4, <1>5, <1>6, <1>10, <2>1, <2>5, <2>6 DEF flipWell, w
  <1> QED
    BY <1>6, <1>8, <1>9, <1>10

-----------------------------------------------------------------------------
(* A run of bits.                                                          *)

\* The first n of k bits have been turned over: all of them, or those before
\* one that has the value already or that could not be reached.
FirstTurned(v, bit, value, k, x, n) ==
    /\ Seen(x) = Put(Seen(v), Places(bit .. bit + n - 1), value)
    /\ \A b \in bit .. bit + n - 1 : BitsOf(Seen(v))[b] # value
    /\ x.ok = TRUE => n = k
    /\ x.ok # TRUE => n < k /\ (v.io < 2 * k \/ BitsOf(Seen(v))[bit + n] = value)
flipsWell(v, bit, value, k, x) ==
    /\ x \in Good /\ Beside(v, x, OverDevice) /\ x.io \in v.io - 2 * k .. v.io
    /\ \E n \in 0 .. k : FirstTurned(v, bit, value, k, x, n)

LEMMA flipsOn ==
    ASSUME NEW v \in Good, NEW bit \in Bits, NEW value \in BOOLEAN, NEW k \in Nat \ {0},
           bit + k <= ClusterCount, NEW x, flipsWell(v, bit, value, k - 1, x),
           x.ok = TRUE
    PROVE  flipsWell(v, bit, value, k, flipBit(x, bit + k - 1, value))
  <1> DEFINE c == bit + k - 1
             w == flipBit(x, c, value)
             d == Seen(v)
             R == bit .. bit + (k - 1) - 1
             n == k - 1
  <1>1. bit \in Nat /\ c \in Bits /\ c = bit + n /\ n \in Nat
    BY Geometry DEF Bits
  <1>2. PICK m \in 0 .. n : FirstTurned(v, bit, value, n, x, m)
    BY DEF flipsWell
  <1>3. m = n
    BY <1>2 DEF FirstTurned
  <1>4. /\ x \in Good /\ Beside(v, x, OverDevice) /\ x.io \in v.io - 2 * n .. v.io
        /\ Seen(x) = Put(d, Places(R), value)
        /\ \A b \in R : BitsOf(d)[b] # value
        /\ v.io \in Int /\ x.io \in Int
    BY <1>2, <1>3 DEF flipsWell, FirstTurned, Good, Calls
  <1> HIDE DEF c
  <1>5. flipWell(x, c, value, w)
    BY <1>1, <1>4, flipBitIs
  <1> HIDE DEF w
  <1>6. /\ w \in Good /\ Beside(v, w, OverDevice) /\ w.io \in x.io - 2 .. x.io
        /\ w.ok \in BOOLEAN
    BY <1>4, <1>5 DEF flipWell, Beside, Good, Calls
  <1>7. w.io \in v.io - 2 * k .. v.io
    <2>1. w.io \in Int
      BY <1>6 DEF Good, Calls
    <2> QED
      BY <1>4, <1>6, <2>1
  <1>8. d \in Devices /\ d \in [Sectors -> Contents] /\ R \subseteq Bits /\ c \notin R
        /\ value \in Word
    BY <1>1, SeenIs, Geometry DEF Bits, Word
  <1>9. BitsOf(Seen(x))[c] = BitsOf(d)[c]
    <2> HIDE DEF R, d
    <2>1. BitsOf(Put(d, Places(R), value)) =
              [b \in Bits |-> IF b \in R THEN value ELSE BitsOf(d)[b]]
      BY <1>8, PutBits
    <2> QED
      BY <1>1, <1>4, <1>8, <2>1
  <1>10. CASE w.ok = TRUE
    <2>1. BitsOf(d)[c] # value /\ Seen(w) = Put(Seen(x), Places({c}), value)
      BY <1>5, <1>9, <1>10 DEF flipWell
    <2>2. Seen(w) = Put(d, Places(R) \cup Places({c}), value)
      <3> HIDE DEF R, d
      <3>1. Put(Put(d, Places(R), value), Places({c}), value) =
                Put(d, Places(R) \cup Places({c}), value)
        <4> DEFINE Y == {c}
        <4>1. d \in [Sectors -> Contents] /\ value \in BOOLEAN
          BY <1>8
        <4> HIDE DEF Y
        <4>2. Put(Put(d, Places(R), value), Places(Y), value) =
                  Put(d, Places(R) \cup Places(Y), value)
          BY ONLY <4>1, PutRuns
        <4> QED
          BY <4>2 DEF Y
      <3> QED
        BY <1>4, <2>1, <3>1
    <2>3. Places(R) \cup Places({c}) = Places(bit .. bit + k - 1)
      <3>1. R \cup {c} = bit .. bit + k - 1
        BY <1>1
      <3>2. Places(R) \cup Places({c}) = Places(R \cup {c})
        BY DEF Places
      <3> QED
        BY <3>1, <3>2
    <2>4. \A b \in bit .. bit + k - 1 : b \in R \/ b = c
      BY <1>1
    <2>5. FirstTurned(v, bit, value, k, w, k)
      <3> HIDE DEF R
      <3> QED
        BY <1>4, <1>10, <2>1, <2>2, <2>3, <2>4 DEF FirstTurned, d
    <2>6. k \in 0 .. k
      OBVIOUS
    <2> QED
      BY <1>6, <1>7, <2>5, <2>6 DEF flipsWell, w, c
  <1>11. CASE w.ok # TRUE
    <2>1. Seen(w) = Seen(x) /\ (x.io <= 1 \/ BitsOf(d)[c] = value)
      BY <1>5, <1>9, <1>11 DEF flipWell
    <2>2. x.io <= 1 => v.io < 2 * k
      BY <1>4
    <2>3. FirstTurned(v, bit, value, k, w, n)
      <3>1. n < k /\ bit + n = c
        BY <1>1
      <3> HIDE DEF n
      <3> QED
        BY <1>1, <1>4, <1>11, <2>1, <2>2, <3>1 DEF FirstTurned, n
    <2>4. n \in 0 .. k
      OBVIOUS
    <2> QED
      BY <1>6, <1>7, <2>3, <2>4 DEF flipsWell, w, c
  <1> QED
    BY <1>6, <1>10, <1>11 DEF c

\* A failure ends it.
LEMMA flipsOver ==
    ASSUME NEW v \in Good, NEW bit, NEW value, NEW k \in Nat \ {0}, NEW x,
           flipsWell(v, bit, value, k - 1, x), x.ok # TRUE
    PROVE  flipsWell(v, bit, value, k, x)
  <1>1. PICK n \in 0 .. k - 1 : FirstTurned(v, bit, value, k - 1, x, n)
    BY DEF flipsWell
  <1>2. v.io \in Int /\ x.io \in Int
    BY DEF flipsWell, Good, Calls
  <1>3. x.io \in v.io - 2 * k .. v.io
    BY <1>2 DEF flipsWell
  <1>4. v.io < 2 * (k - 1) => v.io < 2 * k
    BY <1>2
  <1>5. n < k - 1 => n < k
    OBVIOUS
  <1>6. FirstTurned(v, bit, value, k, x, n)
    BY <1>1, <1>4, <1>5 DEF FirstTurned
  <1>7. n \in 0 .. k
    OBVIOUS
  <1> QED
    BY <1>3, <1>6, <1>7 DEF flipsWell

LEMMA flipIs ==
    ASSUME NEW v \in Good, v.ok = TRUE, NEW bit \in Bits, NEW count \in Nat \ {0},
           bit + count <= ClusterCount, NEW value \in BOOLEAN
    PROVE  flipsWell(v, bit, value, count, flip(v, bit, count, value))
  <1> DEFINE S == Good
             n == IF count > 0 THEN count ELSE BitmapClusters * BytesPerCluster - bit
             b == [v EXCEPT !.ok = TRUE]
             U == {y \in Nat \X S : flipsWell(v, bit, value, y[1], y[2])}
             Step(k, s) == IF s.ok THEN flipBit(s, bit + k - 1, value) ELSE s
             G == [y \in Int \X S |-> Step(y[1], y[2])]
             Is(f) == f = [k \in 0 .. n |-> IF k = 0 THEN b ELSE Step(k, f[k - 1])]
             after == CHOOSE f : Is(f)
             f == flip(v, bit, count, value)
  <1>1. v \in Calls /\ v.io \in Int
    BY DEF Good, Calls
  <1>2. n = count /\ n \in Nat
    OBVIOUS
  <1>3. bit \in Nat /\ value \in Word
    BY DEF Bits, Word
  <1>4. f = after[n]
    BY DEF flip, Then, done
  <1>5. b \in S /\ flipsWell(v, bit, value, 0, b)
    <2>1. b \in Calls /\ b.ok = TRUE /\ Beside(v, b, {"ok"})
      BY <1>1, okIs
    <2> HIDE DEF b
    <2>2. b.dev = v.dev /\ b.cache = v.cache /\ b.io = v.io
      BY <2>1 DEF Beside, Fields
    <2>3. b \in Good /\ Seen(b) = Seen(v)
      BY <2>1, <2>2, GoodSame
    <2>4. Beside(v, b, OverDevice)
      BY <2>1 DEF Beside, OverDevice
    <2>5. \A y : y \notin bit .. bit + 0 - 1
      BY <1>3
    <2>6. Put(Seen(v), Places(bit .. bit + 0 - 1), value) = Seen(v)
      <3> DEFINE X == Places(bit .. bit + 0 - 1)
      <3>1. \A y : y \notin X
        BY <2>5 DEF Places
      <3> HIDE DEF X
      <3>2. Put(Seen(v), X, value) = Seen(v)
        BY <1>3, <3>1, SeenIs, PutNone
      <3> QED
        BY <3>2 DEF X
    <2>7. FirstTurned(v, bit, value, 0, b, 0)
      BY <2>1, <2>3, <2>5, <2>6 DEF FirstTurned
    <2>8. b.io \in v.io - 2 * 0 .. v.io /\ 0 \in 0 .. 0
      BY <1>1, <2>2
    <2> QED
      BY <2>3, <2>4, <2>7, <2>8 DEF flipsWell
  <1> HIDE DEF f, b
  <1>6. ASSUME NEW k \in 1 .. n, NEW s \in S, <<k - 1, s>> \in U
        PROVE  Step(k, s) \in S /\ <<k, Step(k, s)>> \in U
    <2>1. flipsWell(v, bit, value, k - 1, s)
      BY <1>6
    <2>2. k \in Nat \ {0} /\ s.ok \in BOOLEAN /\ bit + k <= ClusterCount
      BY <1>2, <1>3, Geometry DEF Good, Calls
    <2>3. CASE s.ok = TRUE
      <3>1. Step(k, s) = flipBit(s, bit + k - 1, value)
        BY <2>3
      <3>2. flipsWell(v, bit, value, k, flipBit(s, bit + k - 1, value))
        BY <2>1, <2>2, <2>3, flipsOn
      <3> QED
        BY <2>2, <3>1, <3>2 DEF flipsWell
    <2>4. CASE s.ok # TRUE
      <3>1. Step(k, s) = s
        BY <2>2, <2>4
      <3>2. flipsWell(v, bit, value, k, s)
        BY <2>1, <2>2, <2>4, flipsOver
      <3> QED
        BY <2>2, <3>1, <3>2
    <2> QED
      BY <2>3, <2>4
  <1>7. ASSUME NEW k \in Int, NEW s \in S PROVE G[<<k, s>>] = Step(k, s)
    OBVIOUS
  <1>8. <<0, b>> \in U
    BY <1>5
  <1>9. \A k, s : <<k, s>> \in U => s \in S /\ flipsWell(v, bit, value, k, s)
    OBVIOUS
  <1> HIDE DEF S, U, G, Step, n
  <1>10. \E g : Is(g)
    <2>1. ASSUME NEW k \in 1 .. n, NEW s \in S, <<k - 1, s>> \in U
          PROVE  G[<<k, s>>] \in S /\ <<k, G[<<k, s>>]>> \in U
      BY <1>2, <1>6, <1>7, <2>1
    <2>2. b \in S
      BY <1>9, <1>8
    <2>3. \E g \in [0 .. n -> S] :
              Loop(g, b, G, n) /\ \A k \in 0 .. n : <<k, g[k]>> \in U
      BY ONLY <1>2, <1>8, <2>1, <2>2, LoopRuns
    <2>4. PICK g \in [0 .. n -> S] : Loop(g, b, G, n)
      BY <2>3
    <2>5. ASSUME NEW k \in 0 .. n, k # 0 PROVE G[<<k, g[k - 1]>>] = Step(k, g[k - 1])
      <3>1. k - 1 \in 0 .. n /\ k \in Int
        BY <1>2, <2>5
      <3>2. g[k - 1] \in S
        BY <3>1
      <3> QED
        BY <3>1, <3>2, <1>7
    <2>6. Is(g)
      BY <2>4, <2>5 DEF Loop
    <2> QED
      BY <2>6
  <1>11. Is(after)
    BY <1>10, Zenon
  <1> HIDE DEF after
  <1>12. after[0] = b /\ \A k \in 1 .. n : after[k] = Step(k, after[k - 1])
    BY <1>2, <1>11
  <1> HIDE DEF Is
  <1>13. <<0, after[0]>> \in U
    BY <1>8, <1>12
  <1>14. ASSUME NEW k \in 1 .. n, <<k - 1, after[k - 1]>> \in U
         PROVE  <<k, after[k]>> \in U
    <2>1. after[k - 1] \in S
      BY <1>9, <1>14
    <2> QED
      BY <1>6, <1>12, <1>14, <2>1
  <1>15. <<n, after[n]>> \in U
    <2>1. \A k \in 0 .. n : <<k, after[k]>> \in U
      BY ONLY <1>2, <1>13, <1>14, LoopKeepsAt
    <2> QED
      BY <1>2, <2>1
  <1> QED
    BY <1>2, <1>4, <1>9, <1>15 DEF f

\* The search goes on behind what is taken, and not behind what is given back.
\* A run that does not lie in the volume is left alone.
ModifiedWell(v, cluster, count, value, w) ==
    LET start == cluster - 2
    IN  /\ w \in Good /\ Beside(v, w, OverDevice \cup {"search"})
        /\ w.io \in v.io - 2 * count .. v.io
        /\ start + count > ClusterCount =>
               w.ok # TRUE /\ Seen(w) = Seen(v) /\ w.search = v.search
        /\ start + count <= ClusterCount =>
              /\ \E n \in 0 .. count : FirstTurned(v, start, value, count, w, n)
              /\ value = TRUE => \/ w.search = v.search /\ v.search \notin start .. start + count - 1
                                 \/ w.search = start + count
                                 \/ w.search = 0 /\ start + count = ClusterCount
              /\ value = FALSE => w.search <= start /\ w.search <= v.search

\* bitmapModify turns over exactly the bits of the run, each of which had the
\* other value, and no other word that the library sees. One that fails has
\* turned over a first part of them, up to a bit that had the value already or
\* that could not be reached: with accesses enough the call fails for no other
\* reason.
THEOREM BitsModified ==
    ASSUME NEW v \in Good, v.ok = TRUE, NEW cluster \in Clusters, NEW count \in Nat \ {0},
           NEW value \in BOOLEAN
    PROVE  ModifiedWell(v, cluster, count, value, bitmapModify(v, cluster, count, value))
  <1> DEFINE start == cluster - 2
             end == start + count
             within == start <= v.search /\ v.search < end
             search == IF value /\ within THEN IF end < ClusterCount THEN end ELSE 0
                       ELSE IF ~value /\ start < v.search THEN start ELSE v.search
             x == [v EXCEPT !.search = search]
             w == bitmapModify(v, cluster, count, value)
  <1>1. /\ start \in Bits /\ start \in Nat /\ end \in Nat /\ v.search \in Bits
        /\ v.search \in Nat /\ v \in Calls /\ v.io \in Int /\ ClusterCount \in Nat
    <2>1. v.search \in Bits /\ v \in Calls /\ v.io \in Int
      BY DEF Good, Calls
    <2>2. cluster \in 2 .. ClusterCount + 1 /\ ClusterCount \in Nat
      BY Geometry DEF Clusters
    <2>3. start \in 0 .. ClusterCount - 1 /\ start \in Nat /\ end \in Nat
      BY <2>2
    <2> HIDE DEF start, end
    <2> QED
      BY <2>1, <2>2, <2>3 DEF Bits
  <1>2. w = IF end \notin 0 .. ClusterCount THEN [v EXCEPT !.ok = FALSE]
            ELSE flip(x, start, count, value)
    BY DEF bitmapModify, fail
  <1>3. CASE end > ClusterCount
    <2>1. w = [v EXCEPT !.ok = FALSE]
      BY <1>1, <1>2, <1>3
    <2> HIDE DEF w, end
    <2>2. w \in Calls /\ w.ok = FALSE /\ Beside(v, w, {"ok"})
      BY <1>1, <2>1, okIs
    <2>3. w.dev = v.dev /\ w.cache = v.cache /\ w.io = v.io /\ w.search = v.search
      BY <2>2 DEF Beside, Fields
    <2>4. w \in Good /\ Seen(w) = Seen(v)
      BY <2>2, <2>3, GoodSame
    <2>5. Beside(v, w, OverDevice \cup {"search"})
      BY <2>2 DEF Beside, OverDevice
    <2>6. w.io \in v.io - 2 * count .. v.io
      BY <1>1, <2>3
    <2>7. ~(start + count <= ClusterCount)
      BY <1>1, <1>3 DEF end
    <2> QED
      BY <2>2, <2>3, <2>4, <2>5, <2>6, <2>7 DEF ModifiedWell, w
  <1>4. CASE end <= ClusterCount
    <2>1. w = flip(x, start, count, value)
      BY <1>1, <1>2, <1>4
    <2>2. search \in Bits
      BY <1>1, <1>4, Geometry DEF Bits
    <2>3. value = TRUE => \/ search = v.search /\ v.search \notin start .. start + count - 1
                          \/ search = start + count
                          \/ search = 0 /\ start + count = ClusterCount
      BY <1>1, <1>4
    <2>4. value = FALSE => search <= start /\ search <= v.search
      BY <1>1
    <2> HIDE DEF search, w
    <2>5. x \in Calls /\ x.search = search /\ Beside(v, x, {"search"})
      BY <1>1, <2>2, searchIs
    <2> HIDE DEF x
    <2>6. x.dev = v.dev /\ x.cache = v.cache /\ x.io = v.io /\ x.ok = TRUE
      BY <2>5 DEF Beside, Fields
    <2>7. x \in Good /\ Seen(x) = Seen(v)
      BY <2>5, <2>6, GoodSame
    <2>8. flipsWell(x, start, value, count, w)
      <3>1. start + count <= ClusterCount
        BY <1>4
      <3> HIDE DEF start, end
      <3> QED
        BY <1>1, <2>1, <2>6, <2>7, <3>1, flipIs
    <2>9. Beside(v, w, OverDevice \cup {"search"}) /\ w.search = search
      BY <2>5, <2>8 DEF flipsWell, Beside, OverDevice, Fields
    <2>10. \E n \in 0 .. count : FirstTurned(v, start, value, count, w, n)
      BY <2>6, <2>7, <2>8 DEF flipsWell, FirstTurned
    <2>11. w \in Good /\ w.io \in v.io - 2 * count .. v.io
      BY <2>6, <2>8 DEF flipsWell
    <2>12. ~(start + count > ClusterCount)
      BY <1>1, <1>4
    <2> HIDE DEF start, end
    <2> QED
      BY <2>3, <2>4, <2>9, <2>10, <2>11, <2>12 DEF ModifiedWell, w, start
  <1> QED
    BY <1>1, <1>3, <1>4

-----------------------------------------------------------------------------
(* The search for a run of clear bits.                                     *)

RunAt(B, s, n) == \A b \in s .. s + n - 1 : B[b] = FALSE
NoRunIn(B, lo, hi, n) == \A s \in lo .. hi - n : ~RunAt(B, s, n)

\* A search that began at lo and has come to bit: the bits from bgn on are
\* clear and not yet enough, and there is no run before bit.
SoFar(B, lo, bgn, bit, n) ==
    /\ lo <= bgn /\ bgn <= bit /\ bit - bgn < n
    /\ \A b \in bgn .. bit - 1 : B[b] = FALSE
    /\ bgn = lo \/ B[bgn - 1] = TRUE
    /\ NoRunIn(B, lo, bit, n)

\* The next bit ends the search, or it goes on.
LEMMA SoFarOn ==
    ASSUME NEW B \in [Bits -> BOOLEAN], NEW lo \in Nat, NEW bgn \in Nat, NEW bit \in Bits,
           NEW n \in Nat \ {0}, SoFar(B, lo, bgn, bit, n),
           NEW next, next = IF B[bit] THEN bit + 1 ELSE bgn
    PROVE  /\ next \in Nat
           /\ (bit + 1) - next = n => RunAt(B, next, n) /\ NoRunIn(B, lo, next + n - 1, n)
                                    /\ lo <= next /\ next + n = bit + 1
           /\ (bit + 1) - next # n => SoFar(B, lo, next, bit + 1, n)
  <1>1. bit \in Nat /\ bit + 1 \in Nat
    BY DEF Bits
  <1>2. CASE B[bit] = TRUE
    <2>1. next = bit + 1
      BY <1>2
    <2>2. NoRunIn(B, lo, bit + 1, n)
      <3> SUFFICES ASSUME NEW s \in lo .. (bit + 1) - n PROVE ~RunAt(B, s, n)
        BY DEF NoRunIn
      <3>1. CASE s \in lo .. bit - n
        BY <3>1 DEF SoFar, NoRunIn
      <3>2. CASE s \notin lo .. bit - n
        <4>1. bit \in s .. s + n - 1
          BY <1>1, <3>2
        <4> QED
          BY <1>2, <4>1 DEF RunAt
      <3> QED
        BY <3>1, <3>2
    <2>3. (bit + 1) - next = 0 /\ next \in Nat /\ lo <= next
      BY <1>1, <2>1 DEF SoFar
    <2>4. B[next - 1] = TRUE
      BY <1>1, <1>2, <2>1
    <2>5. \A b \in next .. (bit + 1) - 1 : B[b] = FALSE
      BY <1>1, <2>1
    <2>6. SoFar(B, lo, next, bit + 1, n)
      BY <1>1, <2>1, <2>2, <2>3, <2>4, <2>5 DEF SoFar
    <2> QED
      BY <2>3, <2>6
  <1>3. CASE B[bit] = FALSE
    <2>1. next = bgn
      BY <1>3
    <2>2. \A b \in bgn .. bit : B[b] = FALSE
      <3>1. \A b \in bgn .. bit : b \in bgn .. bit - 1 \/ b = bit
        BY <1>1
      <3> QED
        BY <1>3, <3>1 DEF SoFar
    <2>3. CASE (bit + 1) - bgn = n
      <3>1. bgn + n - 1 = bit /\ bgn + n = bit + 1
        BY <1>1, <2>3
      <3>2. RunAt(B, bgn, n)
        BY <2>2, <3>1 DEF RunAt
      <3>3. NoRunIn(B, lo, bit, n) /\ lo <= bgn
        BY DEF SoFar
      <3> QED
        BY <2>1, <2>3, <3>1, <3>2, <3>3
    <2>4. CASE (bit + 1) - bgn # n
      <3>1. NoRunIn(B, lo, bit + 1, n)
        <4> SUFFICES ASSUME NEW s \in lo .. (bit + 1) - n PROVE ~RunAt(B, s, n)
          BY DEF NoRunIn
        <4>1. CASE s \in lo .. bit - n
          BY <4>1 DEF SoFar, NoRunIn
        <4>2. CASE s \notin lo .. bit - n
          <5>1. s + n = bit + 1 /\ bit - bgn < n /\ s \in Int /\ lo <= s
            BY <1>1, <4>2 DEF SoFar
          <5>2. s < bgn
            BY <1>1, <2>4, <5>1
          <5>3. bgn # lo
            BY <5>1, <5>2
          <5>4. B[bgn - 1] = TRUE
            BY <5>3 DEF SoFar
          <5>5. bgn - 1 \in s .. s + n - 1
            <6>1. bgn <= bit
              BY DEF SoFar
            <6> QED
              BY <1>1, <5>1, <5>2, <6>1
          <5> QED
            BY <5>4, <5>5 DEF RunAt
        <4> QED
          BY <4>1, <4>2
      <3>2. (bit + 1) - bgn < n /\ bgn <= bit + 1 /\ (bit + 1) - 1 = bit
        BY <1>1, <2>4 DEF SoFar
      <3>3. lo <= bgn /\ (bgn = lo \/ B[bgn - 1] = TRUE)
        BY DEF SoFar
      <3>4. SoFar(B, lo, bgn, bit + 1, n)
        <4>1. \A b \in bgn .. (bit + 1) - 1 : B[b] = FALSE
          BY <2>2, <3>2
        <4> QED
          BY <3>1, <3>2, <3>3, <4>1 DEF SoFar
      <3> QED
        BY <2>1, <2>4, <3>4
    <2> QED
      BY <2>1, <2>3, <2>4
  <1> QED
    BY <1>2, <1>3

\* The first run from start on or else, of those that lie before start, the
\* first from 0 on.
First(B, start, n, s) ==
    /\ s \in Nat /\ s + n <= ClusterCount /\ RunAt(B, s, n)
    /\ \/ start <= s /\ NoRunIn(B, start, s + n - 1, n)
       \/ s + n <= start /\ NoRunIn(B, start, ClusterCount, n) /\ NoRunIn(B, 0, s + n - 1, n)

\* There is none on either side of start.
NoRun(B, start, n) == NoRunIn(B, start, ClusterCount, n) /\ NoRunIn(B, 0, start, n)

Ended(v, start, count, k, p) ==
    LET B == BitsOf(Seen(v))
    IN  \/ p.ok = TRUE /\ First(B, start, count, p.val - 2)
        \/ p.ok = FALSE /\ p.val = 1 /\ start # 0 /\ NoRun(B, start, count)
        \/ p.ok = FALSE /\ v.io < 2 * k

\* The search after k rounds, as far as it has come.
OverFind == OverDevice \cup {"val"}
GoesOn(v, start, count, k, l) ==
    LET B == BitsOf(Seen(v))
    IN  /\ l.bit \in Bits /\ l.bgn \in Nat
        /\ \/ l.bit = start + k /\ SoFar(B, start, l.bgn, l.bit, count)
           \/ /\ l.bit = start + k - ClusterCount /\ (l.bit < start \/ start = 0)
              /\ SoFar(B, 0, l.bgn, l.bit, count)
              /\ NoRunIn(B, start, ClusterCount, count)
Searches == [v : Good, bgn : Int, bit : Int, over : BOOLEAN]
Looked(v, start, count, k, l) ==
    /\ l \in Searches /\ Beside(v, l.v, OverFind) /\ Seen(l.v) = Seen(v)
    /\ l.v.io \in v.io - 2 * k .. v.io
    /\ l.over = FALSE => l.v.ok = TRUE /\ GoesOn(v, start, count, k, l)
    /\ l.over = TRUE => Ended(v, start, count, k, l.v)

\* A bit is looked at: the search ends there, or it goes on.
LEMMA lookAtIs ==
    ASSUME NEW v \in Good, NEW start \in Bits, NEW count \in Nat \ {0},
           NEW k \in 1 .. ClusterCount, NEW l, Looked(v, start, count, k - 1, l),
           l.over = FALSE
    PROVE  Looked(v, start, count, k, lookAt(l, start, count))
  <1> DEFINE B == BitsOf(Seen(v))
             bit == l.bit
             p == prepare(l.v, BitmapSector(bit), ForRead)
             end == bit + 1
             bgn == IF p.cache.data[bit % BytesPerSector] THEN end ELSE l.bgn
             found == [p EXCEPT !.val = bgn + 2]
             failed == [p EXCEPT !.ok = FALSE]
             none == [failed EXCEPT !.val = 1]
             stop(u) == [l EXCEPT !.v = u, !.over = TRUE]
             m == lookAt(l, start, count)
  <1>1. /\ l \in Searches /\ l.v \in Good /\ Beside(v, l.v, OverFind) /\ Seen(l.v) = Seen(v)
        /\ l.v.io \in v.io - 2 * (k - 1) .. v.io
        /\ GoesOn(v, start, count, k - 1, l) /\ l.v.ok = TRUE
    BY DEF Looked, Searches
  <1>2. /\ bit \in Bits /\ bit \in Nat /\ l.bgn \in Nat /\ start \in Nat /\ k \in Nat /\ k >= 1
        /\ ClusterCount \in Nat /\ start < ClusterCount /\ bit < ClusterCount
        /\ k <= ClusterCount /\ end = bit + 1
    BY <1>1, Geometry DEF GoesOn, Bits
  <1>3. B \in [Bits -> BOOLEAN] /\ v.io \in Int /\ l.v.io \in Int
    BY <1>1, SeenIs DEF Good, Calls
  <1>4. prepareWell(l.v, BitmapSector(bit), ForRead, p)
    BY <1>1, <1>2, PlaceIs, prepareIs
  <1>5. m = IF ~p.ok THEN stop(p)
            ELSE IF end - bgn = count THEN stop(found)
            ELSE IF end = start THEN stop(none)
            ELSE IF end = ClusterCount THEN [l EXCEPT !.v = p, !.bgn = 0, !.bit = 0]
            ELSE [l EXCEPT !.v = p, !.bgn = bgn, !.bit = end]
    BY DEF lookAt, With, fail
  <1> HIDE DEF p
  <1>6. /\ p \in Good /\ p \in Calls /\ p.ok \in BOOLEAN /\ Seen(p) = Seen(v)
        /\ Beside(v, p, OverFind) /\ p.io \in l.v.io - 2 .. l.v.io /\ p.io \in Int
        /\ l.v.io > 1 => p.ok = TRUE
    BY <1>1, <1>4 DEF prepareWell, Kept, Good, Calls, Beside, OverFind
  <1>7. p.io \in v.io - 2 * k .. v.io
    BY <1>1, <1>2, <1>3, <1>6
  <1>8. p.ok = TRUE => bgn = IF B[bit] THEN bit + 1 ELSE l.bgn
    <2>1. p.ok = TRUE => p.cache.data = Seen(p)[BitmapSector(bit)]
      BY <1>4 DEF prepareWell, Holds
    <2>2. B[bit] = Seen(v)[BitmapSector(bit)][bit % BytesPerSector]
      BY <1>2 DEF BitsOf
    <2> QED
      BY <1>6, <2>1, <2>2
  <1> HIDE DEF bgn, end, bit, m, B
  \* What a record is that ends the search, and one that goes on with it.
  <1>9. ASSUME NEW u \in Good, Seen(u) = Seen(v), Beside(v, u, OverFind), u.io = p.io,
               Ended(v, start, count, k, u)
        PROVE  Looked(v, start, count, k, stop(u))
    <2>1. stop(u) \in Searches /\ stop(u).v = u /\ stop(u).over = TRUE
      BY <1>1 DEF Searches
    <2> HIDE DEF stop
    <2> QED
      BY <1>7, <1>9, <2>1 DEF Looked
  <1>10. ASSUME p.ok = TRUE, NEW a \in Nat, NEW b \in Bits,
                LET x == [l EXCEPT !.v = p, !.bgn = a, !.bit = b]
                IN  GoesOn(v, start, count, k, x)
         PROVE  Looked(v, start, count, k, [l EXCEPT !.v = p, !.bgn = a, !.bit = b])
    <2> DEFINE x == [l EXCEPT !.v = p, !.bgn = a, !.bit = b]
    <2>0. a \in Int /\ b \in Int
      BY DEF Bits
    <2>1. x \in Searches /\ x.v = p /\ x.over = FALSE
      BY <1>1, <1>6, <2>0 DEF Searches
    <2>2. GoesOn(v, start, count, k, x)
      BY <1>10
    <2> HIDE DEF x
    <2>3. Looked(v, start, count, k, x)
      BY <1>6, <1>7, <1>10, <2>1, <2>2 DEF Looked
    <2> QED
      BY <2>3 DEF x
  \* The two parts of the search.
  <1>11. \/ bit = start + (k - 1) /\ SoFar(B, start, l.bgn, bit, count)
         \/ /\ bit = start + (k - 1) - ClusterCount /\ bit < start
            /\ SoFar(B, 0, l.bgn, bit, count) /\ NoRunIn(B, start, ClusterCount, count)
    <2>1. \/ bit = start + (k - 1) /\ SoFar(B, start, l.bgn, bit, count)
          \/ /\ bit = start + (k - 1) - ClusterCount /\ (bit < start \/ start = 0)
             /\ SoFar(B, 0, l.bgn, bit, count) /\ NoRunIn(B, start, ClusterCount, count)
      BY <1>1 DEF GoesOn, B, bit
    <2>2. bit = start + (k - 1) - ClusterCount /\ start = 0 => FALSE
      BY <1>2
    <2> QED
      BY <2>1, <2>2
  <1> DEFINE lo == IF bit < start THEN 0 ELSE start
  <1>12. lo \in Nat /\ SoFar(B, lo, l.bgn, bit, count)
    <2>1. bit = start + (k - 1) => ~(bit < start)
      BY <1>2
    <2> QED
      BY <1>2, <1>11, <2>1
  <1>13. ASSUME p.ok = TRUE
         PROVE  /\ bgn \in Nat
                /\ end - bgn = count => RunAt(B, bgn, count) /\ lo <= bgn /\ bgn + count = end
                                        /\ NoRunIn(B, lo, bgn + count - 1, count)
                /\ end - bgn # count => SoFar(B, lo, bgn, end, count)
    <2>1. bgn = IF B[bit] THEN bit + 1 ELSE l.bgn
      BY <1>8, <1>13
    <2> HIDE DEF lo
    <2> QED
      BY <1>2, <1>3, <1>12, <2>1, SoFarOn
  <1>14. CASE p.ok # TRUE
    <2>1. m = stop(p) /\ p.ok = FALSE
      BY <1>5, <1>6, <1>14
    <2>2. ~(l.v.io > 1)
      BY <1>6, <1>14
    <2>3. v.io < 2 * k
      BY <1>1, <1>2, <1>3, <2>2
    <2>4. Ended(v, start, count, k, p)
      BY <2>1, <2>3 DEF Ended
    <2> HIDE DEF stop
    <2> QED
      BY <1>6, <1>9, <2>1, <2>4 DEF m
  <1>15. CASE p.ok = TRUE /\ end - bgn = count
    <2>1. m = stop(found)
      BY <1>5, <1>15
    <2>2. bgn \in Nat /\ bgn + 2 \in Int /\ (bgn + 2) - 2 = bgn
      <3>1. bgn \in Nat
        BY <1>13, <1>15
      <3> QED
        BY <3>1
    <2> DEFINE x == bgn + 2
    <2> HIDE DEF x
    <2>3. /\ [p EXCEPT !.val = x] \in Calls /\ [p EXCEPT !.val = x].val = x
          /\ Beside(p, [p EXCEPT !.val = x], {"val"})
      BY <1>6, <2>2, valIs DEF x
    <2>4. found \in Calls /\ found.val = bgn + 2 /\ Beside(p, found, {"val"})
      BY <2>3 DEF x
    <2> HIDE DEF found
    <2>5. found.dev = p.dev /\ found.cache = p.cache /\ found.io = p.io /\ found.ok = TRUE
      BY <1>15, <2>4 DEF Beside, Fields
    <2>6. found \in Good /\ Seen(found) = Seen(v)
      BY <1>6, <1>15, <2>4, <2>5, GoodSame
    <2>7. Beside(v, found, OverFind)
      BY <1>6, <2>4 DEF Beside, OverFind
    <2>8. First(B, start, count, bgn)
      <3>1. /\ RunAt(B, bgn, count) /\ lo <= bgn /\ bgn + count = end
            /\ NoRunIn(B, lo, bgn + count - 1, count)
        BY <1>13, <1>15
      <3>2. bgn + count <= ClusterCount
        BY <1>2, <3>1
      <3>3. CASE bit < start
        <4>1. lo = 0 /\ bgn + count <= start
          BY <1>2, <3>1, <3>3
        <4>2. NoRunIn(B, start, ClusterCount, count)
          BY <1>2, <1>11, <3>3
        <4> HIDE DEF lo
        <4> QED
          BY <2>2, <3>1, <3>2, <4>1, <4>2 DEF First
      <3>4. CASE ~(bit < start)
        <4>1. lo = start
          BY <3>4
        <4> HIDE DEF lo
        <4> QED
          BY <2>2, <3>1, <3>2, <4>1 DEF First
      <3> QED
        BY <3>3, <3>4
    <2>9. Ended(v, start, count, k, found)
      BY <2>2, <2>4, <2>5, <2>8 DEF Ended, B
    <2> HIDE DEF stop
    <2> QED
      BY <1>9, <2>1, <2>5, <2>6, <2>7, <2>9 DEF m
  <1>16. CASE p.ok = TRUE /\ end - bgn # count /\ end = start
    <2>1. m = stop(none)
      BY <1>5, <1>16
    <2>2. failed \in Calls /\ failed.ok = FALSE /\ Beside(p, failed, {"ok"})
      BY <1>6, okIs
    <2> HIDE DEF failed
    <2>3. none \in Calls /\ none.val = 1 /\ Beside(failed, none, {"val"})
      BY <2>2, valIs
    <2> HIDE DEF none
    <2>4. none.dev = p.dev /\ none.cache = p.cache /\ none.io = p.io /\ none.ok = FALSE
      BY <2>2, <2>3 DEF Beside, Fields
    <2>5. none \in Good /\ Seen(none) = Seen(v)
      BY <1>6, <2>3, <2>4, GoodSame
    <2>6. Beside(v, none, OverFind)
      BY <1>6, <2>2, <2>3 DEF Beside, OverFind, OverDevice
    <2>7. bit < start /\ lo = 0 /\ start # 0
      BY <1>2, <1>16
    <2>8. NoRunIn(B, start, ClusterCount, count)
      BY <1>2, <1>11, <2>7
    <2>9. NoRunIn(B, 0, start, count)
      <3>1. SoFar(B, lo, bgn, end, count)
        BY <1>13, <1>16
      <3> HIDE DEF lo
      <3> QED
        BY <1>16, <2>7, <3>1 DEF SoFar
    <2>10. Ended(v, start, count, k, none)
      BY <2>3, <2>4, <2>7, <2>8, <2>9 DEF Ended, NoRun, B
    <2> HIDE DEF stop
    <2> QED
      BY <1>9, <2>1, <2>4, <2>5, <2>6, <2>10 DEF m
  <1>17. CASE p.ok = TRUE /\ end - bgn # count /\ end # start /\ end = ClusterCount
    <2> DEFINE x == [l EXCEPT !.v = p, !.bgn = 0, !.bit = 0]
    <2>1. m = x
      BY <1>5, <1>17
    <2>2. ~(bit < start) /\ bit = start + (k - 1)
      BY <1>2, <1>11, <1>17
    <2>3. NoRunIn(B, start, ClusterCount, count)
      <3>1. SoFar(B, lo, bgn, end, count) /\ lo = start
        BY <1>13, <1>17, <2>2
      <3> HIDE DEF lo
      <3> QED
        BY <1>17, <3>1 DEF SoFar
    <2>4. SoFar(B, 0, 0, 0, count)
      <3>1. NoRunIn(B, 0, 0, count)
        BY DEF NoRunIn
      <3>2. \A b \in 0 .. 0 - 1 : B[b] = FALSE
        OBVIOUS
      <3> QED
        BY <3>1, <3>2 DEF SoFar
    <2>5. 0 \in Bits /\ 0 \in Nat /\ 0 = start + k - ClusterCount /\ (0 < start \/ start = 0)
      BY <1>2, <1>17, <2>2 DEF Bits
    <2>6. x.bgn = 0 /\ x.bit = 0
      BY <1>1 DEF Searches
    <2> HIDE DEF x
    <2>7. GoesOn(v, start, count, k, x)
      BY <2>3, <2>4, <2>5, <2>6 DEF GoesOn, B
    <2> QED
      BY <1>10, <1>17, <2>1, <2>5, <2>7 DEF m, x
  <1>18. CASE p.ok = TRUE /\ end - bgn # count /\ end # start /\ end # ClusterCount
    <2> DEFINE x == [l EXCEPT !.v = p, !.bgn = bgn, !.bit = end]
    <2>1. m = x
      BY <1>5, <1>18
    <2>2. SoFar(B, lo, bgn, end, count) /\ bgn \in Nat
      BY <1>13, <1>18
    <2>3. end \in Bits
      BY <1>2, <1>18 DEF Bits
    <2>4. x.bgn = bgn /\ x.bit = end
      BY <1>1 DEF Searches
    <2> HIDE DEF x
    <2>5. \/ end = start + k /\ SoFar(B, start, bgn, end, count)
          \/ /\ end = start + k - ClusterCount /\ end < start
             /\ SoFar(B, 0, bgn, end, count) /\ NoRunIn(B, start, ClusterCount, count)
      <3>1. CASE bit < start
        <4>1. lo = 0 /\ end < start
          BY <1>2, <1>18, <3>1
        <4>2. end = start + k - ClusterCount /\ NoRunIn(B, start, ClusterCount, count)
          BY <1>2, <1>11, <3>1
        <4> HIDE DEF lo
        <4> QED
          BY <2>2, <4>1, <4>2
      <3>2. CASE ~(bit < start)
        <4>1. lo = start /\ end = start + k
          BY <1>2, <1>11, <3>2
        <4> HIDE DEF lo
        <4> QED
          BY <2>2, <4>1
      <3> QED
        BY <3>1, <3>2
    <2>6. GoesOn(v, start, count, k, x)
      BY <2>2, <2>3, <2>4, <2>5 DEF GoesOn, B
    <2> QED
      BY <1>10, <1>18, <2>1, <2>2, <2>3, <2>6 DEF m, x
  <1> QED
    BY <1>14, <1>15, <1>16, <1>17, <1>18

\* A search that has ended stays so.
LEMMA LookedOver ==
    ASSUME NEW v \in Good, NEW start, NEW count, NEW k \in Nat \ {0}, NEW l,
           Looked(v, start, count, k - 1, l), l.over = TRUE
    PROVE  Looked(v, start, count, k, l)
  <1>1. v.io \in Int /\ l.v.io \in Int
    BY DEF Looked, Searches, Good, Calls
  <1>2. l.v.io \in v.io - 2 * k .. v.io
    BY <1>1 DEF Looked
  <1>3. v.io < 2 * (k - 1) => v.io < 2 * k
    BY <1>1
  <1>4. Ended(v, start, count, k, l.v)
    BY <1>3 DEF Looked, Ended
  <1> QED
    BY <1>2, <1>4 DEF Looked

\* What a search comes to.
FoundWell(v, start, count, r) ==
    /\ r \in Good /\ Seen(r) = Seen(v) /\ Beside(v, r, OverFind \cup {"hung"})
    /\ r.io \in v.io - 2 * ClusterCount .. v.io
    /\ LET B == BitsOf(Seen(v))
       IN  \/ r.ok = TRUE /\ First(B, start, count, r.val - 2) /\ r.hung = v.hung
           \/ /\ r.ok = FALSE /\ r.val = 1 /\ NoRun(B, start, count)
              /\ r.hung = IF start = 0 THEN TRUE ELSE v.hung
           \/ r.ok = FALSE /\ v.io < 2 * ClusterCount /\ r.hung = v.hung
LEMMA findRunIs ==
    ASSUME NEW v \in Good, v.ok = TRUE, NEW start \in Bits, NEW count \in Nat \ {0}
    PROVE  FoundWell(v, start, count, findRun(v, start, count))
  <1> DEFINE S == Searches
             n == ClusterCount
             b == [v |-> v, bgn |-> start, bit |-> start, over |-> FALSE]
             U == {y \in Nat \X S : Looked(v, start, count, y[1], y[2])}
             Step(k, l) == IF l.over THEN l ELSE lookAt(l, start, count)
             G == [y \in Int \X S |-> Step(y[1], y[2])]
             Is(f) == f = [k \in 0 .. n |-> IF k = 0 THEN b ELSE Step(k, f[k - 1])]
             after == CHOOSE f : Is(f)
             r == findRun(v, start, count)
             l == after[n]
             failed == [l.v EXCEPT !.ok = FALSE]
             none == [failed EXCEPT !.val = 1]
             stuck == [none EXCEPT !.hung = TRUE]
  <1>1. v \in Calls /\ v.io \in Int
    BY DEF Good, Calls
  <1>2. n \in Nat /\ n = ClusterCount
    BY Geometry
  <1>3. start \in Nat /\ start < ClusterCount
    BY Geometry DEF Bits
  <1>4. r = IF l.over THEN l.v ELSE [failed EXCEPT !.val = 1, !.hung = TRUE]
    BY DEF findRun, With, fail
  <1>5. b \in S /\ Looked(v, start, count, 0, b)
    <2>1. b \in S /\ b.v = v /\ b.bit = start /\ b.bgn = start /\ b.over = FALSE
      BY <1>3 DEF Searches
    <2> HIDE DEF b
    <2>2. SoFar(BitsOf(Seen(v)), start, start, start, count)
      <3>1. NoRunIn(BitsOf(Seen(v)), start, start, count)
        BY <1>3 DEF NoRunIn
      <3>2. \A c \in start .. start - 1 : BitsOf(Seen(v))[c] = FALSE
        BY <1>3
      <3>3. start <= start /\ start - start < count
        BY <1>3
      <3> QED
        BY <3>1, <3>2, <3>3 DEF SoFar
    <2>3. GoesOn(v, start, count, 0, b)
      BY <1>3, <2>1, <2>2 DEF GoesOn
    <2>4. b.v.io \in v.io - 2 * 0 .. v.io
      BY <1>1, <2>1
    <2>5. Beside(v, v, OverFind)
      BY DEF Beside
    <2> QED
      BY <2>1, <2>3, <2>4, <2>5 DEF Looked
  <1> HIDE DEF r, b
  <1>6. ASSUME NEW k \in 1 .. n, NEW s \in S, <<k - 1, s>> \in U
        PROVE  Step(k, s) \in S /\ <<k, Step(k, s)>> \in U
    <2>1. Looked(v, start, count, k - 1, s)
      BY <1>6
    <2>2. k \in Nat \ {0} /\ s.over \in BOOLEAN
      BY <1>2 DEF Searches
    <2>3. CASE s.over = FALSE
      <3>1. Step(k, s) = lookAt(s, start, count)
        BY <2>3
      <3>2. Looked(v, start, count, k, lookAt(s, start, count))
        BY <2>1, <2>3, lookAtIs
      <3> QED
        BY <2>2, <3>1, <3>2 DEF Looked
    <2>4. CASE s.over = TRUE
      <3>1. Step(k, s) = s
        BY <2>4
      <3>2. Looked(v, start, count, k, s)
        BY <2>1, <2>2, <2>4, LookedOver
      <3> QED
        BY <2>2, <3>1, <3>2
    <2> QED
      BY <2>2, <2>3, <2>4
  <1>7. ASSUME NEW k \in Int, NEW s \in S PROVE G[<<k, s>>] = Step(k, s)
    OBVIOUS
  <1>8. <<0, b>> \in U
    BY <1>5
  <1>9. \A k, s : <<k, s>> \in U => s \in S /\ Looked(v, start, count, k, s)
    OBVIOUS
  <1> HIDE DEF S, U, G, Step, n
  <1>10. \E g : Is(g)
    <2>1. ASSUME NEW k \in 1 .. n, NEW s \in S, <<k - 1, s>> \in U
          PROVE  G[<<k, s>>] \in S /\ <<k, G[<<k, s>>]>> \in U
      BY <1>2, <1>6, <1>7, <2>1
    <2>2. b \in S
      BY <1>9, <1>8
    <2>3. \E g \in [0 .. n -> S] :
              Loop(g, b, G, n) /\ \A k \in 0 .. n : <<k, g[k]>> \in U
      BY ONLY <1>2, <1>8, <2>1, <2>2, LoopRuns
    <2>4. PICK g \in [0 .. n -> S] : Loop(g, b, G, n)
      BY <2>3
    <2>5. ASSUME NEW k \in 0 .. n, k # 0 PROVE G[<<k, g[k - 1]>>] = Step(k, g[k - 1])
      <3>1. k - 1 \in 0 .. n /\ k \in Int
        BY <1>2, <2>5
      <3>2. g[k - 1] \in S
        BY <3>1
      <3> QED
        BY <3>1, <3>2, <1>7
    <2>6. Is(g)
      BY <2>4, <2>5 DEF Loop
    <2> QED
      BY <2>6
  <1>11. Is(after)
    BY <1>10, Zenon
  <1> HIDE DEF after
  <1>12. after[0] = b /\ \A k \in 1 .. n : after[k] = Step(k, after[k - 1])
    BY <1>2, <1>11
  <1> HIDE DEF Is
  <1>13. <<0, after[0]>> \in U
    BY <1>8, <1>12
  <1>14. ASSUME NEW k \in 1 .. n, <<k - 1, after[k - 1]>> \in U
         PROVE  <<k, after[k]>> \in U
    <2>1. after[k - 1] \in S
      BY <1>9, <1>14
    <2> QED
      BY <1>6, <1>12, <1>14, <2>1
  <1>15. <<n, l>> \in U
    <2>1. \A k \in 0 .. n : <<k, after[k]>> \in U
      BY ONLY <1>2, <1>13, <1>14, LoopKeepsAt
    <2> QED
      BY <1>2, <2>1
  <1> HIDE DEF l
  <1>16. l \in Searches /\ Looked(v, start, count, ClusterCount, l) /\ l.over \in BOOLEAN
    BY <1>2, <1>9, <1>15 DEF S, Searches
  <1>17. /\ l.v \in Good /\ l.v \in Calls /\ Beside(v, l.v, OverFind) /\ Seen(l.v) = Seen(v)
         /\ l.v.io \in v.io - 2 * ClusterCount .. v.io
    BY <1>16 DEF Looked, Searches, Good
  <1>18. l.v.hung = v.hung
    BY <1>17 DEF Beside, OverFind, OverDevice, Fields
  <1>19. CASE l.over = TRUE
    <2>1. r = l.v
      BY <1>4, <1>19
    <2>2. Ended(v, start, count, ClusterCount, l.v)
      BY <1>16, <1>19 DEF Looked
    <2>3. Beside(v, l.v, OverFind \cup {"hung"})
      BY <1>17 DEF Beside
    <2> DEFINE u == l.v
               A == First(BitsOf(Seen(v)), start, count, u.val - 2)
               N == NoRun(BitsOf(Seen(v)), start, count)
    <2>4. \/ u.ok = TRUE /\ A
          \/ u.ok = FALSE /\ u.val = 1 /\ start # 0 /\ N
          \/ u.ok = FALSE /\ v.io < 2 * ClusterCount
      BY <2>2 DEF Ended
    <2>5. FoundWell(v, start, count, u)
      <3>1. /\ u \in Good /\ Seen(u) = Seen(v) /\ Beside(v, u, OverFind \cup {"hung"})
            /\ u.io \in v.io - 2 * ClusterCount .. v.io /\ u.hung = v.hung
        BY <1>17, <1>18, <2>3
      <3> DEFINE W == \/ u.ok = TRUE /\ A /\ u.hung = v.hung
                      \/ /\ u.ok = FALSE /\ u.val = 1 /\ N
                         /\ u.hung = IF start = 0 THEN TRUE ELSE v.hung
                      \/ u.ok = FALSE /\ v.io < 2 * ClusterCount /\ u.hung = v.hung
      <3>2. W
        <4> HIDE DEF A, N
        <4> QED
          BY <2>4, <3>1
      <3> QED
        BY <3>1, <3>2 DEF FoundWell
    <2> QED
      BY <2>1, <2>5 DEF r
  <1>20. CASE l.over = FALSE
    <2>1. r = stuck
      BY <1>4, <1>20
    <2>2. start = 0 /\ NoRunIn(BitsOf(Seen(v)), start, ClusterCount, count)
      <3>1. GoesOn(v, start, count, ClusterCount, l)
        BY <1>16, <1>20 DEF Looked
      <3>2. l.bit \in Nat /\ l.bit < ClusterCount /\ ClusterCount \in Nat
        BY <3>1, Geometry DEF GoesOn, Bits
      <3>3. ~(l.bit = start + ClusterCount)
        BY <1>3, <3>2
      <3>4. l.bit = start + ClusterCount - ClusterCount => ~(l.bit < start)
        BY <1>3, <3>2
      <3> QED
        BY <3>1, <3>3, <3>4 DEF GoesOn
    <2>3. NoRun(BitsOf(Seen(v)), start, count)
      <3>1. \A s : s \notin 0 .. start - count
        BY <2>2
      <3>2. NoRunIn(BitsOf(Seen(v)), 0, start, count)
        BY <3>1 DEF NoRunIn
      <3> QED
        BY <2>2, <3>2 DEF NoRun
    <2>4. failed \in Calls /\ failed.ok = FALSE /\ Beside(l.v, failed, {"ok"})
      BY <1>17, okIs
    <2> HIDE DEF failed
    <2>5. none \in Calls /\ none.val = 1 /\ Beside(failed, none, {"val"})
      BY <2>4, valIs
    <2> HIDE DEF none
    <2>6. stuck \in Calls /\ stuck.hung = TRUE /\ Beside(none, stuck, {"hung"})
      BY <2>5, hungIs
    <2> HIDE DEF stuck
    <2>7. /\ stuck.dev = l.v.dev /\ stuck.cache = l.v.cache /\ stuck.io = l.v.io
          /\ stuck.ok = FALSE /\ stuck.val = 1
      BY <2>4, <2>5, <2>6 DEF Beside, Fields
    <2>8. stuck \in Good /\ Seen(stuck) = Seen(v)
      BY <1>17, <2>6, <2>7, GoodSame
    <2>9. Beside(v, stuck, OverFind \cup {"hung"})
      BY <1>17, <2>4, <2>5, <2>6 DEF Beside, OverFind, OverDevice
    <2> QED
      BY <1>17, <2>1, <2>2, <2>3, <2>6, <2>7, <2>8, <2>9 DEF FoundWell, r
  <1> QED
    BY <1>16, <1>19, <1>20

\* Where the search of bitmapFind starts: behind the file's last cluster, or
\* where the last one ended; behind the last bit, at 0.
StartOf(v, cluster) ==
    LET from == IF cluster # 0 THEN cluster - 2 ELSE v.search
    IN  IF from >= ClusterCount THEN 0 ELSE from
Behind == {0} \cup 2 .. LastCluster + 1

\* bitmapFind finds a run of clear bits that lies in the volume, the first from
\* where it starts or else the first before; with accesses enough it fails only
\* when there is none on either side of the start. It changes nothing that the
\* library sees. The search that fails so has come to an end, unless it started
\* at 0: that one goes on for ever.
THEOREM RunFound ==
    ASSUME NEW v \in Good, v.ok = TRUE, NEW cluster \in Behind, NEW count \in Nat \ {0}
    PROVE  LET r == bitmapFind(v, cluster, count)
               start == StartOf(v, cluster)
               B == BitsOf(Seen(v))
           IN  /\ r \in Good /\ Beside(v, r, OverFind \cup {"hung", "search"})
               /\ Seen(r) = Seen(v) /\ r.io \in v.io - 2 * ClusterCount .. v.io
               /\ \/ /\ r.ok = TRUE /\ First(B, start, count, r.val - 2)
                     /\ r.val .. r.val + count - 1 \subseteq Clusters /\ r.hung = v.hung
                  \/ /\ r.ok = FALSE /\ r.val = 1 /\ NoRun(B, start, count)
                     /\ r.hung = IF start = 0 THEN TRUE ELSE v.hung
                  \/ r.ok = FALSE /\ v.io < 2 * ClusterCount /\ r.hung = v.hung
  <1> DEFINE r == bitmapFind(v, cluster, count)
             start == StartOf(v, cluster)
             f == findRun(v, start, count)
             u == [f EXCEPT !.search = f.val - 2]
             A == First(BitsOf(Seen(v)), start, count, f.val - 2)
             N == NoRun(BitsOf(Seen(v)), start, count)
  <1>1. start \in Bits
    <2>1. v.search \in Bits /\ ClusterCount \in Nat \ {0} /\ LastCluster = ClusterCount + 1
      BY Geometry DEF Good, Calls
    <2> QED
      BY <2>1 DEF StartOf, Bits, Behind
  <1>2. r = IF f.ok THEN IF cluster = 0 /\ count = 1 THEN u ELSE f ELSE f
    BY DEF bitmapFind, StartOf, Then
  <1> HIDE DEF start
  <1>3. FoundWell(v, start, count, f)
    BY <1>1, findRunIs
  <1> HIDE DEF f, r
  <1>4. /\ f \in Good /\ Seen(f) = Seen(v) /\ Beside(v, f, OverFind \cup {"hung"})
        /\ f.io \in v.io - 2 * ClusterCount .. v.io /\ f \in Calls /\ f.ok \in BOOLEAN
        /\ f.val \in Int
    BY <1>3 DEF FoundWell, Good, Calls
  <1>5. \/ f.ok = TRUE /\ A /\ f.hung = v.hung
        \/ /\ f.ok = FALSE /\ f.val = 1 /\ N
           /\ f.hung = IF start = 0 THEN TRUE ELSE v.hung
        \/ f.ok = FALSE /\ v.io < 2 * ClusterCount /\ f.hung = v.hung
    BY <1>3 DEF FoundWell
  <1>6. A => /\ f.val - 2 \in Bits /\ f.val .. f.val + count - 1 \subseteq Clusters
    <2> SUFFICES ASSUME A
                 PROVE  f.val - 2 \in Bits /\ f.val .. f.val + count - 1 \subseteq Clusters
      OBVIOUS
    <2>1. f.val - 2 \in Nat /\ f.val - 2 + count <= ClusterCount
      BY DEF First
    <2> QED
      BY <1>4, <2>1, Geometry DEF Bits, Clusters
  <1> HIDE DEF A, N
  <1>7. CASE r = f
    <2>1. Beside(v, f, OverFind \cup {"hung", "search"})
      BY <1>4 DEF Beside
    <2> QED
      BY <1>4, <1>5, <1>6, <1>7, <2>1 DEF r, A, N, start
  <1>8. CASE r = u /\ f.ok = TRUE
    <2>1. A /\ f.hung = v.hung /\ f.val - 2 \in Bits
          /\ f.val .. f.val + count - 1 \subseteq Clusters
      BY <1>5, <1>6, <1>8
    <2>2. u \in Calls /\ Beside(f, u, {"search"})
      <3> DEFINE b == f.val - 2
      <3> HIDE DEF b
      <3>1. [f EXCEPT !.search = b] \in Calls /\ Beside(f, [f EXCEPT !.search = b], {"search"})
        BY <1>4, <2>1, searchIs DEF b
      <3> QED
        BY <3>1 DEF b
    <2> HIDE DEF u
    <2>3. /\ u.dev = f.dev /\ u.cache = f.cache /\ u.io = f.io /\ u.ok = TRUE
          /\ u.val = f.val /\ u.hung = f.hung
      BY <1>8, <2>2 DEF Beside, Fields
    <2>4. u \in Good /\ Seen(u) = Seen(v)
      BY <1>4, <1>8, <2>2, <2>3, GoodSame
    <2>5. Beside(v, u, OverFind \cup {"hung", "search"})
      BY <1>4, <2>2 DEF Beside
    <2> QED
      BY <1>4, <1>8, <2>1, <2>3, <2>4, <2>5 DEF r, A, start
  <1> QED
    BY <1>2, <1>4, <1>7, <1>8

\* What was found is not what there is none of.
LEMMA FirstIsOne ==
    ASSUME NEW B, NEW start \in Bits, NEW n \in Nat \ {0}, NEW s, First(B, start, n, s)
    PROVE  ~NoRun(B, start, n)
  <1>1. s \in Nat /\ s + n <= ClusterCount /\ RunAt(B, s, n) /\ (start <= s \/ s + n <= start)
    BY DEF First
  <1>2. start \in Nat /\ ClusterCount \in Nat
    BY Geometry DEF Bits
  <1>3. s \in start .. ClusterCount - n \/ s \in 0 .. start - n
    BY <1>1, <1>2
  <1> QED
    BY <1>1, <1>3 DEF NoRun, NoRunIn

\* On a card that fails nothing, the search for a run that the volume does not
\* have on either side of its start never succeeds, and never ends if and only
\* if it starts at 0: the bit to stop at is compared with the end of the bit
\* looked at, which is never 0.
THEOREM FullSearchEnds ==
    ASSUME NEW v \in Good, v.ok = TRUE, NEW cluster \in Behind, NEW count \in Nat \ {0},
           v.io >= 2 * ClusterCount, v.hung = FALSE,
           NoRun(BitsOf(Seen(v)), StartOf(v, cluster), count)
    PROVE  LET r == bitmapFind(v, cluster, count)
           IN  /\ r.ok = FALSE /\ Seen(r) = Seen(v)
               /\ r.hung = TRUE <=> StartOf(v, cluster) = 0
  <1> DEFINE r == bitmapFind(v, cluster, count)
             start == StartOf(v, cluster)
             A == First(BitsOf(Seen(v)), start, count, r.val - 2)
  <1>1. start \in Bits /\ v.io \in Int /\ ClusterCount \in Nat
    <2>1. /\ v.search \in Bits /\ ClusterCount \in Nat \ {0} /\ LastCluster = ClusterCount + 1
          /\ v.io \in Int
      BY Geometry DEF Good, Calls
    <2> QED
      BY <2>1 DEF StartOf, Bits, Behind
  <1>2. ~A
    <2> HIDE DEF r
    <2> QED
      BY <1>1, FirstIsOne
  <1>3. Seen(r) = Seen(v) /\
        \/ r.ok = TRUE /\ A
        \/ r.ok = FALSE /\ r.hung = IF start = 0 THEN TRUE ELSE v.hung
        \/ r.ok = FALSE /\ v.io < 2 * ClusterCount
    BY RunFound
  <1>4. ~(v.io < 2 * ClusterCount)
    BY <1>1
  <1> HIDE DEF A, r, start
  <1> QED
    BY <1>2, <1>3, <1>4 DEF r, start

\* How a file gets its clusters (addCluster, preAllocate): the run that is found
\* is marked.
take(v, cluster, count) ==
    Then(bitmapFind(v, cluster, count), LAMBDA r : bitmapModify(r, r.val, count, TRUE))

\* A run that is taken was free, lies in the volume and is marked, and nothing
\* else is. When none is taken, there was none, or accesses were not enough:
\* then a first part of a free run may be left marked.
THEOREM RunTaken ==
    ASSUME NEW v \in Good, v.ok = TRUE, NEW cluster \in Behind, NEW count \in Nat \ {0}
    PROVE  LET w == take(v, cluster, count)
               start == StartOf(v, cluster)
               B == BitsOf(Seen(v))
           IN  /\ w \in Good /\ Beside(v, w, OverFind \cup {"hung", "search"})
               /\ w.ok = TRUE =>
                     /\ First(B, start, count, w.val - 2)
                     /\ Seen(w) = Put(Seen(v), Places(w.val - 2 .. w.val - 2 + count - 1), TRUE)
               /\ w.ok # TRUE =>
                     \/ Seen(w) = Seen(v) /\ NoRun(B, start, count)
                     \/ /\ v.io < 2 * ClusterCount + 2 * count
                        /\ \/ Seen(w) = Seen(v)
                           \/ \E n \in 0 .. count - 1 :
                                 /\ First(B, start, count, w.val - 2)
                                 /\ Seen(w) = Put(Seen(v), Places(w.val - 2 .. w.val - 2 + n - 1), TRUE)
  <1> DEFINE r == bitmapFind(v, cluster, count)
             start == StartOf(v, cluster)
             B == BitsOf(Seen(v))
             m == bitmapModify(r, r.val, count, TRUE)
             w == take(v, cluster, count)
  <1>1. /\ r \in Good /\ Beside(v, r, OverFind \cup {"hung", "search"})
        /\ Seen(r) = Seen(v) /\ r.io \in v.io - 2 * ClusterCount .. v.io
        /\ \/ /\ r.ok = TRUE /\ First(B, start, count, r.val - 2)
              /\ r.val .. r.val + count - 1 \subseteq Clusters
           \/ r.ok = FALSE /\ NoRun(B, start, count)
           \/ r.ok = FALSE /\ v.io < 2 * ClusterCount
    BY RunFound
  <1>2. w = IF r.ok THEN m ELSE r
    BY DEF take, Then
  <1>3. v.io \in Int /\ r.io \in Int /\ r.val \in Int /\ r.ok \in BOOLEAN /\ ClusterCount \in Nat
    BY <1>1, Geometry DEF Good, Calls
  <1> HIDE DEF r, w
  <1>4. CASE r.ok = FALSE
    <2>1. w = r
      BY <1>2, <1>4
    <2>2. v.io < 2 * ClusterCount => v.io < 2 * ClusterCount + 2 * count
      BY <1>3
    <2>3. NoRun(B, start, count) \/ v.io < 2 * ClusterCount + 2 * count
      BY <1>1, <1>4, <2>2
    <2> HIDE DEF B, start
    <2> QED
      BY <1>1, <1>4, <2>1, <2>3 DEF w, B, start
  <1>5. CASE r.ok = TRUE
    <2> DEFINE s == r.val - 2
    <2>1. w = m
      BY <1>2, <1>5
    <2>2. First(B, start, count, s) /\ r.val .. r.val + count - 1 \subseteq Clusters
      BY <1>1, <1>5
    <2>3. /\ r.val \in Clusters /\ s \in Nat /\ s + count <= ClusterCount
          /\ \A b \in s .. s + count - 1 : B[b] = FALSE
      <3>1. r.val \in r.val .. r.val + count - 1
        BY <1>3
      <3> QED
        BY <2>2, <3>1 DEF First, RunAt
    <2> HIDE DEF m
    <2>4. ModifiedWell(r, r.val, count, TRUE, m)
      BY <1>1, <1>5, <2>3, BitsModified DEF m
    <2>5. PICK n \in 0 .. count : FirstTurned(r, s, TRUE, count, m, n)
      BY <2>3, <2>4 DEF ModifiedWell
    <2>6. /\ m \in Good /\ Beside(r, m, OverDevice \cup {"search"}) /\ m.ok \in BOOLEAN
      BY <2>4 DEF ModifiedWell, Good, Calls
    <2>7. Beside(v, m, OverFind \cup {"hung", "search"}) /\ m.val = r.val
      BY <1>1, <2>6 DEF Beside, OverFind, OverDevice, Fields
    <2>8. /\ Seen(m) = Put(Seen(v), Places(s .. s + n - 1), TRUE)
          /\ m.ok = TRUE => n = count
          /\ m.ok # TRUE => n < count /\ (r.io < 2 * count \/ B[s + n] = TRUE)
      BY <1>1, <2>5 DEF FirstTurned
    <2>9. m.ok # TRUE => v.io < 2 * ClusterCount + 2 * count /\ n \in 0 .. count - 1
      <3>1. ASSUME m.ok # TRUE PROVE s + n \in s .. s + count - 1 /\ n \in 0 .. count - 1
        BY <2>3, <2>8, <3>1
      <3>2. ASSUME m.ok # TRUE PROVE r.io < 2 * count
        BY <2>3, <2>8, <3>1, <3>2
      <3>3. r.io < 2 * count => v.io < 2 * ClusterCount + 2 * count
        BY <1>1, <1>3
      <3> QED
        BY <3>1, <3>2, <3>3
    <2> HIDE DEF B, start
    <2> QED
      BY <2>1, <2>2, <2>6, <2>7, <2>8, <2>9 DEF w, B, start
  <1> QED
    BY <1>3, <1>4, <1>5

-----------------------------------------------------------------------------
(* The table.                                                              *)

LEMMA fgIs ==
    ASSUME NEW v \in Calls, NEW x \in Int, "fg" \in MoreFields
    PROVE  /\ [v EXCEPT !.fg = x] \in Calls /\ [v EXCEPT !.fg = x].fg = x
           /\ Beside(v, [v EXCEPT !.fg = x], {"fg"})
  BY DEF Calls, Fields, Values, Beside

\* An entry is read as the library sees it, or not at all.
OverTable == OverDevice \cup {"fg", "val"}
fatGetWell(v, c, g) ==
    /\ g \in Good /\ Beside(v, g, OverTable) /\ Seen(g) = Seen(v)
    /\ g.io \in v.io - 2 .. v.io
    /\ g.ok = TRUE =>
          \/ EntriesOf(Seen(v))[c] = EOC /\ g.fg = 0 /\ g.val = v.val
          \/ EntriesOf(Seen(v))[c] # EOC /\ g.fg = 1 /\ g.val = EntriesOf(Seen(v))[c]
    /\ g.ok # TRUE => v.io <= 1
LEMMA fatGetIs ==
    ASSUME NEW v \in Good, v.ok = TRUE, NEW c \in Clusters, "fg" \in MoreFields
    PROVE  fatGetWell(v, c, fatGet(v, c))
  <1> DEFINE g == fatGet(v, c)
             s == FatSector(c)
             i == c % BytesPerSector
             p == prepare(v, s, ForRead)
             next == p.cache.data[i]
             x == [p EXCEPT !.fg = -1]
             y == [p EXCEPT !.fg = 0]
             h == [p EXCEPT !.fg = 1]
             z == [h EXCEPT !.val = next]
  <1>1. s \in Sectors /\ v.io \in Int /\ ~(c > LastCluster)
    BY EntryIs, Geometry DEF Good, Calls, Clusters
  <1>2. g = IF ~p.ok THEN x ELSE IF next = EOC THEN y ELSE [p EXCEPT !.fg = 1, !.val = next]
    BY <1>1 DEF fatGet, With
  <1>3. prepareWell(v, s, ForRead, p)
    BY <1>1, prepareIs
  <1> HIDE DEF p, g
  <1>4. /\ p \in Good /\ p \in Calls /\ p.ok \in BOOLEAN /\ p.io \in v.io - 2 .. v.io
        /\ Beside(v, p, OverDevice) /\ Seen(p) = Seen(v)
        /\ v.io > 1 => p.ok = TRUE
    BY <1>3 DEF prepareWell, Kept, Good, Calls
  <1>5. p.ok = TRUE => next = EntriesOf(Seen(v))[c] /\ next \in Nat
    <2>1. p.ok = TRUE => p.cache.data = Seen(p)[s]
      BY <1>3 DEF prepareWell, Holds
    <2>2. EntriesOf(Seen(v))[c] = Seen(v)[s][i] /\ EntriesOf(Seen(v)) \in [Clusters -> Nat]
      BY SeenIs DEF EntriesOf
    <2>3. EntriesOf(Seen(v))[c] \in Nat
      BY <2>2
    <2> QED
      BY <1>4, <2>1, <2>2, <2>3
  <1>6. p.val = v.val
    BY <1>4 DEF Beside, Fields, OverDevice
  <1> HIDE DEF next
  <1>7. ASSUME NEW u \in Calls, Beside(p, u, {"fg", "val"})
        PROVE  /\ u \in Good /\ Beside(v, u, OverTable) /\ Seen(u) = Seen(v)
               /\ u.io \in v.io - 2 .. v.io /\ u.ok = p.ok
    <2>1. u.dev = p.dev /\ u.cache = p.cache /\ u.ok = p.ok /\ u.io = p.io
      BY <1>7 DEF Beside, Fields
    <2>2. u \in Good /\ Seen(u) = Seen(v)
      BY <1>4, <1>7, <2>1, GoodSame
    <2>3. Beside(v, u, OverTable)
      BY <1>4, <1>7 DEF Beside, OverTable
    <2> QED
      BY <1>4, <2>1, <2>2, <2>3
  <1>8. CASE p.ok # TRUE
    <2>1. g = x
      BY <1>2, <1>4, <1>8
    <2>2. x \in Calls /\ Beside(p, x, {"fg"})
      BY <1>4, fgIs
    <2> HIDE DEF x
    <2>3. Beside(p, x, {"fg", "val"})
      BY <2>2 DEF Beside
    <2>4. ~(v.io > 1)
      BY <1>4, <1>8
    <2>5. v.io <= 1
      BY <1>1, <2>4
    <2> QED
      BY <1>7, <1>8, <2>1, <2>2, <2>3, <2>5 DEF fatGetWell, g
  <1>9. CASE p.ok = TRUE /\ next = EOC
    <2>1. g = y
      BY <1>2, <1>9
    <2>2. y \in Calls /\ y.fg = 0 /\ Beside(p, y, {"fg"})
      BY <1>4, fgIs
    <2> HIDE DEF y
    <2>3. Beside(p, y, {"fg", "val"}) /\ y.val = p.val
      BY <2>2 DEF Beside, Fields
    <2> QED
      BY <1>5, <1>6, <1>7, <1>9, <2>1, <2>2, <2>3 DEF fatGetWell, g
  <1>10. CASE p.ok = TRUE /\ next # EOC
    <2>1. g = z
      BY <1>2, <1>10
    <2>2. h \in Calls /\ h.fg = 1 /\ Beside(p, h, {"fg"})
      BY <1>4, fgIs
    <2> HIDE DEF h
    <2>3. z \in Calls /\ z.val = next /\ Beside(h, z, {"val"})
      BY <1>5, <1>10, <2>2, valIs
    <2> HIDE DEF z
    <2>4. Beside(p, z, {"fg", "val"}) /\ z.fg = 1
      BY <2>2, <2>3 DEF Beside, Fields
    <2> QED
      BY <1>5, <1>7, <1>10, <2>1, <2>3, <2>4 DEF fatGetWell, g
  <1> QED
    BY <1>4, <1>8, <1>9, <1>10

\* One entry is replaced and nothing else, or nothing at all.
fatPutWell(v, c, x, w) ==
    /\ w \in Good /\ Beside(v, w, OverDevice) /\ w.io \in v.io - 2 .. v.io
    /\ w.ok = TRUE => Seen(w) = Put(Seen(v), Entries({c}), x)
    /\ w.ok # TRUE => Seen(w) = Seen(v) /\ v.io <= 1
LEMMA fatPutIs ==
    ASSUME NEW v \in Good, v.ok = TRUE, NEW c \in Clusters, NEW x \in Nat
    PROVE  fatPutWell(v, c, x, fatPut(v, c, x))
  <1> DEFINE s == FatSector(c)
             i == c % BytesPerSector
             p == prepare(v, s, ForWrite)
             u == [p EXCEPT !.cache.data[i] = x]
             w == fatPut(v, c, x)
  <1>1. s \in Sectors /\ i \in Words /\ v.io \in Int
    BY EntryIs DEF Good, Calls
  <1>2. prepareWell(v, s, ForWrite, p)
    BY <1>1, prepareIs
  <1>3. w = IF p.ok THEN u ELSE p
    BY DEF fatPut, Then
  <1>4. Entries({c}) = {<<s, i>>}
    BY DEF Entries, Entry
  <1>5. /\ p \in Good /\ p \in Calls /\ p.ok \in BOOLEAN /\ p.io \in v.io - 2 .. v.io
        /\ Beside(v, p, OverDevice) /\ Seen(p) = Seen(v)
        /\ v.io > 1 => p.ok = TRUE
    BY <1>2 DEF prepareWell, Kept, Good, Calls
  <1>6. p.ok = TRUE => Holds(p, s) /\ p.cache.dirty = TRUE
    BY <1>2 DEF prepareWell, ForWrite, ForRead
  <1> HIDE DEF p, w
  <1>7. CASE p.ok # TRUE
    <2>1. w = p
      BY <1>3, <1>5, <1>7
    <2>2. ~(v.io > 1)
      BY <1>5, <1>7
    <2>3. v.io <= 1
      BY <1>1, <2>2
    <2> QED
      BY <1>5, <1>7, <2>1, <2>3 DEF fatPutWell, w
  <1>8. CASE p.ok = TRUE
    <2>1. w = u
      BY <1>3, <1>8
    <2>2. x \in Word
      BY DEF Word
    <2>3. Put(Seen(p), {<<s, i>>}, x) \in Devices
      <3>1. {c} \subseteq Clusters /\ Seen(v) \in Devices
        BY SeenIs
      <3>2. Put(Seen(v), Entries({c}), x) \in Devices
        BY <3>1, PutEntries
      <3> QED
        BY <1>4, <1>5, <3>2
    <2>4. /\ u \in Good /\ Beside(p, u, {"cache"}) /\ u.ok = p.ok /\ u.io = p.io
          /\ Seen(u) = Put(Seen(p), {<<s, i>>}, x)
      <3> HIDE DEF s, i
      <3> QED
        BY <1>1, <1>5, <1>6, <1>8, <2>2, <2>3, wordIs
    <2> HIDE DEF u
    <2>5. Beside(v, u, OverDevice)
      BY <1>5, <2>4 DEF Beside, OverDevice
    <2> QED
      BY <1>4, <1>5, <1>8, <2>1, <2>4, <2>5 DEF fatPutWell, w
  <1> QED
    BY <1>5, <1>7, <1>8

\* The cluster in val leaves its chain, and the next one is there.
unchainWell(v, c, p) ==
    /\ p \in Good /\ Beside(v, p, OverTable) /\ p.io \in v.io - 4 .. v.io
    /\ p.ok = TRUE =>
          /\ Seen(p) = Put(Seen(v), Entries({c}), Free)
          /\ \/ EntriesOf(Seen(v))[c] = EOC /\ p.fg = 0
             \/ EntriesOf(Seen(v))[c] # EOC /\ p.fg = 1 /\ p.val = EntriesOf(Seen(v))[c]
    /\ p.ok # TRUE => Seen(p) = Seen(v) /\ v.io <= 3
LEMMA unchainIs ==
    ASSUME NEW v \in Good, v.ok = TRUE, v.val \in Clusters, "fg" \in MoreFields
    PROVE  unchainWell(v, v.val, unchain(v))
  <1> DEFINE c == v.val
             g == fatGet(v, c)
             w == fatPut(g, c, Free)
             p == unchain(v)
  <1>1. p = IF g.ok THEN w ELSE g
    BY DEF unchain, Then
  <1>2. c \in Clusters
    OBVIOUS
  <1> HIDE DEF c
  <1>3. fatGetWell(v, c, g)
    BY <1>2, fatGetIs
  <1> HIDE DEF g, p
  <1>4. /\ g \in Good /\ Beside(v, g, OverTable) /\ Seen(g) = Seen(v)
        /\ g.io \in v.io - 2 .. v.io /\ g.ok \in BOOLEAN /\ g.io \in Int /\ v.io \in Int
    BY <1>3 DEF fatGetWell, Good, Calls
  <1>5. CASE g.ok # TRUE
    <2>1. p = g
      BY <1>1, <1>4, <1>5
    <2>2. g.io \in v.io - 4 .. v.io
      BY <1>4
    <2>3. v.io <= 3
      <3>1. v.io <= 1
        BY <1>3, <1>5 DEF fatGetWell
      <3> QED
        BY <1>4, <3>1
    <2> QED
      BY <1>4, <1>5, <2>1, <2>2, <2>3 DEF unchainWell, p, c
  <1>6. CASE g.ok = TRUE
    <2>1. p = w
      BY <1>1, <1>6
    <2>2. fatPutWell(g, c, Free, w)
      BY <1>2, <1>4, <1>6, fatPutIs DEF Free
    <2> HIDE DEF w
    <2>3. w \in Good /\ Beside(g, w, OverDevice) /\ w.io \in g.io - 2 .. g.io /\ w.io \in Int
      BY <2>2 DEF fatPutWell, Good, Calls
    <2>4. w.io \in v.io - 4 .. v.io
      BY <1>4, <2>3
    <2>5. Beside(v, w, OverTable)
      BY <1>4, <2>3 DEF Beside, OverTable
    <2>6. w.fg = g.fg /\ w.val = g.val
      BY <2>3 DEF Beside, Fields, OverDevice
    <2>7. w.ok # TRUE => Seen(w) = Seen(v) /\ v.io <= 3
      <3>1. w.ok # TRUE => Seen(w) = Seen(v) /\ g.io <= 1
        BY <1>4, <2>2 DEF fatPutWell
      <3> QED
        BY <1>4, <3>1
    <2>8. w.ok = TRUE => Seen(w) = Put(Seen(v), Entries({c}), Free)
      BY <1>4, <2>2 DEF fatPutWell
    <2>9. \/ EntriesOf(Seen(v))[c] = EOC /\ w.fg = 0
          \/ EntriesOf(Seen(v))[c] # EOC /\ w.fg = 1 /\ w.val = EntriesOf(Seen(v))[c]
      BY <1>3, <1>6, <2>6 DEF fatGetWell
    <2> QED
      BY <2>1, <2>3, <2>4, <2>5, <2>7, <2>8, <2>9 DEF unchainWell, p, c
  <1> QED
    BY <1>4, <1>5, <1>6

-----------------------------------------------------------------------------
(* A chain that is given back.                                             *)

\* The n clusters of a chain, in its order. (There are no more of them than
\* there are clusters, for they are different ones.)
IsChain(d, ch, n) ==
    /\ n \in 1 .. ClusterCount /\ ch \in [1 .. n -> Clusters]
    /\ \A i \in 1 .. n, j \in 1 .. n : ch[i] = ch[j] => i = j
    /\ \A i \in 1 .. n : EntriesOf(d)[ch[i]] = IF i = n THEN EOC ELSE ch[i + 1]
    /\ \A i \in 1 .. n : BitsOf(d)[ch[i] - 2] = TRUE

\* The device when the first i clusters have left the chain and the first j of
\* them are no longer marked.
Front(ch, i) == {ch[m] : m \in 1 .. i}
Marks(ch, j) == {ch[m] - 2 : m \in 1 .. j}
Unmarked == FALSE
Cleared(d, ch, i, j) ==
    Put(Put(d, Entries(Front(ch, i)), Free), Places(Marks(ch, j)), Unmarked)

LEMMA ChainTyped ==
    ASSUME NEW d, NEW ch, NEW n, IsChain(d, ch, n), NEW i \in 0 .. n
    PROVE  /\ n \in Nat /\ i \in Nat
           /\ Front(ch, i) \subseteq Clusters /\ Marks(ch, i) \subseteq Bits
           /\ \A m \in 1 .. n : /\ ch[m] \in Clusters /\ ch[m] \in Int /\ ch[m] - 2 \in Bits
                                /\ ch[m] \in Front(ch, i) <=> m <= i
                                /\ ch[m] - 2 \in Marks(ch, i) <=> m <= i
  <1>1. n \in Nat /\ i \in Nat /\ n <= ClusterCount /\ i <= n /\ ch \in [1 .. n -> Clusters]
    BY Geometry DEF IsChain
  <1>2. \A m \in 1 .. n : ch[m] \in Clusters /\ ch[m] \in Int /\ ch[m] - 2 \in Bits
    BY <1>1, Geometry DEF Clusters, Bits
  <1>3. \A m \in 1 .. i : m \in 1 .. n
    BY <1>1
  <1>4. Front(ch, i) \subseteq Clusters /\ Marks(ch, i) \subseteq Bits
    BY <1>2, <1>3 DEF Front, Marks
  <1>5. ASSUME NEW m \in 1 .. n
        PROVE  /\ ch[m] \in Front(ch, i) <=> m <= i
               /\ ch[m] - 2 \in Marks(ch, i) <=> m <= i
    <2>1. m <= i <=> m \in 1 .. i
      BY <1>1
    <2>2. \A j \in 1 .. i : ch[j] = ch[m] => j = m
      BY <1>3 DEF IsChain
    <2>3. \A j \in 1 .. i : ch[j] - 2 = ch[m] - 2 => ch[j] = ch[m]
      BY <1>2, <1>3
    <2> QED
      BY <2>1, <2>2, <2>3 DEF Front, Marks
  <1> QED
    BY <1>1, <1>2, <1>4, <1>5

LEMMA ClearedIs ==
    ASSUME NEW d \in Devices, NEW ch, NEW n, IsChain(d, ch, n), NEW i \in 0 .. n,
           NEW j \in 0 .. n
    PROVE  LET e == Cleared(d, ch, i, j)
           IN  /\ e \in Devices
               /\ \A m \in 1 .. n :
                     /\ m > i => EntriesOf(e)[ch[m]] = IF m = n THEN EOC ELSE ch[m + 1]
                     /\ m > j => BitsOf(e)[ch[m] - 2] = TRUE
  <1> DEFINE X == Front(ch, i)
             Y == Marks(ch, j)
             u == Put(d, Entries(X), Free)
             e == Put(u, Places(Y), FALSE)
  <1>1. /\ X \subseteq Clusters /\ Y \subseteq Bits /\ n \in Nat /\ i \in Nat /\ j \in Nat
        /\ \A m \in 1 .. n : /\ ch[m] \in Clusters /\ ch[m] - 2 \in Bits
                             /\ ch[m] \in X <=> m <= i
                             /\ ch[m] - 2 \in Y <=> m <= j
    BY ChainTyped
  <1>2. e = Cleared(d, ch, i, j)
    BY DEF Cleared, Unmarked
  <1> HIDE DEF X, Y
  <1>3. /\ u \in Devices /\ BitsOf(u) = BitsOf(d)
        /\ EntriesOf(u) = [c \in Clusters |-> IF c \in X THEN Free ELSE EntriesOf(d)[c]]
    <2>1. Free \in Nat
      BY DEF Free
    <2> QED
      BY <1>1, <2>1, PutEntries
  <1> HIDE DEF u
  <1>4. /\ e \in Devices /\ EntriesOf(e) = EntriesOf(u)
        /\ BitsOf(e) = [b \in Bits |-> IF b \in Y THEN FALSE ELSE BitsOf(u)[b]]
    BY <1>1, <1>3, PutBits
  <1> HIDE DEF e
  <1>5. ASSUME NEW m \in 1 .. n, m > i
        PROVE  EntriesOf(e)[ch[m]] = IF m = n THEN EOC ELSE ch[m + 1]
    <2>1. ch[m] \in Clusters /\ ch[m] \notin X
      BY <1>1, <1>5
    <2> QED
      BY <1>3, <1>4, <2>1 DEF IsChain
  <1>6. ASSUME NEW m \in 1 .. n, m > j PROVE BitsOf(e)[ch[m] - 2] = TRUE
    <2>1. ch[m] - 2 \in Bits /\ ch[m] - 2 \notin Y
      BY <1>1, <1>6
    <2> QED
      BY <1>3, <1>4, <2>1 DEF IsChain
  <1> QED
    BY <1>2, <1>4, <1>5, <1>6

\* One cluster more has left the chain.
LEMMA ClearedEntry ==
    ASSUME NEW d \in Devices, NEW ch, NEW n, IsChain(d, ch, n), NEW i \in 0 .. n - 1,
           NEW j \in 0 .. n, NEW C, C = {ch[i + 1]}
    PROVE  Put(Cleared(d, ch, i, j), Entries(C), Free) = Cleared(d, ch, i + 1, j)
  <1> DEFINE X == Entries(Front(ch, i))
             Y == Places(Marks(ch, j))
             Z == Entries(C)
             u == Put(d, X, Free)
  <1>1. n \in Nat /\ i \in Nat /\ i + 1 \in 1 .. n /\ i \in 0 .. n /\ d \in [Sectors -> Contents]
    BY Geometry DEF IsChain, Devices
  <1>2. /\ ch[i + 1] \in Clusters /\ Marks(ch, j) \subseteq Bits
    BY <1>1, ChainTyped
  <1>3. Y \cap Z = {}
    BY <1>2, PlacesApart DEF Places, Entries
  <1>4. X \cup Z = Entries(Front(ch, i + 1))
    <2>1. Front(ch, i) \cup C = Front(ch, i + 1)
      <3>1. \A m : m \in 1 .. i + 1 <=> m \in 1 .. i \/ m = i + 1
        BY <1>1
      <3> QED
        BY <3>1 DEF Front
    <2>2. Entries(Front(ch, i)) \cup Entries(C) = Entries(Front(ch, i) \cup C)
      BY DEF Entries
    <2> QED
      BY <2>1, <2>2
  <1>5. Free \in Word /\ FALSE \in Word
    BY DEF Free, Word
  <1> HIDE DEF X, Y, Z
  <1>6. u \in [Sectors -> Contents]
    BY <1>1, <1>5, PutIs
  <1>7. Put(Put(u, Y, FALSE), Z, Free) = Put(Put(u, Z, Free), Y, FALSE)
    <2> DEFINE x == FALSE
               y == Free
    <2> HIDE DEF u
    <2>1. x \in Word /\ y \in Word
      BY <1>5
    <2> HIDE DEF x, y
    <2>2. Put(Put(u, Y, x), Z, y) = Put(Put(u, Z, y), Y, x)
      BY <1>3, <1>6, <2>1, PutApart
    <2> QED
      BY <2>2 DEF x, y
  <1>8. Put(u, Z, Free) = Put(d, X \cup Z, Free)
    BY <1>1, <1>5, PutPut
  <1> QED
    BY <1>4, <1>7, <1>8 DEF Cleared, Unmarked, X, Y, Z

\* The next m clusters of the chain behind the first j follow each other, from
\* start on.
IsRun(ch, start, j, m) == \A k \in 1 .. m : ch[j + k] = start + (k - 1)

\* Some clusters more are no longer marked: those of a run.
LEMMA ClearedBits ==
    ASSUME NEW d \in Devices, NEW ch, NEW n, IsChain(d, ch, n), NEW i \in 0 .. n,
           NEW j \in 0 .. n, NEW m \in Nat, NEW q \in 0 .. n, q = j + m,
           NEW start \in Int, IsRun(ch, start, j, m),
           NEW R, R = start - 2 .. start - 2 + m - 1
    PROVE  Put(Cleared(d, ch, i, j), Places(R), Unmarked) = Cleared(d, ch, i, q)
  <1> DEFINE u == Put(d, Entries(Front(ch, i)), Free)
  <1>1. j \in Nat /\ q \in Nat /\ d \in [Sectors -> Contents] /\ Free \in Word /\ Unmarked \in Word
    BY DEF Devices, Free, Word, Unmarked
  <1>2. Marks(ch, j) \cup R = Marks(ch, q)
    <2>1. ASSUME NEW b \in R PROVE b \in Marks(ch, q)
      <3> DEFINE k == b - (start - 2) + 1
      <3>1. k \in 1 .. m /\ b = (start + (k - 1)) - 2 /\ j + k \in 1 .. q
        BY <1>1
      <3>2. b = ch[j + k] - 2
        BY <3>1 DEF IsRun
      <3> HIDE DEF k
      <3> QED
        BY <3>1, <3>2 DEF Marks
    <2>2. ASSUME NEW b \in Marks(ch, j) PROVE b \in Marks(ch, q)
      <3>1. \A k \in 1 .. j : k \in 1 .. q
        BY <1>1
      <3> QED
        BY <3>1 DEF Marks
    <2>3. ASSUME NEW b \in Marks(ch, q) PROVE b \in Marks(ch, j) \cup R
      <3>1. PICK k \in 1 .. q : b = ch[k] - 2
        BY DEF Marks
      <3>2. CASE k <= j
        <4>1. k \in 1 .. j
          BY <1>1, <3>2
        <4> QED
          BY <3>1, <4>1 DEF Marks
      <3>3. CASE k > j
        <4>1. k - j \in 1 .. m /\ j + (k - j) = k
          BY <1>1, <3>3
        <4>2. ch[k] = start + ((k - j) - 1)
          BY <4>1 DEF IsRun
        <4>3. b \in R
          BY <3>1, <4>1, <4>2
        <4> QED
          BY <4>3
      <3> QED
        BY <1>1, <3>2, <3>3
    <2> QED
      BY <2>1, <2>2, <2>3
  <1>3. u \in [Sectors -> Contents]
    BY <1>1, PutIs
  <1> HIDE DEF u
  <1>4. Put(Put(u, Places(Marks(ch, j)), Unmarked), Places(R), Unmarked) =
            Put(u, Places(Marks(ch, j)) \cup Places(R), Unmarked)
    BY <1>1, <1>3, PutPut
  <1>5. Places(Marks(ch, j)) \cup Places(R) = Places(Marks(ch, j) \cup R)
    BY DEF Places
  <1> QED
    BY <1>2, <1>4, <1>5 DEF Cleared, u

\* The bits of a run of the chain are cleared: all of them, or, for lack of
\* accesses, the first of them. The search starts no further up than the run.
ClearedWell(p, d, ch, start, i, j, w) ==
    /\ w \in Good /\ Beside(p, w, OverDevice \cup {"search"})
    /\ w.io \in p.io - 2 * (i - j) .. p.io
    /\ w.search <= start - 2 /\ w.search <= p.search
    /\ w.ok = TRUE => Seen(w) = Cleared(d, ch, i, i)
    /\ w.ok # TRUE => /\ p.io < 2 * (i - j)
                      /\ \E q \in 0 .. i : Seen(w) = Cleared(d, ch, i, q)
LEMMA runClearedIs ==
    ASSUME NEW d \in Devices, NEW ch, NEW n, IsChain(d, ch, n), NEW i \in 1 .. n,
           NEW j \in 0 .. i - 1, NEW p \in Good, p.ok = TRUE,
           Seen(p) = Cleared(d, ch, i, j),
           NEW start, start = ch[j + 1], IsRun(ch, start, j, i - j)
    PROVE  ClearedWell(p, d, ch, start, i, j, bitmapModify(p, start, i - j, FALSE))
  <1> DEFINE count == i - j
             s == start - 2
             w == bitmapModify(p, start, count, FALSE)
  <1>1. /\ n \in Nat /\ i \in Nat /\ j \in Nat /\ count \in Nat \ {0} /\ j + count = i
        /\ j + 1 \in 1 .. n /\ i \in 0 .. n /\ j \in 0 .. n
    BY Geometry DEF IsChain
  <1>2. start \in Clusters /\ start \in Int /\ ch[i] \in Clusters
    BY <1>1, ChainTyped
  <1>3. \A k \in 1 .. count : ch[j + k] = start + (k - 1)
    BY DEF IsRun
  <1> HIDE DEF count
  <1>4. s \in Int /\ s + count <= ClusterCount
    <2>1. count \in 1 .. count
      BY <1>1
    <2>2. ch[i] = start + (count - 1)
      BY <1>1, <1>3, <2>1
    <2>3. start + (count - 1) <= ClusterCount + 1 /\ ClusterCount \in Nat
      BY <1>2, <2>2, Geometry DEF Clusters
    <2> QED
      BY <1>1, <1>2, <2>3
  <1> HIDE DEF w
  <1>5. ModifiedWell(p, start, count, FALSE, w)
    <2>1. ModifiedWell(p, start, count, FALSE, bitmapModify(p, start, count, FALSE))
      <3> DEFINE x == FALSE
      <3>1. x \in BOOLEAN
        OBVIOUS
      <3> HIDE DEF x
      <3>2. ModifiedWell(p, start, count, x, bitmapModify(p, start, count, x))
        BY <1>1, <1>2, <3>1, BitsModified
      <3> QED
        BY <3>2 DEF x
    <2> QED
      BY <2>1 DEF w
  <1>6. /\ w \in Good /\ Beside(p, w, OverDevice \cup {"search"})
        /\ w.io \in p.io - 2 * count .. p.io
        /\ w.search <= s /\ w.search <= p.search
    BY <1>4, <1>5 DEF ModifiedWell
  <1>7. PICK m \in 0 .. count : FirstTurned(p, s, FALSE, count, w, m)
    BY <1>4, <1>5 DEF ModifiedWell
  <1>8. /\ Seen(w) = Put(Seen(p), Places(s .. s + m - 1), Unmarked)
        /\ w.ok = TRUE => m = count
        /\ w.ok # TRUE => m < count /\ (p.io < 2 * count \/ BitsOf(Seen(p))[s + m] = FALSE)
    BY <1>7 DEF FirstTurned, Unmarked
  <1>9. Seen(w) = Cleared(d, ch, i, j + m)
    <2> DEFINE q == j + m
               R == s .. s + m - 1
    <2>1. m \in Nat /\ q \in 0 .. n /\ IsRun(ch, start, j, m)
      BY <1>1, <1>3 DEF IsRun
    <2>2. q = j + m /\ R = start - 2 .. start - 2 + m - 1
      OBVIOUS
    <2> HIDE DEF q, R
    <2>3. Put(Cleared(d, ch, i, j), Places(R), Unmarked) = Cleared(d, ch, i, q)
      BY ONLY d \in Devices, IsChain(d, ch, n), <1>1, <1>2, <2>1, <2>2, ClearedBits
    <2> QED
      BY <1>8, <2>3 DEF q, R
  <1>10. w.ok = TRUE => Seen(w) = Cleared(d, ch, i, i)
    BY <1>1, <1>8, <1>9
  <1>11. w.ok # TRUE => p.io < 2 * count
    <2> SUFFICES ASSUME w.ok # TRUE PROVE p.io < 2 * count
      OBVIOUS
    <2>1. m + 1 \in 1 .. count /\ j + (m + 1) \in 1 .. n /\ j + (m + 1) > j
      BY <1>1, <1>8
    <2>2. ch[j + (m + 1)] = start + ((m + 1) - 1)
      BY <1>3, <2>1
    <2>3. ch[j + (m + 1)] - 2 = s + m
      BY <1>1, <1>2, <2>2
    <2>4. BitsOf(Seen(p))[ch[j + (m + 1)] - 2] = TRUE
      <3>1. \A k \in 1 .. n : k > j => BitsOf(Cleared(d, ch, i, j))[ch[k] - 2] = TRUE
        BY <1>1, ClearedIs
      <3> QED
        BY <2>1, <3>1
    <2> QED
      BY <1>8, <2>3, <2>4
  <1>12. \E q \in 0 .. i : Seen(w) = Cleared(d, ch, i, q)
    <2>1. j + m \in 0 .. i
      BY <1>1
    <2> QED
      BY <1>9, <2>1
  <1> HIDE DEF s
  <1> QED
    BY <1>6, <1>10, <1>11, <1>12 DEF ClearedWell, w, count, s

\* The search starts no further up than at any of the first j clusters.
Lowered(ch, u, j) == \A m \in 1 .. j : u.search <= ch[m] - 2

LEMMA LoweredOn ==
    ASSUME NEW d, NEW ch, NEW n, IsChain(d, ch, n), NEW i \in 0 .. n, NEW j \in 0 .. i,
           NEW p, Lowered(ch, p, j), NEW w, p.search \in Int, w.search \in Int,
           NEW start \in Int, IsRun(ch, start, j, i - j),
           w.search <= start - 2, w.search <= p.search
    PROVE  Lowered(ch, w, i)
  <1>1. n \in Nat /\ i \in Nat /\ j \in Nat
    BY Geometry DEF IsChain
  <1>2. \A m \in 1 .. n : ch[m] \in Int
    BY ChainTyped, <1>1
  <1>3. ASSUME NEW m \in 1 .. i PROVE w.search <= ch[m] - 2
    <2>1. ch[m] \in Int
      BY <1>1, <1>2
    <2>2. CASE m <= j
      <3>1. m \in 1 .. j
        BY <1>1, <2>2
      <3>2. p.search <= ch[m] - 2
        BY <3>1 DEF Lowered
      <3> QED
        BY <2>1, <3>2
    <2>3. CASE m > j
      <3>1. m - j \in 1 .. i - j /\ j + (m - j) = m
        BY <1>1, <2>3
      <3>2. ch[m] = start + ((m - j) - 1)
        BY <3>1 DEF IsRun
      <3> QED
        BY <1>1, <2>1, <3>1, <3>2
    <2> QED
      BY <1>1, <2>2, <2>3
  <1> QED
    BY <1>3 DEF Lowered

\* The loop of freeChain in the round that frees the k-th cluster: it goes on
\* with the next one, the run it is in having begun at start, behind the j
\* clusters whose bits are cleared; or the chain is freed; or it stopped.
FreeStates == [v : Good, start : Int]
OverFree == OverTable \cup {"search"}
InRun(v, ch, k, l, j) ==
    /\ Seen(l.v) = Cleared(Seen(v), ch, k, j) /\ Lowered(ch, l.v, j)
    /\ l.start = ch[j + 1] /\ IsRun(ch, l.start, j, k + 1 - j)
    /\ l.v.io >= v.io - (4 * k + 2 * j)
Freeing(v, ch, n, k, l) ==
    /\ k < n /\ l.v.fg = 1 /\ l.v.val = ch[k + 1]
    /\ \E j \in 0 .. k : InRun(v, ch, k, l, j)
Freed(v, ch, n, u) ==
    u.fg = 0 /\ Seen(u) = Cleared(Seen(v), ch, n, n) /\ Lowered(ch, u, n)
Stopped(v, ch, n, u) ==
    /\ v.io < 6 * n
    /\ \E i \in 0 .. n : \E j \in 0 .. i : Seen(u) = Cleared(Seen(v), ch, i, j)
InRound(v, ch, n, k, l) ==
    /\ l \in FreeStates /\ Beside(v, l.v, OverFree)
    /\ l.v.ok = TRUE => Freeing(v, ch, n, k, l) \/ Freed(v, ch, n, l.v)
    /\ l.v.ok # TRUE => Stopped(v, ch, n, l.v)

\* A round of the loop.
LEMMA freeNextIs ==
    ASSUME NEW v \in Good, NEW ch, NEW n, IsChain(Seen(v), ch, n), "fg" \in MoreFields,
           NEW k \in 0 .. n - 1, NEW l, InRound(v, ch, n, k, l), l.v.ok = TRUE,
           Freeing(v, ch, n, k, l)
    PROVE  InRound(v, ch, n, k + 1, freeNext(l))
  <1> DEFINE d == Seen(v)
             i == k + 1
             c == l.v.val
             p == unchain(l.v)
             cut == p.ok /\ (p.fg = 0 \/ p.val # c + 1)
             w == bitmapModify(p, l.start, c - l.start + 1, FALSE)
             r == freeNext(l)
  <1>1. /\ n \in Nat /\ k \in Nat /\ k \in 0 .. n /\ i \in 1 .. n /\ i \in 0 .. n /\ i = k + 1
        /\ d \in Devices
    BY SeenIs, Geometry DEF IsChain
  <1>2. PICK j \in 0 .. k : InRun(v, ch, k, l, j)
    BY DEF Freeing
  <1>3. /\ c = ch[i] /\ Seen(l.v) = Cleared(d, ch, k, j) /\ Lowered(ch, l.v, j)
        /\ l.start = ch[j + 1] /\ IsRun(ch, l.start, j, i - j)
        /\ l.v.io >= v.io - (4 * k + 2 * j)
        /\ l \in FreeStates /\ l.v \in Good /\ Beside(v, l.v, OverFree)
    BY <1>2 DEF InRun, Freeing, InRound, FreeStates
  <1>4. /\ j \in Nat /\ j + 1 \in 1 .. n /\ j \in 0 .. n /\ j \in 0 .. i - 1
        /\ i - j \in 1 .. i - j
    BY <1>1
  <1>5. /\ c \in Clusters /\ c \in Int /\ l.start \in Int /\ v.io \in Int /\ l.v.io \in Int
        /\ l.v.search \in Int
    <2>1. \A m \in 1 .. n : ch[m] \in Clusters /\ ch[m] \in Int
      BY <1>1, ChainTyped
    <2>2. c = ch[i] /\ l.start = ch[j + 1] /\ i \in 1 .. n /\ j + 1 \in 1 .. n
      BY <1>1, <1>3, <1>4
    <2>3. v.io \in Int
      BY DEF Good, Calls
    <2>4. l.v.io \in Int /\ l.v.search \in Int
      BY <1>3 DEF Good, Calls, Bits
    <2> HIDE DEF c, i
    <2> QED
      BY <2>1, <2>2, <2>3, <2>4
  <1>6. c - l.start + 1 = i - j
    <2>1. ch[j + (i - j)] = l.start + ((i - j) - 1)
      BY <1>3, <1>4 DEF IsRun
    <2>2. j + (i - j) = i
      BY <1>1, <1>4
    <2> QED
      BY <1>1, <1>3, <1>4, <1>5, <2>1, <2>2
  <1>7. EntriesOf(Seen(l.v))[c] = IF i = n THEN EOC ELSE ch[i + 1]
    <2>1. \A m \in 1 .. n : m > k => EntriesOf(Cleared(d, ch, k, j))[ch[m]] =
                                          IF m = n THEN EOC ELSE ch[m + 1]
      <3> HIDE DEF d
      <3>1. IsChain(d, ch, n)
        BY DEF d
      <3> DEFINE e == Cleared(d, ch, k, j)
                 At(m) == m > k => EntriesOf(e)[ch[m]] = IF m = n THEN EOC ELSE ch[m + 1]
      <3>2. \A m \in 1 .. n : At(m) /\ (m > j => BitsOf(e)[ch[m] - 2] = TRUE)
        BY ONLY <1>1, <1>4, <3>1, ClearedIs
      <3> QED
        BY <3>2
    <2>2. i > k
      BY <1>1
    <2> QED
      BY <1>1, <1>3, <2>1, <2>2
  <1>8. r = IF cut THEN [v |-> w, start |-> p.val] ELSE [l EXCEPT !.v = p]
    BY DEF freeNext, With
  <1>9. unchainWell(l.v, c, p)
    BY <1>3, <1>5, unchainIs
  <1> HIDE DEF p, r, w, i, d, c
  <1>10. /\ p \in Good /\ Beside(l.v, p, OverTable) /\ p.io \in l.v.io - 4 .. l.v.io
         /\ p.ok \in BOOLEAN /\ p.io \in Int /\ p.val \in Int /\ p.search = l.v.search
    BY <1>9 DEF unchainWell, Good, Calls, Beside, OverTable, OverDevice, Fields
  <1>11. Beside(v, p, OverFree)
    BY <1>3, <1>10 DEF Beside, OverFree
  <1>12. CASE p.ok # TRUE
    <2>1. r = [l EXCEPT !.v = p]
      BY <1>8, <1>10, <1>12
    <2>2. r \in FreeStates /\ r.v = p
      BY <1>3, <1>10, <2>1 DEF FreeStates
    <2>3. Seen(p) = Cleared(d, ch, k, j) /\ l.v.io <= 3
      BY <1>3, <1>9, <1>12 DEF unchainWell
    <2>4. v.io < 6 * n
      BY <1>1, <1>3, <1>4, <1>5, <2>3
    <2>5. Stopped(v, ch, n, p)
      BY <1>1, <2>3, <2>4 DEF Stopped, d
    <2> QED
      BY <1>11, <1>12, <2>2, <2>5 DEF InRound, r
  <1>13. CASE p.ok = TRUE
    <2>1. Seen(p) = Cleared(d, ch, i, j)
      <3> DEFINE C == {c}
      <3>1. C = {ch[k + 1]}
        BY <1>1, <1>3
      <3>2. Seen(p) = Put(Cleared(d, ch, k, j), Entries(C), Free)
        BY <1>3, <1>9, <1>13 DEF unchainWell
      <3> HIDE DEF C
      <3>3. IsChain(d, ch, n)
        BY DEF d
      <3>4. Put(Cleared(d, ch, k, j), Entries(C), Free) = Cleared(d, ch, k + 1, j)
        BY <1>1, <1>4, <3>1, <3>3, ClearedEntry
      <3> QED
        BY <1>1, <3>2, <3>4
    <2>2. /\ i = n => p.fg = 0
          /\ i # n => p.fg = 1 /\ p.val = ch[i + 1]
      <3>1. i # n => ch[i + 1] # EOC
        <4> SUFFICES ASSUME i # n PROVE ch[i + 1] # EOC
          OBVIOUS
        <4>1. i + 1 \in 1 .. n
          BY <1>1
        <4>2. ch[i + 1] \in Clusters
          BY <1>1, <4>1, ChainTyped
        <4> QED
          BY <4>2, Geometry DEF Clusters, EOC
      <3> QED
        BY <1>7, <1>9, <1>13, <3>1 DEF unchainWell
    <2>3. p.io >= v.io - (4 * i + 2 * j)
      BY <1>1, <1>3, <1>4, <1>5, <1>10
    <2>4. Lowered(ch, p, j)
      BY <1>3, <1>10 DEF Lowered
    <2>5. CASE cut
      <3>1. r = [v |-> w, start |-> p.val] /\ w = bitmapModify(p, l.start, i - j, FALSE)
        BY <1>6, <1>8, <2>5 DEF w
      <3>2. ClearedWell(p, d, ch, l.start, i, j, w)
        <4>1. IsChain(d, ch, n)
          BY DEF d
        <4> QED
          BY <1>1, <1>3, <1>4, <1>10, <1>13, <2>1, <3>1, <4>1, runClearedIs
      <3>3. /\ w \in Good /\ Beside(p, w, OverDevice \cup {"search"})
            /\ w.io \in p.io - 2 * (i - j) .. p.io /\ w.io \in Int /\ w.search \in Int
            /\ w.search <= l.start - 2 /\ w.search <= p.search
            /\ w.ok = TRUE => Seen(w) = Cleared(d, ch, i, i)
            /\ w.ok # TRUE => /\ p.io < 2 * (i - j)
                              /\ \E q \in 0 .. i : Seen(w) = Cleared(d, ch, i, q)
        <4>1. w \in Good => w.io \in Int /\ w.search \in Int
          BY DEF Good, Calls, Bits
        <4> QED
          BY <3>2, <4>1 DEF ClearedWell
      <3>4. w.fg = p.fg /\ w.val = p.val /\ Beside(v, w, OverFree)
        BY <1>11, <3>3 DEF Beside, OverFree, OverTable, OverDevice, Fields
      <3>5. r \in FreeStates /\ r.v = w /\ r.start = p.val
        BY <1>10, <3>1, <3>3 DEF FreeStates
      <3>6. w.ok # TRUE => Stopped(v, ch, n, w)
        <4> SUFFICES ASSUME w.ok # TRUE PROVE Stopped(v, ch, n, w)
          OBVIOUS
        <4>1. v.io < 6 * n
          BY <1>1, <1>4, <1>5, <1>10, <2>3, <3>3
        <4> QED
          BY <1>1, <3>3, <4>1 DEF Stopped, d
      <3>7. Lowered(ch, w, i)
        <4>1. IsChain(d, ch, n) /\ j \in 0 .. i /\ p.search \in Int
          BY <1>1, <1>4, <1>5, <1>10 DEF d
        <4> QED
          BY <1>1, <1>3, <1>5, <2>4, <3>3, <4>1, LoweredOn
      <3>8. w.ok = TRUE => Freeing(v, ch, n, i, r) \/ Freed(v, ch, n, w)
        <4> SUFFICES ASSUME w.ok = TRUE PROVE Freeing(v, ch, n, i, r) \/ Freed(v, ch, n, w)
          OBVIOUS
        <4>1. CASE i = n
          BY <2>2, <3>3, <3>4, <3>7, <4>1 DEF Freed, d
        <4>2. CASE i # n
          <5>1. i < n /\ r.v.fg = 1 /\ r.v.val = ch[i + 1] /\ r.start = ch[i + 1] /\ i \in 0 .. i
            BY <1>1, <2>2, <3>4, <3>5, <4>2
          <5>2. IsRun(ch, r.start, i, i + 1 - i)
            <6>1. \A m \in 1 .. i + 1 - i : m = 1
              BY <1>1
            <6>2. r.start \in Int
              BY <1>10, <3>5
            <6>3. ch[i + 1] = r.start + (1 - 1)
              BY <5>1, <6>2
            <6> QED
              BY <6>1, <6>3 DEF IsRun
          <5>3. w.io >= v.io - (4 * i + 2 * i)
            BY <1>1, <1>4, <1>5, <1>10, <2>3, <3>3
          <5>4. InRun(v, ch, i, r, i)
            BY <3>3, <3>5, <3>7, <5>1, <5>2, <5>3 DEF InRun, d
          <5> QED
            BY <5>1, <5>4 DEF Freeing
        <4> QED
          BY <4>1, <4>2
      <3> QED
        BY <1>1, <3>4, <3>5, <3>6, <3>8 DEF InRound, r
    <2>6. CASE ~cut
      <3>1. r = [l EXCEPT !.v = p]
        BY <1>8, <2>6
      <3>2. r \in FreeStates /\ r.v = p /\ r.start = l.start
        BY <1>3, <1>10, <3>1 DEF FreeStates
      <3>3. i < n /\ p.fg = 1 /\ p.val = ch[i + 1] /\ p.val = c + 1
        BY <1>1, <1>13, <2>2, <2>6
      <3>4. IsRun(ch, l.start, j, i + 1 - j)
        <4> SUFFICES ASSUME NEW m \in 1 .. i + 1 - j
                     PROVE  ch[j + m] = l.start + (m - 1)
          BY DEF IsRun
        <4>1. CASE m \in 1 .. i - j
          BY <1>3, <4>1 DEF IsRun
        <4>2. CASE m = i + 1 - j
          <5>1. j + m = i + 1 /\ m \in Int
            BY <1>1, <1>4, <4>2
          <5>2. c + 1 = l.start + (m - 1)
            BY <1>1, <1>4, <1>5, <1>6, <4>2
          <5> QED
            BY <3>3, <5>1, <5>2
        <4> QED
          BY <1>1, <1>4, <4>1, <4>2
      <3>5. InRun(v, ch, i, r, j)
        BY <1>3, <2>1, <2>3, <2>4, <3>2, <3>4 DEF InRun, d
      <3>6. Freeing(v, ch, n, i, r)
        BY <1>1, <1>4, <3>2, <3>3, <3>5 DEF Freeing
      <3> QED
        BY <1>1, <1>11, <1>13, <3>2, <3>6 DEF InRound, r
    <2> QED
      BY <2>5, <2>6
  <1> QED
    BY <1>10, <1>12, <1>13

\* A loop that is over stays as it is.
LEMMA InRoundOn ==
    ASSUME NEW v, NEW ch, NEW n, NEW k \in Nat \ {0}, NEW l, InRound(v, ch, n, k - 1, l),
           l.v.ok # TRUE \/ ~Freeing(v, ch, n, k - 1, l)
    PROVE  InRound(v, ch, n, k, l)
  BY DEF InRound

\* freeChain takes a chain away: on success its clusters have left the table and
\* the bitmap, no other word that the library sees is changed, and the next
\* search starts no further up than any of them. One that fails does so for lack
\* of accesses alone, and leaves a first part of the chain out of the table and
\* a first part of that unmarked: a cluster is never free in the bitmap while an
\* entry still leads on from it.
FreedWell(v, ch, n, f) ==
    /\ f \in Good /\ Beside(v, f, OverFree)
    /\ f.ok = TRUE => Seen(f) = Cleared(Seen(v), ch, n, n) /\ Lowered(ch, f, n)
    /\ f.ok # TRUE => Stopped(v, ch, n, f)
THEOREM ChainCleared ==
    ASSUME NEW v \in Good, v.ok = TRUE, NEW ch, NEW n, IsChain(Seen(v), ch, n),
           "fg" \in MoreFields
    PROVE  FreedWell(v, ch, n, freeChain(v, ch[1]))
  <1> DEFINE S == FreeStates
             N == ClusterCount
             o == done(v)
             x == [o EXCEPT !.fg = 1]
             y == [x EXCEPT !.val = ch[1]]
             b == [v |-> y, start |-> ch[1]]
             U == {z \in Nat \X S : InRound(v, ch, n, z[1], z[2])}
             Step(k, l) == IF ~l.v.ok \/ l.v.fg = 0 THEN l ELSE freeNext(l)
             G == [z \in Int \X S |-> Step(z[1], z[2])]
             Is(f) == f = [k \in 0 .. N |-> IF k = 0 THEN b ELSE Step(k, f[k - 1])]
             after == CHOOSE f : Is(f)
             f == freeChain(v, ch[1])
             l == after[N]
  <1>1. /\ n \in Nat \ {0} /\ n <= ClusterCount /\ v \in Calls /\ v.io \in Int
        /\ ch[1] \in Clusters /\ ch[1] \in Int
    <2>1. n \in Nat \ {0} /\ n <= ClusterCount /\ v \in Calls /\ v.io \in Int
      BY Geometry DEF IsChain, Good, Calls
    <2>2. 1 \in 1 .. n /\ 0 \in 0 .. n
      BY <2>1
    <2> QED
      BY <2>1, <2>2, ChainTyped
  <1>2. N \in Nat /\ N = ClusterCount
    BY Geometry
  <1>3. f = l.v
    BY DEF freeChain, With, done
  <1>4. b \in S /\ InRound(v, ch, n, 0, b)
    <2>1. o \in Calls /\ o.ok = TRUE /\ Beside(v, o, {"ok"})
      BY <1>1, okIs DEF done
    <2> HIDE DEF o
    <2>2. x \in Calls /\ x.fg = 1 /\ Beside(o, x, {"fg"})
      BY <2>1, fgIs
    <2> HIDE DEF x
    <2>3. y \in Calls /\ y.val = ch[1] /\ Beside(x, y, {"val"})
      BY <1>1, <2>2, valIs
    <2> HIDE DEF y
    <2>4. /\ y.dev = v.dev /\ y.cache = v.cache /\ y.io = v.io /\ y.ok = TRUE /\ y.fg = 1
      BY <2>1, <2>2, <2>3 DEF Beside, Fields
    <2>5. y \in Good /\ Seen(y) = Seen(v)
      BY <2>3, <2>4, GoodSame
    <2>6. Beside(v, y, OverFree)
      BY <2>1, <2>2, <2>3 DEF Beside, OverFree, OverTable, OverDevice
    <2>7. b \in S /\ b.v = y /\ b.start = ch[1]
      BY <1>1, <2>5 DEF FreeStates
    <2>8. Seen(v) = Cleared(Seen(v), ch, 0, 0)
      <3>1. Seen(v) \in [Sectors -> Contents] /\ Free \in Word /\ Unmarked \in Word
        BY SeenIs DEF Free, Unmarked, Word
      <3>2. \A z : z \notin Entries(Front(ch, 0)) /\ z \notin Places(Marks(ch, 0))
        BY DEF Entries, Places, Front, Marks
      <3> QED
        BY <3>1, <3>2, PutNone DEF Cleared
    <2>9. InRun(v, ch, 0, b, 0)
      <3>1. Lowered(ch, b.v, 0)
        BY DEF Lowered
      <3>2. IsRun(ch, b.start, 0, 0 + 1 - 0)
        <4>1. \A m \in 1 .. 0 + 1 - 0 : m = 1
          OBVIOUS
        <4>2. ch[0 + 1] = ch[1] + (1 - 1)
          BY <1>1
        <4> HIDE DEF b
        <4> QED
          BY <2>7, <4>1, <4>2 DEF IsRun
      <3>3. b.v.io >= v.io - (4 * 0 + 2 * 0)
        BY <1>1, <2>4, <2>7
      <3> HIDE DEF b
      <3> QED
        BY <2>5, <2>7, <2>8, <3>1, <3>2, <3>3 DEF InRun
    <2>10. Freeing(v, ch, n, 0, b)
      <3> HIDE DEF b
      <3>1. 0 \in 0 .. 0 /\ 0 < n /\ b.v.val = ch[0 + 1]
        BY <1>1, <2>3, <2>7
      <3> QED
        BY <2>4, <2>7, <2>9, <3>1 DEF Freeing
    <2> HIDE DEF b
    <2> QED
      BY <2>4, <2>6, <2>7, <2>10 DEF InRound
  <1> HIDE DEF f, b
  <1>5. ASSUME NEW k \in 1 .. N, NEW s \in S, <<k - 1, s>> \in U
        PROVE  Step(k, s) \in S /\ <<k, Step(k, s)>> \in U
    <2>1. InRound(v, ch, n, k - 1, s)
      BY <1>5
    <2>2. k \in Nat \ {0} /\ k \in Nat /\ s.v \in Good /\ s.v.ok \in BOOLEAN
      BY <1>2 DEF FreeStates, Good, Calls
    <2>3. CASE s.v.ok = TRUE /\ s.v.fg # 0
      <3>1. Step(k, s) = freeNext(s)
        BY <2>3
      <3>2. Freeing(v, ch, n, k - 1, s)
        BY <2>1, <2>3 DEF InRound, Freed
      <3>3. k - 1 \in 0 .. n - 1 /\ k - 1 + 1 = k
        BY <1>1, <2>2, <3>2 DEF Freeing
      <3>4. InRound(v, ch, n, k, freeNext(s))
        <4> DEFINE m == k - 1
        <4>1. m \in 0 .. n - 1 /\ m + 1 = k /\ InRound(v, ch, n, m, s) /\ Freeing(v, ch, n, m, s)
          BY <2>1, <3>2, <3>3
        <4> HIDE DEF m
        <4>2. InRound(v, ch, n, m + 1, freeNext(s))
          BY <2>3, <4>1, freeNextIs
        <4> QED
          BY <4>1, <4>2
      <3> QED
        BY <2>2, <3>1, <3>4 DEF InRound
    <2>4. CASE ~(s.v.ok = TRUE /\ s.v.fg # 0)
      <3>1. Step(k, s) = s
        BY <2>2, <2>4
      <3>2. s.v.ok # TRUE \/ ~Freeing(v, ch, n, k - 1, s)
        <4>1. Freeing(v, ch, n, k - 1, s) => s.v.fg = 1
          BY DEF Freeing
        <4>2. s.v.fg = 1 => s.v.fg # 0
          OBVIOUS
        <4> DEFINE A == Freeing(v, ch, n, k - 1, s)
        <4> HIDE DEF A
        <4> QED
          BY <2>4, <4>1, <4>2 DEF A
      <3>3. InRound(v, ch, n, k, s)
        BY <2>1, <2>2, <3>2, InRoundOn
      <3> QED
        BY <2>2, <3>1, <3>3
    <2> QED
      BY <2>3, <2>4
  <1>6. ASSUME NEW k \in Int, NEW s \in S PROVE G[<<k, s>>] = Step(k, s)
    OBVIOUS
  <1>7. <<0, b>> \in U
    BY <1>4
  <1>8. \A k, s : <<k, s>> \in U => s \in S /\ InRound(v, ch, n, k, s)
    OBVIOUS
  <1> HIDE DEF S, U, G, Step, N
  <1>9. \E g : Is(g)
    <2>1. ASSUME NEW k \in 1 .. N, NEW s \in S, <<k - 1, s>> \in U
          PROVE  G[<<k, s>>] \in S /\ <<k, G[<<k, s>>]>> \in U
      BY <1>2, <1>5, <1>6, <2>1
    <2>2. b \in S
      BY <1>7, <1>8
    <2>3. \E g \in [0 .. N -> S] :
              Loop(g, b, G, N) /\ \A k \in 0 .. N : <<k, g[k]>> \in U
      BY ONLY <1>2, <1>7, <2>1, <2>2, LoopRuns
    <2>4. PICK g \in [0 .. N -> S] : Loop(g, b, G, N)
      BY <2>3
    <2>5. ASSUME NEW k \in 0 .. N, k # 0 PROVE G[<<k, g[k - 1]>>] = Step(k, g[k - 1])
      <3>1. k - 1 \in 0 .. N /\ k \in Int
        BY <1>2, <2>5
      <3>2. g[k - 1] \in S
        BY <3>1
      <3> QED
        BY <1>6, <3>1, <3>2
    <2>6. Is(g)
      BY <2>4, <2>5 DEF Loop
    <2> QED
      BY <2>6
  <1>10. Is(after)
    BY <1>9, Zenon
  <1> HIDE DEF after
  <1>11. after[0] = b /\ \A k \in 1 .. N : after[k] = Step(k, after[k - 1])
    BY <1>2, <1>10
  <1> HIDE DEF Is
  <1>12. <<0, after[0]>> \in U
    BY <1>7, <1>11
  <1>13. ASSUME NEW k \in 1 .. N, <<k - 1, after[k - 1]>> \in U
         PROVE  <<k, after[k]>> \in U
    <2>1. after[k - 1] \in S
      BY <1>8, <1>13
    <2> QED
      BY <1>5, <1>11, <1>13, <2>1
  <1>14. <<N, l>> \in U
    <2>1. \A k \in 0 .. N : <<k, after[k]>> \in U
      BY ONLY <1>2, <1>12, <1>13, LoopKeepsAt
    <2> QED
      BY <1>2, <2>1
  <1> HIDE DEF l
  <1>15. l \in FreeStates /\ InRound(v, ch, n, ClusterCount, l)
    BY <1>2, <1>8, <1>14 DEF S
  <1>16. ~Freeing(v, ch, n, ClusterCount, l)
    <2>1. ~(ClusterCount < n)
      BY <1>1, Geometry
    <2> QED
      BY <2>1 DEF Freeing
  <1>17. l.v \in Good
    BY <1>15 DEF FreeStates
  <1>18. l.v.ok = TRUE => Freed(v, ch, n, l.v)
    BY <1>15, <1>16 DEF InRound
  <1> QED
    BY <1>3, <1>15, <1>17, <1>18 DEF InRound, Freed, FreedWell, f

-----------------------------------------------------------------------------
(* A sound table.                                                          *)

\* It is one by its bits and entries alone.
SoundOf(B, E) ==
    /\ \A c \in Clusters : E[c] # Free => B[c - 2] = TRUE
    /\ \A c \in Clusters : E[c] \in Clusters => B[E[c] - 2] = TRUE
    /\ \A c \in Clusters, e \in Clusters : E[c] \in Clusters /\ E[e] = E[c] => e = c
LEMMA SoundIs ==
    ASSUME NEW d \in Devices
    PROVE  TableSound(d) <=> SoundOf(BitsOf(d), EntriesOf(d))
  <1>1. \A c \in Clusters : c - 2 \in Bits
    BY Geometry DEF Clusters, Bits
  <1>2. \A b \in Bits : BitsOf(d)[b] = d[BitmapSector(b)][b % BytesPerSector]
    BY DEF BitsOf
  <1>3. \A c \in Clusters : InUse(d, c) = BitsOf(d)[c - 2] /\ InUse(d, c) \in BOOLEAN
    BY <1>1, <1>2 DEF InUse, Devices
  <1>4. \A c \in Clusters : FatEntry(d, c) = EntriesOf(d)[c]
    BY DEF FatEntry, EntriesOf
  <1> HIDE DEF InUse, FatEntry
  <1> DEFINE B == BitsOf(d)
             E == EntriesOf(d)
  <1> HIDE DEF B, E
  <1>5. \A c \in Clusters : (InUse(d, c) <=> B[c - 2] = TRUE) /\ FatEntry(d, c) = E[c]
    BY <1>3, <1>4 DEF B, E
  <1>6. TableSound(d) <=> SoundOf(B, E)
    BY <1>5 DEF TableSound, SoundOf
  <1> QED
    BY <1>6 DEF B, E

\* The table stays sound when bits are set, ...
LEMMA MarkedSound ==
    ASSUME NEW d \in Devices, TableSound(d), NEW X, X \subseteq Bits, NEW x, x = TRUE
    PROVE  Put(d, Places(X), x) \in Devices /\ TableSound(Put(d, Places(X), x))
  <1> DEFINE e == Put(d, Places(X), x)
  <1>1. SoundOf(BitsOf(d), EntriesOf(d)) /\ \A c \in Clusters : c - 2 \in Bits
    BY SoundIs, Geometry DEF Clusters, Bits
  <1>2. /\ e \in Devices /\ EntriesOf(e) = EntriesOf(d)
        /\ BitsOf(e) = [b \in Bits |-> IF b \in X THEN x ELSE BitsOf(d)[b]]
    <2>1. x \in BOOLEAN /\ d \in Devices /\ X \subseteq Bits
      OBVIOUS
    <2> QED
      BY ONLY <2>1, PutBits
  <1> HIDE DEF e
  <1>3. \A b \in Bits : BitsOf(d)[b] = TRUE => BitsOf(e)[b] = TRUE
    BY <1>2
  <1>4. SoundOf(BitsOf(e), EntriesOf(e))
    BY <1>1, <1>2, <1>3 DEF SoundOf
  <1> QED
    BY <1>2, <1>4, SoundIs DEF e

\* ... when bits are cleared of clusters that no chain is on or leads to, ...
Loose(E, X) ==
    \A b \in X : E[b + 2] = Free /\ \A c \in Clusters : E[c] # b + 2
LEMMA UnmarkedSound ==
    ASSUME NEW d \in Devices, TableSound(d), NEW X, X \subseteq Bits,
           Loose(EntriesOf(d), X), NEW x, x = FALSE
    PROVE  Put(d, Places(X), x) \in Devices /\ TableSound(Put(d, Places(X), x))
  <1> DEFINE e == Put(d, Places(X), x)
             E == EntriesOf(d)
  <1>1. /\ SoundOf(BitsOf(d), E)
        /\ \A c \in Clusters : c \in Int /\ c - 2 \in Bits /\ c - 2 + 2 = c
    BY SoundIs, Geometry DEF Clusters, Bits
  <1>2. /\ e \in Devices /\ EntriesOf(e) = E
        /\ BitsOf(e) = [b \in Bits |-> IF b \in X THEN x ELSE BitsOf(d)[b]]
    <2>1. x \in BOOLEAN /\ d \in Devices /\ X \subseteq Bits
      OBVIOUS
    <2> QED
      BY ONLY <2>1, PutBits
  <1> HIDE DEF e, E
  <1>3. \A b \in Bits : b \notin X => BitsOf(e)[b] = BitsOf(d)[b]
    BY <1>2
  <1>4. \A c \in Clusters : E[c] # Free => c - 2 \notin X
    BY <1>1 DEF Loose, E
  <1>5. \A c \in Clusters : E[c] \in Clusters => E[c] - 2 \notin X
    BY <1>1 DEF Loose, E
  <1>6. SoundOf(BitsOf(e), E)
    BY <1>1, <1>3, <1>4, <1>5 DEF SoundOf
  <1> QED
    BY <1>2, <1>6, SoundIs DEF e

\* ... and when an entry is made the end of a chain, or leads to a cluster that
\* no other one leads to.
MayLead(B, E, c, x) ==
    /\ B[c - 2] = TRUE
    /\ \/ x = EOC
       \/ /\ x \in Clusters /\ B[x - 2] = TRUE
          /\ \A e \in Clusters : E[e] = x => e = c
LEMMA LinkedSound ==
    ASSUME NEW d \in Devices, TableSound(d), NEW c \in Clusters, NEW x,
           MayLead(BitsOf(d), EntriesOf(d), c, x)
    PROVE  /\ Put(d, Entries({c}), x) \in Devices
           /\ TableSound(Put(d, Entries({c}), x))
  <1> DEFINE X == {c}
             e == Put(d, Entries(X), x)
             E == EntriesOf(d)
             F == EntriesOf(e)
  <1>1. SoundOf(BitsOf(d), E)
    BY SoundIs
  <1>2. EOC \notin Clusters /\ Free \notin Clusters /\ x \in Nat
    BY Geometry DEF MayLead, Clusters, EOC, Free
  <1>3. /\ e \in Devices /\ BitsOf(e) = BitsOf(d)
        /\ F = [k \in Clusters |-> IF k \in X THEN x ELSE E[k]]
    <2>1. X \subseteq Clusters
      OBVIOUS
    <2> HIDE DEF X
    <2> QED
      BY <1>2, <2>1, PutEntries
  <1>4. \A k \in Clusters : F[k] = IF k = c THEN x ELSE E[k]
    BY <1>3
  <1> HIDE DEF e, E, F, X
  <1>5. SoundOf(BitsOf(d), F)
    <2>1. \A k \in Clusters : F[k] # Free => BitsOf(d)[k - 2] = TRUE
      BY <1>1, <1>4 DEF SoundOf, MayLead
    <2>2. \A k \in Clusters : F[k] \in Clusters => BitsOf(d)[F[k] - 2] = TRUE
      BY <1>1, <1>2, <1>4 DEF SoundOf, MayLead
    <2>3. ASSUME NEW k \in Clusters, NEW m \in Clusters, F[k] \in Clusters, F[m] = F[k]
          PROVE  m = k
      BY <1>1, <1>2, <1>4, <2>3 DEF SoundOf, MayLead, E
    <2> QED
      BY <2>1, <2>2, <2>3 DEF SoundOf
  <1>6. TableSound(e)
    BY <1>3, <1>5, SoundIs DEF F
  <1> QED
    BY <1>3, <1>6 DEF e, X

\* Entries become free.
LEMMA UnlinkedSound ==
    ASSUME NEW d \in Devices, TableSound(d), NEW X, X \subseteq Clusters
    PROVE  TableSound(Put(d, Entries(X), Free))
  <1> DEFINE e == Put(d, Entries(X), Free)
             E == EntriesOf(d)
             F == EntriesOf(e)
  <1>1. SoundOf(BitsOf(d), E) /\ Free \notin Clusters /\ Free \in Nat
    BY SoundIs, Geometry DEF Clusters, Free
  <1>2. /\ e \in Devices /\ BitsOf(e) = BitsOf(d)
        /\ F = [k \in Clusters |-> IF k \in X THEN Free ELSE E[k]]
    BY <1>1, PutEntries
  <1>3. \A k \in Clusters : F[k] = Free \/ F[k] = E[k]
    BY <1>2
  <1> HIDE DEF e, E, F
  <1>4. SoundOf(BitsOf(d), F)
    BY <1>1, <1>3 DEF SoundOf
  <1> QED
    BY <1>2, <1>4, SoundIs DEF e, F

\* A cluster to which no other leads.
IsHead(E, c) == \A e \in Clusters : E[e] # c

\* A chain is taken away, as far as it gets.
LEMMA ClearedSound ==
    ASSUME NEW d \in Devices, TableSound(d), NEW ch, NEW n, IsChain(d, ch, n),
           IsHead(EntriesOf(d), ch[1]), NEW i \in 0 .. n, NEW j \in 0 .. i
    PROVE  TableSound(Cleared(d, ch, i, j))
  <1> DEFINE X == Front(ch, i)
             Y == Marks(ch, j)
             u == Put(d, Entries(X), Free)
             E == EntriesOf(d)
             F == EntriesOf(u)
  <1>1. /\ n \in Nat /\ i \in Nat /\ j \in Nat /\ j \in 0 .. n
        /\ \A m \in 1 .. j : m \in 1 .. n /\ m \in 1 .. i
    BY Geometry DEF IsChain
  <1>2. X \subseteq Clusters /\ Y \subseteq Bits
    BY <1>1, ChainTyped
  <1>3. \A m \in 1 .. n : ch[m] \in Clusters /\ ch[m] \in Int /\ ch[m] - 2 + 2 = ch[m]
    BY <1>1, ChainTyped
  <1>4. \A m \in 1 .. n : E[ch[m]] = IF m = n THEN EOC ELSE ch[m + 1]
    BY DEF IsChain
  <1>5. TableSound(u)
    BY <1>2, UnlinkedSound
  <1>6. u \in Devices /\ F = [k \in Clusters |-> IF k \in X THEN Free ELSE E[k]]
    <2>1. Free \in Nat
      BY DEF Free
    <2> QED
      BY <1>2, <2>1, PutEntries
  <1>7. SoundOf(BitsOf(d), E) /\ Free \notin Clusters
    BY SoundIs, Geometry DEF Clusters, Free
  <1>8. \A m \in 1 .. i : ch[m] \in X
    BY DEF Front
  <1>9. \A b \in Y : \E m \in 1 .. j : b = ch[m] - 2
    BY DEF Marks
  <1>10. Cleared(d, ch, i, j) = Put(u, Places(Y), Unmarked)
    BY DEF Cleared
  <1> HIDE DEF X, Y, u, E, F
  <1>11. ASSUME NEW m \in 1 .. j PROVE F[ch[m]] = Free /\ \A c \in Clusters : F[c] # ch[m]
    <2>1. F[ch[m]] = Free
      BY <1>1, <1>3, <1>6, <1>8
    <2>2. ASSUME NEW c \in Clusters, F[c] = ch[m] PROVE FALSE
      <3>1. m \in 1 .. n /\ m \in 1 .. i /\ ch[m] \in Clusters
        BY <1>1, <1>3
      <3>2. c \notin X /\ E[c] = ch[m]
        BY <1>6, <1>7, <2>2, <3>1
      <3>3. CASE m = 1
        BY <3>2, <3>3 DEF IsHead, E
      <3>4. CASE m # 1
        <4>1. m - 1 \in 1 .. n /\ m - 1 \in 1 .. i /\ m - 1 # n /\ m - 1 + 1 = m
          BY <1>1, <3>1, <3>4
        <4>2. E[ch[m - 1]] = ch[m] /\ ch[m - 1] \in Clusters /\ ch[m - 1] \in X
          BY <1>3, <1>4, <1>8, <4>1
        <4>3. c = ch[m - 1]
          BY <1>7, <3>1, <3>2, <4>2 DEF SoundOf
        <4> QED
          BY <3>2, <4>2, <4>3
      <3> QED
        BY <3>3, <3>4
    <2> QED
      BY <2>1, <2>2
  <1>12. Loose(F, Y)
    <2>1. ASSUME NEW b \in Y PROVE F[b + 2] = Free /\ \A c \in Clusters : F[c] # b + 2
      <3>1. PICK m \in 1 .. j : b = ch[m] - 2
        BY <1>9
      <3>2. b + 2 = ch[m]
        BY <1>1, <1>3, <3>1
      <3> QED
        BY <1>11, <3>2
    <2> QED
      BY <2>1 DEF Loose
  <1>13. TableSound(Put(u, Places(Y), Unmarked))
    <2>1. Unmarked = FALSE
      BY DEF Unmarked
    <2> QED
      BY <1>2, <1>5, <1>6, <1>12, <2>1, UnmarkedSound DEF F
  <1> QED
    BY <1>10, <1>13

-----------------------------------------------------------------------------
(* Data.                                                                   *)

\* The sectors that have neither bits nor entries.
DataSectors ==
    {t \in Sectors : /\ \A b \in Bits : BitmapSector(b) # t
                     /\ \A c \in Clusters : FatSector(c) # t}
SameTables(v, w) ==
    BitsOf(Seen(w)) = BitsOf(Seen(v)) /\ EntriesOf(Seen(w)) = EntriesOf(Seen(v))

\* What is seen differently in them alone is a sound table still.
LEMMA DataApart ==
    ASSUME NEW v \in Good, NEW w \in Calls, BufferGood(w),
           Seen(w) \in [Sectors -> Contents],
           \A t \in Sectors : t \in DataSectors \/ Seen(w)[t] = Seen(v)[t]
    PROVE  w \in Good /\ SameTables(v, w)
  <1> DEFINE d == Seen(v)
             e == Seen(w)
  <1>1. d \in Devices
    BY DEF Good
  <1>2. \A b \in Bits : e[BitmapSector(b)] = d[BitmapSector(b)]
    BY PlaceIs DEF DataSectors
  <1>3. \A c \in Clusters : e[FatSector(c)] = d[FatSector(c)]
    BY EntryIs DEF DataSectors
  <1> HIDE DEF d, e
  <1>4. BitsOf(e) = BitsOf(d) /\ EntriesOf(e) = EntriesOf(d)
    BY <1>2, <1>3 DEF BitsOf, EntriesOf
  <1>5. e \in Devices
    BY <1>1, <1>2, <1>3 DEF Devices, e
  <1> QED
    BY <1>4, <1>5 DEF Good, SameTables, d, e

LEMMA SameSound ==
    ASSUME NEW v \in Good, NEW w \in Good, SameTables(v, w), TableSound(Seen(v))
    PROVE  TableSound(Seen(w))
  <1>1. Seen(v) \in Devices /\ Seen(w) \in Devices
    BY DEF Good
  <1> QED
    BY <1>1, SoundIs DEF SameTables

\* A read around the buffer changes nothing that is seen.
LEMMA safeReadIs ==
    ASSUME NEW v \in Good, v.ok = TRUE, NEW sector \in Int, NEW count \in Int
    PROVE  LET r == cacheSafeRead(v, sector, count) IN r \in Good /\ Seen(r) = Seen(v)
  <1> DEFINE s == IF isCached(v, sector, count) THEN sync(v) ELSE done(v)
             last == sector + count - 1
             a == access(s, last)
             r == cacheSafeRead(v, sector, count)
  <1>1. r = IF s.ok THEN a ELSE s
    BY DEF cacheSafeRead, Then
  <1>2. v \in Calls /\ last \in Int
    BY DEF Good
  <1>3. s \in Good /\ Seen(s) = Seen(v)
    <2>1. CASE isCached(v, sector, count)
      <3>1. syncWell(v, sync(v))
        BY syncIs
      <3> QED
        BY <2>1, <3>1 DEF syncWell, Kept
    <2>2. CASE ~isCached(v, sector, count)
      <3>1. s = [v EXCEPT !.ok = TRUE]
        BY <2>2 DEF done
      <3> HIDE DEF s
      <3>2. s \in Calls /\ Beside(v, s, {"ok"})
        BY <1>2, <3>1, okIs
      <3>3. s.dev = v.dev /\ s.cache = v.cache
        BY <3>2 DEF Beside, Fields
      <3> QED
        BY <3>2, <3>3, GoodSame
    <2> QED
      BY <2>1, <2>2
  <1> HIDE DEF s, last, r
  <1>4. s \in Calls /\ s.ok \in BOOLEAN
    BY <1>3 DEF Good, Calls
  <1>5. a \in Calls /\ Beside(s, a, {"io", "ok"})
    BY <1>2, <1>4, accessIs
  <1> HIDE DEF a
  <1>6. a.dev = s.dev /\ a.cache = s.cache
    BY <1>5 DEF Beside, Fields
  <1>7. s.ok = TRUE => a \in Good /\ Seen(a) = Seen(s)
    BY <1>3, <1>5, <1>6, GoodSame
  <1> QED
    BY <1>1, <1>3, <1>4, <1>7 DEF r

\* A buffer that is clean, or has the sector, may take it and new words.
Taken(u, w, sector) ==
    /\ u.cache.dirty = FALSE \/ u.cache.sector = sector
    /\ w.dev = u.dev /\ w.cache.sector = sector /\ w.cache.dirty = TRUE
    /\ w.cache.mirror = FALSE
LEMMA takenIs ==
    ASSUME NEW u \in Good, NEW w \in Calls, NEW sector \in DataSectors, Taken(u, w, sector)
    PROVE  w \in Good /\ SameTables(u, w)
  <1>1. /\ sector \in Sectors /\ u.dev \in [Sectors -> Contents] /\ w.cache.data \in Contents
        /\ u.cache.dirty \in BOOLEAN
    BY DEF DataSectors, Good, Calls, Caches
  <1>2. Seen(w) = [u.dev EXCEPT ![sector] = w.cache.data]
    BY DEF Seen, Taken
  <1>3. ASSUME NEW t \in Sectors, t # sector PROVE Seen(w)[t] = Seen(u)[t]
    <2>1. Seen(w)[t] = u.dev[t]
      BY <1>1, <1>2, <1>3
    <2>2. CASE u.cache.dirty = FALSE
      BY <2>1, <2>2 DEF Seen
    <2>3. CASE u.cache.dirty = TRUE
      <3>1. u.cache.sector = sector
        BY <2>3 DEF Taken
      <3> QED
        BY <1>1, <1>3, <2>1, <2>3, <3>1 DEF Seen
    <2> QED
      BY <1>1, <2>2, <2>3
  <1>4. BufferGood(w)
    BY <1>1 DEF Taken, BufferGood, BufferClean
  <1>5. Seen(w) \in [Sectors -> Contents]
    BY <1>1, <1>2
  <1> QED
    BY <1>3, <1>4, <1>5, DataApart

\* A sector is prepared and its words are replaced (writePart of a file, the
\* zeroes of a new cluster, an entry of a directory).
putInBuffer(v, sector, option, data) ==
    Then(prepare(v, sector, option), LAMBDA p : [p EXCEPT !.cache.data = data])
LEMMA putInBufferIs ==
    ASSUME NEW v \in Good, v.ok = TRUE, NEW sector \in DataSectors,
           NEW option \in {ForWrite, ReserveForWrite}, NEW data \in Contents
    PROVE  LET w == putInBuffer(v, sector, option, data) IN w \in Good /\ SameTables(v, w)
  <1> DEFINE p == prepare(v, sector, option)
             q == IF v.cache.sector = sector THEN done(v) ELSE load(v, sector, option)
             s == sync(v)
             w == putInBuffer(v, sector, option, data)
             pb == [q.cache EXCEPT !.dirty = q.cache.dirty \/ option.write,
                                   !.mirror = q.cache.mirror \/ option.mirror]
             wb == [p.cache EXCEPT !.data = data]
  <1>1. sector \in Sectors /\ v \in Calls
    BY DEF DataSectors, Good
  <1>2. w = IF p.ok THEN [p EXCEPT !.cache = wb] ELSE p
    BY DEF putInBuffer, Then
  <1>3. p = IF q.ok THEN [q EXCEPT !.cache = pb] ELSE q
    BY DEF prepare, Then
  <1>4. option.write = TRUE /\ option.mirror = FALSE
    BY DEF ForWrite, ReserveForWrite, ForRead
  \* Either the call has failed with nothing changed, or the buffer may be taken.
  <1>5. \E u \in Good : /\ Seen(u) = Seen(v) /\ p \in Calls /\ p.ok \in BOOLEAN
                        /\ p.ok # TRUE => p = u
                        /\ p.ok = TRUE => Taken(u, p, sector)
    <2>1. CASE option = ForWrite
      <3>1. prepareWell(v, sector, ForWrite, p)
        BY <1>1, <2>1, prepareIs
      <3> HIDE DEF p
      <3>2. /\ p \in Good /\ p \in Calls /\ p.ok \in BOOLEAN /\ Seen(p) = Seen(v)
            /\ BufferGood(p)
        BY <3>1 DEF prepareWell, Kept, Good, Calls
      <3>3. p.ok = TRUE => p.cache.sector = sector /\ p.cache.dirty = TRUE
        BY <3>1 DEF prepareWell, Holds, ForWrite, ForRead
      <3>4. p.ok = TRUE => Taken(p, p, sector)
        BY <3>2, <3>3 DEF Taken, BufferGood, BufferClean
      <3> QED
        BY <3>2, <3>4
    <2>2. CASE option = ReserveForWrite
      <3> DEFINE c == [emptyCache(s.cache.data) EXCEPT !.sector = sector]
      <3>1. \E u \in Good : /\ Seen(u) = Seen(v) /\ q \in Calls /\ q.ok \in BOOLEAN
                            /\ q.ok # TRUE => q = u
                            /\ q.ok = TRUE => /\ u.cache.dirty = FALSE \/ u.cache.sector = sector
                                              /\ q.dev = u.dev /\ q.cache.sector = sector
                                              /\ q.cache.mirror = FALSE
        <4>1. CASE v.cache.sector = sector
          <5>1. q = [v EXCEPT !.ok = TRUE]
            BY <4>1 DEF done
          <5> HIDE DEF q
          <5>2. q \in Calls /\ Beside(v, q, {"ok"}) /\ q.ok = TRUE
            BY <1>1, <5>1, okIs
          <5>3. q.dev = v.dev /\ q.cache = v.cache
            BY <5>2 DEF Beside, Fields
          <5>4. v.cache.mirror = FALSE
            BY DEF Good, BufferGood, BufferClean
          <5> QED
            BY <4>1, <5>2, <5>3, <5>4
        <4>2. CASE v.cache.sector # sector
          <5>1. option.noRead = TRUE
            BY <2>2 DEF ReserveForWrite, ForWrite, ForRead
          <5>2. q = IF s.ok THEN IF s.ok THEN [s EXCEPT !.cache = c] ELSE s ELSE s
            BY <4>2, <5>1 DEF load, Then
          <5>3. syncWell(v, s)
            BY syncIs
          <5> HIDE DEF q, s
          <5>4. /\ s \in Good /\ Seen(s) = Seen(v) /\ s \in Calls /\ s.ok \in BOOLEAN
                /\ s.ok = TRUE => s.cache.dirty = FALSE
                /\ s.cache \in Caches
            BY <5>3 DEF syncWell, Kept, Good, Calls
          <5>5. c \in Caches /\ c.sector = sector /\ c.mirror = FALSE
            BY <1>1, <5>4 DEF emptyCache, Caches
          <5>6. CASE s.ok # TRUE
            BY <5>2, <5>4, <5>6
          <5>7. CASE s.ok = TRUE
            <6> HIDE DEF c
            <6>1. q = [s EXCEPT !.cache = c]
              BY <5>2, <5>7
            <6>2. q \in Calls /\ q.cache = c /\ Beside(s, q, {"cache"})
              BY <5>4, <5>5, <6>1, cacheIs
            <6>3. q.dev = s.dev /\ q.ok = TRUE
              BY <5>7, <6>2 DEF Beside, Fields
            <6> QED
              BY <5>4, <5>5, <5>7, <6>2, <6>3
          <5> QED
            BY <5>4, <5>6, <5>7
        <4> QED
          BY <4>1, <4>2
      <3>2. PICK u \in Good : /\ Seen(u) = Seen(v) /\ q \in Calls /\ q.ok \in BOOLEAN
                              /\ q.ok # TRUE => q = u
                              /\ q.ok = TRUE => /\ u.cache.dirty = FALSE \/ u.cache.sector = sector
                                                /\ q.dev = u.dev /\ q.cache.sector = sector
                                                /\ q.cache.mirror = FALSE
        BY <3>1
      <3> HIDE DEF q
      <3>3. CASE q.ok # TRUE
        <4>1. p = q
          BY <1>3, <3>2, <3>3
        <4> QED
          BY <3>2, <3>3, <4>1
      <3>4. CASE q.ok = TRUE
        <4>1. p = [q EXCEPT !.cache = pb]
          BY <1>3, <3>4
        <4>2. /\ pb \in Caches /\ pb.sector = sector /\ pb.dirty = TRUE /\ pb.mirror = FALSE
          <5>1. q.cache \in Caches
            BY <3>2 DEF Calls
          <5> QED
            BY <1>4, <3>2, <3>4, <5>1 DEF Caches
        <4> HIDE DEF pb, p
        <4>3. p \in Calls /\ p.cache = pb /\ Beside(q, p, {"cache"})
          BY <3>2, <4>1, <4>2, cacheIs
        <4>4. p.dev = q.dev /\ p.ok = TRUE
          BY <3>4, <4>3 DEF Beside, Fields
        <4>5. Taken(u, p, sector)
          BY <3>2, <3>4, <4>2, <4>3, <4>4 DEF Taken
        <4> QED
          BY <3>2, <4>3, <4>4, <4>5
      <3> QED
        BY <3>2, <3>3, <3>4
    <2> QED
      BY <2>1, <2>2
  <1>6. PICK u \in Good : /\ Seen(u) = Seen(v) /\ p \in Calls /\ p.ok \in BOOLEAN
                          /\ p.ok # TRUE => p = u
                          /\ p.ok = TRUE => Taken(u, p, sector)
    BY <1>5
  <1> HIDE DEF p, w
  <1>7. CASE p.ok # TRUE
    <2>1. w = u
      BY <1>2, <1>6, <1>7
    <2> QED
      BY <1>6, <2>1 DEF SameTables, w
  <1>8. CASE p.ok = TRUE
    <2>1. w = [p EXCEPT !.cache = wb]
      BY <1>2, <1>8
    <2>2. /\ wb \in Caches /\ wb.sector = p.cache.sector /\ wb.dirty = p.cache.dirty
          /\ wb.mirror = p.cache.mirror
      <3>1. p.cache \in Caches
        BY <1>6 DEF Calls
      <3> QED
        BY <3>1 DEF Caches
    <2> HIDE DEF wb
    <2>3. w \in Calls /\ w.cache = wb /\ Beside(p, w, {"cache"})
      BY <1>6, <2>1, <2>2, cacheIs
    <2>4. w.dev = p.dev
      BY <2>3 DEF Beside, Fields
    <2>5. Taken(u, w, sector)
      BY <1>6, <1>8, <2>2, <2>3, <2>4 DEF Taken
    <2>6. w \in Good /\ SameTables(u, w)
      BY <2>3, <2>5, takenIs
    <2> QED
      BY <1>6, <2>6 DEF SameTables, w
  <1> QED
    BY <1>6, <1>7, <1>8
\* Sectors are written one by one, around the buffer.
WriteStep(sector, datas, k, w) ==
    IF w.ok THEN writeSector(w, sector + k - 1, datas[k]) ELSE w
Wrote(u, w) == w \in Good /\ w.cache = u.cache /\ SameTables(u, w)
LEMMA WriteGoesOn ==
    ASSUME NEW u \in Good, NEW x, Wrote(u, x), NEW sector \in Nat,
           NEW datas \in Seq(Contents), NEW k \in 1 .. Len(datas),
           sector + k - 1 \in DataSectors, u.cache.sector # sector + k - 1
    PROVE  Wrote(u, WriteStep(sector, datas, k, x))
  <1> DEFINE t == sector + k - 1
             y == writeSector(x, t, datas[k])
  <1>1. /\ t \in Sectors /\ t \in DataSectors /\ u.cache.sector # t /\ datas[k] \in Contents
        /\ WriteStep(sector, datas, k, x) = IF x.ok THEN y ELSE x
    BY DEF DataSectors, WriteStep
  <1>2. /\ x \in Good /\ x \in Calls /\ x.cache = u.cache /\ x.ok \in BOOLEAN
        /\ x.dev \in [Sectors -> Contents] /\ x.cache \in Caches /\ BufferGood(x)
    BY DEF Wrote, Good, Calls
  <1> HIDE DEF t
  <1>3. /\ y \in Calls /\ Beside(x, y, {"dev", "log", "io", "ok"})
        /\ y.ok # TRUE => y.dev = x.dev
        /\ y.ok = TRUE => y.dev = [x.dev EXCEPT ![t] = datas[k]]
    BY <1>1, <1>2, writeSectorIs
  <1> HIDE DEF y
  <1>4. /\ y.cache = x.cache /\ y.dev \in [Sectors -> Contents]
        /\ \A s \in Sectors : s = t \/ y.dev[s] = x.dev[s]
    BY <1>2, <1>3 DEF Beside, Fields, Calls
  <1>5. x.ok = TRUE => BufferGood(y)
    <2>1. x.cache.sector # t /\ x.cache.sector \in Sectors \cup {NoSector}
      BY <1>1, <1>2 DEF Caches
    <2> QED
      BY <1>2, <1>4, <2>1 DEF BufferGood, BufferClean
  <1>6. /\ Seen(y) \in [Sectors -> Contents]
        /\ \A s \in Sectors : s = t \/ Seen(y)[s] = Seen(x)[s]
    <2>1. CASE x.cache.dirty = FALSE
      BY <1>4, <2>1 DEF Seen
    <2>2. CASE x.cache.dirty = TRUE
      <3>1. x.cache.sector \in Sectors /\ x.cache.data \in Contents
        BY <1>2, <2>2 DEF BufferGood, BufferClean, Caches
      <3>2. /\ Seen(y) = [y.dev EXCEPT ![x.cache.sector] = x.cache.data]
            /\ Seen(x) = [x.dev EXCEPT ![x.cache.sector] = x.cache.data]
        BY <1>4, <2>2 DEF Seen
      <3> QED
        BY <1>2, <1>4, <3>1, <3>2
    <2> QED
      BY <1>2, <2>1, <2>2 DEF Caches
  <1>7. x.ok = TRUE => y \in Good /\ SameTables(x, y)
    BY <1>1, <1>2, <1>3, <1>5, <1>6, DataApart
  <1>8. x.ok = TRUE => Wrote(u, y)
    BY <1>2, <1>4, <1>7 DEF Wrote, SameTables
  <1> QED
    BY <1>1, <1>2, <1>8

LEMMA writeSectorsIs ==
    ASSUME NEW u \in Good, NEW sector \in Nat, NEW datas \in Seq(Contents),
           \A k \in 1 .. Len(datas) : /\ sector + k - 1 \in DataSectors
                                      /\ u.cache.sector # sector + k - 1
    PROVE  Wrote(u, writeSectors(u, sector, datas))
  <1> DEFINE S == Good
             n == Len(datas)
             U == {x \in Nat \X S : Wrote(u, x[2])}
             Step(k, w) == WriteStep(sector, datas, k, w)
             G == [x \in Int \X S |-> Step(x[1], x[2])]
             Is(f) == f = [k \in 0 .. n |-> IF k = 0 THEN u ELSE Step(k, f[k - 1])]
             after == CHOOSE f : Is(f)
             w == writeSectors(u, sector, datas)
  <1>1. n \in Nat
    OBVIOUS
  <1>2. w = after[n]
    BY DEF writeSectors, Then, WriteStep
  <1>3. <<0, u>> \in U
    BY DEF Wrote, SameTables
  <1>4. ASSUME NEW k \in 1 .. n, NEW x \in S, <<k - 1, x>> \in U
        PROVE  Step(k, x) \in S /\ <<k, Step(k, x)>> \in U
    <2>1. Wrote(u, x) /\ k \in Nat /\ k \in 1 .. Len(datas)
      BY <1>1, <1>4
    <2>2. Wrote(u, Step(k, x))
      BY <2>1, WriteGoesOn
    <2> QED
      BY <2>1, <2>2 DEF Wrote
  <1>5. ASSUME NEW k \in Int, NEW x \in S PROVE G[<<k, x>>] = Step(k, x)
    OBVIOUS
  <1>6. \A k, x : <<k, x>> \in U => x \in S /\ Wrote(u, x)
    OBVIOUS
  <1> HIDE DEF S, U, G, Step, n, w
  <1>7. \E f : Is(f)
    <2>1. ASSUME NEW k \in 1 .. n, NEW x \in S, <<k - 1, x>> \in U
          PROVE  G[<<k, x>>] \in S /\ <<k, G[<<k, x>>]>> \in U
      BY <1>1, <1>4, <1>5, <2>1
    <2>2. u \in S
      BY <1>3, <1>6
    <2>3. \E f \in [0 .. n -> S] :
              Loop(f, u, G, n) /\ \A k \in 0 .. n : <<k, f[k]>> \in U
      BY ONLY <1>1, <1>3, <2>1, <2>2, LoopRuns
    <2>4. PICK f \in [0 .. n -> S] : Loop(f, u, G, n)
      BY <2>3
    <2>5. ASSUME NEW k \in 0 .. n, k # 0 PROVE G[<<k, f[k - 1]>>] = Step(k, f[k - 1])
      <3>1. k - 1 \in 0 .. n /\ k \in Int
        BY <1>1, <2>5
      <3>2. f[k - 1] \in S
        BY <3>1
      <3> QED
        BY <3>1, <3>2, <1>5
    <2>6. Is(f)
      BY <2>4, <2>5 DEF Loop
    <2> QED
      BY <2>6
  <1>8. Is(after)
    BY <1>7, Zenon
  <1> HIDE DEF after
  <1>9. after[0] = u /\ \A k \in 1 .. n : after[k] = Step(k, after[k - 1])
    BY <1>1, <1>8
  <1> HIDE DEF Is
  <1>10. <<0, after[0]>> \in U
    BY <1>3, <1>9
  <1>11. ASSUME NEW k \in 1 .. n, <<k - 1, after[k - 1]>> \in U
         PROVE  <<k, after[k]>> \in U
    <2>1. after[k - 1] \in S
      BY <1>6, <1>11
    <2> QED
      BY <1>4, <1>9, <1>11, <2>1
  <1>12. <<n, after[n]>> \in U
    <2>1. \A k \in 0 .. n : <<k, after[k]>> \in U
      BY ONLY <1>1, <1>10, <1>11, LoopKeepsAt
    <2> QED
      BY <1>1, <2>1
  <1> QED
    BY <1>2, <1>6, <1>12 DEF w

\* The buffer is dropped first if it holds one of the sectors to write.
LEMMA safeWriteIs ==
    ASSUME NEW v \in Good, v.ok = TRUE, NEW sector \in Nat, NEW datas \in Seq(Contents),
           sector .. sector + Len(datas) - 1 \subseteq DataSectors
    PROVE  LET w == cacheSafeWrite(v, sector, datas) IN w \in Good /\ SameTables(v, w)
  <1> DEFINE n == Len(datas)
             c == emptyCache(v.cache.data)
             i == [v EXCEPT !.cache = c]
             u == IF isCached(v, sector, n) THEN i ELSE v
             w == cacheSafeWrite(v, sector, datas)
  <1>1. /\ v \in Calls /\ n \in Nat /\ v.dev \in [Sectors -> Contents]
        /\ v.cache \in Caches /\ v.cache.sector \in Sectors \cup {NoSector}
        /\ v.cache.dirty \in BOOLEAN /\ v.cache.data \in Contents
        /\ \A s \in Sectors \cup {NoSector} : s \in Int
    BY DEF Good, Calls, Caches, Sectors, NoSector
  <1>2. \A k \in 1 .. n : sector + k - 1 \in DataSectors
    <2>1. \A k \in 1 .. n : sector + k - 1 \in sector .. sector + n - 1
      BY <1>1
    <2> QED
      BY <2>1
  <1>3. w = writeSectors(u, sector, datas)
    BY DEF cacheSafeWrite, invalidate
  <1>4. /\ u \in Good /\ SameTables(v, u)
        /\ \A k \in 1 .. n : u.cache.sector # sector + k - 1
    <2>1. CASE isCached(v, sector, n)
      <3>1. u = i /\ v.cache.sector \in sector .. sector + n - 1
        <4>1. /\ v.cache.sector \in Int /\ sector <= v.cache.sector
              /\ v.cache.sector < sector + n
          BY <1>1, <2>1 DEF isCached
        <4> HIDE DEF n
        <4>2. v.cache.sector \in sector .. sector + n - 1
          BY <1>1, <4>1
        <4> QED
          BY <2>1, <4>2 DEF n
      <3>2. c \in Caches /\ c.sector = NoSector /\ c.dirty = FALSE /\ c.mirror = FALSE
        BY <1>1 DEF emptyCache, Caches
      <3> HIDE DEF c, i, u
      <3>3. u \in Calls /\ u.cache = c /\ Beside(v, u, {"cache"})
        BY <1>1, <3>1, <3>2, cacheIs DEF i
      <3>4. u.dev = v.dev
        BY <3>3 DEF Beside, Fields
      <3>5. BufferGood(u) /\ Seen(u) = v.dev
        BY <3>2, <3>3, <3>4 DEF BufferGood, BufferClean, Seen
      <3>6. \A s \in Sectors : s \in DataSectors \/ Seen(u)[s] = Seen(v)[s]
        <4>1. ASSUME NEW s \in Sectors, s # v.cache.sector PROVE Seen(v)[s] = v.dev[s]
          BY <1>1, <4>1 DEF Seen
        <4>2. v.cache.sector \in DataSectors
          BY <3>1
        <4> QED
          BY <3>5, <4>1, <4>2
      <3>7. u \in Good /\ SameTables(v, u)
        BY <1>1, <3>3, <3>5, <3>6, DataApart
      <3>8. \A k \in 1 .. n : NoSector # sector + k - 1
        BY DEF NoSector
      <3> QED
        BY <3>2, <3>3, <3>7, <3>8
    <2>2. CASE ~isCached(v, sector, n)
      <3>1. u = v
        BY <2>2
      <3>2. \A k \in 1 .. n : v.cache.sector # sector + k - 1
        BY <1>1, <2>2 DEF isCached
      <3> QED
        BY <3>1, <3>2 DEF SameTables
    <2> QED
      BY <2>1, <2>2
  <1> HIDE DEF u, w, n
  <1>5. Wrote(u, w)
    BY <1>2, <1>3, <1>4, writeSectorsIs DEF n
  <1> QED
    BY <1>4, <1>5 DEF Wrote, SameTables, w
-----------------------------------------------------------------------------
(* Calls, one after the other.                                             *)

\* The run that take marks is on no chain, and no chain leads to it: of a sound
\* table, a file never gets a cluster that a chain has.
THEOREM TakenIsLoose ==
    ASSUME NEW v \in Good, v.ok = TRUE, TableSound(Seen(v)), NEW cluster \in Behind,
           NEW count \in Nat \ {0}, take(v, cluster, count).ok = TRUE
    PROVE  LET w == take(v, cluster, count)
           IN  Loose(EntriesOf(Seen(w)), w.val - 2 .. w.val - 2 + count - 1)
  <1> DEFINE w == take(v, cluster, count)
             s == w.val - 2
             X == s .. s + count - 1
             B == BitsOf(Seen(v))
             E == EntriesOf(Seen(v))
             start == StartOf(v, cluster)
             one == TRUE
  <1>1. First(B, start, count, s) /\ Seen(w) = Put(Seen(v), Places(X), TRUE)
    BY RunTaken
  <1>2. SoundOf(B, E) /\ Seen(v) \in Devices
    BY SeenIs, SoundIs
  <1> HIDE DEF w, start
  <1>3. s \in Nat /\ s + count <= ClusterCount /\ \A b \in X : B[b] = FALSE
    BY <1>1 DEF First, RunAt
  <1> HIDE DEF s
  <1>4. X \subseteq Bits
    BY <1>3, Geometry DEF Bits
  <1>5. EntriesOf(Seen(w)) = E
    <2>1. one \in BOOLEAN /\ Seen(w) = Put(Seen(v), Places(X), one)
      BY <1>1
    <2> HIDE DEF one, X
    <2> QED
      BY <1>2, <1>4, <2>1, PutBits
  <1> HIDE DEF B, E, X
  <1>6. ASSUME NEW b \in X PROVE E[b + 2] = Free /\ \A c \in Clusters : E[c] # b + 2
    <2> DEFINE t == b + 2
    <2>1. t \in Clusters /\ t - 2 = b
      BY <1>4, Geometry DEF Bits, Clusters
    <2>2. B[t - 2] # TRUE
      BY <1>3, <2>1
    <2> HIDE DEF t
    <2>3. E[t] = Free
      BY <1>2, <2>1, <2>2 DEF SoundOf
    <2>4. ASSUME NEW c \in Clusters, E[c] = t PROVE FALSE
      <3>1. B[E[c] - 2] = TRUE
        BY <1>2, <2>1, <2>4 DEF SoundOf
      <3> QED
        BY <2>2, <2>4, <3>1
    <2> QED
      BY <2>3, <2>4 DEF t
  <1> QED
    BY <1>5, <1>6 DEF Loose, w, s, X

VARIABLE call       \* the call that runs, or the one that ran last

VolumeSound == TableSound(Seen(call))
UseInit == call \in Good /\ BufferClean(call) /\ VolumeSound

\* A call begins, any of its accesses being the one that fails, or the layers
\* above do what they do for themselves; neither, once a read that failed has
\* left its words in the buffer, as if all were well.
AboveTable ==
    call' \in {w \in Calls : /\ w.dev = call.dev /\ w.cache = call.cache
                             /\ w.ok = TRUE => BufferClean(call)}

\* Clusters are looked for, taken, and given back if no chain has them; an entry
\* is read, or put where it may lead; a chain is freed from its head.
OnVolume ==
    LET B == BitsOf(Seen(call))
        E == EntriesOf(Seen(call))
    IN  \/ \E cluster \in Behind, count \in Nat \ {0} :
              \/ call' = bitmapFind(call, cluster, count)
              \/ call' = take(call, cluster, count)
        \/ \E cluster \in Clusters, count \in Nat \ {0} :
              /\ Loose(E, Bits \cap (cluster - 2 .. cluster - 2 + count - 1))
              /\ call' = bitmapModify(call, cluster, count, Unmarked)
        \/ \E c \in Clusters : call' = fatGet(call, c)
        \/ \E c \in Clusters, x \in Clusters \cup {EOC} :
              MayLead(B, E, c, x) /\ call' = fatPut(call, c, x)
        \/ \E n \in 1 .. ClusterCount : \E ch \in [1 .. n -> Clusters] :
              /\ IsChain(Seen(call), ch, n) /\ IsHead(E, ch[1])
              /\ call' = freeChain(call, ch[1])

\* Sectors of data are read and written through the buffer, or around it.
OnData ==
    \/ call' = sync(call)
    \/ \E sector \in Sectors : call' = prepare(call, sector, ForRead)
    \/ \E sector \in Int, count \in Int : call' = cacheSafeRead(call, sector, count)
    \/ \E sector \in Nat, datas \in Seq(Contents) :
          /\ sector .. sector + Len(datas) - 1 \subseteq DataSectors
          /\ call' = cacheSafeWrite(call, sector, datas)
    \/ \E sector \in DataSectors, option \in {ForWrite, ReserveForWrite},
          data \in Contents : call' = putInBuffer(call, sector, option, data)

\* What has failed is not gone on with in the call.
UseNext == AboveTable \/ (call.ok = TRUE /\ (OnVolume \/ OnData))
UseSpec == UseInit /\ [][UseNext]_call

\* A bitmapModify that clears loose bits, wherever it fails, leaves the table sound.
LEMMA GivenBackSound ==
    ASSUME NEW v \in Good, v.ok = TRUE, TableSound(Seen(v)), NEW cluster \in Clusters,
           NEW count \in Nat \ {0},
           Loose(EntriesOf(Seen(v)), Bits \cap (cluster - 2 .. cluster - 2 + count - 1))
    PROVE  LET w == bitmapModify(v, cluster, count, Unmarked)
           IN  w \in Good /\ TableSound(Seen(w))
  <1> DEFINE w == bitmapModify(v, cluster, count, Unmarked)
             start == cluster - 2
             E == EntriesOf(Seen(v))
             run == Bits \cap (start .. start + count - 1)
  <1>1. ModifiedWell(v, cluster, count, Unmarked, w)
    <2>1. Unmarked \in BOOLEAN
      BY DEF Unmarked
    <2> QED
      BY <2>1, BitsModified
  <1>2. /\ start \in Int /\ start \in Nat /\ ClusterCount \in Nat /\ Seen(v) \in Devices
    BY SeenIs, Geometry DEF Clusters
  <1> HIDE DEF w
  <1>3. w \in Good
    BY <1>1 DEF ModifiedWell
  <1>4. CASE start + count > ClusterCount
    BY <1>1, <1>3, <1>4 DEF ModifiedWell, w
  <1>5. CASE start + count <= ClusterCount
    <2>1. PICK n \in 0 .. count : FirstTurned(v, start, Unmarked, count, w, n)
      BY <1>1, <1>5 DEF ModifiedWell
    <2> DEFINE X == start .. start + n - 1
    <2>2. X \subseteq Bits /\ X \subseteq run
      BY <1>2, <1>5 DEF Bits
    <2>3. Seen(w) = Put(Seen(v), Places(X), Unmarked)
      BY <2>1 DEF FirstTurned
    <2> HIDE DEF X, run, E, start
    <2>4. Loose(E, X)
      <3>1. Loose(E, run)
        BY DEF run, E, start
      <3> QED
        BY <2>2, <3>1 DEF Loose
    <2>5. TableSound(Put(Seen(v), Places(X), Unmarked))
      <3>1. Unmarked = FALSE
        BY DEF Unmarked
      <3> QED
        BY <1>2, <2>2, <2>4, <3>1, UnmarkedSound DEF E
    <2> QED
      BY <1>3, <2>3, <2>5 DEF w
  <1> QED
    BY <1>2, <1>4, <1>5

\* So does a run that is taken, or half taken.
LEMMA TakenSound ==
    ASSUME NEW v \in Good, v.ok = TRUE, TableSound(Seen(v)), NEW cluster \in Behind,
           NEW count \in Nat \ {0}
    PROVE  LET w == take(v, cluster, count) IN w \in Good /\ TableSound(Seen(w))
  <1> DEFINE w == take(v, cluster, count)
             s == w.val - 2
             B == BitsOf(Seen(v))
             start == StartOf(v, cluster)
             one == TRUE
  <1>1. /\ w \in Good
        /\ \/ Seen(w) = Seen(v)
           \/ \E n \in 0 .. count :
                 /\ First(B, start, count, s)
                 /\ Seen(w) = Put(Seen(v), Places(s .. s + n - 1), one)
    <2>1. w \in Good /\ w.ok \in BOOLEAN
      BY RunTaken DEF Good, Calls
    <2>2. CASE w.ok = TRUE
      <3>1. First(B, start, count, s) /\ Seen(w) = Put(Seen(v), Places(s .. s + count - 1), one)
        BY <2>2, RunTaken
      <3>2. count \in 0 .. count
        OBVIOUS
      <3> HIDE DEF w, s, B, start, one
      <3> QED
        BY <2>1, <3>1, <3>2
    <2>3. CASE w.ok # TRUE
      <3>1. \/ Seen(w) = Seen(v)
            \/ \E n \in 0 .. count - 1 :
                  /\ First(B, start, count, s)
                  /\ Seen(w) = Put(Seen(v), Places(s .. s + n - 1), one)
        BY <2>3, RunTaken
      <3>2. \A n \in 0 .. count - 1 : n \in 0 .. count
        OBVIOUS
      <3> HIDE DEF w, s, B, start, one
      <3> QED
        BY <2>1, <3>1, <3>2
    <2> QED
      BY <2>1, <2>2, <2>3
  <1> HIDE DEF w, start, s, B
  <1>2. Seen(v) \in Devices
    BY SeenIs
  <1>3. ASSUME NEW n \in 0 .. count, First(B, start, count, s),
               Seen(w) = Put(Seen(v), Places(s .. s + n - 1), one)
        PROVE  TableSound(Seen(w))
    <2> DEFINE X == s .. s + n - 1
    <2>1. s \in Nat /\ s + count <= ClusterCount
      BY <1>3 DEF First
    <2>2. X \subseteq Bits
      BY <2>1, Geometry DEF Bits
    <2>3. Seen(w) = Put(Seen(v), Places(X), one) /\ one = TRUE
      BY <1>3
    <2> HIDE DEF X, one
    <2> QED
      BY <1>2, <2>2, <2>3, MarkedSound
  <1> QED
    BY <1>1, <1>3 DEF w

\* No call leaves the states that the theorems are about, or a sound table.
LEMMA UseKeeps ==
    ASSUME "fg" \in MoreFields, call \in Good, VolumeSound, UseNext
    PROVE  call' \in Good /\ VolumeSound'
  <1> DEFINE d == Seen(call)
             B == BitsOf(d)
             E == EntriesOf(d)
  <1>1. d \in Devices /\ TableSound(d)
    BY SeenIs DEF VolumeSound
  \* Two ways in which it stays sound.
  <1>2. ASSUME NEW w \in Good, call' = w, TableSound(Seen(w))
        PROVE  call' \in Good /\ VolumeSound'
    BY <1>2 DEF VolumeSound
  <1>3. ASSUME NEW w \in Good, call' = w, Seen(w) = d
        PROVE  call' \in Good /\ VolumeSound'
    BY <1>1, <1>2, <1>3
  <1>4. ASSUME NEW w \in Good, call' = w, SameTables(call, w)
        PROVE  call' \in Good /\ VolumeSound'
    BY <1>1, <1>2, <1>4, SameSound
  <1>5. CASE AboveTable
    <2>1. PICK w \in Calls : /\ call' = w /\ w.dev = call.dev /\ w.cache = call.cache
                             /\ w.ok = TRUE => BufferClean(call)
      BY <1>5 DEF AboveTable
    <2> QED
      BY <1>3, <2>1, GoodSame
  <1>6. CASE call.ok = TRUE /\ OnVolume
    <2>1. ASSUME NEW cluster \in Behind, NEW count \in Nat \ {0},
                 call' = bitmapFind(call, cluster, count)
          PROVE  call' \in Good /\ VolumeSound'
      BY <1>3, <1>6, <2>1, RunFound
    <2>2. ASSUME NEW cluster \in Behind, NEW count \in Nat \ {0},
                 call' = take(call, cluster, count)
          PROVE  call' \in Good /\ VolumeSound'
      BY <1>1, <1>2, <1>6, <2>2, TakenSound
    <2>3. ASSUME NEW cluster \in Clusters, NEW count \in Nat \ {0},
                 Loose(E, Bits \cap (cluster - 2 .. cluster - 2 + count - 1)),
                 call' = bitmapModify(call, cluster, count, Unmarked)
          PROVE  call' \in Good /\ VolumeSound'
      BY <1>1, <1>2, <1>6, <2>3, GivenBackSound
    <2>4. ASSUME NEW c \in Clusters, call' = fatGet(call, c)
          PROVE  call' \in Good /\ VolumeSound'
      <3>1. fatGet(call, c) \in Good /\ Seen(fatGet(call, c)) = d
        BY <1>6, fatGetIs DEF fatGetWell
      <3> QED
        BY <1>3, <2>4, <3>1
    <2>5. ASSUME NEW c \in Clusters, NEW x \in Clusters \cup {EOC}, MayLead(B, E, c, x),
                 call' = fatPut(call, c, x)
          PROVE  call' \in Good /\ VolumeSound'
      <3> DEFINE w == fatPut(call, c, x)
      <3>1. x \in Nat
        BY Geometry DEF Clusters, EOC
      <3>2. fatPutWell(call, c, x, w)
        BY <1>6, <3>1, fatPutIs
      <3>3. TableSound(Put(d, Entries({c}), x))
        BY <1>1, <2>5, LinkedSound
      <3> HIDE DEF w
      <3>4. w \in Good /\ (Seen(w) = Put(d, Entries({c}), x) \/ Seen(w) = d)
        BY <3>2 DEF fatPutWell
      <3>5. TableSound(Seen(w))
        BY <1>1, <3>3, <3>4
      <3> QED
        BY <1>2, <2>5, <3>4, <3>5 DEF w
    <2>6. ASSUME NEW n \in 1 .. ClusterCount, NEW ch \in [1 .. n -> Clusters],
                 IsChain(d, ch, n), IsHead(E, ch[1]), call' = freeChain(call, ch[1])
          PROVE  call' \in Good /\ VolumeSound'
      <3> DEFINE w == freeChain(call, ch[1])
      <3>1. FreedWell(call, ch, n, w)
        BY <1>6, <2>6, ChainCleared
      <3>2. w = call'
        BY <2>6
      <3> HIDE DEF w
      <3>3. w \in Good
        BY <3>1 DEF FreedWell
      <3>4. \E i \in 0 .. n : \E j \in 0 .. i : Seen(w) = Cleared(d, ch, i, j)
        <4>1. n \in 0 .. n
          OBVIOUS
        <4> QED
          BY <3>1, <4>1 DEF FreedWell, Stopped
      <3>5. PICK i \in 0 .. n : \E j \in 0 .. i : Seen(w) = Cleared(d, ch, i, j)
        BY <3>4
      <3>6. PICK j \in 0 .. i : Seen(w) = Cleared(d, ch, i, j)
        BY <3>5
      <3>7. TableSound(Seen(w))
        BY <1>1, <2>6, <3>6, ClearedSound
      <3> QED
        BY <1>2, <3>2, <3>3, <3>7
    <2> QED
      BY <1>6, <2>1, <2>2, <2>3, <2>4, <2>5, <2>6 DEF OnVolume
  <1>7. CASE call.ok = TRUE /\ OnData
    <2>1. ASSUME call' = sync(call) PROVE call' \in Good /\ VolumeSound'
      <3>1. sync(call) \in Good /\ Seen(sync(call)) = d
        BY <1>7, syncIs DEF syncWell, Kept
      <3> QED
        BY <1>3, <2>1, <3>1
    <2>2. ASSUME NEW sector \in Sectors, call' = prepare(call, sector, ForRead)
          PROVE  call' \in Good /\ VolumeSound'
      <3>1. /\ prepare(call, sector, ForRead) \in Good
            /\ Seen(prepare(call, sector, ForRead)) = d
        BY <1>7, prepareIs DEF prepareWell, Kept
      <3> QED
        BY <1>3, <2>2, <3>1
    <2>3. ASSUME NEW sector \in Int, NEW count \in Int,
                 call' = cacheSafeRead(call, sector, count)
          PROVE  call' \in Good /\ VolumeSound'
      BY <1>3, <1>7, <2>3, safeReadIs
    <2>4. ASSUME NEW sector \in Nat, NEW datas \in Seq(Contents),
                 sector .. sector + Len(datas) - 1 \subseteq DataSectors,
                 call' = cacheSafeWrite(call, sector, datas)
          PROVE  call' \in Good /\ VolumeSound'
      BY <1>4, <1>7, <2>4, safeWriteIs
    <2>5. ASSUME NEW sector \in DataSectors, NEW option \in {ForWrite, ReserveForWrite},
                 NEW data \in Contents, call' = putInBuffer(call, sector, option, data)
          PROVE  call' \in Good /\ VolumeSound'
      BY <1>4, <1>7, <2>5, putInBufferIs
    <2> QED
      BY <1>7, <2>1, <2>2, <2>3, <2>4, <2>5 DEF OnData
  <1> QED
    BY <1>5, <1>6, <1>7 DEF UseNext

\* Whatever the program does with clusters and sectors, as long as it gives back
\* runs that no chain has, frees chains by their heads and leads no two entries
\* to one cluster, whichever accesses fail, and until a read that fails has left
\* other words in the buffer that a call goes on from: no chain is on a cluster
\* that is free or leads to one, and no two chains meet.
THEOREM VolumeStaysSound ==
    ASSUME "fg" \in MoreFields
    PROVE  UseSpec => []VolumeSound
  <1> DEFINE Inv == call \in Good /\ VolumeSound
  <1>1. UseInit => Inv
    BY DEF UseInit
  <1>2. Inv /\ [UseNext]_call => Inv'
    <2>1. CASE UseNext
      BY <2>1, UseKeeps
    <2>2. CASE UNCHANGED call
      BY <2>2 DEF VolumeSound
    <2> QED
      BY <2>1, <2>2
  <1>3. Inv => VolumeSound
    OBVIOUS
  <1> QED
    BY <1>1, <1>2, <1>3, PTL DEF UseSpec
=============================================================================
