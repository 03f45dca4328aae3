------------------------------ MODULE FileStore ------------------------------
(***************************************************************************)
(* What a volume of files promises a program: paths that hold sequences of *)
(* bytes, and file objects that are at a position in one of them. Neither  *)
(* clusters nor directories' entries are seen here. A write that fails may *)
(* spoil its own file (the object is broken until it is closed), and never *)
(* another one.                                                            *)
(***************************************************************************)
EXTENDS Integers, Sequences

CONSTANTS Handles,
          Data(_, _)        \* the bytes object h writes from a position on

VARIABLES
    store,      \* files: a function from paths to sequences of bytes
    dirs,       \* paths of directories
    cursor      \* per object: open or not, path, pos, append, raw (the file
                \* was preallocated and written in order since), broken

avars == <<store, dirs, cursor>>

Closed == [open |-> FALSE, path |-> <<>>, pos |-> 0, append |-> FALSE,
           raw |-> FALSE, broken |-> FALSE]

Files == DOMAIN store
Size(p) == Len(store[p])
With(p, bytes) == [q \in Files \cup {p} |-> IF q = p THEN bytes ELSE store[q]]
Without(p) == [q \in Files \ {p} |-> store[q]]
OthersKept(p) == /\ DOMAIN store' = Files
                 /\ \A q \in Files \ {p} : store'[q] = store[q]
CursorOnly(h) == \A i \in Handles \ {h} : cursor'[i] = cursor[i]

AbstractInit ==
    /\ store = [p \in {} |-> <<>>]
    /\ dirs = {}
    /\ cursor = [h \in Handles |-> Closed]

\* Opens a file, at its end or its start; one that is not there is made, and
\* an old one may be emptied.
AOpen(h) ==
    /\ ~cursor[h].open /\ cursor'[h].open
    /\ LET c == cursor'[h] IN
       /\ c.path \notin dirs /\ ~c.broken /\ ~c.raw
       /\ \A i \in Handles \ {h} : cursor[i].open => cursor[i].path # c.path
       /\ \/ c.path \in Files /\ UNCHANGED store /\ c.pos \in {0, Size(c.path)}
          \/ store' = With(c.path, <<>>) /\ c.pos = 0
    /\ CursorOnly(h) /\ UNCHANGED dirs

\* A read or a seek: the object moves within its file.
AMove(h) ==
    /\ cursor[h].open
    /\ cursor'[h].pos \in 0 .. Size(cursor[h].path)
    /\ cursor' = [cursor EXCEPT ![h].pos = cursor'[h].pos,
                                ![h].raw = @ /\ cursor'[h].raw]
    /\ UNCHANGED <<store, dirs>>

\* The n bytes are where the object was, everything before is as it was, and
\* so is everything behind, except in a preallocated file.
AWrite(h, n) ==
    LET c == cursor[h]
        at == IF c.append THEN Size(c.path) ELSE c.pos
        end == at + n
        bytes == Data(h, at)
    IN  /\ c.open
        /\ OthersKept(c.path)
        /\ LET new == store'[c.path] IN
           /\ Len(new) = IF end > Size(c.path) THEN end ELSE Size(c.path)
           /\ \A i \in 1 .. Len(new) :
                 IF i <= at THEN new[i] = store[c.path][i]
                 ELSE IF i <= end THEN new[i] = bytes[i - at]
                 ELSE c.raw \/ new[i] = store[c.path][i]
        /\ cursor' = [cursor EXCEPT ![h].pos = end, ![h].raw = @ /\ cursor'[h].raw]
        /\ UNCHANGED dirs

\* A write that fails, or any step of an object after one.
ABroken(h) ==
    /\ cursor[h].open
    /\ OthersKept(cursor[h].path)
    /\ cursor'[h].broken \/ cursor[h].broken
    /\ cursor'[h].open => cursor'[h].path = cursor[h].path
    /\ CursorOnly(h) /\ UNCHANGED dirs

ATruncate(h) ==
    LET c == cursor[h] IN
    /\ c.open /\ c.pos <= Size(c.path)
    /\ store' = With(c.path, SubSeq(store[c.path], 1, c.pos))
    /\ UNCHANGED <<dirs, cursor>>

\* An empty file gets n bytes, whatever they are.
APreAllocate(h) ==
    /\ cursor[h].open /\ store[cursor[h].path] = <<>>
    /\ OthersKept(cursor[h].path)
    /\ cursor' = [cursor EXCEPT ![h].raw = TRUE]
    /\ UNCHANGED dirs

AClose(h) ==
    /\ cursor[h].open
    /\ cursor' = [cursor EXCEPT ![h] = Closed]
    /\ UNCHANGED <<store, dirs>>

\* An object's file gets a name that was not taken.
ARename(h) ==
    LET p == cursor[h].path
        q == cursor'[h].path
    IN  /\ cursor[h].open /\ q \notin Files \cup dirs
        /\ store' = [r \in (Files \ {p}) \cup {q} |-> IF r = q THEN store[p] ELSE store[r]]
        /\ cursor' = [cursor EXCEPT ![h].path = q]
        /\ UNCHANGED dirs

\* One file goes.
ARemove(p) ==
    /\ \A h \in Handles : cursor[h].open => cursor[h].path # p
    /\ store' = Without(p)
    /\ UNCHANGED <<dirs, cursor>>

AMkdir(p) ==
    /\ p \notin Files \cup dirs
    /\ dirs' = dirs \cup {p}
    /\ UNCHANGED <<store, cursor>>

\* A file or directory that could not be made may stay as an empty file.
ALeftover(p) ==
    /\ p \notin Files \cup dirs
    /\ store' = With(p, <<>>)
    /\ UNCHANGED <<dirs, cursor>>

\* Only an empty directory can be removed.
ARmdir(p) ==
    /\ \A q \in Files \cup dirs : Len(q) > 1 => q[1] # p[1]
    /\ dirs' = dirs \ {p}
    /\ UNCHANGED <<store, cursor>>

\* New paths are those that the next state has.
AbstractNext ==
    \/ \E h \in Handles :
          \/ AOpen(h) \/ AMove(h) \/ ABroken(h) \/ ATruncate(h)
          \/ APreAllocate(h) \/ AClose(h) \/ ARename(h)
          \/ \E n \in 1 .. cursor'[h].pos : AWrite(h, n)
    \/ \E p \in Files : ARemove(p)
    \/ \E p \in dirs' \ dirs : AMkdir(p)
    \/ \E p \in DOMAIN store' \ Files : ALeftover(p)
    \/ \E p \in dirs : ARmdir(p)

AbstractSpec == AbstractInit /\ [][AbstractNext]_avars
=============================================================================
