------------------------------ MODULE FatPower ------------------------------
(***************************************************************************)
(* The card as the firmware uses it (System::initializeLoggers and the     *)
(* loggers): directories are made, files are opened at their end, written, *)
(* flushed and closed, and nothing is removed. Any access may fail, a read *)
(* with the buffer damaged or as it was, and the power may be cut between  *)
(* any two sectors that a call writes; then the card is mounted anew.      *)
(***************************************************************************)
EXTENDS FatVolume

VARIABLE safe       \* history: per path, what it held when it was last synced

pvars == <<fvars, safe>>

Never == <<Unwritten>>

PowerInit == Init /\ safe = [p \in Paths |-> Never]

\* SdFat_WrappedFile::file_flush or _close returned without an exception.
Stored(h) == safe' = [safe EXCEPT ![view.path[h]] = view.store[view.path[h]]]

LogOpen(h, p, fault) == Open(h, p, AtEnd, fault) /\ UNCHANGED safe
LogWrite(h, n, fault) == Write(h, n, fault) /\ UNCHANGED safe
LogFlush(h, fault) ==
    /\ Sync(h, fault)
    /\ IF syncFile(Begin(h, fault)).ok THEN Stored(h) ELSE UNCHANGED safe
LogClose(h, fault) ==
    /\ Close(h, fault)
    /\ IF close(Begin(h, fault)).ok THEN Stored(h) ELSE UNCHANGED safe
LogMkdir(name, fault) == Mkdir(name, fault) /\ UNCHANGED safe

\* The power fails after some of the sectors a call writes.
CutIn(v) ==
    /\ calls < MaxCalls /\ calls' = calls + 1
    /\ \E n \in 0 .. Len(v.log) :
          LET card == mount(WrittenUpTo(vol.dev, v.log, n))
              none == [h \in Handles |-> closedFile]
          IN  vol' = card /\ file' = none /\ view' = View(card, none)
    /\ UNCHANGED <<faulted, safe>>

PowerCut ==
    \/ \E h \in Handles :
          \/ \E p \in Paths : MayOpen(h, p) /\ CutIn(opened(h, p, AtEnd, NoFault))
          \/ \E n \in Lengths : MayWrite(h, n) /\ CutIn(written(h, n, NoFault))
          \/ isOpen(file[h]) /\ CutIn(syncFile(Begin(h, NoFault)))
    \/ \E name \in Directories : CutIn(made(name, NoFault))

LogCall ==
    \E fault \in Faults :
        \/ \E h \in Handles :
              \/ \E p \in Paths : LogOpen(h, p, fault)
              \/ \E n \in Lengths : LogWrite(h, n, fault)
              \/ LogFlush(h, fault) \/ LogClose(h, fault)
        \/ \E name \in Directories : LogMkdir(name, fault)

\* What the firmware does: it goes on, whatever has failed.
GoesOn == LogCall \/ PowerCut
FirmwareSpec == PowerInit /\ [][GoesOn]_pvars

\* With a buffer that a failed read has damaged nothing can be promised of the
\* calls that follow: here the card is mounted anew instead.
MountAgain == ~BufferClean(vol) /\ CutIn(BeginAlone(NoFault))

PowerNext == (BufferClean(vol) /\ GoesOn) \/ MountAgain
PowerSpec == PowerInit /\ [][PowerNext]_pvars
-----------------------------------------------------------------------------
(* Properties. ChainsSound of FatVolume holds here too: a cut or a failure *)
(* loses clusters at the most, as long as no call begins on a buffer that  *)
(* a failed read has damaged.                                              *)

\* What a file held when it was last flushed or closed without an error, it
\* still holds, whatever fails later, and the power's loss included.
SyncedSurvives ==
    \A p \in Paths : safe[p] # Never =>
        /\ p \in DOMAIN view.store
        /\ Len(safe[p]) <= Len(view.store[p])
        /\ SubSeq(view.store[p], 1, Len(safe[p])) = safe[p]

\* What prepare hands out is the sector it was asked for (FsCache.h: "return
\* Address of cached sector"), as it was last written. Under FirmwareSpec it is
\* not: the number of the old sector outlives a failed read, the bytes do not.
SectorPrepared ==
    \A s \in {t \in 0 .. LastSector : ~InCopy(t)} :
        LET p == prepare(BeginAlone(NoFault), s, ForRead)
        IN  p.ok /\ p.cache.data = Seen(vol)[s]
=============================================================================
