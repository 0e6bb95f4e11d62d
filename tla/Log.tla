-------------------------------- MODULE Log ---------------------------------
(***************************************************************************)
(* The write-ahead log of internal/wal: staging and LSN reservation, group *)
(* commit with rotation and rollback, truncation, Close, crashes, and the  *)
(* recovery that wal.Open and batch.Open run, with an in-order consumer    *)
(* standing for the flusher.                                               *)
(*                                                                         *)
(* A record is a number, in the order of staging, and takes one unit of a  *)
(* segment.  A file has the content a process sees (cache) and the content *)
(* last forced to the disk (stable); a machine crash leaves one of the     *)
(* contents Survivors allows, a process crash leaves the cache.  Creating, *)
(* removing and renaming a file takes effect on the disk at once and in    *)
(* order: every such call in the code is followed by syncDir, and a crash  *)
(* before that is a crash before the call.                                 *)
(***************************************************************************)
EXTENDS Integers, Sequences, FiniteSets, FiniteSetsExt, Functions

CONSTANTS SyncModes,        \* TRUE for SyncNever; FALSE for the two modes that fsync
          MaxSegment,       \* MaxSegmentBytes, in records
          ReserveBlock,     \* reserveBlock
          MaxRecords, MaxCrashes, MaxFaults, MaxCloses,   \* bounds
          MaxMishaps        \* bound on faults and crashes together

ASSUME LogAssumption ==
  /\ MaxSegment \in Nat \ {0} /\ ReserveBlock \in Nat \ {0}
  /\ SyncModes \subseteq BOOLEAN
  /\ {MaxRecords, MaxCrashes, MaxFaults, MaxCloses, MaxMishaps} \subseteq Nat

VARIABLES files,         \* <<baseLSN, prevEnd>> -> [cache, stable]
          reservedFile,  \* contents of RESERVED
          checkpoint,    \* contents of CHECKPOINT
          phase,         \* down, attach, reconcile, trim, up, closing, refused
          segs,          \* Log.segs; the last one is active
          nextLSN, reserved, durable, broken,    \* fields of Log
          pending, pendingMin,   \* records staged into the current round; the first LSN
          inflight, first,       \* records of the round being committed; the first LSN
          cpc,           \* where the committer is in commit()
          mark,          \* ackTracker.low: everything up to here is acknowledged
          lastCP,        \* the mark Truncate was last called for; a truncation that
                         \* fails and is retried is module Checkpointer's subject
          trim,          \* a Truncate is under way
          told,          \* what each record's writer has been told
          seen,          \* <<LSN, record>> pairs the sink has been given
          faults, crashes, closes,
          cached,        \* a process crashed, or closed without its fsync, and left a
                         \* tail that the cache alone may hold
          harmed,        \* Open may refuse: see OpenSucceeds
          syncNever      \* Options.Sync, fixed for the life of the directory

disk   == <<files, reservedFile, checkpoint>>
rounds == <<pending, pendingMin, inflight, first>>
memory == <<segs, nextLSN, reserved, durable, broken, rounds, cpc>>
reader == <<mark, lastCP, trim>>
ghost  == <<told, seen>>
bounds == <<faults, crashes, closes, cached, harmed>>
vars   == <<disk, phase, memory, reader, ghost, bounds, syncNever>>

Records == 1..MaxRecords
Empty   == [recs |-> <<>>, torn |-> FALSE]

NameOf(s)    == <<s.base, s.prev>>
LastLSN(s)   == s.base + s.count - 1
active       == segs[Len(segs)]
LSNsOf(s)    == s.base..LastLSN(s)
PublishedLSNs == UNION {LSNsOf(segs[i]) : i \in DOMAIN segs}
RecordAt(l) ==
  LET s == CHOOSE s \in Range(segs) : l \in LSNsOf(s)
  IN  files[NameOf(s)].cache.recs[l - s.base + 1]

Last(ss) == ss[Len(ss)]

\* lastRecordLSN: the newest record, or 0; an empty segment holds none.
lastRecordLSN(ss) ==
  Max({0} \cup UNION {LSNsOf(ss[i]) : i \in DOMAIN ss})

Tell(S, what) == told' = [r \in Records |-> IF r \in S THEN what ELSE told[r]]
Fault == faults < MaxFaults /\ faults + crashes < MaxMishaps /\ faults' = faults + 1

(***************************************************************************)
(* What a machine crash may leave of a file: all of what was forced to the *)
(* disk, and any part of what was appended since, cut anywhere.            *)
(***************************************************************************)
Survivors(f) ==
  {f.stable, f.cache} \cup
  {[recs |-> SubSeq(f.cache.recs, 1, k), torn |-> t] :
     k \in Len(f.stable.recs)..(Len(f.cache.recs) - 1), t \in BOOLEAN}

WithFile(name, c, s) ==
  [n \in DOMAIN files \cup {name} |->
     IF n = name THEN [cache |-> c, stable |-> s] ELSE files[n]]
Without(name) == [n \in DOMAIN files \ {name} |-> files[n]]

NoProcess ==
  /\ segs' = <<>> /\ nextLSN' = 1 /\ reserved' = 0 /\ durable' = 0 /\ broken' = FALSE
  /\ pending' = <<>> /\ pendingMin' = 0 /\ inflight' = <<>> /\ first' = 0 /\ cpc' = "idle"
  /\ mark' = 0 /\ lastCP' = 0 /\ trim' = FALSE

Init ==
  /\ files = [n \in {} |-> [cache |-> Empty, stable |-> Empty]]
  /\ reservedFile = 0 /\ checkpoint = 0
  /\ phase = "down"
  /\ segs = <<>> /\ nextLSN = 1 /\ reserved = 0 /\ durable = 0 /\ broken = FALSE
  /\ pending = <<>> /\ pendingMin = 0 /\ inflight = <<>> /\ first = 0 /\ cpc = "idle"
  /\ mark = 0 /\ lastCP = 0 /\ trim = FALSE
  /\ told = [r \in Records |-> "new"] /\ seen = {}
  /\ faults = 0 /\ crashes = 0 /\ closes = 0 /\ cached = FALSE /\ harmed = FALSE
  /\ syncNever \in SyncModes

-----------------------------------------------------------------------------
(* Staging: stage() under the log's mutex. *)

\* The last record that has been staged.
Newest == Max({0} \cup {r \in Records : told[r] # "new"})

Reservation(n) == Max({nextLSN + n - 1, nextLSN + ReserveBlock - 1})

(***************************************************************************)
(* A batch of n records gets its LSNs, claimed in RESERVED first when the  *)
(* current block does not hold them.                                       *)
(***************************************************************************)
Stage(n) ==
  LET ids == [i \in 1..n |-> Newest + i]
      want == IF nextLSN + n - 1 > reserved THEN Reservation(n) ELSE reserved
  IN  /\ phase = "up" /\ ~broken
      /\ Newest + n <= MaxRecords
      /\ reserved' = want
      /\ reservedFile' = IF want # reserved THEN want ELSE reservedFile
      /\ pending' = pending \o ids
      /\ pendingMin' = IF pending = <<>> THEN nextLSN ELSE pendingMin
      /\ nextLSN' = nextLSN + n
      /\ Tell(Range(ids), "staged")
      /\ UNCHANGED <<files, checkpoint, phase, segs, durable, broken, inflight, first, cpc,
                     reader, seen, bounds>>

\* writeReserved fails, before the rename or in the syncDir after it.
StageReserveFails(n) ==
  /\ phase = "up" /\ ~broken
  /\ nextLSN + n - 1 > reserved
  /\ Fault
  /\ reservedFile' \in {reservedFile, Reservation(n)}
  /\ UNCHANGED <<files, checkpoint, phase, memory, reader, ghost, crashes, closes, cached, harmed>>

-----------------------------------------------------------------------------
(* The committer goroutine: commit(), writeBatch() and rollback(). *)

Running == phase \in {"up", "closing"}

CommitTake ==
  /\ Running /\ cpc = "idle" /\ ~broken
  /\ pending # <<>>
  /\ inflight' = pending /\ first' = pendingMin
  /\ pending' = <<>> /\ pendingMin' = 0
  /\ cpc' = IF active.count > 0 /\ active.count + Len(pending) > MaxSegment
            THEN "create" ELSE "write"
  /\ UNCHANGED <<disk, phase, segs, nextLSN, reserved, durable, broken, reader, ghost, bounds>>

\* writeBatch: the next segment is created before the old one is synced.
RotateCreate ==
  /\ cpc = "create"
  /\ <<first, first - 1>> \in DOMAIN files => files[<<first, first - 1>>].cache = Empty
  /\ files' = WithFile(<<first, first - 1>>, Empty, Empty)
  /\ cpc' = "rotate"
  /\ UNCHANGED <<reservedFile, checkpoint, phase, segs, nextLSN, reserved, durable, broken,
                 rounds, reader, ghost, bounds>>

\* createSegment fails; a file it had created already is discarded, as below.
RotateCreateFails ==
  /\ cpc = "create"
  /\ Fault
  /\ \/ UNCHANGED <<files, harmed>>
     \/ files' = WithFile(<<first, first - 1>>, Empty, Empty) /\ harmed' = TRUE
  /\ cpc' = "rollback"
  /\ UNCHANGED <<reservedFile, checkpoint, phase, segs, nextLSN, reserved, durable, broken,
                 rounds, reader, ghost, crashes, closes, cached>>

RotateSync ==
  /\ cpc = "rotate"
  /\ LET f == files[NameOf(active)] IN files' = WithFile(NameOf(active), f.cache, f.cache)
  /\ segs' = Append(segs, [base |-> first, prev |-> first - 1, count |-> 0])
  /\ cpc' = "write"
  /\ UNCHANGED <<reservedFile, checkpoint, phase, nextLSN, reserved, durable, broken, rounds,
                 reader, ghost, bounds>>

(***************************************************************************)
(* Syncing the old segment fails: the new one is discarded, an operation   *)
(* whose own failure is ignored.                                           *)
(***************************************************************************)
RotateSyncFails ==
  /\ cpc = "rotate"
  /\ Fault
  /\ \/ files' = Without(<<first, first - 1>>) /\ UNCHANGED harmed
     \/ harmed' = TRUE /\ UNCHANGED files
  /\ cpc' = "rollback"
  /\ UNCHANGED <<reservedFile, checkpoint, phase, segs, nextLSN, reserved, durable, broken,
                 rounds, reader, ghost, crashes, closes, cached>>

(***************************************************************************)
(* Closing the old segment fails after its fsync: the new one is discarded *)
(* as above, and the handle is gone, so the rollback must fail.            *)
(***************************************************************************)
RotateCloseFails ==
  /\ cpc = "rotate"
  /\ Fault
  /\ LET f == files[NameOf(active)]
         forced == WithFile(NameOf(active), f.cache, f.cache)
     IN  \/ /\ files' = [n \in DOMAIN files \ {<<first, first - 1>>} |-> forced[n]]
            /\ UNCHANGED harmed
         \/ files' = forced /\ harmed' = TRUE
  /\ cpc' = "unrollable"
  /\ UNCHANGED <<reservedFile, checkpoint, phase, segs, nextLSN, reserved, durable, broken,
                 rounds, reader, ghost, crashes, closes, cached>>

\* The active segment with the first k records of the round appended.
Appended(k, torn) ==
  [recs |-> files[NameOf(active)].cache.recs \o SubSeq(inflight, 1, k), torn |-> torn]

Write ==
  /\ cpc = "write"
  /\ files' = WithFile(NameOf(active), Appended(Len(inflight), FALSE),
                       files[NameOf(active)].stable)
  /\ cpc' = "sync"
  /\ UNCHANGED <<reservedFile, checkpoint, phase, segs, nextLSN, reserved, durable, broken,
                 rounds, reader, ghost, bounds>>

\* A write cut short: some whole records, and perhaps a part of the next one.
WriteFails ==
  /\ cpc = "write"
  /\ Fault
  /\ \E k \in 0..(Len(inflight) - 1), torn \in BOOLEAN :
       files' = WithFile(NameOf(active), Appended(k, torn), files[NameOf(active)].stable)
  /\ cpc' = "rollback"
  /\ UNCHANGED <<reservedFile, checkpoint, phase, segs, nextLSN, reserved, durable, broken,
                 rounds, reader, ghost, crashes, closes, cached, harmed>>

(***************************************************************************)
(* The round succeeds: fsync unless the mode is SyncNever, then the size,  *)
(* count and durable LSN are published and the round's waiters told.       *)
(***************************************************************************)
Commit ==
  /\ cpc = "sync"
  /\ LET f == files[NameOf(active)]
     IN  files' = WithFile(NameOf(active), f.cache, IF syncNever THEN f.stable ELSE f.cache)
  /\ segs' = [segs EXCEPT ![Len(segs)].count = @ + Len(inflight)]
  /\ durable' = first + Len(inflight) - 1
  /\ Tell(Range(inflight), "ok")
  /\ inflight' = <<>> /\ first' = 0
  /\ cpc' = "idle"
  /\ UNCHANGED <<reservedFile, checkpoint, phase, nextLSN, reserved, broken, pending,
                 pendingMin, reader, seen, bounds>>

SyncFails ==
  /\ cpc = "sync" /\ ~syncNever
  /\ Fault
  /\ cpc' = "rollback"
  /\ UNCHANGED <<disk, phase, segs, nextLSN, reserved, durable, broken, rounds, reader, ghost,
                 crashes, closes, cached, harmed>>

\* Mutant: the round staged behind a failed one is dropped without a word.
FailRoundForgetsStaged(what) ==
  /\ nextLSN' = first
  /\ Tell(Range(inflight), what)
  /\ pending' = <<>> /\ pendingMin' = 0 /\ inflight' = <<>> /\ first' = 0
  /\ cpc' = "idle"

(***************************************************************************)
(* commit() after a failed round: the LSNs are handed back, and what was   *)
(* staged behind the round fails with it, with ErrBroken if the rollback   *)
(* failed too.                                                             *)
(***************************************************************************)
FailRound(what) ==
  /\ nextLSN' = first
  /\ Tell(Range(inflight) \cup Range(pending), what)
  /\ pending' = <<>> /\ pendingMin' = 0 /\ inflight' = <<>> /\ first' = 0
  /\ cpc' = "idle"

\* Mutant: only the torn record is cut away.
CutBackTorn == [recs |-> files[NameOf(active)].cache.recs, torn |-> FALSE]

\* What rollback() leaves of the active segment: its published records.
CutBack == [recs |-> SubSeq(files[NameOf(active)].cache.recs, 1, active.count), torn |-> FALSE]

Rollback ==
  /\ cpc = "rollback"
  /\ files' = WithFile(NameOf(active), CutBack, CutBack)
  /\ FailRound("failed")
  /\ UNCHANGED <<reservedFile, checkpoint, phase, segs, reserved, durable, broken, reader,
                 seen, bounds>>

\* The truncation fails, or the fsync after it does: the log is broken.
RollbackFails ==
  /\ \/ cpc = "unrollable" /\ UNCHANGED <<files, faults>>
     \/ /\ cpc = "rollback"
        /\ Fault
        /\ \/ UNCHANGED files
           \/ \E c \in Survivors(files[NameOf(active)]) :
                files' = WithFile(NameOf(active), CutBack, c)
  /\ FailRound("broken")
  /\ broken' = TRUE
  /\ UNCHANGED <<reservedFile, checkpoint, phase, segs, reserved, durable, reader, seen,
                 crashes, closes, cached, harmed>>

-----------------------------------------------------------------------------
(* Log.Close: a last round, then the unused LSNs are given back. *)

CloseBegin ==
  /\ phase = "up" /\ ~trim
  /\ closes < MaxCloses
  /\ phase' = "closing"
  /\ closes' = closes + 1
  /\ UNCHANGED <<disk, memory, reader, ghost, faults, crashes, cached, harmed>>

CloseEnd(reservedOK, syncOK) ==
  /\ phase = "closing" /\ cpc = "idle" /\ pending = <<>>
  /\ IF reservedOK /\ syncOK THEN UNCHANGED faults ELSE Fault
  /\ reservedFile' = IF reservedOK /\ reserved > nextLSN - 1 THEN nextLSN - 1 ELSE reservedFile
  /\ LET f == files[NameOf(active)]
     IN  files' = WithFile(NameOf(active), f.cache, IF syncOK THEN f.cache ELSE f.stable)
  /\ phase' = "down"
  /\ cached' = (cached \/ (~syncOK /\ ~syncNever))
  /\ NoProcess
  /\ UNCHANGED <<checkpoint, ghost, crashes, closes, harmed>>

-----------------------------------------------------------------------------
(* The consumer: in LSN order, over gaps, durable records only. *)

Readable == {l \in PublishedLSNs : mark < l /\ l <= durable}

Deliver ==
  /\ phase = "up"
  /\ Readable # {}
  /\ mark' = Min(Readable)
  /\ seen' = seen \cup {<<mark', RecordAt(mark')>>}
  /\ UNCHANGED <<disk, phase, memory, lastCP, trim, told, bounds>>

\* persist(): the CHECKPOINT file first, then the segments it covers.
Persist ==
  /\ phase = "up" /\ ~trim
  /\ mark \notin {0, lastCP}
  /\ checkpoint' = mark
  /\ lastCP' = mark
  /\ trim' = TRUE
  /\ UNCHANGED <<files, reservedFile, phase, memory, mark, ghost, bounds>>

\* The head segment goes when it is not the active one and nothing in it is needed.
Doomed == Len(segs) > 1 /\ LastLSN(segs[1]) < lastCP + 1

TruncateOne ==
  /\ trim /\ Doomed
  /\ files' = Without(NameOf(segs[1]))
  /\ segs' = Tail(segs)
  /\ UNCHANGED <<reservedFile, checkpoint, phase, nextLSN, reserved, durable, broken, rounds,
                 cpc, reader, ghost, bounds>>

\* The end of Truncate: in Open it is the last step before the buffer runs.
TruncateDone ==
  /\ trim /\ ~Doomed
  /\ trim' = FALSE
  /\ phase' = "up"
  /\ UNCHANGED <<disk, memory, mark, lastCP, ghost, bounds>>

-----------------------------------------------------------------------------
(* Crashes.  In SyncNever a machine crash may take writes that returned. *)

(***************************************************************************)
(* A torn tail is back that recovery had cut without forcing the cut to    *)
(* the disk, and a later segment has been created meanwhile.               *)
(***************************************************************************)
CutUndone ==
  \E n, m \in DOMAIN files : n[1] < m[1] /\ files[n].stable.torn /\ files'[n].cache.torn

Crash(kind) ==
  /\ phase \notin {"down", "refused"}
  /\ crashes < MaxCrashes /\ faults + crashes < MaxMishaps
  /\ crashes' = crashes + 1
  /\ cached' = (cached \/ (kind = "process" /\ ~syncNever))
  /\ kind = "process" => files' = files
  /\ kind = "machine" =>
       \E after \in [DOMAIN files -> UNION {Survivors(files[n]) : n \in DOMAIN files}] :
         /\ \A n \in DOMAIN files : after[n] \in Survivors(files[n])
         /\ files' = [n \in DOMAIN files |-> [cache |-> after[n], stable |-> after[n]]]
  /\ harmed' = (harmed \/ (kind = "machine" /\ (syncNever \/ cached \/ CutUndone)))
  /\ Tell({r \in Records : \/ told[r] = "staged"
                           \/ told[r] = "ok" /\ syncNever /\ kind = "machine"}, "lost")
  /\ phase' = "down"
  /\ NoProcess
  /\ UNCHANGED <<reservedFile, checkpoint, seen, faults, closes>>

(***************************************************************************)
(* Somebody removes a segment of a closed log, or restores a backup that   *)
(* missed it.  One that a later segment follows: the loss of the last one  *)
(* cannot be told from a lost tail.                                        *)
(***************************************************************************)
Vanish ==
  /\ phase = "down"
  /\ Fault
  /\ harmed' = TRUE
  /\ \E n, m \in DOMAIN files : /\ n[1] < m[1]
                               /\ n[1] + Len(files[n].cache.recs) <= m[1]
                               /\ files' = Without(n)
  /\ UNCHANGED <<reservedFile, checkpoint, phase, memory, reader, ghost, crashes, closes, cached>>

-----------------------------------------------------------------------------
(* Recovery: recover() of the log, then the rest of batch.Open. *)

\* The segment files in the order of their bases, which are all different.
Listings ==
  {names \in UNION {[1..k -> DOMAIN files] : k \in 0..Cardinality(DOMAIN files)} :
     /\ \A n \in DOMAIN files : \E i \in DOMAIN names : n = names[i]
     /\ \A i, j \in DOMAIN names : i < j => names[i][1] < names[j][1]}

\* What scanSegment finds in each of them.
Scanned(names) ==
  [i \in DOMAIN names |-> [base  |-> names[i][1], prev |-> names[i][2],
                          count |-> Len(files[names[i]].cache.recs)]]

\* A torn segment that is not the last, or a link that does not hold.
Damaged(names) ==
  \/ \E i \in DOMAIN names : i < Len(names) /\ files[names[i]].cache.torn
  \/ \E i \in 2..Len(names) : LastLSN(Scanned(names)[i - 1]) # names[i][2]

OpenRefuses ==
  /\ phase = "down"
  /\ \E names \in Listings : Damaged(names)
  /\ phase' = "refused"
  /\ UNCHANGED <<disk, memory, reader, ghost, bounds>>

\* The segments are scanned and a torn tail cut.  No fsync follows the os.Truncate:
\* the disk keeps the tail until the segment is next forced to it.
OpenScan ==
  /\ phase = "down"
  /\ \E names \in Listings : ~Damaged(names) /\ segs' = Scanned(names)
  /\ reserved' = reservedFile
  /\ files' = [n \in DOMAIN files |->
                 [cache  |-> [files[n].cache EXCEPT !.torn = FALSE],
                  stable |-> files[n].stable]]
  /\ phase' = "attach"
  /\ UNCHANGED <<reservedFile, checkpoint, nextLSN, durable, broken, rounds, cpc, reader,
                 ghost, bounds>>

\* Mutants: the reservation ignored; a new segment linked to the reservation.
ResumedAtTail ==
  IF segs = <<>> THEN <<[base |-> reserved + 1, prev |-> 0, count |-> 0]>> ELSE segs

ResumedAfterReserved ==
  IF segs = <<>> THEN <<[base |-> reserved + 1, prev |-> 0, count |-> 0]>>
  ELSE IF reserved > LastLSN(active)
       THEN Append(segs, [base |-> reserved + 1, prev |-> reserved, count |-> 0])
       ELSE segs

\* Numbering resumes above the reservation, in a new segment when it is ahead.
Resumed ==
  IF segs = <<>> THEN <<[base |-> reserved + 1, prev |-> 0, count |-> 0]>>
  ELSE IF reserved > LastLSN(active)
       THEN Append(segs, [base |-> reserved + 1, prev |-> LastLSN(active), count |-> 0])
       ELSE segs

OpenAttach ==
  /\ phase = "attach"
  /\ segs' = Resumed
  /\ files' = IF Resumed = segs THEN files ELSE WithFile(NameOf(Last(Resumed)), Empty, Empty)
  /\ nextLSN' = LastLSN(Last(Resumed)) + 1
  /\ durable' = lastRecordLSN(Resumed)
  /\ phase' = "reconcile"
  /\ UNCHANGED <<reservedFile, checkpoint, reserved, broken, rounds, cpc, reader, ghost, bounds>>

\* Segments are missing below the checkpoint's reach.
ReconcileRefuses ==
  /\ phase = "reconcile"
  /\ segs[1].prev > checkpoint
  /\ phase' = "refused"
  /\ NoProcess
  /\ UNCHANGED <<disk, ghost, bounds>>

\* The checkpoint brought into the range the log can resume from.
Clamped == Max({segs[1].base - 1, Min({checkpoint, durable})})

\* Mutant: what the first segment follows is not checked.
ReconcileUnchecked ==
  /\ phase = "reconcile"
  /\ mark' = Clamped
  /\ lastCP' = Clamped
  /\ checkpoint' = Max({checkpoint, Clamped})
  /\ trim' = TRUE
  /\ phase' = "trim"
  /\ UNCHANGED <<files, reservedFile, memory, ghost, bounds>>

Reconcile ==
  /\ phase = "reconcile"
  /\ segs[1].prev <= checkpoint
  /\ mark' = Clamped
  /\ lastCP' = Clamped
  /\ checkpoint' = Max({checkpoint, Clamped})
  /\ trim' = TRUE
  /\ phase' = "trim"
  /\ UNCHANGED <<files, reservedFile, memory, ghost, bounds>>

Committer ==
  /\ \/ CommitTake \/ RotateCreate \/ RotateSync \/ Write \/ Commit
     \/ Rollback \/ (cpc = "unrollable" /\ RollbackFails)
  /\ UNCHANGED syncNever

Faulty ==
  \/ RotateCreateFails \/ RotateSyncFails \/ RotateCloseFails
  \/ WriteFails \/ SyncFails \/ RollbackFails

Open == OpenScan \/ OpenAttach \/ Reconcile \/ TruncateOne \/ TruncateDone

Next ==
  \/ Committer
  \/ /\ \/ \E n \in 1..2 : Stage(n) \/ StageReserveFails(n)
        \/ Faulty
        \/ CloseBegin \/ \E r, s \in BOOLEAN : CloseEnd(r, s)
        \/ Deliver \/ Persist
        \/ \E kind \in {"process", "machine"} : Crash(kind)
        \/ Vanish
        \/ Open \/ OpenRefuses \/ ReconcileRefuses
     /\ UNCHANGED syncNever

Spec == Init /\ [][Next]_vars

-----------------------------------------------------------------------------
(***************************************************************************)
(* The durability table of the README: a record whose Write returned nil   *)
(* and that the sink has not been given is still in the log, above the     *)
(* mark, where the flusher will read it, whatever crashed in between.      *)
(* Records written after a round that broke the log are left out once the  *)
(* log has been harmed as well: Close gives the LSNs of that round back,   *)
(* so if its records stay in the file, are delivered and checkpointed by   *)
(* the next run and then lost in a machine crash, new records get LSNs     *)
(* that the checkpoint covers already.                                     *)
(***************************************************************************)
AckedReadable ==
  phase = "up" =>
    \A r \in Records :
      told[r] = "ok" => \/ \E p \in seen : p[2] = r
                        \/ \E l \in Readable : RecordAt(l) = r
                        \/ harmed /\ \E q \in Records : told[q] = "broken" /\ q < r

(***************************************************************************)
(* Sequence numbers are never reused: over all deliveries of all runs, an  *)
(* LSN names one record, a record has one LSN, and LSNs are in the order   *)
(* in which the records were written (Batch.ID, sink.go:13-18).  Records   *)
(* of a round that broke the log are left out: what its file keeps of them *)
(* the next Open may deliver, under LSNs that Close has given back.        *)
(***************************************************************************)
LSNNamesOneRecord ==
  \A p, q \in {r \in seen : told[r[2]] # "broken"} : p[1] < q[1] <=> p[2] < q[2]

(***************************************************************************)
(* A write that returned the round's error was not written: the sink is    *)
(* never given its record, in this run or a later one (ErrBroken aside).   *)
(***************************************************************************)
FailedNeverDelivered == \A p \in seen : told[p[2]] # "failed"

(***************************************************************************)
(* Whatever a crash leaves, recovery accepts it: wal.Open and batch.Open   *)
(* refuse only a log that lost a segment, kept one it had discarded, or    *)
(* was harmed by a machine crash.  One crash can do that in SyncNever.  In *)
(* the other modes it takes two: recovery builds on what it read from the  *)
(* cache after the first (a process crash, or a Close whose fsync failed)  *)
(* without forcing it to the disk, or on a torn tail it cut after the      *)
(* first (a machine crash) without forcing the cut, and the second, a      *)
(* machine crash, takes that back below a segment created meanwhile.       *)
(***************************************************************************)
OpenSucceeds == phase = "refused" => harmed

(***************************************************************************)
(* No staged write is forgotten while the process lives: its record is in  *)
(* the round being committed, or waits for the next one in a log that can  *)
(* still make one.  The committer ends every round with an answer.         *)
(***************************************************************************)
StagedHeld ==
  Running =>
    \A r \in Records :
      told[r] = "staged" => \/ r \in Range(inflight) /\ cpc # "idle"
                            \/ r \in Range(pending) /\ ~broken
=============================================================================
