------------------------ MODULE LogDurabilityProofs -------------------------
(***************************************************************************)
(* Proof of what module Log owes the writers it acknowledged, for all      *)
(* constants, upon the invariants of LogProofs and LogRecoveryProofs:      *)
(*                                                                         *)
(*   AcknowledgedIsReadable  the durability table of the README            *)
(*                                                                         *)
(* The last layers of the inductive invariant:                             *)
(*                                                                         *)
(*   ReachInv   the last LSN and RESERVED against the checkpoint           *)
(*   TailInv    what Write has appended but Commit not yet published       *)
(*   OwedInv    where every acknowledged, undelivered record is            *)
(***************************************************************************)
EXTENDS LogRecoveryProofs

\* A round has broken the log.
Broke == \E q \in Records : told[q] = "broken"

\* In a log that is ready, the last LSN is ahead of checkpoint, durable and mark.
Ahead ==
  Ready =>
    /\ checkpoint <= LastLSN(active) \/ (harmed /\ Broke)
    /\ \A i \in DOMAIN segs : segs[i].count > 0 => LastLSN(segs[i]) <= durable
    /\ durable <= LastLSN(active)
    /\ Serving => mark <= LastLSN(active) /\ (mark <= reservedFile \/ Broke)

\* In one that is not, what recovery will find is.
Behind ==
  ~Ready => \/ harmed /\ Broke
            \/ checkpoint <= reservedFile
            \/ \E n \in DOMAIN files : checkpoint <= End(n)

(* New records get LSNs above the checkpoint, unless a round broke the log   *)
(* and its LSNs were given back.                                             *)
ReachInv ==
  /\ checkpoint <= reservedFile \/ Broke
  /\ \A n \in DOMAIN files : n[1] - 1 <= reservedFile
  /\ Behind /\ Ahead

\* Acknowledged and not yet delivered; left out by AckedReadable; at its place in
\* a file, on the disk where the mode forces it there.
Owed == {r \in Records : told[r] = "ok" /\ \A p \in seen : p[2] # r}
Excused(r) == harmed /\ \E q \in Records : told[q] = "broken" /\ q < r
Stored(r, n, i) == /\ files[n].cache.recs[i] = r
                   /\ ~syncNever => i \in DOMAIN files[n].stable.recs /\ files[n].stable.recs[i] = r

\* An LSN that was skipped when numbering resumed in this segment.
InGap(l, n) == n[2] < l /\ l < n[1]

\* Record r is the i-th of file n, where recovery and the consumer come to it.
Placed(r, n, i) ==
  /\ Stored(r, n, i)
  /\ n[1] + i - 1 > checkpoint
  /\ \A m \in DOMAIN files : ~InGap(n[1] + i - 1, m)
  /\ Ready => \E k \in DOMAIN segs : n = NameOf(segs[k]) /\ i <= segs[k].count
  /\ Serving => n[1] + i - 1 > mark
InLog(r) == \E n \in DOMAIN files : \E i \in DOMAIN files[n].cache.recs : Placed(r, n, i)

\* What is published of the active segment is in these new contents too.
Preserved(c, s) ==
  LET f == files[NameOf(active)]
  IN  \A j \in 1..active.count :
        /\ j \in DOMAIN c.recs /\ c.recs[j] = f.cache.recs[j]
        /\ j \in DOMAIN f.stable.recs /\ f.stable.recs[j] = f.cache.recs[j] =>
             j \in DOMAIN s.recs /\ s.recs[j] = f.cache.recs[j]

\* A hole that Open will find: no file holds the LSN or skips it, one follows it.
Missing(l) ==
  /\ l > checkpoint
  /\ \A n \in DOMAIN files :
       ~InGap(l, n) /\ \A p \in InFile(n) : p[1] # l
  /\ \E n \in DOMAIN files : l < n[1]

(* An acknowledged record not yet delivered is in its place in the log, or a *)
(* hole keeps Open from succeeding.                                          *)
OwedInv ==
  \A r \in Owed : \/ Excused(r) \/ InLog(r)
                  \/ ~Serving /\ harmed /\ \E l \in Nat : Missing(l)

(* Between the write and the commit the active file ends in the round. *)
TailInv ==
  cpc = "sync" =>
    \A j \in DOMAIN inflight : CacheOf(active)[active.count + j] = inflight[j]

-----------------------------------------------------------------------------
(* How far the checkpoint and the mark reach. *)

(* Nobody is told anything else once the log broke under the record. *)
LEMMA BrokenStays ==
  RoundsInv /\ [Next]_vars => \A r \in Records : told[r] = "broken" => told'[r] = "broken"
<1> SUFFICES ASSUME RoundsInv, [Next]_vars, NEW r \in Records, told[r] = "broken" PROVE told'[r] = "broken"
  BY Zenon
<1>1. r \notin Range(inflight) /\ r \notin Range(pending)
  BY Zenon DEF RoundsInv
<1>2. CASE \E n \in 1..2 : Stage(n)
  <2> PICK n \in 1..2 : Stage(n)
    BY Zenon, <1>2
  <2> DEFINE ids == [i \in 1..n |-> Newest + i]
  <2>1. Tell(Range(ids), "staged")
    BY Zenon DEF Stage
  <2>2. Newest \in Nat /\ r <= Newest
    BY Zenon, Written
  <2>3. r \notin Range(ids)
    BY <2>2 DEF Range, Records
  <2> HIDE DEF ids
  <2> QED
    BY Zenon, <2>1, <2>3 DEF Tell
<1>3. CASE Commit \/ Rollback \/ RollbackFails
  BY Zenon, <1>1, <1>3 DEF Commit, Rollback, RollbackFails, FailRound, Tell
<1>4. CASE \E kind \in {"process", "machine"} : Crash(kind)
  BY Zenon, <1>4 DEF Crash, Tell
<1>5. ASSUME ~Commit, ~Rollback, ~RollbackFails, ~(\E n \in 1..2 : Stage(n)),
             ~(\E kind \in {"process", "machine"} : Crash(kind))
      PROVE  told' = told
  BY Zenon, <1>5 DEF Next, Committer, Faulty, Open, vars, ghost, StageReserveFails, CommitTake, RotateCreate,
         RotateCreateFails, RotateSync, RotateSyncFails, RotateCloseFails, Write, WriteFails,
         SyncFails, CloseBegin, CloseEnd, Deliver, Persist, TruncateOne,
         TruncateDone, Vanish, OpenRefuses, OpenScan, OpenAttach, ReconcileRefuses, Reconcile
<1> QED
  BY Zenon, <1>2, <1>3, <1>4, <1>5

(* Every file begins no further than one past the last record. *)
LEMMA FilesBegin ==
  ASSUME DiskInv, Ready, NEW n \in DOMAIN files
  PROVE  n[1] \in Nat /\ n[1] - 1 <= LastLSN(active) /\ LastLSN(active) \in Nat
<1>1. Loaded /\ segs # <<>> /\ Covered /\ Disk /\ LastLSN(active) \in Nat
  BY Zenon, LastIsNat DEF DiskInv, Ready, Loaded, Numbers
<1>2. n[1] \in Nat
  BY Zenon, <1>1 DEF Disk
<1>3. CASE \E i \in DOMAIN segs : n = NameOf(segs[i])
  <2> PICK i \in DOMAIN segs : n = NameOf(segs[i])
    BY Zenon, <1>3
  <2>1. n[1] = segs[i].base
    BY Zenon DEF NameOf
  <2>2. segs[i].base <= active.base /\ active.base <= LastLSN(active) + 1 /\ active.base \in Nat
    BY Zenon, <1>1, ActiveFacts DEF Segment
  <2> QED
    BY <1>1, <1>2, <2>1, <2>2
<1>4. CASE Leftover(n)
  BY Zenon, <1>1, <1>2, <1>4 DEF Leftover
<1> QED
  BY Zenon, <1>1, <1>3, <1>4 DEF Covered

(* No segment reaches further than the active one. *)
LastsBounded == \A i \in DOMAIN segs : LastLSN(segs[i]) <= LastLSN(active)

(* The segments are in the order of their LSNs. *)
LEMMA LastsAreBounded == DiskInv /\ Ready => LastsBounded
BY Zenon, ActiveFacts DEF DiskInv, Ready, Loaded, Numbers, LastsBounded

(* Every step keeps the numbering ahead of the checkpoint. *)
LEMMA ReachNext ==
  /\ RoundsInv /\ DiskInv /\ DiskInv' /\ PlacesInv /\ ForcedInv /\ MarksInv /\ MarksInv' /\ SoundInv
  /\ ReachInv /\ [Next]_vars
  => ReachInv'
(* A round that broke the log has broken it for good. *)
<1>BrokeStays.
  RoundsInv /\ [Next]_vars /\ Broke => Broke'
  BY Zenon, BrokenStays DEF Broke

(* Where the reservation moves, it stays above the log's last LSN. *)
<1>ReservedMoves.
  RoundsInv /\ DiskInv /\ [Next]_vars =>
    \/ reservedFile' = reservedFile
    \/ Ready /\ reservedFile' \in Nat /\ LastLSN(active) <= reservedFile'
  <2> SUFFICES ASSUME RoundsInv, DiskInv, [Next]_vars
               PROVE  \/ reservedFile' = reservedFile
                      \/ Ready /\ reservedFile' \in Nat /\ LastLSN(active) <= reservedFile'
    BY Zenon
  <2>0. Ready => /\ LastLSN(active) \in Nat /\ nextLSN \in Nat /\ LastLSN(active) <= nextLSN - 1
                 /\ NumbersType
    <3> SUFFICES ASSUME Ready PROVE /\ LastLSN(active) \in Nat /\ nextLSN \in Nat
                                    /\ LastLSN(active) <= nextLSN - 1 /\ NumbersType
      BY Zenon
    <3>1. LastLSN(active) \in Nat /\ nextLSN = LastLSN(active) + 1 + Len(inflight) + Len(pending) /\ NumbersType
      BY Zenon, LastIsNat DEF DiskInv, Numbers
    <3>2. Len(inflight) \in Nat /\ Len(pending) \in Nat
      BY DEF RoundsInv, RoundsType
    <3> QED
      BY <3>1, <3>2
  <2>1. CASE \E n \in 1..2 : Stage(n) \/ StageReserveFails(n)
    <3> PICK n \in 1..2 : Stage(n) \/ StageReserveFails(n)
      BY Zenon, <2>1
    <3>1. Ready /\ reservedFile' \in {reservedFile, Reservation(n)}
      BY Zenon DEF Stage, StageReserveFails, Ready
    <3>2. Reservation(n) \in Nat /\ Reservation(n) >= nextLSN + n - 1
      BY Zenon, <2>0, <3>1, ReservationFacts
    <3> QED
      BY <2>0, <3>1, <3>2
  <2>2. CASE \E r, s \in BOOLEAN : CloseEnd(r, s)
    <3>1. Ready /\ reservedFile' \in {reservedFile, nextLSN - 1}
      BY Zenon, <2>2 DEF CloseEnd, Ready
    <3> QED
      BY <2>0, <3>1
  <2>3. ASSUME ~(\E n \in 1..2 : Stage(n) \/ StageReserveFails(n)), ~(\E r, s \in BOOLEAN : CloseEnd(r, s))
        PROVE  reservedFile' = reservedFile
    BY Zenon, <2>3 DEF Next, Committer, Faulty, Open, vars, disk, CommitTake, RotateCreate,
           RotateCreateFails, RotateSync, RotateSyncFails, RotateCloseFails, Write, WriteFails, Commit,
           SyncFails, Rollback, RollbackFails, CloseBegin, Deliver, Persist, TruncateOne, Crash,
           TruncateDone, Vanish, OpenRefuses, OpenScan, OpenAttach, ReconcileRefuses, Reconcile
  <2> QED
    BY Zenon, <2>1, <2>2, <2>3

(* A new file begins no further than one above the reservation. *)
<1>NewFiles.
  ASSUME RoundsInv, DiskInv, [Next]_vars, NEW n \in DOMAIN files'
  PROVE  \/ n \in DOMAIN files
         \/ n[1] \in Nat /\ n[1] - 1 <= reservedFile /\ reservedFile' = reservedFile
  <2> USE <1>NewFiles
  <2>1. CASE RotateCreate \/ RotateCreateFails
    <3>1. /\ cpc = "create" /\ reservedFile' = reservedFile
          /\ files' = files \/ files' = WithFile(NextSegment, Empty, Empty)
      BY Zenon, <2>1 DEF RotateCreate, RotateCreateFails, NextSegment
    <3>2. n \in DOMAIN files \/ n = NextSegment
      BY Zenon, <3>1 DEF WithFile
    <3>3. Ready /\ first \in Nat /\ first - 1 = LastLSN(active) /\ LastLSN(active) \in Nat
      BY Zenon, <3>1, NextSegmentFacts, LastIsNat
    <3>4. inflight # <<>> /\ Len(inflight) \in Nat /\ Len(pending) \in Nat
      BY <3>1 DEF RoundsInv, RoundsType
    <3>5. LastLSN(active) <= reservedFile
      BY SMTT(30), <3>3, <3>4 DEF DiskInv, Numbers, NumbersType
    <3>6. NextSegment[1] = first
      BY Zenon DEF NextSegment
    <3> QED
      BY Zenon, <3>1, <3>2, <3>3, <3>5, <3>6
  <2>2. CASE OpenAttach
    <3>1. reservedFile' = reservedFile /\ reserved = reservedFile /\ reservedFile \in Nat
      BY Zenon, <2>2 DEF OpenAttach, DiskInv, Attached, NumbersType
    <3>2. CASE files' = files
      BY Zenon, <3>2
    <3>3. CASE \E a \in Segment : a.base = reserved + 1 /\ files' = WithFile(NameOf(a), Empty, Empty)
      BY <3>1, <3>3 DEF WithFile, NameOf
    <3> QED
      BY Zenon, <2>2, <3>2, <3>3, ResumedFacts
  <2>3. CASE Write \/ WriteFails \/ Commit \/ Rollback \/ RollbackFails \/ RotateSync \/ RotateCloseFails
    <3>1. cpc # "idle"
      BY Zenon, <2>3 DEF Write, WriteFails, Commit, Rollback, RollbackFails, RotateSync, RotateCloseFails
    <3>2. Ready
      BY Zenon, <3>1 DEF RoundsInv, Running, Ready
    <3>3. NameOf(active) \in DOMAIN files
      BY Zenon, <3>2, ActiveHolds DEF ActiveHeld
    <3>4. DOMAIN files' \subseteq DOMAIN files \cup {NameOf(active)}
      BY Zenon, <2>3 DEF Write, WriteFails, Commit, Rollback, RollbackFails, RotateSync, RotateCloseFails, WithFile
    <3> QED
      BY Zenon, <3>3, <3>4
  <2>4. CASE \E r, s \in BOOLEAN : CloseEnd(r, s)
    BY Zenon, <2>4, CloseDisk
  <2>5. CASE \E kind \in {"process", "machine"} : Crash(kind)
    BY Zenon, <2>5, CrashDisk
  <2>6. CASE TruncateOne \/ Vanish \/ OpenScan \/ RotateSyncFails
    BY Zenon, <2>6 DEF TruncateOne, Vanish, OpenScan, RotateSyncFails, Without
  <2>7. CASE \/ UNCHANGED vars \/ SyncFails \/ CloseBegin \/ Deliver \/ TruncateDone \/ CommitTake
             \/ (\E m \in 1..2 : Stage(m) \/ StageReserveFails(m)) \/ Persist \/ Reconcile
             \/ OpenRefuses \/ ReconcileRefuses
    BY Zenon, <2>7 DEF vars, SyncFails, CloseBegin, Deliver, TruncateDone, CommitTake, Stage, StageReserveFails,
                Persist, Reconcile, OpenRefuses, ReconcileRefuses, disk
  <2> QED
    BY Zenon, <2>1, <2>2, <2>3, <2>4, <2>5, <2>6, <2>7 DEF Next, Committer, Faulty, Open

(* Numbering resumes above the reservation and above every record found, so  *)
(* above the checkpoint.                                                     *)
<1>AttachReaches.
  ASSUME RoundsInv, DiskInv, DiskInv', MarksInv, ReachInv, OpenAttach
  PROVE  checkpoint <= LastLSN(active)' \/ (harmed /\ Broke)
  <2> USE <1>AttachReaches
  <2>1. phase = "attach" /\ Ready' /\ ~Ready /\ Loaded
    BY Zenon DEF OpenAttach, Ready, Loaded
  <2>2. reserved = reservedFile /\ reservedFile \in Nat /\ checkpoint \in Nat /\ Chain /\ Attached
    BY Zenon, <2>1 DEF DiskInv, Attached, NumbersType, MarksInv
  <2>3. (LastLSN(active) \in Nat)'
    BY <2>1, LastIsNat, PTL
  <2>4. reservedFile <= LastLSN(active)' /\ (segs # <<>> => LastLSN(active) <= LastLSN(active)')
    <3>1. CASE segs # <<>> /\ reserved <= LastLSN(active) /\ segs' = segs
      <4>1. LastLSN(active)' = LastLSN(active)
        BY Zenon, <3>1 DEF active
      <4> QED
        BY <2>2, <2>3, <3>1, <4>1
    <3>2. CASE \E a \in Segment :
                 /\ a.base = reserved + 1 /\ a.count = 0 /\ segs' = Append(segs, a)
                 /\ segs # <<>> => a.prev = LastLSN(active) /\ reserved > LastLSN(active)
      <4> PICK a \in Segment :
                 /\ a.base = reserved + 1 /\ a.count = 0 /\ segs' = Append(segs, a)
                 /\ segs # <<>> => a.prev = LastLSN(active) /\ reserved > LastLSN(active)
        BY Zenon, <3>2
      <4>1. active' = a
        BY <2>2 DEF Chain, active
      <4>2. LastLSN(active)' = reserved
        BY <2>2, <4>1 DEF LastLSN
      <4>3. segs # <<>> => LastLSN(active) \in Nat
        BY Zenon, <2>1, ActiveFacts
      <4> QED
        BY <2>2, <4>2, <4>3
    <3> QED
      BY Zenon, <3>1, <3>2, ResumedFacts
  <2>5. CASE checkpoint <= reservedFile
    BY <2>2, <2>3, <2>4, <2>5
  <2>6. CASE \E n \in DOMAIN files : checkpoint <= End(n)
    <3> PICK n \in DOMAIN files : checkpoint <= End(n)
      BY Zenon, <2>6
    <3>1. PICK i \in DOMAIN segs : n = NameOf(segs[i])
      BY Zenon, <2>2 DEF Attached
    <3>2. End(n) = LastLSN(segs[i])
      BY Zenon, <2>2, <3>1 DEF Attached, End, LastLSN, CacheOf, NameOf
    <3>3. segs # <<>>
      BY <3>1
    <3>4. LastLSN(segs[i]) \in Nat /\ LastLSN(active) \in Nat /\ LastLSN(segs[i]) <= LastLSN(active)
      BY Zenon, <2>1, <3>3, ActiveFacts
    <3> QED
      BY SMTT(30), <2>2, <2>3, <2>4, <3>2, <3>3, <3>4
  <2> QED
    BY Zenon, <2>1, <2>5, <2>6 DEF ReachInv, Behind

(* In a log that is ready the last LSN is ahead of checkpoint and mark. *)
<1>AheadNext.
  ASSUME RoundsInv, DiskInv, DiskInv', PlacesInv, MarksInv, MarksInv', SoundInv, ReachInv, [Next]_vars
  PROVE  Ahead'
  <2> USE <1>AheadNext
  <2>0. /\ {checkpoint, mark, lastCP, durable} \subseteq Nat /\ {checkpoint', mark', lastCP', durable'} \subseteq Nat
        /\ reservedFile \in Nat
    BY Zenon DEF MarksInv, DiskInv, NumbersType
  <2>h. (Broke => Broke') /\ (harmed /\ Broke => harmed' /\ Broke')
    BY Zenon, <1>BrokeStays, HarmStays
  <2>r. \/ reservedFile' = reservedFile
        \/ Ready /\ reservedFile' \in Nat /\ LastLSN(active) <= reservedFile'
    BY Zenon, <1>ReservedMoves
  <2>a. Ready => /\ LastLSN(active) \in Nat /\ Loaded /\ segs # <<>>
                 /\ checkpoint <= LastLSN(active) \/ (harmed /\ Broke)
                 /\ \A i \in DOMAIN segs : segs[i].count > 0 => LastLSN(segs[i]) <= durable
                 /\ durable <= LastLSN(active)
                 /\ Serving => mark <= LastLSN(active) /\ (mark <= reservedFile \/ Broke)
    BY Zenon, LastIsNat DEF ReachInv, Ahead, DiskInv, Numbers, Ready, Loaded
  <2>b. Ready' => (LastLSN(active) \in Nat)'
    BY LastIsNat, PTL
  <2>1. CASE \/ UNCHANGED vars \/ SyncFails \/ CloseBegin \/ TruncateDone
             \/ (\E n \in 1..2 : Stage(n) \/ StageReserveFails(n))
             \/ CommitTake \/ RotateCreate \/ RotateCreateFails \/ RotateSyncFails \/ RotateCloseFails
             \/ Write \/ WriteFails \/ Rollback \/ RollbackFails
    <3>1. /\ UNCHANGED <<checkpoint, mark, durable, segs>>
          /\ Serving' => Serving
      BY Zenon, <2>1 DEF vars, SyncFails, CloseBegin, TruncateDone, Stage, StageReserveFails, CommitTake,
           RotateCreate, RotateCreateFails, RotateSyncFails, RotateCloseFails, Write, WriteFails,
           Rollback, RollbackFails, disk, memory, reader, Serving, RoundsInv
    <3>2. Ready' => Ready
      BY Zenon, <2>1 DEF vars, SyncFails, CloseBegin, TruncateDone, Stage, StageReserveFails, CommitTake,
           RotateCreate, RotateCreateFails, RotateSyncFails, RotateCloseFails, Write, WriteFails,
           Rollback, RollbackFails, Ready, RoundsInv
    <3>3. LastLSN(active)' = LastLSN(active) /\ \A i \in DOMAIN segs : LastLSN(segs[i])' = LastLSN(segs[i])
      BY Zenon, <3>1 DEF active
    <3>4. Serving' => mark' <= LastLSN(active)' /\ (mark' <= reservedFile' \/ Broke')
      <4> HAVE Serving'
      <4>1. Serving /\ Ready
        BY Zenon, <3>1 DEF Serving, Ready
      <4> QED
        BY SMTT(30), <2>0, <2>a, <2>h, <2>r, <3>1, <3>3, <4>1
    <3> QED
      BY Zenon, <2>a, <2>h, <3>1, <3>2, <3>3, <3>4 DEF Ahead
  <2>2. CASE RotateSync
    <3>1. /\ UNCHANGED <<checkpoint, mark, durable, phase, reservedFile>> /\ cpc = "rotate"
          /\ segs' = Append(segs, [base |-> first, prev |-> first - 1, count |-> 0])
      BY Zenon, <2>2 DEF RotateSync, reader
    <3>2. /\ LastLSN(active)' = LastLSN(active)
          /\ \A i \in DOMAIN segs : i \in DOMAIN segs' /\ segs'[i] = segs[i]
          /\ DOMAIN segs' = DOMAIN segs \cup {Len(segs')}
      BY Zenon, <2>2, RotateDisk
    <3>3. Ready
      BY Zenon, <3>1, NextSegmentFacts
    <3>4. segs'[Len(segs')].count = 0
      <4>1. segs \in Seq(Segment)
        BY Zenon, <2>a, <3>3 DEF DiskInv, Chain
      <4> QED
        BY <3>1, <4>1
    <3>5. \A i \in DOMAIN segs' : segs'[i].count > 0 => LastLSN(segs'[i]) <= durable'
      BY SMTT(30), <2>a, <3>1, <3>2, <3>3, <3>4
    <3>6. (Serving' => Serving) /\ (Broke' <=> Broke)
      BY Zenon, <2>2 DEF RotateSync, Serving, Broke, ghost
    <3> QED
      BY Zenon, <2>a, <2>h, <3>1, <3>2, <3>3, <3>5, <3>6 DEF Ahead
  <2>3. CASE Commit
    <3>1. /\ UNCHANGED <<checkpoint, mark, phase, reservedFile>> /\ cpc = "sync"
          /\ durable' = first + Len(inflight) - 1
      BY Zenon, <2>3 DEF Commit, reader
    <3>2. LastLSN(active)' = LastLSN(active) + Len(inflight)
      BY Zenon, <2>3, CommitDisk
    <3>3. Ready /\ Ready' /\ Len(inflight) \in Nat
      BY <3>1 DEF RoundsInv, RoundsType, Running, Ready
    <3>4. first = LastLSN(active) + 1
      BY Zenon, <3>1, <3>3 DEF DiskInv, Numbers
    <3>5. durable' = LastLSN(active)'
      BY SMTT(30), <2>a, <3>1, <3>2, <3>3, <3>4
    <3>6. \A i \in DOMAIN segs' : segs'[i].count > 0 => LastLSN(segs'[i]) <= durable'
      <4>1. LastsBounded'
        BY <3>3, LastsAreBounded, PTL
      <4> QED
        BY Zenon, <3>5, <4>1 DEF LastsBounded
    <3>7. LastLSN(active) <= LastLSN(active)'
      BY SMTT(30), <2>a, <3>2, <3>3
    <3>8. Serving' => mark' <= LastLSN(active)' /\ (mark' <= reservedFile' \/ Broke')
      BY SMTT(30), <2>0, <2>a, <2>b, <2>h, <3>1, <3>3, <3>7 DEF Serving
    <3>9. checkpoint' <= LastLSN(active)' \/ (harmed' /\ Broke')
      BY SMTT(30), <2>0, <2>a, <2>b, <2>h, <3>1, <3>3, <3>7
    <3> QED
      BY SMTT(30), <2>b, <3>3, <3>5, <3>6, <3>8, <3>9 DEF Ahead
  <2>4. CASE Deliver
    <3>1. /\ phase = "up" /\ Readable # {} /\ mark' = Min(Readable)
          /\ seen' = seen \cup {<<mark', RecordAt(mark')>>}
          /\ UNCHANGED <<checkpoint, durable, segs, reservedFile, told, harmed>>
      BY Zenon, <2>4 DEF Deliver, disk, memory, bounds
    <3>2. Ready
      BY Zenon, <3>1 DEF Ready
    <3>3. \A l \in Readable : l \in PublishedLSNs /\ l \in Nat /\ l <= LastLSN(active)
      BY Zenon, <3>2, ReadFacts DEF Readable
    <3>4. PICK S \in SUBSET Nat : S = Readable
      BY Zenon, <3>3
    <3>5. Min(S) \in S
      BY Zenon, <3>1, <3>4, Least
    <3>6. mark' \in PublishedLSNs /\ mark' <= LastLSN(active)
      BY Zenon, <3>1, <3>3, <3>4, <3>5
    <3>7. mark' <= reservedFile \/ Broke
      <4> DEFINE p == <<mark', RecordAt(mark')>>
      <4>1. p \in Kept /\ Past(p)
        BY Zenon, <2>4, <3>1, DeliveredIsPast
      <4>2. p \in Nat \X Records
        BY Zenon, <4>1, KeptFacts
      <4>3. p[1] = mark' /\ p[2] \in Records
        BY Zenon, <4>2
      <4> HIDE DEF p
      <4>4. CASE told[p[2]] = "broken"
        BY Zenon, <4>3, <4>4 DEF Broke
      <4>5. CASE p \in Settled
        BY Zenon, <4>3, <4>5 DEF PlacesInv
      <4> QED
        BY Zenon, <4>1, <4>4, <4>5 DEF Past, Settled
    <3>8. active' = active /\ (Broke' <=> Broke)
      BY Zenon, <3>1 DEF active, Broke
    <3> QED
      BY Zenon, <2>a, <3>1, <3>2, <3>6, <3>7, <3>8 DEF Ahead
  <2>5. CASE Persist
    <3>1. /\ phase = "up" /\ checkpoint' = mark /\ UNCHANGED <<phase, segs, durable, mark, reservedFile, told>>
      BY Zenon, <2>5 DEF Persist, memory, ghost
    <3>2. Ready /\ Serving
      BY Zenon, <3>1 DEF Ready, Serving
    <3>3. active' = active /\ (Broke' <=> Broke)
      BY Zenon, <3>1 DEF active, Broke
    <3> QED
      BY Zenon, <2>a, <3>1, <3>2, <3>3 DEF Ahead
  <2>6. CASE TruncateOne
    <3>1. UNCHANGED <<checkpoint, mark, durable, phase, reservedFile, told>>
      BY Zenon, <2>6 DEF TruncateOne, reader, ghost
    <3>2. /\ Ready /\ active' = active
          /\ \A i \in DOMAIN segs' : i + 1 \in DOMAIN segs /\ segs'[i] = segs[i + 1]
      BY Zenon, <2>6, TruncateDisk
    <3>3. \A i \in DOMAIN segs' : segs'[i].count > 0 => LastLSN(segs'[i]) <= durable'
      BY Zenon, <2>a, <3>1, <3>2
    <3>4. Broke' <=> Broke
      BY Zenon, <3>1 DEF Broke
    <3> QED
      BY Zenon, <2>a, <2>h, <3>1, <3>2, <3>3, <3>4 DEF Ahead, Serving
  <2>7. CASE OpenAttach
    <3>1. /\ phase = "attach" /\ phase' = "reconcile" /\ durable' = lastRecordLSN(segs')
          /\ UNCHANGED <<checkpoint, reservedFile>>
      BY Zenon, <2>7 DEF OpenAttach
    <3>2. Ready' /\ ~Serving' /\ ~Ready
      BY Zenon, <3>1 DEF Ready, Serving
    <3>3. LastRecorded'
      BY <3>2, LastRecordFacts, PTL
    <3>4. checkpoint' <= LastLSN(active)' \/ (harmed' /\ Broke')
      BY Zenon, <2>7, <2>h, <3>1, <3>2, <1>AttachReaches
    <3> QED
      BY Zenon, <3>1, <3>2, <3>3, <3>4 DEF Ahead, LastRecorded
  <2>8. CASE Reconcile
    <3>1. /\ phase = "reconcile" /\ phase' = "trim" /\ mark' = Clamped
          /\ checkpoint' = Max({checkpoint, Clamped}) /\ UNCHANGED <<segs, durable, reservedFile, told>>
      BY Zenon, <2>8 DEF Reconcile, memory, ghost
    <3>2. Ready
      BY Zenon, <3>1 DEF Ready
    <3>3. /\ Clamped \in Nat
          /\ Clamped = segs[1].base - 1 \/ (Clamped <= checkpoint /\ Clamped <= durable)
          /\ Max({checkpoint, Clamped}) \in {checkpoint, Clamped}
      BY Zenon, <3>2, ClampedFacts
    <3>4. segs[1].base - 1 <= reservedFile /\ segs[1].base - 1 <= LastLSN(active)
      <4>1. 1 \in DOMAIN segs /\ NameOf(segs[1]) \in DOMAIN files
        BY Zenon, <3>2, FirstFacts
      <4>2. NameOf(segs[1])[1] - 1 <= LastLSN(active) /\ NameOf(segs[1])[1] - 1 <= reservedFile
        BY Zenon, <3>2, <4>1, FilesBegin DEF ReachInv
      <4> QED
        BY Zenon, <4>2 DEF NameOf
    <3>5. Clamped <= LastLSN(active)
      BY SMTT(30), <2>0, <2>a, <3>2, <3>3, <3>4
    <3>6. Clamped <= reservedFile \/ Broke
      BY <2>0, <3>3, <3>4 DEF ReachInv
    <3>7. active' = active /\ (Broke' <=> Broke)
      BY Zenon, <3>1 DEF active, Broke
    <3>8. checkpoint' <= LastLSN(active) \/ (harmed' /\ Broke')
      BY Zenon, <2>a, <2>h, <3>1, <3>2, <3>3, <3>5
    <3> QED
      BY Zenon, <2>a, <3>1, <3>2, <3>5, <3>6, <3>7, <3>8 DEF Ahead
  <2>9. CASE \/ Vanish \/ OpenScan \/ OpenRefuses \/ ReconcileRefuses
             \/ (\E kind \in {"process", "machine"} : Crash(kind))
             \/ (\E r, s \in BOOLEAN : CloseEnd(r, s))
    BY Zenon, <2>9 DEF Vanish, OpenScan, OpenRefuses, ReconcileRefuses, Crash, CloseEnd, Ahead, Ready
  <2> QED
    BY Zenon, <2>1, <2>2, <2>3, <2>4, <2>5, <2>6, <2>7, <2>8, <2>9 DEF Next, Committer, Faulty, Open

(* What a process leaves behind reaches as far as it had come itself. *)
<1>LeavesBehind.
  ASSUME DiskInv, MarksInv, Ready, checkpoint' = checkpoint, ~Ready',
         checkpoint <= LastLSN(active), NameOf(active) \in DOMAIN files',
         active.count <= Len(files'[NameOf(active)].cache.recs),
         Len(files'[NameOf(active)].cache.recs) \in Nat
  PROVE  Behind'
  <2> USE <1>LeavesBehind
  <2>1. Loaded /\ segs # <<>>
    BY Zenon DEF DiskInv, Ready, Loaded, Numbers
  <2>2. active.base \in Nat /\ active.count \in Nat /\ checkpoint \in Nat
    BY Zenon, <2>1, ActiveFacts DEF Segment, MarksInv
  <2>3. NameOf(active)[1] = active.base
    BY Zenon DEF NameOf
  <2>4. checkpoint <= NameOf(active)[1] + Len(files'[NameOf(active)].cache.recs) - 1
    BY SMTT(30), <2>2, <2>3 DEF LastLSN
  <2>5. \E n \in DOMAIN files' : checkpoint' <= End(n)'
    BY Zenon, <2>4 DEF End
  <2> QED
    BY Zenon, <2>5 DEF Behind

(* What recovery finds reaches as far as the checkpoint, unless harm has cut *)
(* away records of a round that broke the log.                               *)
<1>BehindNext.
  ASSUME RoundsInv, DiskInv, DiskInv', ForcedInv, MarksInv, SoundInv, ReachInv, [Next]_vars
  PROVE  Behind'
  <2> USE <1>BehindNext
  <2>0. checkpoint \in Nat /\ reservedFile \in Nat
    BY Zenon DEF MarksInv, DiskInv, NumbersType
  <2>h. (Broke => Broke') /\ (harmed /\ Broke => harmed' /\ Broke')
    BY Zenon, <1>BrokeStays, HarmStays
  <2>a. Ready => checkpoint <= LastLSN(active) \/ (harmed /\ Broke)
    BY Zenon DEF ReachInv, Ahead
  <2>b. ~Ready => (harmed /\ Broke) \/ checkpoint <= reservedFile \/ \E n \in DOMAIN files : checkpoint <= End(n)
    BY Zenon DEF ReachInv, Behind
  <2>c. Ready => /\ NameOf(active) \in DOMAIN files /\ active.count <= Len(files[NameOf(active)].cache.recs)
                 /\ active.count \in Nat
                 /\ files[NameOf(active)] \in [cache : Content, stable : Content]
                 /\ Len(files[NameOf(active)].cache.recs) \in Nat
    BY Zenon, ActiveFacts DEF DiskInv, Ready, Loaded, Numbers, CacheOf, Segment
  <2>1. CASE \E kind \in {"process", "machine"} : Crash(kind)
    <3> PICK kind \in {"process", "machine"} : Crash(kind)
      BY Zenon, <2>1
    <3>1. /\ ~Ready' /\ UNCHANGED <<checkpoint, reservedFile>>
          /\ harmed' = (harmed \/ (kind = "machine" /\ (syncNever \/ cached \/ CutUndone)))
      BY Zenon DEF Crash, Ready
    <3>2. CASE harmed' /\ kind = "machine"
      BY Zenon, <2>h, <3>1, <3>2 DEF ReachInv, Behind
    <3>3. ASSUME kind = "machine", ~harmed' PROVE ~syncNever /\ ~cached /\ ~harmed
      BY Zenon, <3>1, <3>3 DEF ForcedInv, SoundInv
    <3>4. DOMAIN files' = DOMAIN files
      BY Zenon, CrashDisk
    <3>5. ASSUME kind = "process" \/ ~harmed', Ready PROVE Behind'
      <4>1. CASE harmed /\ Broke
        BY Zenon, <2>h, <4>1 DEF Behind
      <4>2. /\ active.count <= Len(files'[NameOf(active)].cache.recs)
            /\ Len(files'[NameOf(active)].cache.recs) \in Nat
        <5>1. CASE kind = "process"
          BY Zenon, <2>c, <3>5, <5>1, CrashDisk
        <5>2. CASE kind = "machine"
          <6>1. PICK c \in Survivors(files[NameOf(active)]) :
                  c \in Content /\ files'[NameOf(active)] = [cache |-> c, stable |-> c]
            BY Zenon, <2>c, <3>5, <5>2, CrashDisk
          <6>2. PICK f \in [cache : Content, stable : Content] : f = files[NameOf(active)]
            BY Zenon, <2>c, <3>5
          <6>3. \A k \in Nat : k <= Len(f.cache.recs) /\ k <= Len(f.stable.recs) => k <= Len(c.recs)
            BY Zenon, <6>1, <6>2, SurvivorFacts
          <6>4. active.count <= Len(f.stable.recs)
            <7>1. ~syncNever /\ ~cached
              BY Zenon, <3>3, <3>5, <5>2
            <7>2. Running => active.count <= Len(files[NameOf(active)].stable.recs)
              BY Zenon, <7>1 DEF ForcedInv
            <7>3. ~Running => files[NameOf(active)].cache.recs = files[NameOf(active)].stable.recs
              BY Zenon, <2>c, <3>5, <7>1 DEF ForcedInv, Unforced
            <7> QED
              BY Zenon, <2>c, <3>5, <6>2, <7>2, <7>3
          <6>5. active.count <= Len(c.recs)
            BY Zenon, <2>c, <3>5, <6>2, <6>3, <6>4
          <6>6. c.recs \in Seq(Records)
            BY Zenon, <6>1 DEF Content
          <6> QED
            BY <6>1, <6>5, <6>6
        <5> QED
          BY Zenon, <5>1, <5>2
      <4>3. CASE checkpoint <= LastLSN(active)
        BY Zenon, <2>c, <3>1, <3>4, <3>5, <4>2, <4>3, <1>LeavesBehind
      <4> QED
        BY Zenon, <2>a, <3>5, <4>1, <4>3
    <3>6. ASSUME kind = "process" \/ ~harmed', ~Ready PROVE Behind'
      <4>1. \A n \in DOMAIN files : files'[n].cache.recs = files[n].cache.recs
        <5>1. CASE kind = "process"
          BY Zenon, <5>1, CrashDisk
        <5>2. CASE kind = "machine"
          <6> TAKE n \in DOMAIN files
          <6>1. PICK c \in Survivors(files[n]) : files'[n] = [cache |-> c, stable |-> c]
            BY Zenon, <5>2, CrashDisk
          <6>2. PICK f \in [cache : Content, stable : Content] : f = files[n]
            BY Zenon DEF DiskInv, Disk
          <6>3. files[n].cache.recs = files[n].stable.recs
            BY Zenon, <3>3, <3>6, <5>2 DEF ForcedInv, Unforced, Running, Ready
          <6>4. c.recs = f.cache.recs
            BY Zenon, <6>1, <6>2, <6>3, SurvivorFacts
          <6> QED
            BY <6>1, <6>2, <6>4
        <5> QED
          BY Zenon, <5>1, <5>2
      <4>2. \A n \in DOMAIN files : End(n)' = End(n)
        BY Zenon, <4>1 DEF End
      <4> QED
        BY Zenon, <2>b, <2>h, <3>1, <3>4, <3>6, <4>2 DEF Behind
    <3> QED
      BY Zenon, <3>2, <3>5, <3>6
  <2>2. CASE \E r, s \in BOOLEAN : CloseEnd(r, s)
    <3> PICK r \in BOOLEAN, s \in BOOLEAN : CloseEnd(r, s)
      BY Zenon, <2>2
    <3>1. ~Ready' /\ checkpoint' = checkpoint
      BY Zenon DEF CloseEnd, Ready
    <3>2. /\ DOMAIN files' = DOMAIN files /\ Ready
          /\ LET f == files[NameOf(active)]
             IN  files'[NameOf(active)] = [cache |-> f.cache, stable |-> IF s THEN f.cache ELSE f.stable]
      BY Zenon, CloseDisk
    <3>3. files'[NameOf(active)].cache = files[NameOf(active)].cache
      BY <3>2
    <3>4. CASE harmed /\ Broke
      BY Zenon, <2>h, <3>4 DEF Behind
    <3>5. CASE checkpoint <= LastLSN(active)
      BY Zenon, <2>c, <3>1, <3>2, <3>3, <3>5, <1>LeavesBehind
    <3> QED
      BY Zenon, <2>a, <3>2, <3>4, <3>5
  <2>3. CASE ReconcileRefuses
    <3>1. ~Ready' /\ Ready /\ UNCHANGED <<checkpoint, files>>
      BY Zenon, <2>3 DEF ReconcileRefuses, Ready, disk
    <3>2. CASE harmed /\ Broke
      BY Zenon, <2>h, <3>2 DEF Behind
    <3>3. CASE checkpoint <= LastLSN(active)
      BY Zenon, <2>c, <3>1, <3>3, <1>LeavesBehind
    <3> QED
      BY Zenon, <2>a, <3>1, <3>2, <3>3
  <2>4. CASE Vanish
    <3>1. UNCHANGED <<checkpoint, reservedFile>> /\ harmed' = TRUE
      BY Zenon, <2>4 DEF Vanish
    <3> QED
      BY Zenon, <2>h, <3>1 DEF ReachInv, Behind
  <2>5. CASE UNCHANGED vars \/ OpenScan \/ OpenRefuses
    <3>1. UNCHANGED <<checkpoint, reservedFile>> /\ (~Ready' => ~Ready)
      BY Zenon, <2>5 DEF vars, OpenScan, OpenRefuses, disk, Ready
    <3>2. DOMAIN files' = DOMAIN files /\ \A n \in DOMAIN files : files'[n].cache.recs = files[n].cache.recs
      <4>1. CASE OpenScan
        BY Zenon, <4>1, ScanDisk
      <4>2. CASE UNCHANGED vars \/ OpenRefuses
        BY Zenon, <4>2 DEF vars, OpenRefuses, disk
      <4> QED
        BY Zenon, <2>5, <4>1, <4>2
    <3>3. \A n \in DOMAIN files : End(n)' = End(n)
      BY Zenon, <3>2 DEF End
    <3> QED
      BY Zenon, <2>b, <2>h, <3>1, <3>2, <3>3 DEF Behind
  <2>6. ASSUME ~Vanish, ~OpenScan, ~OpenRefuses, ~ReconcileRefuses, ~UNCHANGED vars,
               ~(\E kind \in {"process", "machine"} : Crash(kind)),
               ~(\E r, s \in BOOLEAN : CloseEnd(r, s))
        PROVE  Ready'
    BY Zenon, <2>6 DEF Next, Committer, Faulty, Open, StageReserveFails, Stage, CommitTake, RotateCreate,
           RotateCreateFails, RotateSync, RotateSyncFails, RotateCloseFails, Write, WriteFails, Commit,
           SyncFails, Rollback, RollbackFails, CloseBegin, Deliver, Persist, TruncateOne,
           TruncateDone, OpenAttach, Reconcile, Ready, RoundsInv, Running
  <2> QED
    BY Zenon, <2>1, <2>2, <2>3, <2>4, <2>5, <2>6 DEF Behind

<1> SUFFICES ASSUME RoundsInv, DiskInv, DiskInv', PlacesInv, ForcedInv, MarksInv, MarksInv', SoundInv,
                    ReachInv, [Next]_vars
             PROVE  ReachInv'
  BY Zenon
<1>0. /\ {checkpoint, mark, checkpoint'} \subseteq Nat /\ reservedFile \in Nat /\ reservedFile' \in Nat
  BY Zenon DEF MarksInv, DiskInv, NumbersType
<1>1. Ahead' /\ Behind'
  BY Zenon, <1>AheadNext, <1>BehindNext
<1>h. Broke => Broke'
  BY Zenon, <1>BrokeStays
<1>r. \/ reservedFile' = reservedFile
      \/ Ready /\ reservedFile' \in Nat /\ LastLSN(active) <= reservedFile'
  BY Zenon, <1>ReservedMoves
<1>2. \A n \in DOMAIN files' : n[1] - 1 <= reservedFile'
  <2> TAKE n \in DOMAIN files'
  <2>1. CASE n \in DOMAIN files
    <3>1. n[1] \in Nat /\ n[1] - 1 <= reservedFile
      BY Zenon, <2>1 DEF DiskInv, Disk, ReachInv
    <3>2. Ready => n[1] - 1 <= LastLSN(active) /\ LastLSN(active) \in Nat
      BY Zenon, <2>1, FilesBegin
    <3> QED
      BY <1>0, <1>r, <3>1, <3>2
  <2> QED
    BY Zenon, <2>1, <1>NewFiles
<1>3. checkpoint' <= reservedFile' \/ Broke'
  <2>1. CASE checkpoint' = checkpoint
    <3>1. Ready => LastLSN(active) \in Nat /\ (checkpoint <= LastLSN(active) \/ Broke)
      BY Zenon, LastIsNat DEF ReachInv, Ahead
    <3> QED
      BY <1>0, <1>h, <1>r, <2>1, <3>1 DEF ReachInv
  <2>2. CASE Persist
    <3>1. Ready /\ Serving /\ checkpoint' = mark /\ reservedFile' = reservedFile
      BY Zenon, <2>2 DEF Persist, Ready, Serving
    <3> QED
      BY Zenon, <1>h, <3>1 DEF ReachInv, Ahead
  <2>3. CASE Reconcile
    <3>1. Ready /\ checkpoint' = Max({checkpoint, Clamped}) /\ reservedFile' = reservedFile
      BY Zenon, <2>3 DEF Reconcile, Ready
    <3>2. /\ Clamped \in Nat
          /\ Clamped = segs[1].base - 1 \/ Clamped <= checkpoint
          /\ Max({checkpoint, Clamped}) \in {checkpoint, Clamped}
      BY Zenon, <3>1, ClampedFacts
    <3>3. segs[1].base - 1 <= reservedFile
      <4>1. NameOf(segs[1]) \in DOMAIN files /\ NameOf(segs[1])[1] = segs[1].base
        BY ZenonT(30), <3>1, FirstFacts DEF NameOf
      <4> QED
        BY Zenon, <4>1 DEF ReachInv
    <3> QED
      BY <1>0, <1>h, <3>1, <3>2, <3>3 DEF ReachInv
  <2>4. ASSUME ~Persist, ~Reconcile PROVE checkpoint' = checkpoint
    BY ZenonT(30), <2>4 DEF Next, Committer, Faulty, Open, vars, disk, Stage, StageReserveFails, CommitTake,
         RotateCreate, RotateCreateFails, RotateSync, RotateSyncFails, RotateCloseFails, Write,
         WriteFails, Commit, SyncFails, Rollback, RollbackFails, CloseBegin, CloseEnd, Deliver,
         TruncateOne, Crash, TruncateDone, Vanish, OpenRefuses, OpenScan, OpenAttach, ReconcileRefuses
  <2> QED
    BY Zenon, <2>1, <2>2, <2>3, <2>4
<1> QED
  BY Zenon, <1>1, <1>2, <1>3 DEF ReachInv

(* Nothing is checkpointed. *)
LEMMA ReachInit == Init => ReachInv
<1> SUFFICES ASSUME Init PROVE ReachInv
  BY Zenon
<1>1. DOMAIN files = {} /\ phase = "down" /\ checkpoint = 0 /\ reservedFile = 0
  BY Zenon DEF Init
<1> QED
  BY <1>1 DEF ReachInv, Ahead, Behind, Ready

-----------------------------------------------------------------------------
(* Every acknowledged record that the sink has not been given. *)

(* What Write has appended past the published records is the round.          *)
LEMMA TailNext ==
  RoundsInv /\ DiskInv /\ TailInv /\ [Next]_vars => TailInv'
<1> SUFFICES ASSUME RoundsInv, DiskInv, TailInv, [Next]_vars, cpc' = "sync",
                    NEW j \in DOMAIN inflight'
             PROVE  CacheOf(active)'[active'.count + j] = inflight'[j]
  BY Zenon DEF TailInv
<1>1. CASE Write
  <2>1. PICK k \in 0..Len(inflight), torn \in BOOLEAN :
           /\ cpc = "write" /\ k = Len(inflight)
           /\ files' = WithFile(NameOf(active), Appended(k, torn), files[NameOf(active)].stable)
           /\ UNCHANGED <<segs, inflight>>
    BY Zenon, <1>1, WriteFacts
  <2>2. Running /\ Ready /\ Loaded /\ ~broken
    BY Zenon, <2>1 DEF RoundsInv, Running, Ready, Loaded
  <2>3. Len(CacheOf(active)) = active.count /\ segs # <<>>
    BY Zenon, <2>1, <2>2 DEF DiskInv, Progress, Numbers
  <2>4. active' = active
    BY Zenon, <2>1 DEF active
  <2>5. files'[NameOf(active)].cache = Appended(k, torn)
    BY Zenon, <2>1 DEF WithFile
  <2>6. Appended(k, torn).recs = CacheOf(active) \o SubSeq(inflight, 1, k)
    BY Zenon DEF Appended, CacheOf
  <2>7. inflight \in Seq(Records) /\ SubSeq(inflight, 1, k) = inflight
    BY <2>1 DEF RoundsInv, RoundsType
  <2>8. CacheOf(active) \in Seq(Records)
    BY Zenon, <2>2, <2>3, ActiveFacts DEF CacheOf, Content
  <2>9. (CacheOf(active) \o inflight)[Len(CacheOf(active)) + j] = inflight[j]
    <3>1. Joined(CacheOf(active) \o inflight, CacheOf(active), inflight)
      BY Zenon, <2>7, <2>8, Concatenation
    <3> QED
      BY Zenon, <2>1, <3>1 DEF Joined
  <2>10. CacheOf(active)' = CacheOf(active) \o inflight
    BY Zenon, <2>4, <2>5, <2>6, <2>7 DEF CacheOf
  <2> QED
    BY Zenon, <2>1, <2>3, <2>4, <2>9, <2>10
<1>2. CASE TruncateOne
  <2>1. /\ active' = active /\ NameOf(segs[1]) # NameOf(active) /\ Ready
        /\ DOMAIN files' = DOMAIN files \ {NameOf(segs[1])}
        /\ \A n \in DOMAIN files' : files'[n] = files[n]
    BY Zenon, <1>2, TruncateDisk
  <2>2. NameOf(active) \in DOMAIN files
    BY Zenon, <2>1, ActiveFacts DEF DiskInv, Ready, Loaded, Numbers
  <2>3. CacheOf(active)' = CacheOf(active)
    BY Zenon, <2>1, <2>2 DEF CacheOf
  <2>4. UNCHANGED <<cpc, inflight>>
    BY Zenon, <1>2 DEF TruncateOne, rounds
  <2> QED
    BY Zenon, <2>1, <2>3, <2>4 DEF TailInv
<1>3. CASE UNCHANGED <<files, segs, inflight, cpc>>
  <2>1. active' = active /\ CacheOf(active)' = CacheOf(active)
    BY Zenon, <1>3 DEF active, CacheOf
  <2> QED
    BY Zenon, <1>3, <2>1 DEF TailInv
<1>4. CASE OpenScan \/ OpenAttach
  <2>1. cpc' = cpc /\ ~Running
    BY Zenon, <1>4 DEF OpenScan, OpenAttach, Running
  <2> QED
    BY Zenon, <2>1 DEF RoundsInv
<1>5. ASSUME ~Write, ~TruncateOne, ~OpenScan, ~OpenAttach
      PROVE  UNCHANGED <<files, segs, inflight, cpc>>
  <2>1. CASE UNCHANGED vars \/ CloseBegin \/ Deliver \/ Persist \/ TruncateDone \/ Reconcile \/ OpenRefuses
             \/ \E n \in 1..2 : Stage(n) \/ StageReserveFails(n)
    BY Zenon, <2>1 DEF vars, disk, memory, rounds, CloseBegin, Deliver, Persist, TruncateDone, Reconcile,
                OpenRefuses, Stage, StageReserveFails
  <2>2. CASE Vanish
    <3>1. UNCHANGED cpc /\ ~Running
      BY Zenon, <2>2 DEF Vanish, Running, memory
    <3> QED
      BY Zenon, <3>1 DEF RoundsInv
  <2>3. CASE CommitTake \/ RotateCreate \/ RotateSync \/ Commit \/ Rollback \/ RollbackFails
             \/ RotateCreateFails \/ RotateSyncFails \/ RotateCloseFails \/ WriteFails \/ SyncFails
    BY Zenon, <2>3 DEF CommitTake, RotateCreate, RotateSync, Commit, Rollback, RollbackFails, FailRound,
                RotateCreateFails, RotateSyncFails, RotateCloseFails, WriteFails, SyncFails
  <2>4. CASE ReconcileRefuses \/ (\E r, s \in BOOLEAN : CloseEnd(r, s))
             \/ \E kind \in {"process", "machine"} : Crash(kind)
    BY Zenon, <2>4 DEF ReconcileRefuses, CloseEnd, Crash, NoProcess
  <2> QED
    BY Zenon, <1>5, <2>1, <2>2, <2>3, <2>4 DEF Next, Committer, Faulty, Open
<1> QED
  BY Zenon, <1>1, <1>2, <1>3, <1>4, <1>5

(* What a record in its place means to the consumer: a published LSN, not    *)
(* above the durable one, at which the flusher reads this record.            *)
LEMMA PlacedIsPublished ==
  ASSUME DiskInv, MarksInv, ReachInv, Ready, NEW r \in Records, NEW n \in DOMAIN files,
         NEW i \in DOMAIN files[n].cache.recs, Placed(r, n, i)
  PROVE  /\ n[1] + i - 1 \in PublishedLSNs /\ n[1] + i - 1 <= durable
         /\ RecordAt(n[1] + i - 1) = r /\ n[1] + i - 1 \in Nat
<1>1. PICK k \in DOMAIN segs : n = NameOf(segs[k]) /\ i <= segs[k].count
  BY Zenon DEF Placed
<1>2. Loaded /\ segs # <<>>
  BY Zenon DEF DiskInv, Ready, Loaded, Numbers
<1>3. segs[k] \in Segment /\ n[1] = segs[k].base /\ segs[k].base \in Nat /\ segs[k].count \in Nat
  BY Zenon, <1>1, <1>2, ActiveFacts DEF Segment, NameOf
<1>4. i \in Nat /\ i >= 1
  <2>1. files[n] \in [cache : Content, stable : Content]
    BY Zenon DEF DiskInv, Disk
  <2> QED
    BY <2>1 DEF Content
<1>5. PICK l \in Int : l = n[1] + i - 1
  BY <1>3, <1>4
<1>6. l \in LSNsOf(segs[k])
  BY <1>1, <1>3, <1>4, <1>5 DEF LSNsOf, LastLSN
<1>7. l \in PublishedLSNs
  BY Zenon, <1>6 DEF PublishedLSNs
<1>8. l - segs[k].base + 1 = i
  BY <1>3, <1>4, <1>5
<1>9. l \in Nat /\ RecordAt(l) = CacheOf(segs[k])[l - segs[k].base + 1]
  BY Zenon, <1>6, <1>7, ReadFacts
<1>10. CacheOf(segs[k])[i] = r
  BY Zenon, <1>1 DEF Placed, Stored, CacheOf
<1>11. LastLSN(segs[k]) <= durable /\ l <= LastLSN(segs[k]) /\ LastLSN(segs[k]) \in Nat
  BY SMTT(30), <1>1, <1>2, <1>3, <1>4, <1>6, ActiveFacts DEF ReachInv, Ahead, LSNsOf
<1>12. l <= durable
  BY <1>9, <1>11 DEF MarksInv
<1> QED
  BY Zenon, <1>5, <1>7, <1>8, <1>9, <1>10, <1>12

(* One case per kind of step, for a record in its place and for a hole. *)
LEMMA OwedNext ==
  /\ RoundsInv /\ RoundsInv' /\ DiskInv /\ DiskInv' /\ PlacesInv /\ MarksInv /\ MarksInv' /\ SoundInv
  /\ ReachInv /\ TailInv /\ OwedInv /\ [Next]_vars
  => OwedInv'
(* A record keeps its place when its file keeps it, no file leaves a gap at  *)
(* its LSN, and neither checkpoint nor mark moves.                           *)
<1>PlaceStays.
  ASSUME DiskInv, DiskInv', NEW r \in Records, NEW n \in DOMAIN files,
         NEW i \in DOMAIN files[n].cache.recs, Placed(r, n, i),
         n \in DOMAIN files', i \in DOMAIN files'[n].cache.recs, Stored(r, n, i)',
         checkpoint' = checkpoint,
         \A m \in DOMAIN files' : m \in DOMAIN files \/ m[2] = m[1] - 1,
         Ready' => Ready /\ \A k \in DOMAIN segs :
                              \E j \in DOMAIN segs' : /\ NameOf(segs'[j]) = NameOf(segs[k])
                                                      /\ segs[k].count <= segs'[j].count,
         Serving' => Serving /\ mark' = mark
  PROVE  InLog(r)'
  <2> USE <1>PlaceStays
  <2>1. n[1] \in Nat /\ i \in Nat
    BY DEF DiskInv, Disk, Content
  <2>2. \A m \in DOMAIN files' : ~InGap(n[1] + i - 1, m)
    <3> TAKE m \in DOMAIN files'
    <3>1. m[1] \in Nat
      BY Zenon DEF DiskInv, Disk
    <3>2. CASE m \in DOMAIN files
      BY Zenon, <3>2 DEF Placed
    <3>3. CASE m[2] = m[1] - 1
      BY <2>1, <3>1, <3>3 DEF InGap
    <3> QED
      BY Zenon, <3>2, <3>3
  <2>3. Ready' => \E j \in DOMAIN segs' : n = NameOf(segs'[j]) /\ i <= segs'[j].count
    <3> SUFFICES ASSUME Ready' PROVE \E j \in DOMAIN segs' : n = NameOf(segs'[j]) /\ i <= segs'[j].count
      BY Zenon
    <3>1. PICK k \in DOMAIN segs : n = NameOf(segs[k]) /\ i <= segs[k].count
      BY Zenon DEF Placed
    <3>2. PICK j \in DOMAIN segs' : NameOf(segs'[j]) = NameOf(segs[k]) /\ segs[k].count <= segs'[j].count
      BY Zenon
    <3>3. segs \in Seq(Segment) /\ segs' \in Seq(Segment)
      BY Zenon DEF DiskInv, Ready, Loaded, Chain
    <3>4. segs[k] \in Segment /\ segs'[j] \in Segment
      BY <3>3
    <3>5. segs[k].count \in Nat /\ segs'[j].count \in Nat
      BY Zenon, <3>4 DEF Segment
    <3> QED
      BY <2>1, <3>1, <3>2, <3>5
  <2>4. Placed(r, n, i)'
    BY Zenon, <2>2, <2>3 DEF Placed
  <2> QED
    BY Zenon, <2>4 DEF InLog

(* The mode of fsync is fixed. *)
<1>ModeStays.
  [Next]_vars => syncNever' = syncNever
  BY Zenon DEF Next, Committer, vars

(* A step that writes to the active file, or forces it to the disk, leaves   *)
(* what it had published where it was.                                       *)
<1>TouchKeeps.
  ASSUME DiskInv, Ready, syncNever' = syncNever,
         NEW r \in Records, NEW n \in DOMAIN files, NEW i \in DOMAIN files[n].cache.recs,
         Placed(r, n, i), n \in DOMAIN files',
         NEW c \in Content, NEW s \in Content,
         n # NameOf(active) => files'[n] = files[n],
         n = NameOf(active) => files'[n] = [cache |-> c, stable |-> s],
         Preserved(c, s)
  PROVE  i \in DOMAIN files'[n].cache.recs /\ Stored(r, n, i)'
  <2> USE <1>TouchKeeps
  <2>1. CASE n # NameOf(active)
    BY Zenon, <2>1 DEF Placed, Stored
  <2>2. CASE n = NameOf(active)
    <3>1. Loaded /\ segs # <<>>
      BY Zenon DEF DiskInv, Ready, Loaded, Numbers
    <3>2. PICK k \in DOMAIN segs : n = NameOf(segs[k]) /\ i <= segs[k].count
      BY Zenon DEF Placed
    <3>3. k = Len(segs)
      BY Zenon, <2>2, <3>1, <3>2, ActiveFacts
    <3>4. i \in Nat /\ i >= 1 /\ active.count \in Nat
      <4>1. files[n] \in [cache : Content, stable : Content]
        BY Zenon DEF DiskInv, Disk
      <4>2. i \in Nat /\ i >= 1
        BY <4>1 DEF Content
      <4> QED
        BY Zenon, <3>1, <4>2, ActiveFacts DEF Segment
    <3>5. i \in 1..active.count
      BY SMTT(30), <3>2, <3>3, <3>4 DEF active
    <3>6. files'[n].cache = c /\ files'[n].stable = s
      BY <2>2
    <3> QED
      BY Zenon, <2>2, <3>5, <3>6 DEF Placed, Stored, Preserved
  <2> QED
    BY Zenon, <2>1, <2>2

(* Steps that leave the files alone. *)
<1>QuietKeeps.
  ASSUME DiskInv, DiskInv', NEW r \in Records, InLog(r), [Next]_vars,
         UNCHANGED <<files, checkpoint>>, Ready' => Ready /\ segs' = segs,
         Serving' => Serving /\ mark' = mark
  PROVE  InLog(r)'
  <2> USE <1>QuietKeeps
  <2>1. PICK n \in DOMAIN files : \E i \in DOMAIN files[n].cache.recs : Placed(r, n, i)
    BY Zenon DEF InLog
  <2>2. PICK i \in DOMAIN files[n].cache.recs : Placed(r, n, i)
    BY Zenon, <2>1
  <2>3. Stored(r, n, i)'
    BY Zenon, <2>2, <1>ModeStays DEF Placed, Stored
  <2>4. Ready' => \A k \in DOMAIN segs : \E j \in DOMAIN segs' : /\ NameOf(segs'[j]) = NameOf(segs[k])
                                                                 /\ segs[k].count <= segs'[j].count
    <3> SUFFICES ASSUME Ready', NEW k \in DOMAIN segs
                 PROVE  NameOf(segs'[k]) = NameOf(segs[k]) /\ segs[k].count <= segs'[k].count
      BY Zenon DEF Ready
    <3>1. segs \in Seq(Segment)
      BY Zenon DEF DiskInv, Ready, Loaded, Chain
    <3>2. segs[k] \in Segment
      BY <3>1
    <3>3. segs[k].count \in Nat
      BY Zenon, <3>2 DEF Segment
    <3> QED
      BY <3>3
  <2> QED
    BY Zenon, <2>2, <2>3, <2>4, <1>PlaceStays

(* The committer's steps leave every published record in its place. *)
<1>CommitterKeeps.
  ASSUME RoundsInv, DiskInv, DiskInv', NEW r \in Records, InLog(r), [Next]_vars,
         \/ RotateCreate \/ RotateCreateFails \/ RotateSync \/ RotateSyncFails \/ RotateCloseFails
         \/ Write \/ WriteFails \/ Commit \/ Rollback \/ RollbackFails
  PROVE  InLog(r)'
  <2> USE <1>CommitterKeeps
  <2>0. PICK n \in DOMAIN files : \E i \in DOMAIN files[n].cache.recs : Placed(r, n, i)
    BY Zenon DEF InLog
  <2> PICK i \in DOMAIN files[n].cache.recs : Placed(r, n, i)
    BY Zenon, <2>0
  <2>a. cpc # "idle" /\ UNCHANGED <<phase, checkpoint, mark>>
    BY Zenon DEF RotateCreate, RotateCreateFails, RotateSync, RotateSyncFails, RotateCloseFails, Write,
           WriteFails, Commit, Rollback, RollbackFails, reader, RoundsInv
  <2>b. Running /\ Ready /\ Loaded /\ segs # <<>> /\ syncNever' = syncNever
    BY Zenon, <2>a, <1>ModeStays DEF RoundsInv, Running, Ready, Loaded, DiskInv, Numbers
  <2>c. (Ready' => Ready) /\ (Serving' => Serving /\ mark' = mark)
    BY Zenon, <2>a, <2>b DEF Ready, Serving
  <2>d. /\ NameOf(active) \in DOMAIN files /\ segs \in Seq(Segment) /\ active.count \in Nat
        /\ files[NameOf(active)] \in [cache : Content, stable : Content]
        /\ active.count <= Len(CacheOf(active))
    BY Zenon, <2>b, ActiveFacts DEF DiskInv, Chain, Segment
  <2>e. /\ files[NameOf(active)].cache \in Content /\ files[NameOf(active)].stable \in Content
        /\ \A j \in 1..active.count : j \in DOMAIN files[NameOf(active)].cache.recs
    BY <2>d DEF CacheOf, Content
  <2> DEFINE StillPublished == \A k \in DOMAIN segs : \E j \in DOMAIN segs' : /\ NameOf(segs'[j]) = NameOf(segs[k])
                                                                    /\ segs[k].count <= segs'[j].count
  <2>f. \A k \in DOMAIN segs : segs[k].count \in Nat
    <3> TAKE k \in DOMAIN segs
    <3>1. segs[k] \in Segment
      BY <2>d
    <3> QED
      BY Zenon, <3>1 DEF Segment
  <2>1. CASE RotateCreate \/ (RotateCreateFails /\ files' # files)
    <3>1. cpc = "create" /\ segs' = segs /\ files' = WithFile(NextSegment, Empty, Empty)
      BY Zenon, <2>1 DEF RotateCreate, RotateCreateFails, NextSegment
    <3>2. n # NextSegment
      BY Zenon, <2>b, <3>1, NextSegmentFacts DEF Placed
    <3>3. n \in DOMAIN files' /\ files'[n] = files[n]
      BY Zenon, <3>1, <3>2 DEF WithFile
    <3>4. \A m \in DOMAIN files' : m \in DOMAIN files \/ m[2] = m[1] - 1
      BY <3>1 DEF WithFile, NextSegment
    <3>5. Stored(r, n, i)'
      BY Zenon, <2>b, <3>3 DEF Placed, Stored
    <3>6. StillPublished
      BY <2>f, <3>1
    <3> QED
      BY Zenon, <2>a, <2>c, <3>3, <3>4, <3>5, <3>6, <1>PlaceStays
  <2>2. CASE files' = files /\ segs' = segs
    BY Zenon, <2>2, <2>a, <2>c, <1>QuietKeeps
  <2>3. CASE RotateSync
    <3>1. /\ DOMAIN files' = DOMAIN files
          /\ \A k \in DOMAIN segs : k \in DOMAIN segs' /\ segs'[k] = segs[k]
          /\ \A m \in DOMAIN files : files'[m].cache = files[m].cache
          /\ \A m \in DOMAIN files : files'[m].stable \in {files[m].cache, files[m].stable}
      BY Zenon, <2>3, RotateDisk
    <3>2. i \in DOMAIN files'[n].cache.recs /\ Stored(r, n, i)'
      BY Zenon, <2>b, <3>1 DEF Placed, Stored
    <3>3. StillPublished
      BY <2>f, <3>1
    <3> QED
      BY Zenon, <2>a, <2>c, <3>1, <3>2, <3>3, <1>PlaceStays
  <2>4. CASE (RotateSyncFails /\ files' # files) \/ RotateCloseFails
    <3>1. /\ cpc = "rotate" /\ segs' = segs
          /\ DOMAIN files' \in {DOMAIN files, DOMAIN files \ {NextSegment}}
          /\ \A m \in DOMAIN files' :
               files'[m] \in {files[m], [cache |-> files[m].cache, stable |-> files[m].cache]}
      <4>1. CASE RotateSyncFails /\ files' # files
        BY Zenon, <4>1 DEF RotateSyncFails, NextSegment, Without
      <4>2. CASE RotateCloseFails
        BY Zenon, <2>d, <4>2 DEF RotateCloseFails, NextSegment, WithFile
      <4> QED
        BY Zenon, <2>4, <4>1, <4>2
    <3>2. n # NextSegment
      BY Zenon, <2>b, <3>1, NextSegmentFacts DEF Placed
    <3>3. n \in DOMAIN files' /\ files'[n].cache = files[n].cache
          /\ files'[n].stable \in {files[n].cache, files[n].stable}
      BY <3>1, <3>2
    <3>4. i \in DOMAIN files'[n].cache.recs /\ Stored(r, n, i)'
      BY Zenon, <2>b, <3>3 DEF Placed, Stored
    <3>5. StillPublished
      BY <2>f, <3>1
    <3> QED
      BY Zenon, <2>a, <2>c, <3>1, <3>3, <3>4, <3>5, <1>PlaceStays
  <2>5. ASSUME NEW c \in Content, NEW s \in Content, files' = WithFile(NameOf(active), c, s), StillPublished,
               Preserved(c, s)
        PROVE  InLog(r)'
    <3>1. /\ DOMAIN files' = DOMAIN files
          /\ n # NameOf(active) => files'[n] = files[n]
          /\ n = NameOf(active) => files'[n] = [cache |-> c, stable |-> s]
      BY Zenon, <2>d, <2>5 DEF WithFile
    <3>2. i \in DOMAIN files'[n].cache.recs /\ Stored(r, n, i)'
      <4>1. n \in DOMAIN files'
        BY Zenon, <3>1
      <4> QED
        BY Zenon, <2>b, <2>5, <3>1, <4>1, <1>TouchKeeps
    <3> QED
      BY Zenon, <2>a, <2>c, <2>5, <3>1, <3>2, <1>PlaceStays
  <2>6. CASE Write \/ WriteFails
    <3>1. PICK k \in 0..Len(inflight), torn \in BOOLEAN :
             /\ cpc = "write" /\ UNCHANGED segs
             /\ files' = WithFile(NameOf(active), Appended(k, torn), files[NameOf(active)].stable)
      BY Zenon, <2>6, WriteFacts
    <3>2. PICK c \in Content : c = Appended(k, torn)
      BY Zenon, <2>b, ContentFacts
    <3>3. \A j \in DOMAIN files[NameOf(active)].cache.recs :
            j \in DOMAIN c.recs /\ c.recs[j] = files[NameOf(active)].cache.recs[j]
      BY Zenon, <3>1, <3>2, AppendedFacts
    <3>4. StillPublished
      BY <2>f, <3>1
    <3> QED
      <4>1. Preserved(c, files[NameOf(active)].stable)
        BY Zenon, <2>e, <3>3 DEF Preserved
      <4> QED
        BY Zenon, <2>e, <2>5, <3>1, <3>2, <3>4, <4>1
  <2>7. CASE Commit
    <3>1. PICK s \in Content : s = IF syncNever THEN files[NameOf(active)].stable ELSE files[NameOf(active)].cache
      BY Zenon, <2>e
    <3>2. files' = WithFile(NameOf(active), files[NameOf(active)].cache, s)
      BY Zenon, <2>7, <3>1 DEF Commit
    <3>3. StillPublished
      <4> TAKE k \in DOMAIN segs
      <4>1. /\ NameOf(active)' = NameOf(active) /\ active'.count = active.count + Len(inflight)
            /\ Len(segs') = Len(segs) /\ \A j \in DOMAIN segs : j # Len(segs) => segs'[j] = segs[j]
        BY Zenon, <2>7, CommitDisk
      <4>2. segs' = [segs EXCEPT ![Len(segs)].count = @ + Len(inflight)]
        BY Zenon, <2>7 DEF Commit
      <4>3. DOMAIN segs' = DOMAIN segs
        BY Zenon, <4>2
      <4>4. Len(inflight) \in Nat
        BY SMTT(30) DEF RoundsInv, RoundsType
      <4>5. CASE k = Len(segs)
        BY SMTT(30), <2>d, <4>1, <4>3, <4>4, <4>5 DEF active
      <4> QED
        BY <2>f, <4>1, <4>3, <4>5
    <3>4. Preserved(files[NameOf(active)].cache, s)
      BY Zenon, <2>e, <3>1 DEF Preserved
    <3> QED
      BY Zenon, <2>e, <2>5, <3>1, <3>2, <3>3, <3>4
  <2>8. CASE (Rollback \/ RollbackFails) /\ files' # files
    <3>1. /\ segs' = segs
          /\ \E s \in Survivors(files[NameOf(active)]) \cup {CutBack} :
               files' = WithFile(NameOf(active), CutBack, s)
      BY Zenon, <2>8 DEF Rollback, RollbackFails
    <3>2. PICK s \in Survivors(files[NameOf(active)]) \cup {CutBack} :
               files' = WithFile(NameOf(active), CutBack, s)
      BY Zenon, <3>1
    <3>3. PICK c \in Content : c = CutBack
      BY Zenon, <2>b, ContentFacts
    <3>4. /\ Len(c.recs) = active.count
          /\ \A j \in 1..active.count : j \in DOMAIN c.recs /\ c.recs[j] = files[NameOf(active)].cache.recs[j]
      <4>1. Len(c.recs) = active.count /\ \A j \in 1..active.count : c.recs[j] = files[NameOf(active)].cache.recs[j]
        BY Zenon, <2>b, <3>3, ContentFacts
      <4> QED
        BY <4>1 DEF Content
    <3>5. PICK f \in [cache : Content, stable : Content] : f = files[NameOf(active)]
      BY Zenon, <2>d
    <3>6. /\ s \in Content
          /\ \A j \in 1..active.count :
               j \in DOMAIN f.stable.recs /\ f.stable.recs[j] = f.cache.recs[j] =>
                 j \in DOMAIN s.recs /\ s.recs[j] = f.cache.recs[j]
      <4>1. CASE s = CutBack
        BY Zenon, <3>3, <3>4, <3>5, <4>1
      <4>2. CASE s \in Survivors(f)
        BY Zenon, <2>e, <3>5, <4>2, SurvivorFacts
      <4> QED
        BY Zenon, <3>5, <4>1, <4>2
    <3>7. StillPublished
      BY <2>f, <3>1
    <3> QED
      <4>1. Preserved(c, s)
        BY Zenon, <3>4, <3>5, <3>6 DEF Preserved
      <4> QED
        BY Zenon, <2>5, <3>2, <3>3, <3>6, <3>7, <4>1
  <2>9. ASSUME files' = files, ~RotateSync, ~Commit PROVE segs' = segs
    BY Zenon, <2>9 DEF RotateCreate, RotateCreateFails, RotateSyncFails, RotateCloseFails, Write,
           WriteFails, Rollback, RollbackFails
  <2> QED
    BY Zenon, <2>1, <2>2, <2>3, <2>4, <2>6, <2>7, <2>8, <2>9

(* The records of a round are in the log when commit() tells their writers   *)
(* so, above the mark and, unless the LSNs of a broken round were given back,*)
(* above the checkpoint.                                                     *)
<1>CommitPlacesRound.
  ASSUME RoundsInv, RoundsInv', DiskInv, DiskInv', MarksInv, SoundInv, ReachInv, TailInv, Commit, [Next]_vars,
         NEW r \in Records, told[r] # "ok", told'[r] = "ok"
  PROVE  Excused(r)' \/ InLog(r)'
  <2> USE <1>CommitPlacesRound
  <2>1. /\ cpc = "sync" /\ UNCHANGED <<phase, checkpoint, mark, harmed>>
        /\ told' = [q \in Records |-> IF q \in Range(inflight) THEN "ok" ELSE told[q]]
        /\ files' = WithFile(NameOf(active), files[NameOf(active)].cache,
                             IF syncNever THEN files[NameOf(active)].stable ELSE files[NameOf(active)].cache)
    BY Zenon DEF Commit, Tell, reader, bounds
  <2>2. Running /\ Ready /\ Loaded /\ segs # <<>> /\ syncNever' = syncNever
    BY Zenon, <2>1, <1>ModeStays DEF RoundsInv, Running, Ready, Loaded, DiskInv, Numbers
  <2>3. PICK j \in DOMAIN inflight : inflight[j] = r
    BY Zenon, <2>1 DEF Range
  <2>4. j \in Nat /\ j >= 1 /\ j <= Len(inflight) /\ Len(inflight) \in Nat
    BY DEF RoundsInv, RoundsType
  <2>5. CASE harmed /\ Broke
    <3>1. PICK q \in Records : told[q] = "broken"
      BY Zenon, <2>5 DEF Broke
    <3>2. told[r] = "staged"
      BY Zenon, <2>3 DEF RoundsInv, Range
    <3>3. q < r
      BY Zenon, <3>1, <3>2 DEF RoundsInv
    <3>4. told'[q] = "broken"
      BY Zenon, <3>1, BrokenStays
    <3> QED
      BY Zenon, <2>1, <2>5, <3>3, <3>4 DEF Excused
  <2>6. CASE ~(harmed /\ Broke)
    <3> PICK n \in DOMAIN files : n = NameOf(active)
      BY Zenon, <2>2, ActiveFacts
    <3> PICK i \in Nat : i = active.count + j
      BY <2>2, <2>4, ActiveFacts DEF Segment
    <3>1. /\ n \in DOMAIN files /\ n[1] = active.base /\ active.base \in Nat /\ active.count \in Nat
          /\ files[n] \in [cache : Content, stable : Content] /\ LastLSN(active) \in Nat
          /\ Len(CacheOf(active)) \in Nat /\ Len(segs) \in DOMAIN segs
      BY Zenon, <2>2, ActiveFacts DEF Segment, NameOf
    <3>2. n[1] + i - 1 = LastLSN(active) + j
      <4> PICK b \in Nat, c \in Nat : b = active.base /\ c = active.count
        BY Zenon, <3>1
      <4>1. LastLSN(active) = b + c - 1 /\ n[1] = b /\ i = c + j
        BY Zenon, <3>1 DEF LastLSN
      <4> QED
        BY SMTT(30), <2>4, <4>1
    <3>3. files[n].cache.recs \in Seq(Records) /\ Len(files[n].cache.recs) = active.count + Len(inflight)
      BY Zenon, <2>1, <2>2, <3>1 DEF DiskInv, Progress, CacheOf, Content
    <3>4. i \in DOMAIN files[n].cache.recs /\ files[n].cache.recs[i] = r
      <4>1. files[n].cache.recs[i] = r
        BY Zenon, <2>1, <2>3 DEF TailInv, CacheOf
      <4>2. i \in 1..(active.count + Len(inflight))
        BY <2>4, <3>1
      <4> QED
        BY <3>3, <4>1, <4>2
    <3>5. /\ DOMAIN files' = DOMAIN files /\ files'[n].cache = files[n].cache
          /\ ~syncNever => files'[n].stable = files[n].cache
      BY Zenon, <2>1, <3>1 DEF WithFile
    <3>6. Stored(r, n, i)' /\ i \in DOMAIN files'[n].cache.recs
      BY Zenon, <2>2, <3>4, <3>5 DEF Stored
    <3>7. n[1] + i - 1 > checkpoint'
      BY SMTT(30), <2>1, <2>2, <2>4, <2>6, <3>1, <3>2 DEF ReachInv, Ahead, MarksInv
    <3>8. \A m \in DOMAIN files' : ~InGap(n[1] + i - 1, m)
      <4> TAKE m \in DOMAIN files'
      <4>1. m[1] \in Nat /\ m[1] - 1 <= LastLSN(active)
        BY Zenon, <2>2, <3>5, FilesBegin
      <4> QED
        BY <2>4, <3>1, <3>2, <4>1 DEF InGap
    <3>9. \E k \in DOMAIN segs' : n = NameOf(segs'[k]) /\ i <= segs'[k].count
      <4>1. /\ NameOf(active)' = NameOf(active) /\ active'.count = active.count + Len(inflight)
            /\ Len(segs') = Len(segs)
        BY Zenon, CommitDisk
      <4>2. segs' = [segs EXCEPT ![Len(segs)].count = @ + Len(inflight)]
        BY Zenon DEF Commit
      <4>3. Len(segs) \in DOMAIN segs' /\ n = NameOf(segs'[Len(segs)]) /\ i <= segs'[Len(segs)].count
        BY <2>4, <3>1, <4>1, <4>2 DEF active
      <4> QED
        BY Zenon, <4>3
    <3>10. Serving' => n[1] + i - 1 > mark'
      <4>1. Serving' => mark' = mark /\ mark <= LastLSN(active) /\ mark \in Nat
        BY Zenon, <2>1, <2>2 DEF ReachInv, Ahead, MarksInv, Serving
      <4> QED
        BY <2>4, <3>1, <3>2, <4>1
    <3>11. Placed(r, n, i)'
      BY Zenon, <3>6, <3>7, <3>8, <3>9, <3>10 DEF Placed
    <3> QED
      BY Zenon, <3>1, <3>5, <3>6, <3>11 DEF InLog
  <2> QED
    BY Zenon, <2>5, <2>6

(* The consumer and the checkpoint stop short of a record not yet delivered. *)
<1>ConsumerKeeps.
  ASSUME RoundsInv, DiskInv, DiskInv', MarksInv, MarksInv', ReachInv, NEW r \in Records, InLog(r),
         [Next]_vars, Deliver \/ Persist, \A p \in seen' : p[2] # r
  PROVE  InLog(r)'
  <2> USE <1>ConsumerKeeps
  <2>0. PICK n \in DOMAIN files : \E i \in DOMAIN files[n].cache.recs : Placed(r, n, i)
    BY Zenon DEF InLog
  <2> PICK i \in DOMAIN files[n].cache.recs : Placed(r, n, i)
    BY Zenon, <2>0
  <2>1. Ready /\ Serving /\ phase = "up" /\ UNCHANGED <<files, segs, phase>> /\ syncNever' = syncNever
    BY Zenon, <1>ModeStays DEF Deliver, Persist, Ready, Serving, disk, memory
  <2>2. PICK l \in Nat : l = n[1] + i - 1
    BY Zenon, <2>1, PlacedIsPublished
  <2>3. l \in PublishedLSNs /\ l <= durable /\ RecordAt(l) = r /\ mark < l /\ checkpoint < l
    BY Zenon, <2>1, <2>2, PlacedIsPublished DEF Placed, MarksInv
  <2>4. checkpoint' < l /\ mark' < l
    <3>1. CASE Persist
      BY Zenon, <2>3, <3>1 DEF Persist
    <3>2. CASE Deliver
      <4>1. l \in Readable /\ Readable \in SUBSET Nat /\ Readable # {}
        <5>1. l \in Readable
          BY Zenon, <2>3 DEF Readable
        <5>2. \A x \in PublishedLSNs : x \in Nat
          BY Zenon, <2>1, ReadFacts
        <5> QED
          BY Zenon, <5>1, <5>2 DEF Readable
      <4>2. mark' \in Nat /\ mark' <= l
        BY Zenon, <3>2, <4>1, Least DEF Deliver
      <4>3. mark' # l
        <5>1. <<mark', RecordAt(mark')>> \in seen'
          BY Zenon, <3>2 DEF Deliver
        <5> QED
          BY Zenon, <2>3, <5>1
      <4>4. checkpoint' = checkpoint
        BY Zenon, <3>2 DEF Deliver, disk
      <4> QED
        BY <2>2, <2>3, <4>2, <4>3, <4>4
    <3> QED
      BY Zenon, <3>1, <3>2
  <2>5. Stored(r, n, i)'
    BY Zenon, <2>1 DEF Placed, Stored
  <2>6. n[1] + i - 1 > checkpoint' /\ n[1] + i - 1 > mark'
    BY Zenon, <2>2, <2>4 DEF MarksInv
  <2>7. Placed(r, n, i)'
    BY Zenon, <2>1, <2>5, <2>6 DEF Placed
  <2> QED
    BY Zenon, <2>1, <2>7 DEF InLog

(* Truncate removes segments that the checkpoint covers, so none of these.   *)
<1>TruncateKeeps.
  ASSUME RoundsInv, DiskInv, DiskInv', MarksInv, NEW r \in Records, InLog(r), [Next]_vars, TruncateOne
  PROVE  InLog(r)'
  <2> USE <1>TruncateKeeps
  <2>0. PICK n \in DOMAIN files : \E i \in DOMAIN files[n].cache.recs : Placed(r, n, i)
    BY Zenon DEF InLog
  <2> PICK i \in DOMAIN files[n].cache.recs : Placed(r, n, i)
    BY Zenon, <2>0
  <2>1. /\ Ready /\ Serving /\ UNCHANGED <<phase, checkpoint, mark>> /\ syncNever' = syncNever
        /\ LastLSN(segs[1]) < lastCP + 1 /\ lastCP <= mark
    BY Zenon, <1>ModeStays DEF TruncateOne, RoundsInv, Ready, Serving, reader, Doomed, MarksInv
  <2>2. /\ DOMAIN files' = DOMAIN files \ {NameOf(segs[1])}
        /\ \A m \in DOMAIN files' : files'[m] = files[m]
        /\ DOMAIN segs' = 1..(Len(segs) - 1) /\ Len(segs) \in Nat /\ Len(segs) > 1
        /\ \A k \in DOMAIN segs' : k + 1 \in DOMAIN segs /\ segs'[k] = segs[k + 1]
    BY Zenon, TruncateDisk
  <2>3. Loaded /\ segs # <<>>
    BY Zenon, <2>1 DEF DiskInv, Ready, Loaded, Numbers
  <2>4. PICK k \in DOMAIN segs : n = NameOf(segs[k]) /\ i <= segs[k].count
    BY Zenon, <2>1 DEF Placed
  <2>5. /\ segs[k] \in Segment /\ n[1] = segs[k].base /\ segs[k].base \in Nat /\ segs[k].count \in Nat
        /\ DOMAIN segs = 1..Len(segs) /\ LastLSN(segs[1]) \in Nat
    <3>1. 1 \in DOMAIN segs
      BY Zenon, <2>1, FirstFacts
    <3>2. segs[k] \in Segment /\ DOMAIN segs = 1..Len(segs) /\ LastLSN(segs[1]) \in Nat
      BY Zenon, <2>3, <3>1, ActiveFacts
    <3> QED
      BY Zenon, <2>4, <3>2 DEF Segment, NameOf
  <2>6. i \in Nat /\ i >= 1
    <3>1. files[n] \in [cache : Content, stable : Content]
      BY Zenon DEF DiskInv, Disk
    <3> QED
      BY <3>1 DEF Content
  <2>7. n[1] + i - 1 > mark /\ mark \in Nat /\ lastCP \in Nat
    BY Zenon, <2>1 DEF Placed, MarksInv
  <2>8. k # 1
    <3> SUFFICES ASSUME k = 1 PROVE FALSE
      BY Zenon
    <3>1. n[1] + i - 1 <= LastLSN(segs[1])
      BY <2>4, <2>5, <2>6 DEF LastLSN
    <3> QED
      BY <2>1, <2>5, <2>6, <2>7, <3>1
  <2>9. NameOf(segs[k]) # NameOf(segs[1])
    <3>1. 1 \in DOMAIN segs /\ 1 < k
      BY <2>2, <2>5, <2>8
    <3>2. segs[1].base < segs[k].base
      BY Zenon, <2>3, <3>1 DEF DiskInv, Chain
    <3>3. segs[1].base \in Nat
      BY Zenon, <2>1, FirstFacts
    <3> QED
      BY SMTT(30), <2>5, <3>2, <3>3 DEF NameOf
  <2>10. n \in DOMAIN files' /\ files'[n] = files[n]
    BY Zenon, <2>2, <2>4, <2>9
  <2>11. Stored(r, n, i)'
    BY Zenon, <2>1, <2>10 DEF Placed, Stored
  <2>12. \E j \in DOMAIN segs' : n = NameOf(segs'[j]) /\ i <= segs'[j].count
    <3>1. k - 1 \in DOMAIN segs'
      BY <2>2, <2>5, <2>8
    <3>2. segs'[k - 1] = segs[(k - 1) + 1] /\ (k - 1) + 1 = k
      BY <2>2, <2>5, <3>1
    <3> QED
      BY Zenon, <2>4, <3>1, <3>2
  <2>13. Placed(r, n, i)'
    BY Zenon, <2>1, <2>2, <2>11, <2>12 DEF Placed
  <2> QED
    BY Zenon, <2>10, <2>13 DEF InLog

(* Close and a crash leave the record in its file: a machine crash takes     *)
(* none that is on the disk, and with SyncNever no record stays owed.        *)
<1>EndKeeps.
  ASSUME DiskInv, DiskInv', NEW r \in Records, InLog(r), [Next]_vars, told'[r] = "ok",
         \/ \E s, t \in BOOLEAN : CloseEnd(s, t)
         \/ \E kind \in {"process", "machine"} : Crash(kind)
  PROVE  InLog(r)'
  <2> USE <1>EndKeeps
  <2>0. PICK n \in DOMAIN files : \E i \in DOMAIN files[n].cache.recs : Placed(r, n, i)
    BY Zenon DEF InLog
  <2> PICK i \in DOMAIN files[n].cache.recs : Placed(r, n, i)
    BY Zenon, <2>0
  <2>1. phase' = "down" /\ checkpoint' = checkpoint /\ syncNever' = syncNever
    BY Zenon, <1>ModeStays DEF CloseEnd, Crash
  <2>2. ~Ready' /\ ~Serving'
    BY Zenon, <2>1 DEF Ready, Serving
  <2>3. DOMAIN files' = DOMAIN files /\ i \in DOMAIN files'[n].cache.recs /\ Stored(r, n, i)'
    <3>1. CASE \E s, t \in BOOLEAN : CloseEnd(s, t)
      <4> PICK s \in BOOLEAN, t \in BOOLEAN : CloseEnd(s, t)
        BY Zenon, <3>1
      <4>1. /\ DOMAIN files' = DOMAIN files
            /\ files'[n].cache = files[n].cache
            /\ files'[n].stable \in {files[n].cache, files[n].stable}
        <5>1. /\ DOMAIN files' = DOMAIN files
              /\ n # NameOf(active) => files'[n] = files[n]
              /\ LET f == files[NameOf(active)]
                 IN  files'[NameOf(active)] = [cache |-> f.cache, stable |-> IF t THEN f.cache ELSE f.stable]
          BY Zenon, CloseDisk
        <5> QED
          BY <5>1
      <4> QED
        BY Zenon, <2>1, <4>1 DEF Placed, Stored
    <3>2. CASE Crash("process")
      <4>1. files' = files
        BY Zenon, <3>2, CrashDisk
      <4> QED
        BY Zenon, <2>1, <4>1 DEF Placed, Stored
    <3>3. CASE Crash("machine")
      <4>1. DOMAIN files' = DOMAIN files
        BY Zenon, <3>3, CrashDisk
      <4>2. PICK c \in Survivors(files[n]) : c \in Content /\ files'[n] = [cache |-> c, stable |-> c]
        BY Zenon, <3>3, CrashDisk
      <4>3. PICK f \in [cache : Content, stable : Content] : f = files[n]
        BY Zenon DEF DiskInv, Disk
      <4>4. ~syncNever
        BY Zenon, <3>3 DEF Crash, Tell
      <4>5. f.cache.recs[i] = r /\ i \in DOMAIN f.cache.recs /\ i \in DOMAIN f.stable.recs /\ f.stable.recs[i] = r
        BY Zenon, <4>3, <4>4 DEF Placed, Stored
      <4>6. i \in DOMAIN c.recs /\ c.recs[i] = r
        BY <4>2, <4>3, <4>5, SurvivorFacts
      <4> QED
        BY <2>1, <4>1, <4>2, <4>6 DEF Stored
    <3> QED
      BY Zenon, <3>1, <3>2, <3>3
  <2>4. \A m \in DOMAIN files' : m \in DOMAIN files
    BY Zenon, <2>3
  <2> QED
    BY Zenon, <2>1, <2>2, <2>3, <2>4, <1>PlaceStays

(* Recovery attaches every file, and the segment it may add starts above all *)
(* the records it has found.                                                 *)
<1>AttachKeeps.
  ASSUME RoundsInv, DiskInv, DiskInv', NEW r \in Records, InLog(r), [Next]_vars, OpenAttach
  PROVE  InLog(r)'
  <2> USE <1>AttachKeeps
  <2>0. PICK n \in DOMAIN files : \E i \in DOMAIN files[n].cache.recs : Placed(r, n, i)
    BY Zenon DEF InLog
  <2> PICK i \in DOMAIN files[n].cache.recs : Placed(r, n, i)
    BY Zenon, <2>0
  <2>1. /\ phase = "attach" /\ phase' = "reconcile" /\ checkpoint' = checkpoint /\ syncNever' = syncNever
    BY Zenon, <1>ModeStays DEF OpenAttach
  <2>2. Loaded /\ ~Serving' /\ Attached /\ Chain
    BY Zenon, <2>1 DEF Loaded, Serving, DiskInv
  <2>3. PICK k \in DOMAIN segs : n = NameOf(segs[k])
    BY Zenon, <2>2 DEF Attached
  <2>4. segs # <<>> /\ segs[k].count = Len(files[n].cache.recs)
    BY <2>2, <2>3 DEF Attached, CacheOf
  <2>5. /\ segs[k] \in Segment /\ n[1] = segs[k].base /\ segs[k].base \in Nat /\ segs[k].count \in Nat
        /\ LastLSN(segs[k]) \in Nat
    <3>1. segs[k] \in Segment /\ LastLSN(segs[k]) \in Nat
      BY Zenon, <2>2, <2>4, ActiveFacts
    <3> QED
      BY Zenon, <2>3, <3>1 DEF Segment, NameOf
  <2>6. i \in Nat /\ i >= 1 /\ i <= segs[k].count
    <3>1. files[n] \in [cache : Content, stable : Content]
      BY Zenon DEF DiskInv, Disk
    <3> QED
      BY <2>4, <3>1 DEF Content
  <2>7. n[1] + i - 1 <= LastLSN(segs[k])
    BY <2>5, <2>6 DEF LastLSN
  <2>8. CASE segs' = segs /\ files' = files
    <3>1. Stored(r, n, i)'
      BY Zenon, <2>1, <2>8 DEF Placed, Stored
    <3>2. Placed(r, n, i)'
      BY Zenon, <2>1, <2>2, <2>3, <2>6, <2>8, <3>1 DEF Placed
    <3> QED
      BY Zenon, <2>8, <3>2 DEF InLog
  <2>9. ASSUME NEW a \in Segment, segs' = Append(segs, a), files' = WithFile(NameOf(a), Empty, Empty),
               \A j \in DOMAIN segs : LastLSN(segs[j]) <= a.prev,
               \A m \in DOMAIN files : m[1] < a.base
        PROVE  InLog(r)'
    <3>1. a.base \in Nat /\ a.prev \in Nat /\ NameOf(a)[1] = a.base /\ NameOf(a)[2] = a.prev
      BY Zenon DEF Segment, NameOf
    <3>2. n # NameOf(a)
      BY <2>5, <2>9, <3>1
    <3>3. n \in DOMAIN files' /\ files'[n] = files[n] /\ DOMAIN files' = DOMAIN files \cup {NameOf(a)}
      BY Zenon, <2>9, <3>2 DEF WithFile
    <3>4. Stored(r, n, i)'
      BY Zenon, <2>1, <3>3 DEF Placed, Stored
    <3>5. ~InGap(n[1] + i - 1, NameOf(a))
      <4>1. LastLSN(segs[k]) <= a.prev
        BY Zenon, <2>9
      <4> QED
        BY <2>5, <2>6, <2>7, <3>1, <4>1 DEF InGap
    <3>6. k \in DOMAIN segs' /\ segs'[k] = segs[k]
      BY <2>2, <2>9 DEF Chain
    <3>7. Placed(r, n, i)'
      BY Zenon, <2>1, <2>2, <2>3, <2>6, <3>3, <3>4, <3>5, <3>6 DEF Placed
    <3> QED
      BY Zenon, <3>3, <3>7 DEF InLog
  <2> QED
    BY Zenon, <2>8, <2>9, ResumedFacts

(* The checkpoint that batch.Open settles on is below what is still owed.    *)
<1>ReconcileKeeps.
  ASSUME DiskInv, DiskInv', MarksInv, MarksInv', NEW r \in Records, InLog(r), [Next]_vars, Reconcile
  PROVE  InLog(r)'
  <2> USE <1>ReconcileKeeps
  <2>0. PICK n \in DOMAIN files : \E i \in DOMAIN files[n].cache.recs : Placed(r, n, i)
    BY Zenon DEF InLog
  <2> PICK i \in DOMAIN files[n].cache.recs : Placed(r, n, i)
    BY Zenon, <2>0
  <2>1. /\ Ready /\ mark' = Clamped /\ checkpoint' = Max({checkpoint, Clamped})
        /\ UNCHANGED <<files, segs>> /\ syncNever' = syncNever /\ checkpoint \in Nat
    BY Zenon, <1>ModeStays DEF Reconcile, Ready, memory, MarksInv
  <2>2. PICK k \in DOMAIN segs : n = NameOf(segs[k]) /\ i <= segs[k].count
    BY Zenon, <2>1 DEF Placed
  <2>3. segs[1].base \in Nat /\ segs[k].base \in Nat /\ segs[1].base <= segs[k].base
    <3>1. Loaded /\ segs # <<>> /\ Chain
      BY Zenon, <2>1 DEF DiskInv, Ready, Loaded, Numbers
    <3>2. segs[k] \in Segment /\ DOMAIN segs = 1..Len(segs)
      BY Zenon, <3>1, ActiveFacts
    <3>3. k # 1 => segs[1].base < segs[k].base
      BY <3>1, <3>2 DEF Chain
    <3>4. segs[1].base \in Nat
      BY Zenon, <2>1, FirstFacts
    <3> QED
      BY <3>2, <3>3, <3>4 DEF Segment
  <2>4. i \in Nat /\ i >= 1
    <3>1. files[n] \in [cache : Content, stable : Content]
      BY Zenon DEF DiskInv, Disk
    <3> QED
      BY <3>1 DEF Content
  <2>5. PICK l \in Int : l = n[1] + i - 1
    BY SMTT(30), <2>2, <2>3, <2>4 DEF NameOf
  <2>6. l > segs[1].base - 1 /\ l > checkpoint
    BY SMTT(30), <2>2, <2>3, <2>4, <2>5 DEF NameOf, Placed
  <2>7. l > checkpoint' /\ l > mark'
    BY <2>1, <2>3, <2>6, ClampedFacts
  <2>8. Stored(r, n, i)'
    BY Zenon, <2>1 DEF Placed, Stored
  <2>9. Placed(r, n, i)'
    BY Zenon, <2>1, <2>2, <2>5, <2>7, <2>8 DEF Placed
  <2> QED
    BY Zenon, <2>1, <2>9 DEF InLog

(* A record lost with its segment leaves a hole that batch.Open would find:  *)
(* an LSN above the checkpoint that no file holds or skips, below a segment. *)
<1>VanishLeavesHole.
  ASSUME RoundsInv, DiskInv, DiskInv', MarksInv, PlacesInv, NEW r \in Records, told[r] = "ok", InLog(r),
         [Next]_vars, Vanish
  PROVE  InLog(r)' \/ Excused(r)' \/ \E l \in Nat : Missing(l)'
  <2> USE <1>VanishLeavesHole
  <2>0. PICK n \in DOMAIN files : \E i \in DOMAIN files[n].cache.recs : Placed(r, n, i)
    BY Zenon DEF InLog
  <2> PICK i \in DOMAIN files[n].cache.recs : Placed(r, n, i)
    BY Zenon, <2>0
  <2>1. PICK g \in DOMAIN files : \E m \in DOMAIN files :
                /\ g[1] < m[1] /\ g[1] + Len(files[g].cache.recs) <= m[1]
                /\ DOMAIN files' = DOMAIN files \ {g} /\ \A k \in DOMAIN files' : files'[k] = files[k]
    BY Zenon, VanishDisk
  <2>2. PICK m \in DOMAIN files :
                /\ g[1] < m[1] /\ g[1] + Len(files[g].cache.recs) <= m[1]
                /\ DOMAIN files' = DOMAIN files \ {g} /\ \A k \in DOMAIN files' : files'[k] = files[k]
    BY Zenon, <2>1
  <2>3. /\ phase = "down" /\ phase' = "down" /\ harmed' = TRUE /\ UNCHANGED <<checkpoint, told>>
        /\ syncNever' = syncNever
    BY Zenon, <1>ModeStays DEF Vanish, ghost
  <2>4. ~Ready' /\ ~Serving' /\ cpc = "idle"
    BY Zenon, <2>3 DEF Ready, Serving, RoundsInv, Running
  <2>5. CASE n # g
    <3>1. n \in DOMAIN files' /\ files'[n] = files[n]
      BY Zenon, <2>2, <2>5
    <3>2. Stored(r, n, i)'
      BY Zenon, <2>3, <3>1 DEF Placed, Stored
    <3> QED
      BY Zenon, <2>2, <2>3, <2>4, <3>1, <3>2, <1>PlaceStays
  <2>6. CASE n = g
    <3>1. n \in Nat \X Nat /\ n[2] < n[1] /\ m[1] \in Nat /\ files[n].cache \in Content
      BY Zenon DEF DiskInv, Disk
    <3>2. i \in Nat /\ i >= 1 /\ i <= Len(files[n].cache.recs) /\ Len(files[n].cache.recs) \in Nat
      BY <3>1 DEF Content
    <3>3. PICK l \in Nat : l = n[1] + i - 1
      BY SMTT(30), <3>1, <3>2
    <3>4. l < m[1] /\ m \in DOMAIN files' /\ l > checkpoint
      BY SMTT(30), <2>2, <2>6, <3>1, <3>2, <3>3 DEF Placed
    <3>5. PICK q \in Nat \X Records : q = <<l, r>>
      BY Zenon
    <3>6. q \in InFile(n) /\ q \in Kept /\ q \in Settled
      <4>1. files[n].cache.recs[i] = r
        BY Zenon DEF Placed, Stored
      <4>2. q \in Held(n, files[n].cache)
        BY Zenon, <3>3, <3>5, <4>1 DEF Held
      <4>3. q \in InFile(n)
        BY Zenon, <4>2 DEF InFile
      <4>4. q \in Kept
        BY Zenon, <4>3, KeptFacts
      <4> QED
        BY Zenon, <3>5, <4>3, <4>4 DEF Settled
    <3>7. ASSUME NEW k \in DOMAIN files', NEW p \in InFile(k)', p[1] = l PROVE Excused(r)'
      <4>1. k \in DOMAIN files /\ k # n /\ p \in InFile(k)
        BY Zenon, <2>2, <2>6, <3>7 DEF InFile
      <4>2. p \in Kept /\ p \in Nat \X Records /\ told[p[2]] \in {"ok", "lost", "broken"}
        BY Zenon, <2>4, <4>1, KeptFacts
      <4>3. CASE told[p[2]] = "broken"
        <5>1. ~(q[2] < p[2])
          BY SMTT(30), <3>5, <3>6, <3>7, <4>2, <4>3 DEF PlacesInv
        <5>2. p[2] # r
          BY Zenon, <4>3
        <5>3. p[2] \in Records /\ p[2] < r
          BY <3>5, <4>2, <5>1, <5>2 DEF Records
        <5> QED
          BY Zenon, <2>3, <4>3, <5>3 DEF Excused
      <4>4. CASE told[p[2]] \in {"ok", "lost"}
        <5>1. p \in Settled
          BY Zenon, <4>2, <4>4 DEF Settled
        <5>2. ~(q[2] < p[2]) /\ ~(p[2] < q[2])
          BY SMTT(30), <3>5, <3>6, <3>7, <5>1 DEF PlacesInv
        <5>3. p = q
          BY <3>5, <3>7, <4>2, <5>2 DEF Records
        <5> QED
          BY Zenon, <3>6, <4>1, <5>1, <5>3 DEF PlacesInv
      <4> QED
        BY Zenon, <4>2, <4>3, <4>4
    <3>8. \A k \in DOMAIN files' : ~InGap(l, k)
      BY Zenon, <2>2, <3>3 DEF Placed
    <3>9. CASE \A k \in DOMAIN files' : \A p \in InFile(k)' : p[1] # l
      <4>1. Missing(l)'
        BY Zenon, <2>3, <3>4, <3>8, <3>9 DEF Missing
      <4> QED
        BY Zenon, <4>1
    <3> QED
      BY Zenon, <3>7, <3>9
  <2> QED
    BY Zenon, <2>5, <2>6

(* A hole stays a hole while files only lose records, and as long as a       *)
(* segment follows it.                                                       *)
<1>HoleStays.
  ASSUME NEW l \in Nat, Missing(l), checkpoint' = checkpoint,
         \A n \in DOMAIN files' : n \in DOMAIN files /\ \A p \in InFile(n)' : p \in InFile(n),
         \E n \in DOMAIN files' : l < n[1]
  PROVE  Missing(l)'
  BY Zenon, <1>HoleStays DEF Missing

(* What recovery does before batch.Open checks the first segment leaves a    *)
(* hole where it is.                                                         *)
<1>RecoveryKeepsHole.
  ASSUME RoundsInv, DiskInv, DiskInv', NEW l \in Nat, Missing(l), ~Serving, ~Serving', [Next]_vars
  PROVE  Missing(l)'
  <2> USE <1>RecoveryKeepsHole
  <2>0. PICK w \in DOMAIN files : l < w[1]
    BY Zenon DEF Missing
  <2>1. CASE UNCHANGED <<files, checkpoint>>
    BY Zenon, <2>1 DEF Missing, InFile
  <2>2. CASE OpenScan
    <3>1. /\ DOMAIN files' = DOMAIN files /\ checkpoint' = checkpoint
          /\ \A n \in DOMAIN files : /\ files'[n].cache.recs = files[n].cache.recs
                                     /\ files'[n].stable.recs = files[n].stable.recs
      <4>1. checkpoint' = checkpoint
        BY Zenon, <2>2 DEF OpenScan
      <4> QED
        BY Zenon, <2>2, <4>1, ScanDisk
    <3>2. \A n \in DOMAIN files' : InFile(n)' = InFile(n)
      BY Zenon, <3>1 DEF InFile, Held
    <3> QED
      BY Zenon, <2>0, <3>1, <3>2, <1>HoleStays
  <2>3. CASE OpenAttach
    <3>1. phase = "attach" /\ checkpoint' = checkpoint
      BY Zenon, <2>3 DEF OpenAttach
    <3>2. Loaded /\ Attached
      BY Zenon, <3>1 DEF Loaded, DiskInv
    <3>3. PICK k \in DOMAIN segs : w = NameOf(segs[k])
      BY Zenon, <3>2 DEF Attached
    <3>4. /\ segs[k] \in Segment /\ LastLSN(segs[k]) \in Nat /\ segs # <<>>
      BY SMTT(30), <3>2, <3>3, ActiveFacts
    <3>5. l <= LastLSN(segs[k])
      BY <2>0, <3>3, <3>4 DEF Segment, NameOf, LastLSN
    <3>6. CASE files' = files
      BY ZenonT(30), <3>1, <3>6 DEF Missing, InFile
    <3>7. ASSUME NEW a \in Segment, files' = WithFile(NameOf(a), Empty, Empty),
                 \A j \in DOMAIN segs : LastLSN(segs[j]) <= a.prev,
                 \A m \in DOMAIN files : m[1] < a.base
          PROVE  Missing(l)'
      <4>1. a.base \in Nat /\ a.prev \in Nat /\ NameOf(a)[1] = a.base /\ NameOf(a)[2] = a.prev
        BY Zenon DEF Segment, NameOf
      <4>2. NameOf(a) \notin DOMAIN files
        BY <3>7, <4>1
      <4>3. /\ DOMAIN files' = DOMAIN files \cup {NameOf(a)}
            /\ \A n \in DOMAIN files : files'[n] = files[n]
            /\ files'[NameOf(a)] = [cache |-> Empty, stable |-> Empty]
        BY Zenon, <3>7, <4>2 DEF WithFile
      <4>4. PICK b \in DOMAIN files' : b = NameOf(a)
        BY Zenon, <4>3
      <4>5. ~InGap(l, b)
        <5>1. LastLSN(segs[k]) <= a.prev
          BY Zenon, <3>7
        <5> QED
          BY <3>4, <3>5, <4>1, <4>4, <5>1 DEF InGap
      <4>6. \A p \in InFile(b)' : FALSE
        <5>1. files'[b].cache.recs = <<>> /\ files'[b].stable.recs = <<>>
          BY <4>3, <4>4 DEF Empty
        <5> QED
          BY <5>1 DEF InFile, Held
      <4>7. \A n \in DOMAIN files : InFile(n)' = InFile(n)
        BY Zenon, <4>3 DEF InFile
      <4> QED
        BY SMTT(30), <2>0, <3>1, <4>3, <4>4, <4>5, <4>6, <4>7 DEF Missing
    <3> QED
      BY Zenon, <2>3, <3>6, <3>7, ResumedFacts
  <2>4. CASE Vanish
    <3>1. PICK g \in DOMAIN files : \E m \in DOMAIN files :
                /\ g[1] < m[1] /\ DOMAIN files' = DOMAIN files \ {g}
                /\ \A k \in DOMAIN files' : files'[k] = files[k]
      BY Zenon, <2>4, VanishDisk
    <3>2. PICK m \in DOMAIN files :
                /\ g[1] < m[1] /\ DOMAIN files' = DOMAIN files \ {g}
                /\ \A k \in DOMAIN files' : files'[k] = files[k]
      BY Zenon, <3>1
    <3>3. g[1] \in Nat /\ m[1] \in Nat
      BY Zenon DEF DiskInv, Disk
    <3>4. \E n \in DOMAIN files' : l < n[1]
      <4>1. CASE w # g
        BY Zenon, <2>0, <3>2, <4>1
      <4>2. CASE w = g
        BY <2>0, <3>2, <3>3, <4>2
      <4> QED
        BY Zenon, <4>1, <4>2
    <3>5. \A n \in DOMAIN files' : n \in DOMAIN files /\ InFile(n)' = InFile(n)
      BY Zenon, <3>2 DEF InFile
    <3>6. checkpoint' = checkpoint
      BY Zenon, <2>4 DEF Vanish
    <3> QED
      BY Zenon, <3>4, <3>5, <3>6, <1>HoleStays
  <2>5. CASE Crash("machine")
    <3>1. /\ DOMAIN files' = DOMAIN files
          /\ \A n \in DOMAIN files :
               \E c \in Survivors(files[n]) : c \in Content /\ files'[n] = [cache |-> c, stable |-> c]
      BY Zenon, <2>5, CrashDisk
    <3>2. checkpoint' = checkpoint
      BY Zenon, <2>5 DEF Crash
    <3>3. ASSUME NEW n \in DOMAIN files', NEW p \in InFile(n)' PROVE p \in InFile(n)
      <4>1. PICK c \in Survivors(files[n]) : c \in Content /\ files'[n] = [cache |-> c, stable |-> c]
        BY Zenon, <3>1
      <4>2. PICK f \in [cache : Content, stable : Content] : f = files[n]
        BY Zenon, <3>1 DEF DiskInv, Disk
      <4>3. p \in Held(n, c)
        BY <3>3, <4>1 DEF InFile
      <4>4. PICK i \in DOMAIN c.recs : p = <<n[1] + i - 1, c.recs[i]>>
        BY Zenon, <4>3 DEF Held
      <4>5. \/ i \in DOMAIN f.cache.recs /\ c.recs[i] = f.cache.recs[i]
            \/ i \in DOMAIN f.stable.recs /\ c.recs[i] = f.stable.recs[i]
        BY Zenon, <4>1, <4>2, SurvivorFacts
      <4>6. p \in Held(n, f.cache) \/ p \in Held(n, f.stable)
        BY Zenon, <4>4, <4>5 DEF Held
      <4> QED
        BY Zenon, <4>2, <4>6 DEF InFile
    <3> QED
      BY Zenon, <2>0, <3>1, <3>2, <3>3, <1>HoleStays
  <2>6. CASE Crash("process")
    <3>1. UNCHANGED <<files, checkpoint>>
      BY Zenon, <2>6, CrashDisk DEF Crash
    <3> QED
      BY Zenon, <2>1, <3>1
  <2>7. CASE UNCHANGED vars \/ OpenRefuses \/ ReconcileRefuses
    BY Zenon, <2>1, <2>7 DEF vars, OpenRefuses, ReconcileRefuses, disk
  <2>8. ~Running /\ cpc = "idle" /\ ~trim
    BY Zenon DEF RoundsInv, Serving, Running
  <2>9. ASSUME ~UNCHANGED vars, ~OpenRefuses, ~ReconcileRefuses, ~Vanish, ~OpenScan, ~OpenAttach
        PROVE  \E kind \in {"process", "machine"} : Crash(kind)
    BY ZenonT(30), <2>8, <2>9 DEF Next, Committer, Faulty, Open, StageReserveFails, Stage, CommitTake, RotateCreate,
           RotateCreateFails, RotateSync, RotateSyncFails, RotateCloseFails, Write, WriteFails, Commit,
           SyncFails, Rollback, RollbackFails, CloseBegin, CloseEnd, Deliver, Persist, TruncateOne,
           TruncateDone, Reconcile, Serving, Running
  <2> QED
    BY Zenon, <2>2, <2>3, <2>4, <2>5, <2>6, <2>7, <2>9

(* batch.Open's check of the first segment leaves no hole: the segments form *)
(* a chain from the checkpoint to the last LSN, and every LSN above the      *)
(* checkpoint is held by one of them or skipped by the next.                 *)
<1>CheckedHasNoHole.
  ASSUME DiskInv, MarksInv, Ready, segs[1].prev <= checkpoint, NEW l \in Nat, Missing(l)
  PROVE  FALSE
  <2> USE <1>CheckedHasNoHole
  <2>1. Loaded /\ segs # <<>> /\ Chain /\ checkpoint < l /\ checkpoint \in Nat
    BY Zenon DEF DiskInv, Ready, Loaded, Numbers, Missing, MarksInv
  <2>2. l <= LastLSN(active) /\ LastLSN(active) \in Nat
    <3>1. PICK w \in DOMAIN files : l < w[1]
      BY Zenon DEF Missing
    <3>2. w[1] \in Nat /\ w[1] - 1 <= LastLSN(active) /\ LastLSN(active) \in Nat
      BY Zenon, FilesBegin
    <3> QED
      BY <3>1, <3>2
  <2> DEFINE S == {k \in DOMAIN segs : l <= LastLSN(segs[k])}
  <2>3. S \in SUBSET Nat /\ S # {} /\ DOMAIN segs = 1..Len(segs) /\ Len(segs) \in Nat
    <3>1. Len(segs) \in S /\ DOMAIN segs = 1..Len(segs) /\ Len(segs) \in Nat
      BY Zenon, <2>1, <2>2, ActiveFacts DEF active
    <3> QED
      BY <3>1
  <2>4. PICK k \in S : \A j \in S : k <= j
    <3> HIDE DEF S
    <3> QED
      BY Zenon, <2>3, Least
  <2>5. k \in DOMAIN segs /\ l <= LastLSN(segs[k]) /\ k \in 1..Len(segs)
    BY Zenon, <2>3, <2>4
  <2>6. segs[k] \in Segment /\ NameOf(segs[k]) \in DOMAIN files /\ segs[k].base \in Nat /\ segs[k].count \in Nat
        /\ segs[k].prev \in Nat
    BY Zenon, <2>1, <2>5, ActiveFacts DEF Segment
  <2>7. segs[k].prev < l
    <3>1. CASE k = 1
      BY SMTT(30), <2>1, <2>6, <3>1
    <3>2. CASE k > 1
      <4>1. k - 1 \in DOMAIN segs
        BY <2>3, <2>5, <3>2
      <4>2. PICK j \in DOMAIN segs : j = k - 1
        BY Zenon, <4>1
      <4>3. segs[k].prev = LastLSN(segs[j]) /\ LastLSN(segs[j]) \in Nat
        BY Zenon, <2>1, <2>5, <3>2, <4>2, ActiveFacts DEF Chain
      <4>4. j \notin S
        BY <2>4, <2>5, <4>2
      <4> QED
        BY SMTT(30), <4>2, <4>3, <4>4
    <3> QED
      BY SMTT(30), <2>5, <3>1, <3>2
  <2>8. PICK n \in DOMAIN files : n = NameOf(segs[k])
    BY Zenon, <2>6
  <2>9. n[1] = segs[k].base /\ n[2] = segs[k].prev
    BY Zenon, <2>8 DEF NameOf
  <2>10. segs[k].base <= l
    BY SMTT(30), <2>6, <2>7, <2>9 DEF Missing, InGap
  <2>11. PICK i \in Nat : i = l - segs[k].base + 1
    BY <2>6, <2>10
  <2>12. i \in 1..segs[k].count
    BY SMTT(30), <2>5, <2>6, <2>10, <2>11 DEF LastLSN
  <2>13. segs[k].count <= Len(files[n].cache.recs) /\ files[n].cache.recs \in Seq(Records)
    <3>1. segs[k].count <= Len(files[n].cache.recs)
      BY Zenon, <2>1, <2>5, <2>8 DEF Chain, CacheOf
    <3>2. files[n] \in [cache : Content, stable : Content]
      BY Zenon DEF DiskInv, Disk
    <3> QED
      BY Zenon, <3>1, <3>2 DEF Content
  <2>14. i \in DOMAIN files[n].cache.recs /\ n[1] + i - 1 = l
    BY SMTT(30), <2>6, <2>9, <2>11, <2>12, <2>13
  <2>15. <<n[1] + i - 1, files[n].cache.recs[i]>> \in InFile(n)
    BY Zenon, <2>14 DEF InFile, Held
  <2> QED
    BY Zenon, <2>14, <2>15 DEF Missing

(* The exception of AckedReadable, once it holds, holds on. *)
<1>ExcuseStays.
  ASSUME RoundsInv, SoundInv, [Next]_vars, NEW r \in Records, Excused(r)
  PROVE  Excused(r)'
  BY Zenon, <1>ExcuseStays, BrokenStays, HarmStays DEF Excused

<1> SUFFICES ASSUME RoundsInv, RoundsInv', DiskInv, DiskInv', PlacesInv, MarksInv, MarksInv', SoundInv,
                    ReachInv, TailInv, OwedInv, [Next]_vars, NEW r \in Owed'
             PROVE  \/ Excused(r)' \/ InLog(r)'
                    \/ ~Serving' /\ harmed' /\ \E l \in Nat : Missing(l)'
  BY Zenon DEF OwedInv
<1>1. r \in Records /\ told'[r] = "ok" /\ \A p \in seen' : p[2] # r
  BY Zenon DEF Owed
<1>2. CASE told[r] # "ok"
  <2>1. Commit
    <3>1. CASE \E n \in 1..2 : Stage(n)
      BY Zenon, <1>1, <1>2, <3>1 DEF Stage, Tell
    <3>2. CASE Rollback \/ RollbackFails
      BY Zenon, <1>1, <1>2, <3>2 DEF Rollback, RollbackFails, FailRound, Tell
    <3>3. CASE \E kind \in {"process", "machine"} : Crash(kind)
      BY Zenon, <1>1, <1>2, <3>3 DEF Crash, Tell
    <3>4. told' # told
      BY Zenon, <1>1, <1>2
    <3> QED
      BY ZenonT(30), <3>1, <3>2, <3>3, <3>4 DEF Next, Committer, Faulty, Open, vars, ghost, StageReserveFails,
         CommitTake, RotateCreate, RotateCreateFails, RotateSync, RotateSyncFails, RotateCloseFails,
         Write, WriteFails, SyncFails, CloseBegin, CloseEnd, Deliver, Persist, TruncateOne,
         TruncateDone, Vanish, OpenRefuses, OpenScan, OpenAttach, Reconcile, ReconcileRefuses
  <2> QED
    BY ZenonT(30), <1>1, <1>2, <2>1, <1>CommitPlacesRound
<1>3. CASE told[r] = "ok"
  <2>1. seen \subseteq seen'
    BY Zenon DEF Next, Committer, Faulty, Open, vars, ghost, StageReserveFails, Stage, Commit,
         CommitTake, RotateCreate, RotateCreateFails, RotateSync, RotateSyncFails, RotateCloseFails,
         Write, WriteFails, SyncFails, CloseBegin, CloseEnd, Deliver, Persist, TruncateOne, Crash,
         Rollback, RollbackFails,
         TruncateDone, Vanish, OpenRefuses, OpenScan, OpenAttach, Reconcile, ReconcileRefuses
  <2>2. r \in Owed
    BY Zenon, <1>1, <1>3, <2>1 DEF Owed
  <2>3. CASE Excused(r)
    BY Zenon, <1>1, <2>3, <1>ExcuseStays
  <2>4. CASE InLog(r)
    <3>1. CASE \/ UNCHANGED vars \/ SyncFails \/ CloseBegin \/ TruncateDone \/ CommitTake
               \/ OpenRefuses \/ ReconcileRefuses \/ \E n \in 1..2 : Stage(n) \/ StageReserveFails(n)
      <4>1. UNCHANGED <<files, checkpoint>>
        BY Zenon, <3>1 DEF vars, SyncFails, CloseBegin, TruncateDone, CommitTake, OpenRefuses,
                    ReconcileRefuses, Stage, StageReserveFails, disk
      <4>2. TruncateDone => Ready /\ Serving
        BY Zenon DEF TruncateDone, RoundsInv, Ready, Serving
      <4>3. Ready' => Ready /\ segs' = segs
        BY Zenon, <3>1, <4>2 DEF vars, SyncFails, CloseBegin, TruncateDone, CommitTake, OpenRefuses,
                    ReconcileRefuses, Stage, StageReserveFails, memory, Ready
      <4>4. Serving' => Serving /\ mark' = mark
        BY Zenon, <3>1, <4>2 DEF vars, SyncFails, CloseBegin, TruncateDone, CommitTake, OpenRefuses,
                    ReconcileRefuses, Stage, StageReserveFails, reader, Serving
      <4> QED
        BY Zenon, <1>1, <2>4, <4>1, <4>3, <4>4, <1>QuietKeeps
    <3>2. CASE \/ RotateCreate \/ RotateCreateFails \/ RotateSync \/ RotateSyncFails \/ RotateCloseFails
               \/ Write \/ WriteFails \/ Commit \/ Rollback \/ RollbackFails
      BY Zenon, <1>1, <2>4, <3>2, <1>CommitterKeeps
    <3>3. CASE Deliver \/ Persist
      BY Zenon, <1>1, <2>4, <3>3, <1>ConsumerKeeps
    <3>4. CASE TruncateOne
      BY Zenon, <1>1, <2>4, <3>4, <1>TruncateKeeps
    <3>5. CASE \/ \E s, t \in BOOLEAN : CloseEnd(s, t)
               \/ \E kind \in {"process", "machine"} : Crash(kind)
      BY Zenon, <1>1, <2>4, <3>5, <1>EndKeeps
    <3>6. CASE OpenAttach
      BY Zenon, <1>1, <2>4, <3>6, <1>AttachKeeps
    <3>7. CASE Reconcile
      BY Zenon, <1>1, <2>4, <3>7, <1>ReconcileKeeps
    <3>8. CASE Vanish
      <4>1. ~Serving' /\ harmed'
        BY Zenon, <3>8 DEF Vanish, Serving
      <4> QED
        BY Zenon, <1>1, <1>3, <2>4, <3>8, <4>1, <1>VanishLeavesHole
    <3>9. CASE OpenScan
      <4>1. PICK n \in DOMAIN files : \E i \in DOMAIN files[n].cache.recs : Placed(r, n, i)
        BY Zenon, <2>4 DEF InLog
      <4>2. PICK i \in DOMAIN files[n].cache.recs : Placed(r, n, i)
        BY Zenon, <4>1
      <4>3. /\ DOMAIN files' = DOMAIN files
            /\ files'[n].cache.recs = files[n].cache.recs
            /\ files'[n].stable.recs = files[n].stable.recs
        BY Zenon, <3>9, ScanDisk
      <4>4. ~Ready' /\ ~Serving' /\ checkpoint' = checkpoint
        BY Zenon, <3>9 DEF OpenScan, Ready, Serving
      <4>5. Stored(r, n, i)'
        BY Zenon, <4>2, <4>3, <1>ModeStays DEF Placed, Stored
      <4>6. \A m \in DOMAIN files' : m \in DOMAIN files
        BY Zenon, <4>3
      <4> QED
        BY Zenon, <1>1, <4>2, <4>3, <4>4, <4>5, <4>6, <1>PlaceStays
    <3> QED
      BY Zenon, <3>1, <3>2, <3>3, <3>4, <3>5, <3>6, <3>7, <3>8, <3>9 DEF Next, Committer, Faulty, Open
  <2>5. CASE ~Serving /\ harmed /\ \E l \in Nat : Missing(l)
    <3>1. PICK l \in Nat : Missing(l)
      BY Zenon, <2>5
    <3>2. harmed'
      BY Zenon, <2>5, HarmStays
    <3>3. CASE ~Serving'
      BY Zenon, <2>5, <3>1, <3>2, <3>3, <1>RecoveryKeepsHole
    <3>4. CASE Serving'
      <4>1. Reconcile
        <5>1. ~Running /\ cpc = "idle" /\ ~trim
          BY Zenon, <2>5 DEF RoundsInv, Serving, Running
        <5> QED
          BY ZenonT(30), <2>5, <3>4, <5>1 DEF Next, Committer, Faulty, Open, vars, StageReserveFails, Stage, CommitTake,
             RotateCreate, RotateCreateFails, RotateSync, RotateSyncFails, RotateCloseFails, Write,
             WriteFails, Commit, SyncFails, Rollback, RollbackFails, CloseBegin, CloseEnd, Deliver,
             Persist, TruncateOne, TruncateDone, Crash, Vanish, OpenRefuses, OpenScan, OpenAttach,
             ReconcileRefuses, Serving, Running
      <4>2. Ready /\ segs[1].prev <= checkpoint
        BY Zenon, <4>1 DEF Reconcile, Ready
      <4> QED
        BY ZenonT(30), <3>1, <4>2, <1>CheckedHasNoHole
    <3> QED
      BY Zenon, <3>3, <3>4
  <2> QED
    BY ZenonT(30), <2>2, <2>3, <2>4, <2>5 DEF OwedInv
<1> QED
  BY Zenon, <1>2, <1>3

(* Nothing is owed. *)
LEMMA OwedInit == Init => TailInv /\ OwedInv
<1> SUFFICES ASSUME Init PROVE TailInv /\ OwedInv
  BY Zenon
<1>1. cpc = "idle" /\ \A r \in Records : told[r] = "new"
  BY Zenon DEF Init
<1> QED
  BY Zenon, <1>1 DEF TailInv, OwedInv, Owed

(* No acknowledged record is lost in any reachable state. *)
LEMMA OwedInvariance ==
  Spec => [](RoundsInv /\ DiskInv /\ PlacesInv /\ MarksInv /\ ReachInv /\ OwedInv)
<1> DEFINE All == /\ RoundsInv /\ DiskInv /\ PlacesInv /\ ForcedInv /\ MarksInv /\ SoundInv
                  /\ ReachInv /\ TailInv /\ OwedInv
<1>1. Init => All
  BY Zenon, RoundsInit, DiskInit, PlacesInit, ForcedInit, MarksInit, SoundInit, ReachInit, OwedInit
<1>2. Spec => [](RoundsInv /\ DiskInv /\ PlacesInv)
  BY Zenon, PlacesInvariance
<1>3. Spec => [](ForcedInv /\ MarksInv /\ SoundInv)
  BY Zenon, SoundInvariance
<1>4. ReachInv /\ TailInv /\ OwedInv
      /\ (RoundsInv /\ DiskInv /\ PlacesInv /\ ForcedInv /\ MarksInv /\ SoundInv)
      /\ (RoundsInv /\ DiskInv /\ MarksInv)'
      /\ [Next]_vars => (ReachInv /\ TailInv /\ OwedInv)'
  BY Zenon, ReachNext, TailNext, OwedNext
<1> QED
  BY <1>1, <1>2, <1>3, <1>4, PTL DEF Spec

(* Durability, through any sequence of crashes, failed rounds, Closes and    *)
(* recoveries: a record whose Write returned nil and that the sink has not   *)
(* been given is above the mark, where the flusher reads it under its LSN.   *)
THEOREM AcknowledgedIsReadable == Spec => []AckedReadable
<1>1. DiskInv /\ MarksInv /\ ReachInv /\ OwedInv => AckedReadable
  <2> SUFFICES ASSUME DiskInv, MarksInv, ReachInv, OwedInv, phase = "up",
                      NEW r \in Records, told[r] = "ok", \A p \in seen : p[2] # r, ~Excused(r)
               PROVE  \E l \in Readable : RecordAt(l) = r
    BY Zenon DEF AckedReadable, Excused
  <2>1. Ready /\ Serving
    BY Zenon DEF Ready, Serving
  <2>2. InLog(r)
    BY Zenon, <2>1 DEF OwedInv, Owed
  <2>3. PICK n \in DOMAIN files : \E i \in DOMAIN files[n].cache.recs : Placed(r, n, i)
    BY Zenon, <2>2 DEF InLog
  <2>4. PICK i \in DOMAIN files[n].cache.recs : Placed(r, n, i)
    BY Zenon, <2>3
  <2>5. /\ n[1] + i - 1 \in PublishedLSNs /\ n[1] + i - 1 <= durable
        /\ RecordAt(n[1] + i - 1) = r /\ n[1] + i - 1 \in Nat
    BY Zenon, <2>1, <2>4, PlacedIsPublished
  <2>6. n[1] + i - 1 > mark /\ mark \in Nat
    BY Zenon, <2>1, <2>4 DEF Placed, MarksInv
  <2>7. n[1] + i - 1 \in Readable
    BY Zenon, <2>5, <2>6 DEF Readable
  <2> QED
    BY Zenon, <2>5, <2>7
<1> QED
  BY <1>1, OwedInvariance, PTL

=============================================================================
