------------------------------ MODULE Recovery ------------------------------
(***************************************************************************)
(* Damage and recovery: the framing of a record, scanSegment(), the parts  *)
(* of wal.Open that read RESERVED and LOGID and check the chain of         *)
(* segments, and salvage(), which cuts damage out and may be interrupted   *)
(* by a crash after any of its steps.  Module Log has the crashes of a     *)
(* running log; here a write is one step, and what befalls the directory   *)
(* while the log is closed is the subject: bytes that rot, a file cut      *)
(* short, RESERVED lost, every file but LOGID removed.                     *)
(*                                                                         *)
(* A segment is a sequence of records.  The length field of a record may   *)
(* have come to differ from its payload's length, its other bytes may be   *)
(* wrong, and the segment may lack its last bytes.  The checksum covers    *)
(* the length and the payload, and no damage is taken to escape it.        *)
(***************************************************************************)
EXTENDS Integers, Sequences, FiniteSets, FiniteSetsExt, SequencesExt

CONSTANTS HeaderSize,      \* headerSize
          Lengths,         \* payload lengths written
          Fields,          \* what a rotten length field may read
          Limits,          \* MaxRecordBytes, chosen at each Open
          MaxSegment,      \* MaxSegmentBytes, in records
          ReserveBlock,    \* reserveBlock
          MaxRecords, MaxDamage, MaxCrashes   \* bounds

ASSUME RecoveryAssumption ==
  /\ {HeaderSize, MaxSegment, ReserveBlock} \subseteq Nat \ {0}
  /\ Lengths \cup Fields \cup Limits \cup {MaxRecords, MaxDamage, MaxCrashes} \subseteq Nat

VARIABLES dir,           \* the segment files, in the order of their names
          reservedFile,  \* contents of RESERVED, 0 if there is none
          logid,         \* contents of LOGID, 0 if there is none
          kept,          \* records copied to .corrupt files
          phase,         \* of the process: down, in a step of Open, up, or refused by Open
          limit, salvaging,   \* options of the current Open
          at,            \* the segment recover() has come to
          reserved,      \* Log.reserved
          written,       \* records written so far, the identities used so far
          name,          \* per record, the identity and LSN it was acknowledged under
          slipped,       \* records whose numbers nothing on the disk vouches for any more
          bare,          \* whole records went from a segment that has a successor
          damage, crashes

disk    == <<dir, reservedFile, logid, kept>>
process == <<limit, salvaging, at, reserved>>
ghost   == <<written, name, slipped, bare>>
bounds  == <<damage, crashes>>
vars    == <<disk, phase, process, ghost, bounds>>

Unnamed == <<0, 0>>

\* A record as written; a segment, created empty.
Framed(r, n)    == [rec |-> r, len |-> n, field |-> n, ok |-> TRUE]
Segment(b, p)   == [base |-> b, prev |-> p, recs |-> <<>>, short |-> 0]
recordSize(n)   == HeaderSize + n
LastLSN(s)      == s.base + Len(s.recs) - 1

\* Where record i starts, and the size of the file.
Offset(s, i) == MapThenSumSet(LAMBDA j : recordSize(s.recs[j].len), 1..(i - 1))
Total(s)     == Offset(s, Len(s.recs) + 1) - s.short

\* matchesChecksum: all of the record is there, length field and payload as written.
Matches(s, i) ==
  /\ s.recs[i].ok /\ s.recs[i].field = s.recs[i].len
  /\ i = Len(s.recs) => s.short = 0

\* The first record scanSegment does not count, if any.
Stops(s, max) == {i \in DOMAIN s.recs : ~Matches(s, i) \/ s.recs[i].field > max}
Good(s, max)  == IF Stops(s, max) = {} THEN Len(s.recs) ELSE Min(Stops(s, max)) - 1

\* Mutant: a checksum that fails is a torn tail, whatever is behind it.
scanSegmentTorn(s, max) ==
  LET i == Good(s, max) + 1
  IN  IF i > Len(s.recs) THEN "clean"
      ELSE IF s.recs[i].field > max /\ Matches(s, i) THEN "tooLarge" ELSE "torn"

(***************************************************************************)
(* scanSegment's verdict, from the record it stopped at: a header that is  *)
(* not all there, a length above the limit, a payload that is not all      *)
(* there, and a checksum that fails, with bytes behind it or without.      *)
(***************************************************************************)
scanSegment(s, max) ==
  LET i   == Good(s, max) + 1
      end == Offset(s, i) + recordSize(s.recs[i].field)
  IN  CASE i > Len(s.recs)                         -> "clean"
        [] i <= Len(s.recs) /\ Total(s) - Offset(s, i) < HeaderSize -> "torn"
        [] OTHER ->
             IF s.recs[i].field > max
             THEN IF end <= Total(s) /\ Matches(s, i) THEN "tooLarge" ELSE "torn"
             ELSE IF end < Total(s) THEN "corrupt" ELSE "torn"

\* The segment with only its first n records.
CutTo(s, n) == [s EXCEPT !.recs = SubSeq(@, 1, n), !.short = 0]
RecordsOf(s) == {s.recs[i].rec : i \in DOMAIN s.recs}

Init ==
  /\ dir = <<>> /\ reservedFile = 0 /\ logid = 0 /\ kept = {}
  /\ phase = "down" /\ limit = 0 /\ salvaging = FALSE /\ at = 0 /\ reserved = 0
  /\ written = [records |-> 0, ids |-> 0]
  /\ name = [r \in 1..MaxRecords |-> Unnamed]
  /\ slipped = {} /\ bare = FALSE
  /\ damage = 0 /\ crashes = 0

-----------------------------------------------------------------------------
(* The log in use. *)

nextLSN == LastLSN(Last(dir)) + 1

Claimed == IF nextLSN > reserved THEN nextLSN + ReserveBlock - 1 ELSE reserved

\* The directory with a record added, in a new segment when the last is full.
Grown(rec, missing) ==
  LET full == Len(Last(dir).recs) = MaxSegment
      segs == IF full THEN Append(dir, Segment(nextLSN, nextLSN - 1)) ELSE dir
  IN  [segs EXCEPT ![Len(segs)].recs = Append(@, rec), ![Len(segs)].short = missing]

\* stage() and a commit round that succeeds.
Append1(n) ==
  /\ phase = "up" /\ n <= limit
  /\ written.records < MaxRecords
  /\ written' = [written EXCEPT !.records = @ + 1]
  /\ reserved' = Claimed /\ reservedFile' = Claimed
  /\ dir' = Grown(Framed(written.records + 1, n), 0)
  /\ name' = [name EXCEPT ![written.records + 1] = <<logid, nextLSN>>]
  /\ UNCHANGED <<logid, kept, phase, limit, salvaging, at, slipped, bare, bounds>>

Stopped == phase' = "down" /\ limit' = 0 /\ salvaging' = FALSE /\ at' = 0 /\ reserved' = 0

\* The same, with a crash in the middle of the write.
AppendTorn(n) ==
  /\ phase = "up" /\ n <= limit
  /\ written.records < MaxRecords /\ crashes < MaxCrashes
  /\ crashes' = crashes + 1
  /\ written' = [written EXCEPT !.records = @ + 1]
  /\ reservedFile' = Claimed
  /\ \E missing \in 1..(recordSize(n) - 1) :
       dir' = Grown(Framed(written.records + 1, n), missing)
  /\ Stopped
  /\ UNCHANGED <<logid, kept, name, slipped, bare, damage>>

\* Close gives the numbers it did not use back.
Close ==
  /\ phase = "up"
  /\ reservedFile' = IF reserved > nextLSN - 1 THEN nextLSN - 1 ELSE reservedFile
  /\ Stopped
  /\ UNCHANGED <<dir, logid, kept, ghost, bounds>>

\* A crash, in use or anywhere in Open.
Crash ==
  /\ phase \notin {"down", "refused"} /\ crashes < MaxCrashes
  /\ crashes' = crashes + 1
  /\ Stopped
  /\ UNCHANGED <<disk, ghost, damage>>
-----------------------------------------------------------------------------
(* What befalls the directory of a closed log. *)

\* The records of this numbering acknowledged under LSNs above l.
Above(l) == {r \in DOMAIN name : name[r][1] = logid /\ name[r][2] > l}

Damage ==
  /\ phase = "down" /\ damage < MaxDamage
  /\ damage' = damage + 1
  /\ UNCHANGED <<kept, logid, phase, process, written, name, crashes>>

Rot ==
  /\ Damage
  /\ \E k \in DOMAIN dir : \E i \in DOMAIN dir[k].recs :
       \/ dir' = [dir EXCEPT ![k].recs[i].ok = FALSE]
       \/ \E f \in Fields \ {dir[k].recs[i].len} : dir' = [dir EXCEPT ![k].recs[i].field = f]
  /\ UNCHANGED <<reservedFile, slipped, bare>>

\* A segment loses its end: bytes of its last record, or all of it.
CutShort ==
  /\ Damage
  /\ \E k \in DOMAIN dir :
       LET s == dir[k] IN
       /\ s.recs # <<>>
       /\ \/ /\ \E n \in (s.short + 1)..(recordSize(Last(s.recs).len) - 1) :
                  dir' = [dir EXCEPT ![k].short = n]
             /\ UNCHANGED <<slipped, bare>>
          \/ /\ dir' = [dir EXCEPT ![k] = CutTo(s, Len(s.recs) - 1)]
             /\ slipped' = slipped \cup Above(Max({reservedFile, LastLSN(Last(dir'))}))
             /\ bare' = (bare \/ k < Len(dir))
  /\ UNCHANGED reservedFile

\* RESERVED alone, every segment, or all but LOGID is removed.
Removed ==
  /\ Damage
  /\ dir' \in {dir, <<>>} /\ reservedFile' \in {reservedFile, 0}
  /\ slipped' = IF reservedFile' = 0 /\ dir' # <<>>
                THEN slipped \cup Above(LastLSN(Last(dir))) ELSE slipped
  /\ UNCHANGED bare

-----------------------------------------------------------------------------
(* wal.Open: recover(), one step for each thing it does to the disk. *)

\* loadIdentity: a log that starts from nothing starts under a new identity.
loadIdentity ==
  IF (dir = <<>> /\ reservedFile = 0) \/ logid = 0 THEN written.ids + 1 ELSE logid

OpenBegin(max, salvage) ==
  /\ phase \in {"down", "refused"}
  /\ limit' = max /\ salvaging' = salvage
  /\ reserved' = reservedFile
  /\ logid' = loadIdentity
  /\ written' = [written EXCEPT !.ids = Max({@, loadIdentity})]
  /\ at' = 1
  /\ phase' = "scan"
  /\ UNCHANGED <<dir, reservedFile, kept, name, slipped, bare, bounds>>

here   == dir[at]
atLast == at = Len(dir)
good   == Good(here, limit)
lastGood == here.base + good - 1

\* The verdict on the segment: only the last one may be torn.
verdict ==
  LET v == scanSegment(here, limit)
  IN  IF v = "torn" /\ ~atLast THEN "corrupt" ELSE v

\* The link of the segment to the one before it.
Linked == at > 1 => LastLSN(dir[at - 1]) = here.prev

\* A torn tail is cut, and the segment, now clean, is seen again.
Scan ==
  /\ phase = "scan" /\ at <= Len(dir)
  /\ \/ /\ verdict = "clean" /\ Linked
        /\ at' = at + 1
        /\ UNCHANGED <<dir, phase, slipped>>
     \/ /\ verdict = "torn"
        /\ dir' = [dir EXCEPT ![at] = CutTo(here, good)]
        /\ slipped' = slipped \cup Above(Max({reserved, lastGood}))
        /\ UNCHANGED <<phase, at>>
     \/ /\ verdict = "corrupt" /\ salvaging
        /\ phase' = "keep"
        /\ UNCHANGED <<dir, at, slipped>>
     \/ /\ \/ verdict = "tooLarge"
           \/ verdict = "corrupt" /\ ~salvaging
           \/ verdict = "clean" /\ ~Linked
        /\ phase' = "refused"
        /\ UNCHANGED <<dir, at, slipped>>
  /\ UNCHANGED <<reservedFile, logid, kept, limit, salvaging, reserved, written, name, bare, bounds>>

Discarded == Total(here) - Offset(here, good + 1)

\* Mutant: the damage is cut before the next segment is linked.
SalvageKeepCuts ==
  /\ phase = "keep"
  /\ kept' = kept \cup {here.recs[i].rec : i \in (good + 1)..Len(here.recs)}
  /\ dir' = [dir EXCEPT ![at] = CutTo(here, good)]
  /\ phase' = "link"
  /\ UNCHANGED <<reservedFile, logid, process, ghost, bounds>>

\* keepBytes
SalvageKeep ==
  /\ phase = "keep"
  /\ kept' = kept \cup {here.recs[i].rec : i \in (good + 1)..Len(here.recs)}
  /\ phase' = "link"
  /\ UNCHANGED <<dir, reservedFile, logid, process, ghost, bounds>>

\* Mutant: RESERVED stays where it is.
SalvageLinkOnly ==
  /\ phase = "link"
  /\ dir' = IF atLast THEN dir ELSE [dir EXCEPT ![at + 1].prev = lastGood]
  /\ phase' = "cut"
  /\ UNCHANGED <<reservedFile, reserved, logid, kept, limit, salvaging, at, ghost, bounds>>

\* The next segment is renamed; without one, RESERVED goes past all that can be lost.
SalvageLink ==
  /\ phase = "link"
  /\ dir' = IF atLast THEN dir ELSE [dir EXCEPT ![at + 1].prev = lastGood]
  /\ reserved' = IF atLast THEN Max({reserved, lastGood + (Discarded \div HeaderSize) + 1})
                           ELSE reserved
  /\ reservedFile' = IF reserved' > reserved THEN reserved' ELSE reservedFile
  /\ phase' = "cut"
  /\ UNCHANGED <<logid, kept, limit, salvaging, at, ghost, bounds>>

SalvageCut ==
  /\ phase = "cut"
  /\ dir' = [dir EXCEPT ![at] = CutTo(here, good)]
  /\ phase' = "scan"
  /\ UNCHANGED <<reservedFile, logid, kept, process, ghost, bounds>>

\* Numbering resumes above RESERVED.
Resume ==
  /\ phase = "scan" /\ at > Len(dir)
  /\ dir' = IF dir = <<>> THEN <<Segment(reserved + 1, 0)>>
            ELSE IF reserved > LastLSN(Last(dir))
                 THEN Append(dir, Segment(reserved + 1, LastLSN(Last(dir))))
                 ELSE dir
  /\ phase' = "up"
  /\ UNCHANGED <<reservedFile, logid, kept, process, ghost, bounds>>

Next ==
  \/ \E n \in Lengths : Append1(n) \/ AppendTorn(n)
  \/ Close \/ Crash
  \/ Rot \/ CutShort \/ Removed
  \/ \E max \in Limits, salvage \in BOOLEAN : OpenBegin(max, salvage)
  \/ Scan \/ SalvageKeep \/ SalvageLink \/ SalvageCut \/ Resume

Spec == Init /\ [][Next]_vars

-----------------------------------------------------------------------------
Named == {r \in DOMAIN name : name[r] # Unnamed}

(* A log's identity and an LSN name one record, whatever was lost, salvaged  *)
(* or emptied in between (identity.go:13-18, salvage.go:45-48).  Only a tail *)
(* that damage made look torn, in a log that lost RESERVED too, gives its    *)
(* numbers up.                                                               *)
NameIsUnique ==
  \A q, r \in Named : q # r /\ name[q] = name[r] => {q, r} \cap slipped # {}

(* Open with Salvage is refused only by a record above MaxRecordBytes, or    *)
(* where whole records are gone from under a successor, so that no byte left *)
(* is wrong.  Damage is otherwise always cut out, also when earlier attempts *)
(* were ended by a crash: the order of salvage()'s steps leaves nothing that *)
(* the next attempt cannot finish.                                           *)
SalvageOpens ==
  phase = "refused" /\ salvaging =>
    bare \/ \E k \in DOMAIN dir : scanSegment(dir[k], limit) = "tooLarge"

(* What Open takes off the disk was damaged, or was behind damage, and has   *)
(* been copied aside.  Without a copy only the last segment's tail goes, and *)
(* only from the last record, or one whose length field is wrong or above    *)
(* the limit: any other checksum that fails in front of more data is         *)
(* reported, never cut in silence.                                           *)
Cuts(s, t) == RecordsOf(s) \ RecordsOf(t)
Unframed(s, n) == s.recs[n].field # s.recs[n].len \/ s.recs[n].field > limit

OpenCutsDamageOnly ==
  [][ phase \notin {"down", "up"} =>
        \A k \in DOMAIN dir :
          LET s == dir[k]  n == Len(dir'[k].recs) + 1
          IN  Cuts(s, dir'[k]) # {} =>
                /\ ~Matches(s, n)
                /\ Cuts(s, dir'[k]) \subseteq kept \/ (k = Len(dir) /\ (n = Len(s.recs) \/ Unframed(s, n))) ]_vars

=============================================================================
