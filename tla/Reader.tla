------------------------------- MODULE Reader -------------------------------
(***************************************************************************)
(* The sequential cursor of internal/wal/reader.go, reading a log that is  *)
(* committed to, rotated and truncated at the same time.                   *)
(*                                                                         *)
(* The cursor works on a snapshot of the segment list and refreshes it     *)
(* when the snapshot runs out.  Every refresh, and every other access to   *)
(* shared state, is a step of its own.  Offsets count records; the read    *)
(* window is left out, because the bytes it may hold never change.         *)
(***************************************************************************)
EXTENDS Integers, Sequences, FiniteSets, FiniteSetsExt

CONSTANTS MaxLSN,       \* bound: no LSN is above this
          MaxSegments,  \* bound: segments the log starts with
          EmptyGaps     \* TRUE if recovery may have left an empty segment behind a gap

ASSUME ReaderAssumption ==
  MaxLSN \in Nat \ {0} /\ MaxSegments \in Nat \ {0} /\ EmptyGaps \in BOOLEAN

VARIABLES segs, durable,   \* fields of Log
          gone,            \* bases of segments whose file is removed
          acked,           \* what the buffer has acknowledged, and may truncate
          views, seenDurable,                  \* Reader.views, Reader.durable
          nextLSN, posLSN, path, off,          \* fields of Reader; path is a base, or 0
          pc, result,      \* where Next() is, and what it last returned
          start, got,      \* history: where the cursor started; the LSNs it returned
          atCall           \* history: the LSNs that were readable when Next() was called

log    == <<segs, durable, gone, acked>>
cursor == <<views, seenDurable, nextLSN, posLSN, path, off>>
hist   == <<start, got, atCall>>
vars   == <<log, cursor, pc, result, hist>>

LastLSN(s) == s.base + s.count - 1
LSNsOf(s)  == s.base..LastLSN(s)
Contents(ss) == UNION {LSNsOf(ss[i]) : i \in DOMAIN ss}
active     == segs[Len(segs)]
Readable   == {l \in Contents(segs) : l <= durable}

\* Mutant: the first number of a gap is not taken to be in it.
gapBeforeLate(v, lsn) == v.prev + 1 < lsn /\ lsn < v.base

\* segView.gapBefore
gapBefore(v, lsn) == v.prev < lsn /\ lsn < v.base

Segments == {s \in [base : 1..MaxLSN, prev : 0..MaxLSN, count : 0..MaxLSN] :
               s.prev < s.base /\ LastLSN(s) <= MaxLSN}

(***************************************************************************)
(* The segment lists recovery produces: each segment follows the one in    *)
(* front of it, or a gap.  One that follows an empty segment was created   *)
(* above a reservation that covers the empty one's base.  An empty first   *)
(* segment is dropped by the next Open, so little can follow it.           *)
(***************************************************************************)
RecoveredLogs ==
  {ss \in UNION {[1..n -> Segments] : n \in 1..MaxSegments} :
     /\ \A i \in 1..(Len(ss) - 1) : ss[i + 1].prev = LastLSN(ss[i]) /\ ss[i + 1].base > ss[i].base
     /\ ss[1].count = 0 => Len(ss) <= 2
     /\ \A i \in 1..(Len(ss) - 1) :
          ss[i].count = 0 => (EmptyGaps \/ ss[i].base = ss[i].prev + 1)}

(***************************************************************************)
(* NewReader(acked + 1), as countBacklog and the flusher call it: Open has *)
(* clamped the mark to the log and truncated the segments it covers.       *)
(***************************************************************************)
Init ==
  /\ \E ss \in RecoveredLogs :
       LET end == Max({0} \cup Contents(ss))
       IN  /\ acked \in (ss[1].base - 1)..Max({end, ss[1].base - 1})
           /\ LET head == Min({i \in DOMAIN ss : i = Len(ss) \/ LastLSN(ss[i]) > acked})
              IN  segs = SubSeq(ss, head, Len(ss))
           /\ durable = end
  /\ gone = {}
  /\ nextLSN = Max({acked + 1, segs[1].base})
  /\ views = segs /\ seenDurable = durable
  /\ posLSN = 0 /\ path = 0 /\ off = 0
  /\ pc = "idle" /\ result = "none"
  /\ start = nextLSN /\ got = {} /\ atCall = {}

-----------------------------------------------------------------------------
(* The rest of the log. *)

\* writeBatch publishes the count; commit() then publishes the durable LSN.
CommitPublish ==
  /\ LastLSN(active) < MaxLSN
  /\ segs' = [segs EXCEPT ![Len(segs)].count = @ + 1]
  /\ UNCHANGED <<durable, gone, acked, cursor, pc, result, hist>>

CommitDurable ==
  /\ active.count > 0 /\ durable # LastLSN(active)
  /\ durable' = LastLSN(active)
  /\ UNCHANGED <<segs, gone, acked, cursor, pc, result, hist>>

Rotate ==
  /\ active.count > 0 /\ durable = LastLSN(active) /\ durable < MaxLSN
  /\ segs' = Append(segs, [base |-> durable + 1, prev |-> durable, count |-> 0])
  /\ UNCHANGED <<durable, gone, acked, cursor, pc, result, hist>>

\* The consumer acknowledges some of what it has read.
Ack ==
  /\ \E m \in (acked + 1)..(nextLSN - 1) : acked' = m
  /\ UNCHANGED <<segs, durable, gone, cursor, pc, result, hist>>

\* Truncate: the file goes first, then the list entry.
TruncateFile ==
  /\ Len(segs) > 1 /\ LastLSN(segs[1]) <= acked
  /\ segs[1].base \notin gone
  /\ gone' = gone \cup {segs[1].base}
  /\ UNCHANGED <<segs, durable, acked, cursor, pc, result, hist>>

TruncateList ==
  /\ segs[1].base \in gone
  /\ segs' = Tail(segs)
  /\ UNCHANGED <<durable, gone, acked, cursor, pc, result, hist>>

-----------------------------------------------------------------------------
(* Next(). *)

Return(what) == result' = what /\ pc' = "idle"

\* Mutant: a newly opened file is read from its start.
openAtStart(v, lsn) ==
  IF path = v.base /\ posLSN = lsn
  THEN /\ pc' = "read" /\ UNCHANGED <<path, posLSN, off, result>>
  ELSE IF v.base \in gone
       THEN Return("truncated") /\ path' = 0 /\ UNCHANGED <<posLSN, off>>
       ELSE /\ path' = v.base /\ off' = 0 /\ posLSN' = lsn
            /\ pc' = "read" /\ UNCHANGED result

\* openAt(i): the open file is kept if it is the right one and stands at nextLSN.
openAt(v, lsn) ==
  IF path = v.base /\ posLSN = lsn
  THEN /\ pc' = "read" /\ UNCHANGED <<path, posLSN, off, result>>
  ELSE IF v.base \in gone
       THEN Return("truncated") /\ path' = 0 /\ UNCHANGED <<posLSN, off>>
       ELSE /\ path' = v.base /\ off' = lsn - v.base /\ posLSN' = lsn
            /\ pc' = "read" /\ UNCHANGED result

\* Mutant: the snapshot is not refreshed when it runs out.
CallStale ==
  /\ pc = "idle"
  /\ atCall' = {l \in Readable : l >= nextLSN}
  /\ IF nextLSN > seenDurable THEN Return("nodata") ELSE pc' = "position" /\ UNCHANGED result
  /\ UNCHANGED <<log, cursor, start, got>>

Call ==
  /\ pc = "idle"
  /\ atCall' = {l \in Readable : l >= nextLSN}
  /\ IF nextLSN > seenDurable
     THEN /\ views' = segs /\ seenDurable' = durable
          /\ IF nextLSN > durable THEN Return("nodata")
                                  ELSE pc' = "position" /\ UNCHANGED result
     ELSE pc' = "position" /\ UNCHANGED <<views, seenDurable, result>>
  /\ UNCHANGED <<log, nextLSN, posLSN, path, off, start, got>>

\* position(): the snapshot has the record, or is refreshed.
Position ==
  /\ pc = "position"
  /\ LET found == {i \in DOMAIN views : nextLSN \in LSNsOf(views[i])}
     IN  IF found # {} THEN openAt(views[Min(found)], nextLSN)
                       ELSE pc' = "refresh" /\ UNCHANGED <<path, posLSN, off, result>>
  /\ UNCHANGED <<log, views, seenDurable, nextLSN, hist>>

\* Mutant: the cursor steps to the last segment instead of over the gap.
RepositionLast ==
  /\ pc = "refresh"
  /\ views' = segs /\ seenDurable' = durable
  /\ LET over == {i \in DOMAIN segs : segs[i].base >= nextLSN /\ segs[i].count > 0}
     IN  IF over # {}
         THEN nextLSN' = segs[Max(over)].base /\ openAt(segs[Max(over)], nextLSN')
         ELSE Return("nodata") /\ UNCHANGED <<nextLSN, path, posLSN, off>>
  /\ UNCHANGED <<log, hist>>

\* position() after the refresh: the record, the first record behind a gap, or neither.
Reposition ==
  /\ pc = "refresh"
  /\ views' = segs /\ seenDurable' = durable
  /\ LET found == {i \in DOMAIN segs : nextLSN \in LSNsOf(segs[i])}
         over  == {i \in DOMAIN segs : gapBefore(segs[i], nextLSN) /\ segs[i].count > 0}
     IN  \/ /\ found # {}
            /\ openAt(segs[Min(found)], nextLSN) /\ UNCHANGED nextLSN
         \/ /\ found = {} /\ over # {}
            /\ nextLSN' = segs[Min(over)].base /\ openAt(segs[Min(over)], nextLSN')
         \/ /\ found = {} /\ over = {}
            /\ Return(IF nextLSN < segs[1].base THEN "truncated" ELSE "nodata")
            /\ UNCHANGED <<nextLSN, path, posLSN, off>>
  /\ UNCHANGED <<log, hist>>

\* The record is read at off, counted as nextLSN, and the cursor moves on.
Read ==
  /\ pc = "read"
  /\ got' = got \cup {nextLSN}
  /\ off' = off + 1 /\ nextLSN' = nextLSN + 1 /\ posLSN' = nextLSN'
  /\ Return("record")
  /\ UNCHANGED <<log, views, seenDurable, path, start, atCall>>

NextCall == Call \/ Position \/ Reposition \/ Read
LogStep  == CommitPublish \/ CommitDurable \/ Rotate \/ Ack \/ TruncateFile \/ TruncateList

Next == NextCall \/ LogStep

\* The consumer keeps calling Next(), and a commit round that began ends.
Spec == Init /\ [][Next]_vars /\ WF_vars(NextCall) /\ WF_vars(CommitDurable)

-----------------------------------------------------------------------------
(***************************************************************************)
(* The cached file position is right: the record about to be read is the   *)
(* one nextLSN names and it is published, so Next() neither misnumbers a   *)
(* record nor meets the end of the segment it has just opened              *)
(* (reader.go:81-92 and 204-209).                                          *)
(***************************************************************************)
ReadsWhatItNames ==
  pc = "read" =>
    /\ path + off = nextLSN
    /\ \E i \in DOMAIN views : views[i].base = path /\ nextLSN \in LSNsOf(views[i])

\* Nothing is skipped: every record between the start and the cursor was returned.
NoSkip == \A l \in Contents(segs) : start <= l /\ l < nextLSN => l \in got

(***************************************************************************)
(* Next() returns ErrNoData only once it has caught up with the durable    *)
(* tail (reader.go:64): no record was readable when it was called.         *)
(***************************************************************************)
NoDataMeansCaughtUp == result = "nodata" /\ pc = "idle" => {l \in atCall : l >= nextLSN} = {}

\* A record that has become readable is read in the end.
EverythingRead == \A l \in 1..MaxLSN : (l \in Readable /\ l >= start) ~> l \in got
=============================================================================
