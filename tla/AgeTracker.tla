----------------------------- MODULE AgeTracker -----------------------------
(***************************************************************************)
(* The age tracker of internal_support.go, which tells Stats and the       *)
(* backpressure policy how long the oldest unflushed record has waited,    *)
(* with the goroutines around it: a writer's records become durable, the   *)
(* writer reads the clock, and only then takes the tracker's mutex, so     *)
(* notes arrive in any order and after deliveries; a completer moves the   *)
(* low-water mark first and trims second.                                  *)
(***************************************************************************)
EXTENDS Integers, Sequences, TLC

CONSTANTS Accepters, Completers,
          Granularity,   \* ageGranularity
          MaxMarks,      \* ageMaxMarks
          Inherited,     \* the backlog countBacklog notes when the buffer opens
          MaxLSN, MaxTime   \* bounds

ASSUME AgeAssumption ==
  /\ Granularity \in Nat \ {0} /\ MaxMarks \in Nat \ {0, 1}
  /\ MaxLSN \in Nat /\ MaxTime \in Nat /\ Inherited \in 0..MaxLSN

VARIABLES now,        \* the clock
          marks, trimmed,   \* ageTracker
          durable, low,     \* the log's end; ackTracker.low
          wr,         \* per writer: the records accept() is being run for
          done,       \* per completer: the mark it is about to trim to, or 0
          noted       \* when the note that covers each record was made, or -1

vars == <<now, marks, trimmed, durable, low, wr, done, noted>>

LSNs == 1..MaxLSN
NoNote == [pc |-> "idle", first |-> 0, last |-> 0, at |-> 0]

\* countBacklog dates what it finds from Open.
Init ==
  /\ now = 0
  /\ marks = IF Inherited > 0 THEN <<[lsn |-> Inherited, at |-> 0]>> ELSE <<>>
  /\ trimmed = 0
  /\ durable = Inherited /\ low = 0
  /\ wr = [w \in Accepters |-> NoNote]
  /\ done = [c \in Completers |-> 0]
  /\ noted = [l \in LSNs |-> IF l <= Inherited THEN 0 ELSE -1]

Tick ==
  /\ now < MaxTime
  /\ now' = now + 1
  /\ UNCHANGED <<marks, trimmed, durable, low, wr, done, noted>>

-----------------------------------------------------------------------------
(* WriteBatch and a settler: Await returns, then accept(). *)

Await(w, n) ==
  /\ wr[w].pc = "idle"
  /\ durable + n <= MaxLSN
  /\ durable' = durable + n
  /\ wr' = [wr EXCEPT ![w] = [pc |-> "clock", first |-> durable + 1, last |-> durable', at |-> 0]]
  /\ UNCHANGED <<now, marks, trimmed, low, done, noted>>

\* time.Now(), before the mutex.
ReadClock(w) ==
  /\ wr[w].pc = "clock"
  /\ wr' = [wr EXCEPT ![w].pc = "note", ![w].at = now]
  /\ UNCHANGED <<now, marks, trimmed, durable, low, done, noted>>

newest == marks[Len(marks)]

\* Mutant: a merged pair keeps the later time.
MergedLate ==
  [k \in 1..((Len(marks) + 1) \div 2) |->
     IF 2 * k <= Len(marks) THEN marks[2 * k] ELSE marks[2 * k - 1]]

\* Adjacent pairs become one mark: the earlier time, the later LSN.
Merged ==
  [k \in 1..((Len(marks) + 1) \div 2) |->
     [lsn |-> IF 2 * k <= Len(marks) THEN marks[2 * k].lsn ELSE marks[2 * k - 1].lsn,
      at  |-> marks[2 * k - 1].at]]

\* Mutant: what has been trimmed is not remembered.
CoveredByMark(lsn) == marks # <<>> /\ lsn <= newest.lsn

\* The record has been acknowledged, or a mark covers it.
Covered(lsn) == lsn <= trimmed \/ (marks # <<>> /\ lsn <= newest.lsn)

Extended(lsn) == [marks EXCEPT ![Len(marks)].lsn = lsn]
Extends(at)   == marks # <<>> /\ at - newest.at < Granularity
Room          == IF Len(marks) >= MaxMarks THEN Merged ELSE marks

note(w) ==
  LET lsn == wr[w].last  at == wr[w].at IN
  /\ wr[w].pc = "note"
  /\ marks' = IF Covered(lsn) THEN marks
              ELSE IF Extends(at) THEN Extended(lsn)
              ELSE Append(Room, [lsn |-> lsn, at |-> at])
  /\ noted' = [l \in LSNs |-> IF l \in wr[w].first..lsn THEN now ELSE noted[l]]
  /\ wr' = [wr EXCEPT ![w] = NoNote]
  /\ UNCHANGED <<now, trimmed, durable, low, done>>

-----------------------------------------------------------------------------
(* complete(): the acknowledgement, then the trim. *)

ack(c) ==
  /\ done[c] = 0
  /\ \E to \in (low + 1)..durable : low' = to /\ done' = [done EXCEPT ![c] = to]
  /\ UNCHANGED <<now, marks, trimmed, durable, wr, noted>>

\* The first i marks are wholly covered by the low-water mark, the next one is not.
Leading(i, mark) ==
  /\ \A j \in 1..i : marks[j].lsn <= mark
  /\ i < Len(marks) => marks[i + 1].lsn > mark

trim(c) ==
  /\ done[c] # 0
  /\ trimmed' = IF done[c] > trimmed THEN done[c] ELSE trimmed
  /\ \E i \in 0..Len(marks) : /\ Leading(i, done[c])
                              /\ marks' = SubSeq(marks, i + 1, Len(marks))
  /\ done' = [done EXCEPT ![c] = 0]
  /\ UNCHANGED <<now, durable, low, wr, noted>>

Next ==
  \/ Tick
  \/ \E w \in Accepters : (\E n \in 1..2 : Await(w, n)) \/ ReadClock(w) \/ note(w)
  \/ \E c \in Completers : ack(c) \/ trim(c)

Spec == Init /\ [][Next]_vars

\* Goroutines differ in name only.
Symmetry == Permutations(Accepters) \cup Permutations(Completers)

-----------------------------------------------------------------------------
(* Properties. *)

\* What oldest(now) returns: the policy's State.OldestAge and Stats().OldestAge.
oldest == IF marks = <<>> THEN 0 ELSE now - marks[1].at

\* Types; the marks are few, in the order of their LSNs, a granularity apart.
TypeOK ==
  /\ now \in Nat /\ trimmed \in 0..low /\ durable \in 0..MaxLSN /\ low \in 0..durable
  /\ marks \in Seq([lsn : LSNs, at : 0..now]) /\ Len(marks) <= MaxMarks
  /\ \A i, j \in 1..Len(marks) : i < j => /\ marks[i].lsn < marks[j].lsn
                                         /\ marks[i].at + Granularity <= marks[j].at
  /\ done \in [Completers -> 0..low]
  /\ wr \in [Accepters -> [pc : {"idle", "clock", "note"}, first : 0..durable, last : 0..durable,
                         at : 0..now]]
  /\ noted \in [LSNs -> -1..now]

(***************************************************************************)
(* No age is understated (note(): "keeping each pair's earlier timestamp   *)
(* so no age is ever understated"): a record that has been noted and not   *)
(* trimmed has waited no longer since its note than oldest() says, however *)
(* notes were reordered, coalesced or merged.                              *)
(***************************************************************************)
NeverUnderstated ==
  \A l \in LSNs : l > trimmed /\ noted[l] >= 0 => oldest >= now - noted[l]

(***************************************************************************)
(* No mark outlives its records: once every noted record is acknowledged   *)
(* and trimmed, the age is that of nothing, also when a note comes after   *)
(* the delivery of its record ("what stops such a mark from lingering as a *)
(* backlog that is not there").                                            *)
(***************************************************************************)
NoPhantomBacklog ==
  (\A l \in LSNs : noted[l] >= 0 => l <= trimmed) => marks = <<>>

=============================================================================
