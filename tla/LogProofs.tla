----------------------------- MODULE LogProofs ------------------------------
(***************************************************************************)
(* Proofs about module Log, for every segment size, reservation block,     *)
(* fsync mode, number of records, crashes, faults and Closes:              *)
(*                                                                         *)
(*   NoWriteIsForgotten      a staged write is held by a round until it is *)
(*                           answered                                      *)
(*                                                                         *)
(* The inductive invariant comes in layers, each proved from those before. *)
(* The first two are here:                                                 *)
(*                                                                         *)
(*   RoundsInv  the rounds and the answers to the writers                  *)
(*   DiskInv    the files, the chain of segments in memory, the numbering  *)
(*                                                                         *)
(* LogRecoveryProofs and LogDurabilityProofs go on from here.              *)
(***************************************************************************)
EXTENDS Log, WellFoundedInduction, TLAPS

\* The values of phase, of cpc and of told.
Phases  == {"down", "attach", "reconcile", "trim", "up", "closing", "refused"}
Steps   == {"idle", "create", "rotate", "write", "sync", "rollback", "unrollable"}
Answers == {"new", "staged", "ok", "failed", "broken", "lost"}

\* A sequence in strictly ascending order.
Ascending(s) == \A i, j \in DOMAIN s : i < j => s[i] < s[j]

\* The types of what the rounds are made of.
RoundsType ==
  /\ told \in [Records -> Answers]
  /\ pending \in Seq(Records) /\ inflight \in Seq(Records)
  /\ phase \in Phases /\ cpc \in Steps
  /\ broken \in BOOLEAN /\ trim \in BOOLEAN

(***************************************************************************)
(* The records staged and not yet answered are those of the two rounds,    *)
(* in the order of staging, and come after all that were answered.         *)
(***************************************************************************)
RoundsInv ==
  /\ RoundsType
  /\ trim => phase \in {"up", "trim"}
  /\ cpc = "idle" <=> inflight = <<>>
  /\ ~Running => cpc = "idle" /\ pending = <<>>
  /\ broken => Running /\ cpc = "idle" /\ pending = <<>>
  /\ \A r \in Records : told[r] = "staged" <=> r \in Range(inflight) \cup Range(pending)
  /\ \A r, s \in Records : r < s /\ told[s] # "new" => told[r] # "new"
  /\ \A r, s \in Records : told[r] \notin {"new", "staged"} /\ told[s] = "staged" => r < s
  /\ Ascending(inflight) /\ Ascending(pending)
  /\ \A i \in DOMAIN inflight, j \in DOMAIN pending : inflight[i] < pending[j]

\* What a file holds, and an entry of Log.segs.
Content == [recs : Seq(Records), torn : BOOLEAN]
Segment == [base : Nat, prev : Nat, count : Nat]

\* The files, no two of them with the same base.
Disk ==
  /\ \A n \in DOMAIN files : /\ n \in Nat \X Nat /\ n[2] < n[1]
                             /\ files[n] \in [cache : Content, stable : Content]
  /\ \A n, m \in DOMAIN files : n[1] = m[1] => n = m

\* The records in the file of a segment.
CacheOf(s) == files[NameOf(s)].cache.recs

\* Segments have been read; numbering has been set up; the buffer is in use.
Loaded  == phase \in {"attach", "reconcile", "trim", "up", "closing"}
Ready   == phase \in {"reconcile", "trim", "up", "closing"}
Serving == phase \in {"trim", "up", "closing"}

\* Log.segs: every segment has its file and follows the one before it.
Chain ==
  /\ segs \in Seq(Segment)
  /\ \A i \in DOMAIN segs : /\ NameOf(segs[i]) \in DOMAIN files
                            /\ segs[i].count <= Len(CacheOf(segs[i]))
                            /\ i < Len(segs) => segs[i].count = Len(CacheOf(segs[i]))
  /\ \A i, j \in DOMAIN segs : i < j => /\ segs[i].base < segs[j].base
                                        /\ LastLSN(segs[i]) <= segs[j].prev
  /\ \A i \in DOMAIN segs : i > 1 => segs[i].prev = LastLSN(segs[i - 1])

\* What recover() has read before it sets up the numbering: all the files, whole.
Attached ==
  /\ reserved = reservedFile
  /\ \A n \in DOMAIN files : \E i \in DOMAIN segs : n = NameOf(segs[i])
  /\ \A i \in DOMAIN segs : segs[i].count = Len(CacheOf(segs[i]))

\* The file a rotation creates.
NextSegment == <<first, first - 1>>

\* A file that a failed rotation created and failed to remove.
Leftover(n) ==
  /\ n[2] = n[1] - 1 /\ n[1] - 1 <= LastLSN(active)
  /\ files[n].cache.recs = <<>> /\ files[n].stable.recs = <<>>
  /\ \A i \in DOMAIN segs : n[1] < segs[i].base => n[1] - 1 <= segs[i].prev

\* Every file belongs to a segment, or is left over.
Covered == \A n \in DOMAIN files : (\E i \in DOMAIN segs : n = NameOf(segs[i])) \/ Leftover(n)

\* The LSNs: the published ones, then those of the two rounds, all reserved.
Numbers ==
  /\ segs # <<>>
  /\ nextLSN = LastLSN(active) + 1 + Len(inflight) + Len(pending)
  /\ cpc # "idle" => first = LastLSN(active) + 1
  /\ pending # <<>> => pendingMin = LastLSN(active) + 1 + Len(inflight)
  /\ inflight # <<>> \/ pending # <<>> => nextLSN - 1 <= reserved
  /\ reserved <= reservedFile
  /\ Covered

\* The active file at each place of commit().
Progress ==
  /\ cpc \in {"create", "rotate", "unrollable"} => active.count > 0
  /\ cpc = "rotate" => NextSegment \in DOMAIN files /\ files[NextSegment].cache.recs = <<>>
  /\ cpc \in {"idle", "create", "rotate", "write"} /\ ~broken =>
       Len(CacheOf(active)) = active.count
  /\ cpc = "sync" => Len(CacheOf(active)) = active.count + Len(inflight)

\* The types of the LSNs the log keeps.
NumbersType ==
  /\ nextLSN \in Nat /\ reserved \in Nat /\ reservedFile \in Nat
  /\ first \in Nat /\ pendingMin \in Nat

(* The files and what the process knows of them, by phase. *)
DiskInv ==
  /\ NumbersType /\ Disk
  /\ Loaded => Chain
  /\ phase = "attach" => Attached
  /\ Ready => Numbers /\ Progress

-----------------------------------------------------------------------------
(* Numbers, sets and sequences. *)

\* The order of the natural numbers, as a relation.
Less == {p \in Nat \X Nat : p[1] < p[2]}

(* A non-empty set of natural numbers has a least member: what the sink is   *)
(* given next, and what bounds the interval below.                           *)
LEMMA Least ==
  ASSUME NEW S \in SUBSET Nat, S # {}
  PROVE  Min(S) \in S /\ \A n \in S : Min(S) <= n
<1>1. IsWellFoundedOn(Less, Nat)
  BY Zenon, NatLessThanWellFounded DEF OpToRel, Less
<1>2. PICK m \in S : \A n \in S : <<n, m>> \notin Less
  BY Zenon, <1>1, WFMin
<1>3. \A n \in S : m <= n
  <2> SUFFICES ASSUME NEW n \in S, ~(m <= n) PROVE FALSE
    BY Zenon
  <2>1. n < m /\ m \in Nat /\ n \in Nat
    OBVIOUS
  <2>2. <<n, m>> \in Less
    BY Zenon, <2>1 DEF Less
  <2> QED
    BY Zenon, <1>2, <2>2
<1> QED
  BY Zenon, <1>3 DEF Min

(* A non-empty set of natural numbers with a bound has a greatest member.    *)
LEMMA Greatest ==
  ASSUME NEW S \in SUBSET Nat, S # {}, NEW b \in Nat, \A n \in S : n <= b
  PROVE  Max(S) \in S /\ \A n \in S : n <= Max(S)
<1> DEFINE U == {u \in Nat : \A n \in S : n <= u}
<1>1. U \in SUBSET Nat /\ U # {}
  BY Zenon
<1>2. PICK m \in U : \A u \in U : m <= u
  <2> HIDE DEF U
  <2> QED
    BY Zenon, <1>1, Least
<1>3. m \in Nat /\ \A n \in S : n <= m
  BY Zenon, <1>2
<1>4. m \in S
  <2> SUFFICES ASSUME m \notin S PROVE FALSE
    BY Zenon
  <2>1. \A n \in S : n <= m - 1 /\ m - 1 \in Nat
    BY <1>3
  <2>2. m - 1 \in U
    BY Zenon, <2>1
  <2> QED
    BY <1>2, <1>3, <2>2
<1>5. \A n \in S : m >= n
  BY Zenon, <1>3
<1>6. Max(S) \in S /\ \A n \in S : Max(S) >= n
  BY Zenon, <1>4, <1>5 DEF Max
<1> QED
  BY Zenon, <1>6

(* What is left of a sequence without its head: what Truncate leaves of the  *)
(* list of segments.                                                         *)
LEMMA Shortened ==
  ASSUME NEW S, NEW s \in Seq(S), Len(s) > 1
  PROVE  /\ Len(s) \in Nat /\ DOMAIN s = 1..Len(s)
         /\ Tail(s) \in Seq(S) /\ Len(Tail(s)) = Len(s) - 1 /\ DOMAIN Tail(s) = 1..(Len(s) - 1)
         /\ \A i \in DOMAIN Tail(s) : i + 1 \in DOMAIN s /\ Tail(s)[i] = s[i + 1]
         /\ Tail(s) # <<>>
<1>1. Len(s) \in Nat /\ DOMAIN s = 1..Len(s) /\ s # <<>>
  OBVIOUS
<1>2. Tail(s) \in Seq(S) /\ Len(Tail(s)) = Len(s) - 1
  BY <1>1
<1>3. ASSUME NEW i \in 1..(Len(s) - 1) PROVE Tail(s)[i] = s[i + 1]
  BY <1>1, <1>3
<1>4. ASSUME NEW i \in 1..(Len(s) - 1) PROVE i + 1 \in 1..Len(s)
  BY <1>1, <1>4
<1>5. PICK t \in Seq(S) : t = Tail(s) /\ Len(t) = Len(s) - 1
  BY Zenon, <1>2
<1>6. DOMAIN t = 1..(Len(s) - 1) /\ t # <<>>
  BY <1>1, <1>5
<1> QED
  BY Zenon, <1>1, <1>2, <1>3, <1>4, <1>5, <1>6

\* The members of c are those of s, and then those of t.
Joined(c, s, t) ==
  /\ Len(c) = Len(s) + Len(t)
  /\ \A i \in DOMAIN s : c[i] = s[i]
  /\ \A i \in DOMAIN t : c[Len(s) + i] = t[i]
  /\ \A k \in DOMAIN c : k \in DOMAIN s \/ \E i \in DOMAIN t : k = Len(s) + i
  /\ Range(c) = Range(s) \cup Range(t)

(* Concatenation: its members are those of the parts, in their order. *)
LEMMA Concatenation ==
  ASSUME NEW S, NEW s \in Seq(S), NEW t \in Seq(S)
  PROVE  s \o t \in Seq(S) /\ Joined(s \o t, s, t)
<1>1. s \o t \in Seq(S) /\ Len(s \o t) = Len(s) + Len(t)
  OBVIOUS
<1>2. \A i \in DOMAIN s : i \in DOMAIN (s \o t) /\ (s \o t)[i] = s[i]
  OBVIOUS
<1>3. \A i \in DOMAIN t : Len(s) + i \in DOMAIN (s \o t) /\ (s \o t)[Len(s) + i] = t[i]
  OBVIOUS
<1>4. \A k \in DOMAIN (s \o t) : k \in DOMAIN s \/ \E i \in DOMAIN t : k = Len(s) + i
  <2> TAKE k \in DOMAIN (s \o t)
  <2>1. k \in 1..(Len(s) + Len(t))
    BY <1>1
  <2>2. CASE k <= Len(s)
    BY <2>1, <2>2
  <2>3. CASE k > Len(s)
    <3>1. k - Len(s) \in 1..Len(t) /\ k = Len(s) + (k - Len(s))
      BY <2>1, <2>3
    <3> QED
      BY <3>1
  <2> QED
    BY <2>1, <2>2, <2>3
<1>5. Range(s \o t) = Range(s) \cup Range(t)
  <2>1. \A x \in Range(s \o t) : x \in Range(s) \cup Range(t)
    BY <1>2, <1>3, <1>4 DEF Range
  <2>2. \A x \in Range(s) : x \in Range(s \o t)
    BY Zenon, <1>2 DEF Range
  <2>3. \A x \in Range(t) : x \in Range(s \o t)
    BY <1>3, Zenon DEF Range
  <2> QED
    BY Zenon, <2>1, <2>2, <2>3
<1> QED
  BY Zenon, <1>1, <1>2, <1>3, <1>4, <1>5 DEF Joined

-----------------------------------------------------------------------------
(* The rounds: staging, committing and failing. *)

(* The records that have been written are the first so many: stage() numbers *)
(* the next ones from there.                                                 *)
LEMMA Written ==
  ASSUME RoundsInv
  PROVE  Newest \in Nat /\ \A r \in Records : told[r] # "new" <=> r <= Newest
<1> DEFINE D == {0} \cup {r \in Records : told[r] # "new"}
<1>1. MaxRecords \in Nat
  BY Zenon, LogAssumption
<1>2. D \in SUBSET Nat /\ D # {} /\ \A r \in D : r <= MaxRecords
  BY <1>1 DEF Records
<1>3. \A r \in Records : r \in D <=> told[r] # "new"
  BY DEF Records
<1>4. Newest = Max(D)
  BY Zenon DEF Newest
<1>5. Newest \in D /\ Newest \in Nat /\ \A r \in D : r <= Newest
  <2> HIDE DEF D
  <2> QED
    BY Zenon, <1>1, <1>2, <1>4, Greatest
<1>6. Newest = 0 \/ (Newest \in Records /\ told[Newest] # "new")
  BY Zenon, <1>5
<1> HIDE DEF D
<1>7. \A r \in Records : r \in Nat /\ r > 0
  BY <1>1 DEF Records
<1>8. \A r, s \in Records : r < s /\ told[s] # "new" => told[r] # "new"
  BY Zenon DEF RoundsInv
<1>9. ASSUME NEW r \in Records, r <= Newest PROVE told[r] # "new"
  <2>1. CASE r = Newest
    BY <1>6, <1>7, <2>1
  <2>2. CASE r # Newest
    BY <1>5, <1>6, <1>7, <1>8, <1>9, <2>2
  <2> QED
    BY Zenon, <2>1, <2>2
<1> QED
  BY Zenon, <1>3, <1>5, <1>9

(* The first process starts with no rounds. *)
LEMMA RoundsInit == Init => RoundsInv
<1> SUFFICES ASSUME Init PROVE RoundsInv
  BY Zenon
<1>1. /\ inflight = <<>> /\ pending = <<>> /\ cpc = "idle" /\ broken = FALSE /\ trim = FALSE
      /\ phase = "down" /\ told = [r \in Records |-> "new"]
  BY Zenon DEF Init
<1>2. Range(inflight) = {} /\ DOMAIN inflight = {} /\ Range(pending) = {} /\ DOMAIN pending = {}
  BY <1>1 DEF Range
<1>3. RoundsType
  <2>1. told \in [Records -> Answers]
    BY Zenon, <1>1 DEF Answers
  <2>2. inflight \in Seq(Records) /\ pending \in Seq(Records)
    BY <1>1
  <2> QED
    BY Zenon, <1>1, <2>1, <2>2 DEF RoundsType, Steps, Phases
<1> QED
  BY Zenon, <1>1, <1>2, <1>3 DEF RoundsInv, Running, Ascending

(* One case per kind of step: each step below covers a kind. *)
LEMMA RoundsNext == RoundsInv /\ [Next]_vars => RoundsInv'
(* stage() puts new records, the newest of all, behind the pending ones. *)
<1>StageRounds.
  ASSUME RoundsInv, NEW n \in 1..2, Stage(n)
  PROVE  RoundsInv'
  <2> USE <1>StageRounds
  <2> DEFINE new == Newest
             ids == [i \in 1..n |-> new + i]
  <2>1. new \in Nat /\ \A r \in Records : told[r] # "new" <=> r <= new
    BY Zenon, Written
  <2>2. /\ phase = "up" /\ ~broken /\ new + n <= MaxRecords
        /\ pending' = pending \o ids
        /\ told' = [r \in Records |-> IF r \in Range(ids) THEN "staged" ELSE told[r]]
        /\ UNCHANGED <<phase, broken, inflight, cpc, trim>>
    BY Zenon DEF Stage, Tell, reader
  <2> HIDE DEF new
  <2>3. n \in Nat /\ MaxRecords \in Nat
    BY LogAssumption
  <2>4. ids \in Seq(Records) /\ Len(ids) = n /\ DOMAIN ids = 1..n
    BY <2>1, <2>2, <2>3 DEF Records
  <2>5. /\ \A r \in Range(ids) : r \in Records /\ r > new /\ told[r] = "new"
        /\ \A i \in DOMAIN ids : ids[i] = new + i /\ ids[i] \in Range(ids)
    BY <2>1, <2>2, <2>3 DEF Range, Records
  <2> HIDE DEF ids
  <2>6. pending \in Seq(Records) /\ inflight \in Seq(Records)
    BY Zenon DEF RoundsInv, RoundsType
  <2>7. /\ pending' \in Seq(Records) /\ Len(pending') = Len(pending) + Len(ids)
        /\ \A i \in DOMAIN pending : pending'[i] = pending[i]
        /\ \A i \in DOMAIN ids : pending'[Len(pending) + i] = ids[i]
        /\ \A k \in DOMAIN pending' : k \in DOMAIN pending \/ \E i \in DOMAIN ids : k = Len(pending) + i
        /\ Range(pending') = Range(pending) \cup Range(ids)
    <3>1. pending \o ids \in Seq(Records) /\ Joined(pending \o ids, pending, ids)
      BY Zenon, <2>4, <2>6, Concatenation
    <3>2. pending' \in Seq(Records) /\ Joined(pending', pending, ids)
      BY Zenon, <2>2, <3>1
    <3> QED
      BY Zenon, <3>2 DEF Joined
  <2>8. \A r \in Range(inflight) \cup Range(pending) : r \in Records /\ told[r] = "staged" /\ r <= new
    <3>1. \A r \in Range(inflight) \cup Range(pending) : r \in Records
      BY <2>6 DEF Range
    <3> QED
      BY Zenon, <2>1, <3>1 DEF RoundsInv
  <2>9. RoundsType'
    BY Zenon, <2>2, <2>7 DEF RoundsInv, RoundsType, Answers
  <2>10. \A r \in Records : told'[r] = "staged" <=> r \in Range(inflight') \cup Range(pending')
    BY Zenon, <2>2, <2>5, <2>7, <2>8 DEF RoundsInv
  <2>11. \A r, s \in Records : r < s /\ told'[s] # "new" => told'[r] # "new"
    <3> TAKE r, s \in Records
    <3>1. told[r] = "new" /\ told[s] = "new" /\ r < s /\ s \in Range(ids) => r \in Range(ids)
      <4> SUFFICES ASSUME told[r] = "new", r < s, s \in Range(ids) PROVE r \in Range(ids)
        BY Zenon
      <4>1. PICK i \in 1..n : s = new + i
        BY Zenon, <2>4, <2>5 DEF Range
      <4>2. r > new /\ r \in Int /\ r < new + i
        BY <2>1, <4>1 DEF Records
      <4>3. r - new \in 1..n /\ new + (r - new) = r
        BY <2>1, <2>3, <4>1, <4>2
      <4> QED
        BY Zenon, <2>4, <2>5, <4>3 DEF Range
    <3> QED
      BY Zenon, <2>2, <2>5, <3>1 DEF RoundsInv
  <2>12. \A r, s \in Records : told'[r] \notin {"new", "staged"} /\ told'[s] = "staged" => r < s
    <3> TAKE r, s \in Records
    <3>1. CASE s \in Range(ids)
      BY <2>1, <2>2, <2>5, <3>1 DEF Records
    <3>2. CASE s \notin Range(ids)
      BY Zenon, <2>2, <3>2 DEF RoundsInv
    <3> QED
      BY Zenon, <3>1, <3>2
  <2>13. Ascending(pending')
    <3> SUFFICES ASSUME NEW i \in DOMAIN pending', NEW j \in DOMAIN pending', i < j
                 PROVE  pending'[i] < pending'[j]
      BY Zenon DEF Ascending
    <3>0. DOMAIN pending = 1..Len(pending) /\ Len(pending) \in Nat
      BY <2>6
    <3>1. CASE j \in DOMAIN pending
      <4>1. i \in DOMAIN pending
        BY <2>7, <3>0, <3>1
      <4> QED
        BY Zenon, <2>7, <3>1, <4>1 DEF RoundsInv, Ascending
    <3>2. CASE j \notin DOMAIN pending
      <4>1. PICK b \in DOMAIN ids : j = Len(pending) + b
        BY Zenon, <2>7, <3>2
      <4>2. pending'[j] = new + b
        BY Zenon, <2>5, <2>7, <4>1
      <4>3. CASE i \in DOMAIN pending
        <5>1. pending'[i] \in Range(pending)
          BY Zenon, <2>7, <4>3 DEF Range
        <5> QED
          BY <2>1, <2>4, <2>8, <4>2, <5>1 DEF Records
      <4>4. CASE i \notin DOMAIN pending
        <5>1. PICK a \in DOMAIN ids : i = Len(pending) + a
          BY Zenon, <2>7, <4>4
        <5>2. pending'[i] = new + a
          BY Zenon, <2>5, <2>7, <5>1
        <5> QED
          BY <2>1, <2>4, <3>0, <4>1, <4>2, <5>1, <5>2
      <4> QED
        BY Zenon, <4>3, <4>4
    <3> QED
      BY Zenon, <3>1, <3>2
  <2>14. \A i \in DOMAIN inflight, j \in DOMAIN pending' : inflight[i] < pending'[j]
    <3> TAKE i \in DOMAIN inflight, j \in DOMAIN pending'
    <3>1. CASE j \in DOMAIN pending
      BY Zenon, <2>7, <3>1 DEF RoundsInv
    <3>2. CASE j \notin DOMAIN pending
      <4>1. PICK b \in DOMAIN ids : j = Len(pending) + b
        BY Zenon, <2>7, <3>2
      <4>2. pending'[j] = new + b
        BY Zenon, <2>5, <2>7, <4>1
      <4>3. inflight[i] \in Range(inflight)
        BY Zenon DEF Range
      <4> QED
        BY <2>1, <2>4, <2>8, <4>1, <4>2, <4>3 DEF Records
    <3> QED
      BY Zenon, <3>1, <3>2
  <2> QED
    BY Zenon, <2>2, <2>9, <2>10, <2>11, <2>12, <2>13, <2>14 DEF RoundsInv, Running

(* commit() takes the pending round. *)
<1>TakeRounds.
  ASSUME RoundsInv, CommitTake
  PROVE  RoundsInv'
  <2> USE <1>TakeRounds
  <2>1. /\ Running /\ cpc = "idle" /\ ~broken /\ pending # <<>>
        /\ inflight' = pending /\ pending' = <<>> /\ cpc' \in {"create", "write"}
        /\ UNCHANGED <<phase, broken, trim, told>>
    BY Zenon DEF CommitTake, reader, ghost
  <2>2. inflight = <<>>
    BY Zenon, <2>1 DEF RoundsInv
  <2>3. Range(pending') = {} /\ Range(inflight) = {} /\ DOMAIN pending' = {}
    BY <2>1, <2>2 DEF Range
  <2>4. RoundsType'
    BY Zenon, <2>1 DEF RoundsInv, RoundsType, Steps
  <2>5. \A r \in Records : told'[r] = "staged" <=> r \in Range(inflight') \cup Range(pending')
    BY Zenon, <2>1, <2>3 DEF RoundsInv
  <2> QED
    BY Zenon, <2>1, <2>3, <2>4, <2>5 DEF RoundsInv, Running, Ascending

(* A round that was written is answered; the pending records stay staged. *)
<1>CommitRounds.
  ASSUME RoundsInv, Commit
  PROVE  RoundsInv'
  <2> USE <1>CommitRounds
  <2>1. /\ cpc = "sync" /\ inflight' = <<>> /\ cpc' = "idle"
        /\ told' = [r \in Records |-> IF r \in Range(inflight) THEN "ok" ELSE told[r]]
        /\ UNCHANGED <<phase, broken, pending, trim>>
    BY Zenon DEF Commit, Tell, reader
  <2>2. Range(inflight') = {} /\ DOMAIN inflight' = {}
    BY <2>1 DEF Range
  <2>3. RoundsType'
    BY <2>1 DEF RoundsInv, RoundsType, Steps, Answers
  <2>4. inflight \in Seq(Records) /\ pending \in Seq(Records)
    BY Zenon DEF RoundsInv, RoundsType
  <2>5. \A r \in Range(inflight), s \in Range(pending) : r < s
    BY Zenon DEF RoundsInv, Range
  <2>6. \A r \in Range(inflight) \cup Range(pending) : r \in Records
    BY <2>4 DEF Range
  <2>7. \A r \in Records : told'[r] = "staged" <=> r \in Range(inflight') \cup Range(pending')
    <3> TAKE r \in Records
    <3>1. r \in Range(inflight) => r \notin Range(pending)
      BY <2>5 DEF Records
    <3> QED
      BY Zenon, <2>1, <2>2, <3>1 DEF RoundsInv
  <2>8. \A r, s \in Records : told'[r] \notin {"new", "staged"} /\ told'[s] = "staged" => r < s
    BY Zenon, <2>1, <2>2, <2>5, <2>7 DEF RoundsInv
  <2>9. \A r, s \in Records : r < s /\ told'[s] # "new" => told'[r] # "new"
    BY Zenon, <2>1 DEF RoundsInv
  <2> QED
    BY Zenon, <2>1, <2>2, <2>3, <2>7, <2>8, <2>9 DEF RoundsInv, Running, Ascending

(* A round that failed takes with it what was staged behind it. *)
<1>FailRounds.
  ASSUME RoundsInv, NEW what \in {"failed", "broken"}, FailRound(what), cpc # "idle",
         UNCHANGED <<phase, trim>>, broken' \in BOOLEAN
  PROVE  RoundsInv'
  <2> USE <1>FailRounds
  <2>1. /\ inflight' = <<>> /\ pending' = <<>> /\ cpc' = "idle"
        /\ told' = [r \in Records |-> IF r \in Range(inflight) \cup Range(pending)
                                      THEN what ELSE told[r]]
    BY Zenon DEF FailRound, Tell
  <2>2. Range(inflight') = {} /\ DOMAIN inflight' = {} /\ Range(pending') = {} /\ DOMAIN pending' = {}
    BY <2>1 DEF Range
  <2>3. RoundsType'
    BY <2>1 DEF RoundsInv, RoundsType, Steps, Answers
  <2>4. \A r \in Records : told'[r] # "staged"
    BY Zenon, <2>1 DEF RoundsInv
  <2>5. \A r, s \in Records : r < s /\ told'[s] # "new" => told'[r] # "new"
    BY Zenon, <2>1 DEF RoundsInv
  <2> QED
    BY Zenon, <2>1, <2>2, <2>3, <2>4, <2>5 DEF RoundsInv, Running, Ascending

(* The end of a process, by Close, by a crash or by a refusal: no record is  *)
(* left staged.                                                              *)
<1>EndRounds.
  ASSUME RoundsInv, NoProcess, phase' \in {"down", "refused"},
         told' \in [Records -> Answers],
         \A r \in Records : told'[r] # "staged" /\ (told'[r] = "new" <=> told[r] = "new")
  PROVE  RoundsInv'
  <2> USE <1>EndRounds
  <2>1. /\ inflight' = <<>> /\ pending' = <<>> /\ cpc' = "idle" /\ broken' = FALSE /\ trim' = FALSE
    BY Zenon DEF NoProcess
  <2>2. Range(inflight') = {} /\ DOMAIN inflight' = {} /\ Range(pending') = {} /\ DOMAIN pending' = {}
    BY <2>1 DEF Range
  <2>3. RoundsType'
    <3>1. inflight' \in Seq(Records) /\ pending' \in Seq(Records)
      BY <2>1
    <3>2. phase' \in Phases /\ cpc' \in Steps /\ broken' \in BOOLEAN /\ trim' \in BOOLEAN
      BY Zenon, <2>1 DEF Steps, Phases
    <3> QED
      BY Zenon, <3>1, <3>2 DEF RoundsType
  <2> QED
    BY Zenon, <2>1, <2>2, <2>3 DEF RoundsInv, Running, Ascending

(* Every other step of the committer goes on with the round. *)
<1>OnRounds.
  ASSUME RoundsInv, cpc # "idle", cpc' \in Steps \ {"idle"},
         UNCHANGED <<told, pending, inflight, phase, broken, trim>>
  PROVE  RoundsInv'
  BY Zenon, <1>OnRounds DEF RoundsInv, RoundsType, Running, Ascending

(* Outside the committer the rounds rest while the phase changes. *)
<1>PhaseRounds.
  ASSUME RoundsInv, UNCHANGED <<told, pending, inflight, broken, cpc>>,
         phase' \in Phases, Running => Running', trim' \in BOOLEAN,
         trim' => phase' \in {"up", "trim"}
  PROVE  RoundsInv'
  BY Zenon, <1>PhaseRounds DEF RoundsInv, RoundsType, Running, Ascending

<1> SUFFICES ASSUME RoundsInv, [Next]_vars PROVE RoundsInv'
  BY Zenon
<1>1. CASE UNCHANGED vars
  <2>1. /\ UNCHANGED <<told, pending, inflight, broken, cpc>>
        /\ phase' \in Phases /\ (Running => Running') /\ trim' \in BOOLEAN
        /\ trim' => phase' \in {"up", "trim"}
    BY Zenon, <1>1 DEF vars, memory, rounds, reader, ghost, Phases, Running, RoundsInv, RoundsType
  <2> QED
    BY Zenon, <2>1, <1>PhaseRounds
<1>2. CASE \E n \in 1..2 : Stage(n)
  BY Zenon, <1>2, <1>StageRounds
<1>3. CASE \E n \in 1..2 : StageReserveFails(n)
  <2>1. /\ UNCHANGED <<told, pending, inflight, broken, cpc>>
        /\ phase' \in Phases /\ (Running => Running') /\ trim' \in BOOLEAN
        /\ trim' => phase' \in {"up", "trim"}
    BY Zenon, <1>3 DEF StageReserveFails, memory, rounds, reader, ghost, Phases, Running, RoundsInv, RoundsType
  <2> QED
    BY Zenon, <2>1, <1>PhaseRounds
<1>4. CASE CommitTake
  BY Zenon, <1>4, <1>TakeRounds
<1>5. CASE \/ RotateCreate \/ RotateSync \/ Write \/ RotateCreateFails \/ RotateSyncFails
           \/ RotateCloseFails \/ WriteFails \/ SyncFails
  <2>1. /\ cpc # "idle" /\ cpc' \in Steps \ {"idle"}
        /\ UNCHANGED <<told, pending, inflight, phase, broken, trim>>
    BY Zenon, <1>5 DEF RotateCreate, RotateSync, Write, RotateCreateFails, RotateSyncFails,
                RotateCloseFails, WriteFails, SyncFails, Steps, rounds, reader, ghost
  <2> QED
    BY Zenon, <2>1, <1>OnRounds
<1>6. CASE Commit
  BY Zenon, <1>6, <1>CommitRounds
<1>7. CASE Rollback
  BY Zenon, <1>7, <1>FailRounds DEF Rollback, reader, RoundsInv, RoundsType
<1>8. CASE RollbackFails
  BY Zenon, <1>8, <1>FailRounds DEF RollbackFails, reader
<1>9. CASE CloseBegin
  <2>1. /\ UNCHANGED <<told, pending, inflight, broken, cpc>>
        /\ phase' \in Phases /\ (Running => Running') /\ trim' \in BOOLEAN
        /\ trim' => phase' \in {"up", "trim"}
    BY Zenon, <1>9 DEF CloseBegin, memory, rounds, reader, ghost, Phases, Running, RoundsInv, RoundsType
  <2> QED
    BY Zenon, <2>1, <1>PhaseRounds
<1>10. CASE \E r, s \in BOOLEAN : CloseEnd(r, s)
  <2>1. /\ NoProcess /\ phase' = "down" /\ told' = told
        /\ cpc = "idle" /\ pending = <<>>
    BY Zenon, <1>10 DEF CloseEnd, ghost
  <2>2. told \in [Records -> Answers]
    BY Zenon DEF RoundsInv, RoundsType
  <2>3. \A r \in Records : told[r] # "staged"
    BY <2>1 DEF RoundsInv, Range
  <2> QED
    BY Zenon, <2>1, <2>2, <2>3, <1>EndRounds
<1>11. CASE \E kind \in {"process", "machine"} : Crash(kind)
  <2>1. PICK S \in SUBSET Records :
          /\ told' = [r \in Records |-> IF r \in S THEN "lost" ELSE told[r]]
          /\ \A r \in S : told[r] \in {"staged", "ok"}
          /\ \A r \in Records : told[r] = "staged" => r \in S
    <3> PICK kind \in {"process", "machine"} : Crash(kind)
      BY Zenon, <1>11
    <3> WITNESS {r \in Records : \/ told[r] = "staged"
                                 \/ told[r] = "ok" /\ syncNever /\ kind = "machine"}
                \in SUBSET Records
    <3> QED
      BY Zenon DEF Crash, Tell
  <2>2. NoProcess /\ phase' = "down"
    BY Zenon, <1>11 DEF Crash
  <2>3. told' \in [Records -> Answers]
    BY Zenon, <2>1 DEF RoundsInv, RoundsType, Answers
  <2>4. \A r \in Records : told'[r] # "staged" /\ (told'[r] = "new" <=> told[r] = "new")
    BY Zenon, <2>1
  <2> QED
    BY Zenon, <2>2, <2>3, <2>4, <1>EndRounds
<1>12. CASE Deliver \/ Persist
  <2>1. /\ UNCHANGED <<told, pending, inflight, broken, cpc>>
        /\ phase' \in Phases /\ (Running => Running') /\ trim' \in BOOLEAN
        /\ trim' => phase' \in {"up", "trim"}
    BY Zenon, <1>12 DEF Deliver, Persist, memory, rounds, reader, ghost, Phases, Running, RoundsInv, RoundsType
  <2> QED
    BY Zenon, <2>1, <1>PhaseRounds
<1>13. CASE TruncateOne \/ Vanish
  <2>1. /\ UNCHANGED <<told, pending, inflight, broken, cpc>>
        /\ phase' \in Phases /\ (Running => Running') /\ trim' \in BOOLEAN
        /\ trim' => phase' \in {"up", "trim"}
    BY <1>13 DEF TruncateOne, Vanish, memory, rounds, reader, ghost, Phases, Running, RoundsInv, RoundsType
  <2> QED
    BY Zenon, <2>1, <1>PhaseRounds
<1>14. CASE TruncateDone
  <2>1. /\ UNCHANGED <<told, pending, inflight, broken, cpc>>
        /\ phase' \in Phases /\ (Running => Running') /\ trim' \in BOOLEAN
        /\ trim' => phase' \in {"up", "trim"}
    BY Zenon, <1>14 DEF TruncateDone, memory, rounds, reader, ghost, Phases, Running, RoundsInv, RoundsType
  <2> QED
    BY Zenon, <2>1, <1>PhaseRounds
<1>15. CASE OpenScan \/ OpenAttach \/ OpenRefuses
  <2>1. /\ UNCHANGED <<told, pending, inflight, broken, cpc>>
        /\ phase' \in Phases /\ (Running => Running') /\ trim' \in BOOLEAN
        /\ trim' => phase' \in {"up", "trim"}
    BY <1>15 DEF OpenScan, OpenAttach, OpenRefuses,
               memory, rounds, reader, ghost, Phases, Running, RoundsInv, RoundsType
  <2> QED
    BY Zenon, <2>1, <1>PhaseRounds
<1>16. CASE Reconcile
  <2>1. /\ UNCHANGED <<told, pending, inflight, broken, cpc>>
        /\ phase' \in Phases /\ (Running => Running') /\ trim' \in BOOLEAN
        /\ trim' => phase' \in {"up", "trim"}
    BY Zenon, <1>16 DEF Reconcile, memory, rounds, reader, ghost, Phases, Running, RoundsInv, RoundsType
  <2> QED
    BY Zenon, <2>1, <1>PhaseRounds
<1>17. CASE ReconcileRefuses
  <2>1. NoProcess /\ phase' = "refused" /\ told' = told /\ phase = "reconcile"
    BY Zenon, <1>17 DEF ReconcileRefuses, ghost
  <2>2. told \in [Records -> Answers]
    BY Zenon DEF RoundsInv, RoundsType
  <2>3. \A r \in Records : told[r] # "staged"
    BY <2>1 DEF RoundsInv, Range, Running
  <2> QED
    BY Zenon, <2>1, <2>2, <2>3, <1>EndRounds
<1> QED
  BY Zenon, <1>1, <1>2, <1>3, <1>4, <1>5, <1>6, <1>7, <1>8, <1>9, <1>10, <1>11, <1>12, <1>13, <1>14,
     <1>15, <1>16, <1>17 DEF Next, Committer, Faulty, Open

(* The bookkeeping of the rounds is invariant. *)
LEMMA RoundsInvariance == Spec => []RoundsInv
BY RoundsInit, RoundsNext, PTL DEF Spec

(* Every staged write is in a round that commit() will answer: what a        *)
(* failed round leaves staged behind it fails with it.                       *)
THEOREM NoWriteIsForgotten == Spec => []StagedHeld
<1>1. RoundsInv => StagedHeld
  <2> SUFFICES ASSUME RoundsInv, Running, NEW r \in Records, told[r] = "staged"
               PROVE  \/ r \in Range(inflight) /\ cpc # "idle"
                      \/ r \in Range(pending) /\ ~broken
    BY Zenon DEF StagedHeld
  <2>1. r \in Range(inflight) \/ r \in Range(pending)
    BY Zenon DEF RoundsInv
  <2> QED
    BY <2>1 DEF RoundsInv, Range
<1> QED
  BY <1>1, RoundsInvariance, PTL


-----------------------------------------------------------------------------
(* The files, the list of segments and the numbers. *)

(* The active segment of a log that is open. *)
LEMMA ActiveFacts ==
  ASSUME DiskInv, Loaded, segs # <<>>
  PROVE  /\ Len(segs) \in Nat \ {0} /\ Len(segs) \in DOMAIN segs /\ DOMAIN segs = 1..Len(segs)
         /\ active \in Segment /\ NameOf(active) \in DOMAIN files
         /\ files[NameOf(active)] \in [cache : Content, stable : Content]
         /\ active.count <= Len(CacheOf(active)) /\ Len(CacheOf(active)) \in Nat
         /\ active.prev < active.base /\ LastLSN(active) \in Nat /\ active.base <= LastLSN(active) + 1
         /\ \A i \in DOMAIN segs :
              /\ segs[i] \in Segment /\ NameOf(segs[i]) \in DOMAIN files
              /\ segs[i].prev < segs[i].base /\ segs[i].base <= active.base
              /\ LastLSN(segs[i]) \in Nat /\ LastLSN(segs[i]) <= LastLSN(active)
              /\ i # Len(segs) => segs[i].base < active.base /\ NameOf(segs[i]) # NameOf(active)
<1>1. Disk /\ Chain
  BY Zenon DEF DiskInv
<1>2. segs \in Seq(Segment)
  BY Zenon, <1>1 DEF Chain
<1>3. Len(segs) \in Nat \ {0} /\ Len(segs) \in DOMAIN segs /\ DOMAIN segs = 1..Len(segs)
  BY <1>2
<1>4. active \in Segment
  BY <1>2, <1>3 DEF active
<1>5. \A i \in DOMAIN segs :
        /\ segs[i] \in Segment /\ NameOf(segs[i]) \in DOMAIN files
        /\ segs[i].prev < segs[i].base
        /\ segs[i].base \in Nat /\ segs[i].prev \in Nat /\ segs[i].count \in Nat
  <2> TAKE i \in DOMAIN segs
  <2>1. segs[i] \in Segment /\ NameOf(segs[i]) \in DOMAIN files
    BY <1>1, <1>2 DEF Chain
  <2>2. NameOf(segs[i])[2] < NameOf(segs[i])[1]
    BY Zenon, <1>1, <2>1 DEF Disk
  <2> QED
    BY Zenon, <2>1, <2>2 DEF NameOf, Segment
<1>6. \A i \in DOMAIN segs : LastLSN(segs[i]) \in Nat /\ segs[i].base <= LastLSN(segs[i]) + 1
  BY <1>5 DEF LastLSN
<1>7. /\ NameOf(active) \in DOMAIN files /\ active.count <= Len(CacheOf(active))
      /\ active.prev < active.base /\ LastLSN(active) \in Nat /\ active.base <= LastLSN(active) + 1
  BY Zenon, <1>1, <1>3, <1>5, <1>6 DEF active, Chain
<1>8. files[NameOf(active)] \in [cache : Content, stable : Content]
  BY Zenon, <1>1, <1>7 DEF Disk
<1>9. Len(CacheOf(active)) \in Nat
  BY <1>8 DEF CacheOf, Content
<1>10. \A i \in DOMAIN segs : i # Len(segs) =>
         /\ segs[i].base < active.base /\ NameOf(segs[i]) # NameOf(active)
         /\ LastLSN(segs[i]) <= LastLSN(active)
  <2> SUFFICES ASSUME NEW i \in DOMAIN segs, i # Len(segs)
               PROVE  /\ segs[i].base < active.base /\ NameOf(segs[i]) # NameOf(active)
                      /\ LastLSN(segs[i]) <= LastLSN(active)
    BY Zenon
  <2>1. i < Len(segs)
    BY <1>3
  <2>2. segs[i].base < active.base /\ LastLSN(segs[i]) <= active.prev
    BY Zenon, <1>1, <1>3, <2>1 DEF Chain, active
  <2>3. LastLSN(segs[i]) <= LastLSN(active)
    BY <1>4, <1>6, <1>7, <2>2 DEF Segment
  <2>4. segs[i].base # active.base
    BY <1>4, <1>5, <2>2 DEF Segment
  <2> QED
    BY Zenon, <2>2, <2>3, <2>4 DEF NameOf
<1>11. \A i \in DOMAIN segs : segs[i].base <= active.base /\ LastLSN(segs[i]) <= LastLSN(active)
  <2> TAKE i \in DOMAIN segs
  <2>1. CASE i = Len(segs)
    BY <1>4, <1>7, <2>1 DEF active, Segment
  <2>2. CASE i # Len(segs)
    BY <1>4, <1>5, <1>10, <2>2 DEF Segment
  <2> QED
    BY Zenon, <2>1, <2>2
<1> QED
  BY Zenon, <1>3, <1>4, <1>5, <1>6, <1>7, <1>8, <1>9, <1>10, <1>11

(* A reservation covers what was asked for. *)
LEMMA ReservationFacts ==
  ASSUME NumbersType, NEW n \in 1..2
  PROVE  Reservation(n) \in Nat /\ Reservation(n) >= nextLSN + n - 1
<1>1. ReserveBlock \in Nat \ {0} /\ nextLSN \in Nat
  BY Zenon, LogAssumption DEF NumbersType
<1>2. PICK a \in Nat, b \in Nat : a = nextLSN + n - 1 /\ b = nextLSN + ReserveBlock - 1
  BY <1>1
<1>3. Max({a, b}) \in {a, b} /\ Max({a, b}) >= a
  BY DEF Max
<1> QED
  BY Zenon, <1>2, <1>3 DEF Reservation

(* No process: only the files are left. *)
LEMMA EndDisk ==
  ASSUME NoProcess, phase' \in {"down", "refused"}, reservedFile' \in Nat, Disk'
  PROVE  DiskInv'
BY Zenon DEF NoProcess, DiskInv, NumbersType, Loaded, Ready


-----------------------------------------------------------------------------
(* What the committer does to the file of the active segment has the form    *)
(* of a file again.                                                          *)
LEMMA ContentFacts ==
  ASSUME RoundsInv, DiskInv, Ready
  PROVE  LET f == files[NameOf(active)]
         IN  /\ f.cache \in Content /\ f.stable \in Content
             /\ \A k \in 0..Len(inflight), torn \in BOOLEAN :
                  /\ Appended(k, torn) \in Content
                  /\ Len(Appended(k, torn).recs) = Len(f.cache.recs) + k
             /\ CutBack \in Content /\ Len(CutBack.recs) = active.count
             /\ \A i \in 1..active.count : CutBack.recs[i] = f.cache.recs[i]
<1> DEFINE f == files[NameOf(active)]
<1>1. Loaded /\ segs # <<>>
  BY Zenon DEF DiskInv, Ready, Loaded, Numbers
<1>2. /\ f \in [cache : Content, stable : Content] /\ active \in Segment
      /\ active.count <= Len(f.cache.recs)
  BY Zenon, <1>1, ActiveFacts DEF CacheOf
<1>3. /\ f.cache \in Content /\ f.stable \in Content /\ f.cache.recs \in Seq(Records)
      /\ active.count \in Nat
  BY Zenon, <1>2 DEF Content, Segment
<1>4. inflight \in Seq(Records)
  BY Zenon DEF RoundsInv, RoundsType
<1>5. ASSUME NEW k \in 0..Len(inflight), NEW torn \in BOOLEAN
      PROVE  Appended(k, torn) \in Content /\ Len(Appended(k, torn).recs) = Len(f.cache.recs) + k
  <2>1. SubSeq(inflight, 1, k) \in Seq(Records) /\ Len(SubSeq(inflight, 1, k)) = k
    BY <1>4
  <2>2. PICK a \in Seq(Records) : a = SubSeq(inflight, 1, k)
    BY Zenon, <2>1
  <2>3. f.cache.recs \o a \in Seq(Records) /\ Len(f.cache.recs \o a) = Len(f.cache.recs) + Len(a)
    BY <1>3
  <2> QED
    BY Zenon, <2>1, <2>2, <2>3 DEF Appended, Content
<1>6. /\ CutBack \in Content /\ Len(CutBack.recs) = active.count
      /\ \A i \in 1..active.count : CutBack.recs[i] = f.cache.recs[i]
  <2> DEFINE r == SubSeq(f.cache.recs, 1, active.count)
  <2>1. r \in Seq(Records) /\ Len(r) = active.count /\ \A i \in 1..active.count : r[i] = f.cache.recs[i]
    BY <1>2, <1>3
  <2>2. CutBack = [recs |-> r, torn |-> FALSE]
    BY Zenon DEF CutBack
  <2> HIDE DEF r
  <2> QED
    BY Zenon, <2>1, <2>2 DEF Content
<1> QED
  BY Zenon, <1>3, <1>5, <1>6


(* What a crash leaves of a file is part of what was in it: what both the    *)
(* cache and the disk held is still there, and nothing is new.               *)
LEMMA SurvivorFacts ==
  ASSUME NEW f \in [cache : Content, stable : Content], NEW c \in Survivors(f)
  PROVE  /\ c \in Content
         /\ \A i \in DOMAIN c.recs : \/ i \in DOMAIN f.cache.recs /\ c.recs[i] = f.cache.recs[i]
                                     \/ i \in DOMAIN f.stable.recs /\ c.recs[i] = f.stable.recs[i]
         /\ \A i \in DOMAIN f.cache.recs :
              i \in DOMAIN f.stable.recs /\ f.stable.recs[i] = f.cache.recs[i] =>
                i \in DOMAIN c.recs /\ c.recs[i] = f.cache.recs[i]
         /\ \A k \in Nat : k <= Len(f.cache.recs) /\ k <= Len(f.stable.recs) => k <= Len(c.recs)
         /\ f.cache.recs = f.stable.recs => c \in {f.cache, f.stable}
<1>1. /\ f.cache \in Content /\ f.stable \in Content
      /\ f.cache.recs \in Seq(Records) /\ f.stable.recs \in Seq(Records)
  BY Zenon DEF Content
<1>2. CASE c \in {f.stable, f.cache}
  BY Zenon, <1>1, <1>2
<1>3. CASE c \notin {f.stable, f.cache}
  <2>1. PICK k \in Len(f.stable.recs)..(Len(f.cache.recs) - 1), t \in BOOLEAN :
          c = [recs |-> SubSeq(f.cache.recs, 1, k), torn |-> t]
    BY <1>3 DEF Survivors
  <2>2. k \in Nat /\ k < Len(f.cache.recs) /\ Len(f.stable.recs) <= k
    BY <1>1, <2>1
  <2> DEFINE r == SubSeq(f.cache.recs, 1, k)
  <2>3. r \in Seq(Records) /\ Len(r) = k /\ \A i \in 1..k : r[i] = f.cache.recs[i]
    BY <1>1, <2>2
  <2>4. c.recs = r /\ c \in Content
    BY Zenon, <2>1, <2>3 DEF Content
  <2> HIDE DEF r
  <2>5. DOMAIN r = 1..k /\ DOMAIN f.cache.recs = 1..Len(f.cache.recs)
        /\ DOMAIN f.stable.recs = 1..Len(f.stable.recs)
    BY <1>1, <2>3
  <2>6. f.cache.recs # f.stable.recs
    BY <1>1, <2>2
  <2> QED
    BY <1>1, <2>2, <2>3, <2>4, <2>5, <2>6
<1> QED
  BY Zenon, <1>2, <1>3

(* writeBatch appends the round, or the part of it that a failed write left. *)
LEMMA WriteFacts ==
  ASSUME RoundsInv, Write \/ WriteFails
  PROVE  \E k \in 0..Len(inflight), torn \in BOOLEAN :
           /\ cpc = "write"
           /\ files' = WithFile(NameOf(active), Appended(k, torn), files[NameOf(active)].stable)
           /\ cpc' \in {"sync", "rollback"} /\ (cpc' = "sync" => k = Len(inflight))
           /\ UNCHANGED <<reservedFile, phase, segs, nextLSN, reserved, broken, pending, pendingMin,
                          inflight, first, told, seen, checkpoint, mark, lastCP, trim, durable,
                          cached>>
           /\ cpc' = "sync" => torn = FALSE
<1>1. Len(inflight) \in Nat
  BY DEF RoundsInv, RoundsType
<1>2. CASE Write
  <2>1. PICK k \in 0..Len(inflight) : k = Len(inflight)
    BY <1>1
  <2> QED
    BY Zenon, <1>2, <2>1 DEF Write, rounds, reader, ghost, bounds
<1>3. CASE WriteFails
  <2>1. PICK k \in 0..(Len(inflight) - 1), torn \in BOOLEAN :
          files' = WithFile(NameOf(active), Appended(k, torn), files[NameOf(active)].stable)
    BY Zenon, <1>3 DEF WriteFails
  <2>2. k \in 0..Len(inflight)
    BY <1>1
  <2> QED
    BY Zenon, <1>3, <2>1, <2>2 DEF WriteFails, rounds, reader, ghost
<1> QED
  BY Zenon, <1>2, <1>3

(* The round is published: the last LSN grows by its length. *)
LEMMA CommitDisk ==
  ASSUME RoundsInv, DiskInv, Commit
  PROVE  /\ DiskInv'
         /\ LastLSN(active)' = LastLSN(active) + Len(inflight)
         /\ NameOf(active)' = NameOf(active) /\ active'.count = active.count + Len(inflight)
         /\ Len(segs') = Len(segs) /\ \A i \in DOMAIN segs : i # Len(segs) => segs'[i] = segs[i]
         /\ \A n \in DOMAIN files : files'[n].cache = files[n].cache
<1> DEFINE f == files[NameOf(active)]
           s == IF syncNever THEN f.stable ELSE f.cache
<1>1. /\ cpc = "sync" /\ inflight' = <<>> /\ first' = 0 /\ cpc' = "idle"
      /\ files' = WithFile(NameOf(active), f.cache, s)
      /\ segs' = [segs EXCEPT ![Len(segs)].count = @ + Len(inflight)]
      /\ UNCHANGED <<reservedFile, phase, nextLSN, reserved, broken, pending, pendingMin>>
  BY Zenon DEF Commit
<1>2. Running /\ Ready /\ Loaded
  BY Zenon, <1>1 DEF RoundsInv, Running, Ready, Loaded
<1>3. /\ NumbersType /\ Chain /\ Numbers /\ Progress /\ Disk
  BY Zenon, <1>2 DEF DiskInv
<1>4. /\ Len(segs) \in Nat \ {0} /\ Len(segs) \in DOMAIN segs /\ DOMAIN segs = 1..Len(segs)
      /\ active \in Segment /\ active = segs[Len(segs)] /\ NameOf(active) \in DOMAIN files
      /\ f \in [cache : Content, stable : Content]
      /\ LastLSN(active) \in Nat
      /\ \A i \in DOMAIN segs : segs[i] \in Segment
      /\ \A i \in DOMAIN segs : i # Len(segs) => NameOf(segs[i]) # NameOf(active)
  BY Zenon, <1>2, <1>3, ActiveFacts DEF Numbers, active
<1>5. Len(inflight) \in Nat /\ Len(CacheOf(active)) = active.count + Len(inflight)
  BY <1>1, <1>3 DEF RoundsInv, RoundsType, Progress
<1>6. PICK a \in Segment : /\ a.base = active.base /\ a.prev = active.prev
                           /\ a.count = active.count + Len(inflight)
                           /\ segs' = [segs EXCEPT ![Len(segs)] = a]
  <2> DEFINE a == [base |-> active.base, prev |-> active.prev,
                   count |-> active.count + Len(inflight)]
  <2>1. a \in Segment
    BY <1>4, <1>5 DEF Segment
  <2>2. segs' = [segs EXCEPT ![Len(segs)] = a]
    <3>1. [segs[Len(segs)] EXCEPT !.count = @ + Len(inflight)] = a
      BY <1>4 DEF Segment
    <3> QED
      BY Zenon, <1>1, <3>1
  <2> QED
    BY Zenon, <2>1, <2>2
<1>7. segs \in Seq(Segment)
  BY Zenon, <1>3 DEF Chain
<1>8. /\ segs' \in Seq(Segment) /\ Len(segs') = Len(segs) /\ DOMAIN segs' = DOMAIN segs
      /\ segs'[Len(segs)] = a /\ \A i \in DOMAIN segs : i # Len(segs) => segs'[i] = segs[i]
  BY <1>4, <1>6, <1>7
<1>9. active' = a /\ NameOf(a) = NameOf(active) /\ LastLSN(a) = LastLSN(active) + Len(inflight)
  BY <1>4, <1>5, <1>6, <1>8 DEF active, NameOf, LastLSN, Segment
<1>10. /\ f.cache \in Content /\ s \in Content
  BY Zenon, <1>4
<1>11. /\ DOMAIN files' = DOMAIN files
       /\ files'[NameOf(active)] = [cache |-> f.cache, stable |-> s]
       /\ \A n \in DOMAIN files : n # NameOf(active) => files'[n] = files[n]
  BY Zenon, <1>1, <1>4 DEF WithFile
<1>12. \A n \in DOMAIN files : files'[n].cache = files[n].cache
  BY <1>11
<1> HIDE DEF s
<1>13. Disk'
  <2>1. [cache |-> f.cache, stable |-> s] \in [cache : Content, stable : Content]
    BY Zenon, <1>10
  <2> QED
    BY Zenon, <1>3, <1>11, <2>1 DEF Disk
<1>14. \A i \in DOMAIN segs : /\ NameOf(segs'[i]) = NameOf(segs[i]) /\ segs'[i].base = segs[i].base
                              /\ segs'[i].prev = segs[i].prev
  BY Zenon, <1>4, <1>6, <1>8, <1>9
<1>15. \A i \in DOMAIN segs : CacheOf(segs[i])' = CacheOf(segs[i])
  <2> TAKE i \in DOMAIN segs
  <2>1. NameOf(segs[i]) \in DOMAIN files
    BY Zenon, <1>3 DEF Chain
  <2> QED
    BY Zenon, <1>12, <1>14, <2>1 DEF CacheOf
<1>16. Chain'
  <2>1. \A i \in DOMAIN segs' : /\ NameOf(segs'[i]) \in DOMAIN files'
                                /\ segs'[i].count <= Len(CacheOf(segs[i])')
                                /\ i < Len(segs') => segs'[i].count = Len(CacheOf(segs[i])')
    <3> TAKE i \in DOMAIN segs'
    <3>0. i \in DOMAIN segs
      BY Zenon, <1>8
    <3>1. CASE i = Len(segs)
      <4>1. segs'[i] = a /\ CacheOf(segs[i])' = CacheOf(active)
        BY Zenon, <1>4, <1>8, <1>15, <3>0, <3>1
      <4>2. a.count = Len(CacheOf(segs[i])') /\ a.count \in Nat
        BY Zenon, <1>5, <1>6, <4>1 DEF Segment
      <4>3. a.count <= Len(CacheOf(segs[i])')
        BY <4>2
      <4> QED
        BY Zenon, <1>4, <1>9, <1>11, <4>1, <4>2, <4>3
    <3>2. CASE i # Len(segs)
      <4>1. /\ NameOf(segs[i]) \in DOMAIN files /\ segs[i].count <= Len(CacheOf(segs[i]))
            /\ i < Len(segs) => segs[i].count = Len(CacheOf(segs[i]))
        BY Zenon, <1>3, <3>0 DEF Chain
      <4> QED
        BY Zenon, <1>8, <1>11, <1>15, <3>0, <3>2, <4>1
    <3> QED
      BY Zenon, <3>1, <3>2
  <2>2. \A i, j \in DOMAIN segs' : i < j => /\ segs'[i].base < segs'[j].base
                                            /\ LastLSN(segs'[i]) <= segs'[j].prev
    <3> SUFFICES ASSUME NEW i \in DOMAIN segs, NEW j \in DOMAIN segs, i < j
                 PROVE  segs'[i].base < segs'[j].base /\ LastLSN(segs'[i]) <= segs'[j].prev
      BY Zenon, <1>8
    <3>1. i # Len(segs)
      BY <1>4
    <3> QED
      BY Zenon, <1>3, <1>8, <1>14, <3>1 DEF Chain
  <2>3. \A i \in DOMAIN segs' : i > 1 => segs'[i].prev = LastLSN(segs'[i - 1])
    <3> SUFFICES ASSUME NEW i \in DOMAIN segs, i > 1
                 PROVE  segs'[i].prev = LastLSN(segs'[i - 1])
      BY Zenon, <1>8
    <3>1. i - 1 \in DOMAIN segs /\ i - 1 # Len(segs)
      BY <1>4
    <3> QED
      BY Zenon, <1>3, <1>8, <1>14, <3>1 DEF Chain
  <2> QED
    BY Zenon, <1>8, <2>1, <2>2, <2>3 DEF Chain, CacheOf
<1>17. Covered'
  <2> SUFFICES ASSUME NEW n \in DOMAIN files
               PROVE  (\E i \in DOMAIN segs' : n = NameOf(segs'[i])) \/ Leftover(n)'
    BY Zenon, <1>11 DEF Covered
  <2>1. CASE n = NameOf(active)
    BY Zenon, <1>4, <1>8, <1>9, <2>1
  <2>2. CASE n # NameOf(active) /\ \E i \in DOMAIN segs : n = NameOf(segs[i])
    BY Zenon, <1>8, <1>14, <2>2
  <2>3. CASE n # NameOf(active) /\ Leftover(n)
    <3>1. n \in Nat \X Nat
      BY Zenon, <1>3 DEF Disk
    <3>2. n[1] - 1 <= LastLSN(active') /\ n[1] \in Nat
      BY <1>4, <1>5, <1>9, <2>3, <3>1 DEF Leftover
    <3>3. \A i \in DOMAIN segs' : n[1] < segs'[i].base => n[1] - 1 <= segs'[i].prev
      BY Zenon, <1>8, <1>14, <2>3 DEF Leftover
    <3> QED
      BY Zenon, <1>11, <2>3, <3>2, <3>3 DEF Leftover
  <2> QED
    BY Zenon, <1>3, <2>1, <2>2, <2>3 DEF Numbers, Covered
<1>18. Len(inflight') = 0 /\ segs' # <<>> /\ Len(pending) \in Nat
  BY <1>1, <1>4, <1>8 DEF RoundsInv, RoundsType
<1>19. Numbers'
  BY <1>1, <1>3, <1>4, <1>5, <1>9, <1>17, <1>18 DEF Numbers
<1>20. CacheOf(active)' = CacheOf(active)
  BY Zenon, <1>4, <1>9, <1>12 DEF CacheOf
<1>21. Progress'
  BY Zenon, <1>1, <1>5, <1>6, <1>9, <1>20 DEF Progress
<1>22. NumbersType'
  BY Zenon, <1>1, <1>3 DEF NumbersType
<1> QED
  BY Zenon, <1>1, <1>2, <1>6, <1>8, <1>9, <1>12, <1>13, <1>16, <1>19, <1>21, <1>22 DEF DiskInv, Ready


-----------------------------------------------------------------------------
(* Rotation. *)

(* The number the next segment is to have is above every base in the list. *)
LEMMA NextSegmentFacts ==
  ASSUME RoundsInv, DiskInv, cpc \in {"create", "rotate"}
  PROVE  /\ Ready /\ Loaded /\ segs # <<>> /\ first \in Nat /\ first - 1 \in Nat
         /\ first - 1 = LastLSN(active) /\ NextSegment \in Nat \X Nat
         /\ \A i \in DOMAIN segs : /\ segs[i].base < first /\ NameOf(segs[i]) # NextSegment
                                   /\ NameOf(segs[i]) \in DOMAIN files
         /\ NameOf(active) # NextSegment
         /\ \A n \in DOMAIN files : n[1] = first => n = NextSegment
<1>1. Running /\ Ready /\ Loaded
  BY Zenon DEF RoundsInv, Running, Ready, Loaded
<1>2. /\ NumbersType /\ Chain /\ Numbers /\ Progress /\ Disk
  BY Zenon, <1>1 DEF DiskInv
<1>3. /\ segs # <<>> /\ active.count > 0 /\ first = LastLSN(active) + 1
  BY Zenon, <1>2 DEF Numbers, Progress
<1>4. /\ active \in Segment /\ LastLSN(active) \in Nat
      /\ \A i \in DOMAIN segs : /\ segs[i] \in Segment /\ segs[i].base <= active.base
                                /\ NameOf(segs[i]) \in DOMAIN files
      /\ Len(segs) \in DOMAIN segs
  BY Zenon, <1>1, <1>3, ActiveFacts
<1>5. active.base < first
  BY <1>3, <1>4 DEF LastLSN, Segment
<1>6. \A i \in DOMAIN segs : segs[i].base < first /\ NameOf(segs[i]) # NextSegment
  <2> TAKE i \in DOMAIN segs
  <2>1. segs[i].base < first
    BY SMTT(30), <1>3, <1>4, <1>5 DEF Segment
  <2>2. segs[i].base # first
    BY <1>3, <1>4, <2>1 DEF Segment
  <2> QED
    BY Zenon, <2>1, <2>2 DEF NameOf, NextSegment
<1>7. \A n \in DOMAIN files : n[1] = first => n = NextSegment
  <2> SUFFICES ASSUME NEW n \in DOMAIN files, n[1] = first PROVE n = NextSegment
    BY Zenon
  <2>1. n \in Nat \X Nat
    BY Zenon, <1>2 DEF Disk
  <2>2. ~ \E i \in DOMAIN segs : n = NameOf(segs[i])
    <3> SUFFICES ASSUME NEW i \in DOMAIN segs, n = NameOf(segs[i]) PROVE FALSE
      BY Zenon
    <3>1. segs[i].base = first
      BY Zenon DEF NameOf
    <3> QED
      BY <1>3, <1>4, <1>6, <3>1 DEF Segment
  <2>3. n[2] = first - 1
    BY Zenon, <1>2, <2>2 DEF Numbers, Covered, Leftover
  <2> QED
    BY <2>1, <2>3 DEF NextSegment
<1> QED
  BY <1>1, <1>3, <1>4, <1>6, <1>7 DEF NextSegment, active

(* A new segment, empty and above the others, at the end of the list. *)
LEMMA AppendChain ==
  ASSUME Chain, NEW a \in Segment, segs' = Append(segs, a), a.count = 0,
         NameOf(a) \in DOMAIN files', Len(files'[NameOf(a)].cache.recs) \in Nat,
         \A i \in DOMAIN segs :
           /\ NameOf(segs[i]) \in DOMAIN files'
           /\ files'[NameOf(segs[i])].cache.recs = CacheOf(segs[i])
           /\ segs[i].count = Len(CacheOf(segs[i]))
           /\ segs[i].base < a.base /\ LastLSN(segs[i]) <= a.prev,
         segs # <<>> => a.prev = LastLSN(active)
  PROVE  /\ Chain' /\ active' = a /\ Len(segs') = Len(segs) + 1 /\ DOMAIN segs' = 1..(Len(segs) + 1)
         /\ segs'[Len(segs) + 1] = a
         /\ DOMAIN segs \subseteq DOMAIN segs' /\ \A i \in DOMAIN segs : segs'[i] = segs[i]
<1>1. segs \in Seq(Segment) /\ Len(segs) \in Nat /\ DOMAIN segs = 1..Len(segs)
  BY DEF Chain
<1>2. /\ segs' \in Seq(Segment) /\ Len(segs') = Len(segs) + 1 /\ DOMAIN segs' = 1..(Len(segs) + 1)
      /\ segs'[Len(segs) + 1] = a /\ \A i \in DOMAIN segs : segs'[i] = segs[i]
  BY <1>1
<1>3. active' = a
  BY Zenon, <1>2 DEF active
<1>4. \A i \in DOMAIN segs' : /\ NameOf(segs'[i]) \in DOMAIN files'
                              /\ segs'[i].count <= Len(files'[NameOf(segs'[i])].cache.recs)
                              /\ i < Len(segs') =>
                                   segs'[i].count = Len(files'[NameOf(segs'[i])].cache.recs)
  <2> TAKE i \in DOMAIN segs'
  <2>1. CASE i = Len(segs) + 1
    BY <1>1, <1>2, <2>1
  <2>2. CASE i \in DOMAIN segs
    <3>1. segs[i].count \in Nat
      BY <1>1, <2>2 DEF Segment
    <3> QED
      BY <1>2, <2>2, <3>1
  <2> QED
    BY <1>1, <1>2, <2>1, <2>2
<1>5. \A i, j \in DOMAIN segs' : i < j => /\ segs'[i].base < segs'[j].base
                                          /\ LastLSN(segs'[i]) <= segs'[j].prev
  <2> SUFFICES ASSUME NEW i \in DOMAIN segs', NEW j \in DOMAIN segs', i < j
               PROVE  segs'[i].base < segs'[j].base /\ LastLSN(segs'[i]) <= segs'[j].prev
    BY Zenon
  <2>1. i \in DOMAIN segs
    BY <1>1, <1>2
  <2>2. CASE j = Len(segs) + 1
    BY Zenon, <1>2, <2>1, <2>2
  <2>3. CASE j \in DOMAIN segs
    BY Zenon, <1>2, <2>1, <2>3 DEF Chain
  <2> QED
    BY <1>1, <1>2, <2>2, <2>3
<1>6. \A i \in DOMAIN segs' : i > 1 => segs'[i].prev = LastLSN(segs'[i - 1])
  <2> SUFFICES ASSUME NEW i \in DOMAIN segs', i > 1
               PROVE  segs'[i].prev = LastLSN(segs'[i - 1])
    BY Zenon
  <2>1. i - 1 \in DOMAIN segs
    BY <1>1, <1>2
  <2>2. CASE i = Len(segs) + 1
    <3>1. segs # <<>> /\ i - 1 = Len(segs)
      BY <1>1, <2>1, <2>2
    <3> QED
      BY Zenon, <1>2, <2>1, <2>2, <3>1 DEF active
  <2>3. CASE i \in DOMAIN segs
    BY Zenon, <1>2, <2>1, <2>3 DEF Chain
  <2> QED
    BY <1>1, <1>2, <2>2, <2>3
<1>7. Chain'
  BY Zenon, <1>2, <1>4, <1>5, <1>6 DEF Chain, CacheOf
<1>8. DOMAIN segs \subseteq DOMAIN segs'
  BY SMTT(30), <1>1, <1>2
<1> QED
  BY Zenon, <1>2, <1>3, <1>7, <1>8

(* The old segment is forced and the new one becomes active. *)
LEMMA RotateDisk ==
  ASSUME RoundsInv, DiskInv, RotateSync
  PROVE  /\ DiskInv' /\ LastLSN(active)' = LastLSN(active)
         /\ \A i \in DOMAIN segs : i \in DOMAIN segs' /\ segs'[i] = segs[i]
         /\ DOMAIN segs' = DOMAIN segs \cup {Len(segs')}
         /\ DOMAIN files' = DOMAIN files
         /\ \A n \in DOMAIN files : files'[n].cache = files[n].cache
         /\ \A n \in DOMAIN files : files'[n].stable \in {files[n].cache, files[n].stable}
         /\ NameOf(active)' = NextSegment
<1> DEFINE f == files[NameOf(active)]
           a == [base |-> first, prev |-> first - 1, count |-> 0]
<1>1. /\ cpc = "rotate" /\ cpc' = "write"
      /\ files' = WithFile(NameOf(active), f.cache, f.cache)
      /\ segs' = Append(segs, a)
      /\ UNCHANGED <<reservedFile, phase, nextLSN, reserved, broken, pending, pendingMin,
                     inflight, first>>
  BY Zenon DEF RotateSync, rounds
<1>2. /\ Ready /\ Loaded /\ segs # <<>> /\ first \in Nat /\ first - 1 \in Nat
      /\ first - 1 = LastLSN(active) /\ NextSegment \in Nat \X Nat
      /\ \A i \in DOMAIN segs : /\ segs[i].base < first /\ NameOf(segs[i]) # NextSegment
                                /\ NameOf(segs[i]) \in DOMAIN files
      /\ NameOf(active) # NextSegment
      /\ \A n \in DOMAIN files : n[1] = first => n = NextSegment
  BY Zenon, <1>1, NextSegmentFacts
<1>3. /\ NumbersType /\ Chain /\ Numbers /\ Progress /\ Disk
  BY Zenon, <1>2 DEF DiskInv
<1>4. /\ NameOf(active) \in DOMAIN files /\ f \in [cache : Content, stable : Content]
      /\ active = segs[Len(segs)] /\ Len(segs) \in DOMAIN segs /\ DOMAIN segs = 1..Len(segs)
      /\ \A i \in DOMAIN segs : LastLSN(segs[i]) <= LastLSN(active)
      /\ Len(segs) \in Nat
  BY Zenon, <1>2, ActiveFacts DEF active
<1>5. ~broken /\ Len(CacheOf(active)) = active.count /\ NextSegment \in DOMAIN files
      /\ files[NextSegment].cache.recs = <<>>
  BY Zenon, <1>1, <1>3 DEF RoundsInv, RoundsType, Progress
<1>6. /\ DOMAIN files' = DOMAIN files
      /\ files'[NameOf(active)] = [cache |-> f.cache, stable |-> f.cache]
      /\ \A n \in DOMAIN files : n # NameOf(active) => files'[n] = files[n]
  BY Zenon, <1>1, <1>4 DEF WithFile
<1>7. /\ \A n \in DOMAIN files : files'[n].cache = files[n].cache
      /\ \A n \in DOMAIN files : files'[n].stable \in {files[n].cache, files[n].stable}
  BY <1>6
<1>8. Disk'
  <2>1. [cache |-> f.cache, stable |-> f.cache] \in [cache : Content, stable : Content]
    BY Zenon, <1>4
  <2> QED
    BY Zenon, <1>3, <1>6, <2>1 DEF Disk
<1>9. a \in Segment /\ NameOf(a) = NextSegment /\ LastLSN(a) = first - 1 /\ a.count = 0
      /\ a.base = first /\ a.prev = first - 1
  BY <1>2 DEF Segment, NameOf, NextSegment, LastLSN
<1> HIDE DEF a
<1>10. \A i \in DOMAIN segs : segs[i].count = Len(CacheOf(segs[i]))
  <2> TAKE i \in DOMAIN segs
  <2>1. CASE i = Len(segs)
    BY Zenon, <1>4, <1>5, <2>1
  <2>2. CASE i # Len(segs)
    BY <1>3, <1>4, <2>2 DEF Chain
  <2> QED
    BY Zenon, <2>1, <2>2
<1>11. /\ Chain' /\ active' = a /\ Len(segs') = Len(segs) + 1 /\ DOMAIN segs' = 1..(Len(segs) + 1)
       /\ segs'[Len(segs) + 1] = a
       /\ DOMAIN segs \subseteq DOMAIN segs' /\ \A i \in DOMAIN segs : segs'[i] = segs[i]
  <2>1. NameOf(a) \in DOMAIN files' /\ Len(files'[NameOf(a)].cache.recs) \in Nat
    BY SMTT(30), <1>5, <1>6, <1>7, <1>9
  <2>2. \A i \in DOMAIN segs :
           /\ NameOf(segs[i]) \in DOMAIN files'
           /\ files'[NameOf(segs[i])].cache.recs = CacheOf(segs[i])
           /\ segs[i].count = Len(CacheOf(segs[i]))
           /\ segs[i].base < a.base /\ LastLSN(segs[i]) <= a.prev
    BY <1>2, <1>4, <1>6, <1>7, <1>9, <1>10 DEF CacheOf
  <2>3. a.prev = LastLSN(active)
    BY Zenon, <1>2, <1>9
  <2> QED
    BY Zenon, <1>1, <1>3, <1>9, <2>1, <2>2, <2>3, AppendChain
<1>12. Covered'
  <2> SUFFICES ASSUME NEW n \in DOMAIN files
               PROVE  (\E i \in DOMAIN segs' : n = NameOf(segs'[i])) \/ Leftover(n)'
    BY Zenon, <1>6 DEF Covered
  <2>1. CASE n = NextSegment
    <3>1. Len(segs) + 1 \in DOMAIN segs'
      BY <1>4, <1>11
    <3> QED
      BY Zenon, <1>9, <1>11, <2>1, <3>1
  <2>2. CASE \E i \in DOMAIN segs : n = NameOf(segs[i])
    BY Zenon, <1>11, <2>2
  <2>3. CASE n # NextSegment /\ ~(\E i \in DOMAIN segs : n = NameOf(segs[i])) /\ Leftover(n)
    <3>1. n # NameOf(active)
      BY Zenon, <1>4, <2>3
    <3>2. \A i \in DOMAIN segs' : n[1] < segs'[i].base => n[1] - 1 <= segs'[i].prev
      <4> TAKE i \in DOMAIN segs'
      <4>1. CASE i \in DOMAIN segs
        BY Zenon, <1>11, <2>3, <4>1 DEF Leftover
      <4>2. CASE i = Len(segs) + 1
        BY Zenon, <1>2, <1>9, <1>11, <2>3, <4>2 DEF Leftover
      <4> QED
        BY <1>4, <1>11, <4>1, <4>2
    <3>3. n[1] - 1 <= LastLSN(active')
      BY Zenon, <1>2, <1>9, <1>11, <2>3 DEF Leftover
    <3> QED
      BY Zenon, <1>6, <2>3, <3>1, <3>2, <3>3 DEF Leftover
  <2> QED
    BY Zenon, <1>3, <2>1, <2>2, <2>3 DEF Numbers, Covered
<1>13. LastLSN(active') = LastLSN(active)
  BY Zenon, <1>2, <1>9, <1>11
<1>14. Numbers'
  <2>1. segs' # <<>>
    BY <1>4, <1>11
  <2> QED
    BY Zenon, <1>1, <1>3, <1>12, <1>13, <2>1 DEF Numbers
<1>15. Progress'
  <2>1. CacheOf(active)' = <<>>
    BY Zenon, <1>5, <1>6, <1>7, <1>9, <1>11 DEF CacheOf
  <2> QED
    BY Zenon, <1>1, <1>9, <1>11, <2>1 DEF Progress
<1>16. NumbersType'
  BY Zenon, <1>1, <1>3 DEF NumbersType
<1>17. DiskInv'
  BY Zenon, <1>1, <1>2, <1>8, <1>11, <1>14, <1>15, <1>16 DEF DiskInv, Ready
<1> QED
  BY <1>4, <1>6, <1>7, <1>9, <1>11, <1>13, <1>17


(* Truncate removes the head segment, never the active one. *)
LEMMA TruncateDisk ==
  ASSUME RoundsInv, DiskInv, TruncateOne
  PROVE  /\ DiskInv' /\ Ready /\ active' = active /\ segs # <<>> /\ segs' # <<>>
         /\ NameOf(segs[1]) \in DOMAIN files /\ NameOf(segs[1]) # NameOf(active)
         /\ DOMAIN files' = DOMAIN files \ {NameOf(segs[1])}
         /\ \A n \in DOMAIN files' : files'[n] = files[n]
         /\ Len(segs') = Len(segs) - 1 /\ DOMAIN segs' = 1..(Len(segs) - 1)
         /\ \A i \in DOMAIN segs' : i + 1 \in DOMAIN segs /\ segs'[i] = segs[i + 1]
         /\ Len(segs) \in Nat /\ Len(segs) > 1
<1>1. /\ trim /\ Len(segs) > 1 /\ files' = Without(NameOf(segs[1])) /\ segs' = Tail(segs)
      /\ UNCHANGED <<reservedFile, phase, nextLSN, reserved, broken, pending, pendingMin, inflight,
                     first, cpc>>
  BY Zenon DEF TruncateOne, Doomed, rounds
<1>2. phase \in {"trim", "up"} /\ Ready /\ Loaded
  BY Zenon, <1>1 DEF RoundsInv, Ready, Loaded
<1>3. /\ NumbersType /\ Chain /\ Numbers /\ Progress /\ Disk
  BY Zenon, <1>2 DEF DiskInv
<1>4. segs \in Seq(Segment) /\ segs # <<>>
  BY Zenon, <1>3 DEF Chain, Numbers
<1>5. /\ Len(segs) \in Nat /\ DOMAIN segs = 1..Len(segs)
      /\ segs' \in Seq(Segment) /\ Len(segs') = Len(segs) - 1 /\ DOMAIN segs' = 1..(Len(segs) - 1)
      /\ \A i \in DOMAIN segs' : i + 1 \in DOMAIN segs /\ segs'[i] = segs[i + 1]
      /\ segs' # <<>>
  BY Zenon, <1>1, <1>4, Shortened
<1>6. active' = active
  BY <1>1, <1>5 DEF active
<1>7. \A i \in DOMAIN segs : i # 1 => NameOf(segs[i]) # NameOf(segs[1])
  <2> SUFFICES ASSUME NEW i \in DOMAIN segs, i # 1 PROVE NameOf(segs[i]) # NameOf(segs[1])
    BY Zenon
  <2>1. 1 \in DOMAIN segs /\ 1 < i
    BY <1>1, <1>5
  <2>2. segs[1].base < segs[i].base /\ segs[1] \in Segment /\ segs[i] \in Segment
    BY <1>3, <1>4, <2>1 DEF Chain
  <2>3. segs[1].base # segs[i].base
    BY <2>2 DEF Segment
  <2> QED
    BY Zenon, <2>3 DEF NameOf
<1>8. 1 \in DOMAIN segs /\ NameOf(segs[1]) \in DOMAIN files /\ NameOf(segs[1]) # NameOf(active)
  BY <1>1, <1>3, <1>5, <1>7 DEF Chain, active
<1>9. /\ DOMAIN files' = DOMAIN files \ {NameOf(segs[1])}
      /\ \A n \in DOMAIN files' : files'[n] = files[n]
  BY Zenon, <1>1 DEF Without
<1>10. Disk'
  BY Zenon, <1>3, <1>9 DEF Disk
<1>11. \A i \in DOMAIN segs' : /\ NameOf(segs'[i]) \in DOMAIN files'
                               /\ CacheOf(segs[i])' = CacheOf(segs[i + 1])
  <2> TAKE i \in DOMAIN segs'
  <2>1. i + 1 \in DOMAIN segs /\ i + 1 # 1 /\ segs'[i] = segs[i + 1]
    BY <1>5
  <2>2. NameOf(segs[i + 1]) \in DOMAIN files /\ NameOf(segs[i + 1]) # NameOf(segs[1])
    BY Zenon, <1>3, <1>7, <2>1 DEF Chain
  <2> QED
    BY Zenon, <1>9, <2>1, <2>2 DEF CacheOf
<1>12. Chain'
  <2>1. \A i \in DOMAIN segs' : /\ NameOf(segs'[i]) \in DOMAIN files'
                                /\ segs'[i].count <= Len(CacheOf(segs[i])')
                                /\ i < Len(segs') => segs'[i].count = Len(CacheOf(segs[i])')
    <3> TAKE i \in DOMAIN segs'
    <3>1. PICK k \in DOMAIN segs : k = i + 1 /\ segs'[i] = segs[k]
      BY Zenon, <1>5
    <3>2. CacheOf(segs[i])' = CacheOf(segs[k]) /\ NameOf(segs'[i]) \in DOMAIN files'
      BY Zenon, <1>11, <3>1
    <3>3. i < Len(segs') => k < Len(segs)
      BY <1>5, <3>1
    <3> QED
      BY Zenon, <1>3, <3>1, <3>2, <3>3 DEF Chain
  <2>2. \A i, j \in DOMAIN segs' : i < j => /\ segs'[i].base < segs'[j].base
                                            /\ LastLSN(segs'[i]) <= segs'[j].prev
    <3> SUFFICES ASSUME NEW i \in DOMAIN segs', NEW j \in DOMAIN segs', i < j
                 PROVE  segs'[i].base < segs'[j].base /\ LastLSN(segs'[i]) <= segs'[j].prev
      BY Zenon
    <3>1. PICK a \in DOMAIN segs, b \in DOMAIN segs :
            a = i + 1 /\ b = j + 1 /\ segs'[i] = segs[a] /\ segs'[j] = segs[b]
      BY Zenon, <1>5
    <3>2. a < b
      BY <1>5, <3>1
    <3> QED
      BY Zenon, <1>3, <3>1, <3>2 DEF Chain
  <2>3. \A i \in DOMAIN segs' : i > 1 => segs'[i].prev = LastLSN(segs'[i - 1])
    <3> SUFFICES ASSUME NEW i \in DOMAIN segs', i > 1
                 PROVE  segs'[i].prev = LastLSN(segs'[i - 1])
      BY Zenon
    <3>1. PICK a \in DOMAIN segs : a = i + 1 /\ segs'[i] = segs[a] /\ a > 1
      BY <1>5
    <3>2. i - 1 \in DOMAIN segs' /\ segs'[i - 1] = segs[i]  /\ a - 1 = i
      BY <1>5, <3>1
    <3> QED
      BY Zenon, <1>3, <3>1, <3>2 DEF Chain
  <2> QED
    BY Zenon, <1>5, <2>1, <2>2, <2>3 DEF Chain, CacheOf
<1>13. Covered'
  <2> SUFFICES ASSUME NEW n \in DOMAIN files'
               PROVE  (\E i \in DOMAIN segs' : n = NameOf(segs'[i])) \/ Leftover(n)'
    BY Zenon DEF Covered
  <2>1. n \in DOMAIN files /\ n # NameOf(segs[1]) /\ files'[n] = files[n]
    BY Zenon, <1>9
  <2>2. CASE \E i \in DOMAIN segs : n = NameOf(segs[i])
    <3>1. PICK i \in DOMAIN segs : n = NameOf(segs[i])
      BY Zenon, <2>2
    <3>2. i # 1 /\ i \in 1..Len(segs)
      BY Zenon, <1>5, <2>1, <3>1
    <3>3. i - 1 \in DOMAIN segs' /\ (i - 1) + 1 = i
      BY <1>5, <3>2
    <3> QED
      BY Zenon, <1>5, <3>1, <3>3
  <2>3. CASE Leftover(n)
    BY Zenon, <1>5, <1>6, <2>1, <2>3 DEF Leftover
  <2> QED
    BY Zenon, <1>3, <2>1, <2>2, <2>3 DEF Numbers, Covered
<1>14. Numbers'
  BY Zenon, <1>1, <1>3, <1>5, <1>6, <1>13 DEF Numbers
<1>15. NameOf(active) \in DOMAIN files /\ CacheOf(active)' = CacheOf(active)
  BY Zenon, <1>2, <1>4, <1>6, <1>8, <1>9, ActiveFacts DEF CacheOf
<1>16. cpc = "rotate" => NextSegment # NameOf(segs[1]) /\ NextSegment' = NextSegment
  BY Zenon, <1>1, <1>8, NextSegmentFacts DEF NextSegment
<1>17. Progress'
  BY Zenon, <1>1, <1>3, <1>6, <1>9, <1>15, <1>16 DEF Progress
<1>18. NumbersType'
  BY Zenon, <1>1, <1>3 DEF NumbersType
<1>19. DiskInv'
  BY Zenon, <1>1, <1>2, <1>10, <1>12, <1>14, <1>17, <1>18 DEF DiskInv, Ready
<1> QED
  BY Zenon, <1>1, <1>2, <1>4, <1>5, <1>6, <1>8, <1>9, <1>19


-----------------------------------------------------------------------------
(* Recovery. *)

(* recover() lists every file once, by ascending base. *)
LEMMA ListingFacts ==
  ASSUME NEW names \in Listings
  PROVE  /\ names \in Seq(DOMAIN files) /\ Len(names) \in Nat /\ DOMAIN names = 1..Len(names)
         /\ \A i, j \in 1..Len(names) : i < j => names[i][1] < names[j][1]
         /\ \A n \in DOMAIN files : \E i \in 1..Len(names) : n = names[i]
<1>1. PICK k \in 0..Cardinality(DOMAIN files) : names \in [1..k -> DOMAIN files]
  BY Zenon DEF Listings
<1>2. k \in Nat
  OBVIOUS
<1>3. names \in Seq(DOMAIN files) /\ Len(names) = k /\ DOMAIN names = 1..k
  BY <1>1, <1>2
<1> QED
  BY Zenon, <1>2, <1>3 DEF Listings

(* The list that recover() makes of files whose links hold. *)
LEMMA ScanDisk ==
  ASSUME RoundsInv, DiskInv, OpenScan
  PROVE  /\ DiskInv' /\ phase' = "attach"
         /\ DOMAIN files' = DOMAIN files
         /\ \A n \in DOMAIN files : /\ files'[n].cache.recs = files[n].cache.recs
                                    /\ files'[n].stable.recs = files[n].stable.recs
                                    /\ ~files'[n].cache.torn
<1>0. PICK names \in Listings : ~Damaged(names) /\ segs' = Scanned(names)
  BY Zenon DEF OpenScan
<1> DEFINE N == Len(names)
<1>1. /\ phase = "down" /\ reserved' = reservedFile
      /\ files' = [n \in DOMAIN files |->
                     [cache  |-> [files[n].cache EXCEPT !.torn = FALSE],
                      stable |-> files[n].stable]]
      /\ phase' = "attach"
      /\ UNCHANGED <<reservedFile, nextLSN, first, pendingMin>>
  BY Zenon DEF OpenScan, rounds
<1>2. NumbersType /\ Disk
  BY Zenon DEF DiskInv
<1>3. /\ N \in Nat /\ names \in Seq(DOMAIN files) /\ Len(names) = N
      /\ \A i, j \in 1..N : i < j => names[i][1] < names[j][1]
      /\ \A n \in DOMAIN files : \E i \in 1..N : n = names[i]
  BY Zenon, ListingFacts
<1>4. DOMAIN names = 1..N
  BY Zenon, ListingFacts
<1> HIDE DEF N
<1>5. /\ DOMAIN files' = DOMAIN files
      /\ \A n \in DOMAIN files : files'[n] = [cache  |-> [files[n].cache EXCEPT !.torn = FALSE],
                                              stable |-> files[n].stable]
  BY Zenon, <1>1
<1>20. \A c \in Content : LET d == [c EXCEPT !.torn = FALSE]
                         IN  d \in Content /\ d.recs = c.recs /\ d.torn = FALSE
  BY Zenon DEF Content
<1>6. \A n \in DOMAIN files : /\ files'[n] \in [cache : Content, stable : Content]
                              /\ files'[n].cache.recs = files[n].cache.recs
                              /\ files'[n].stable.recs = files[n].stable.recs
                              /\ ~files'[n].cache.torn
                              /\ Len(files[n].cache.recs) \in Nat
  <2> TAKE n \in DOMAIN files
  <2>1. files[n] \in [cache : Content, stable : Content]
    BY Zenon, <1>2 DEF Disk
  <2>2. PICK c \in Content, s \in Content : files[n].cache = c /\ files[n].stable = s
    BY Zenon, <2>1
  <2>3. PICK d \in Content : d = [c EXCEPT !.torn = FALSE] /\ d.recs = c.recs /\ d.torn = FALSE
    BY Zenon, <1>20
  <2>5. files'[n] = [cache |-> d, stable |-> s]
    BY Zenon, <1>5, <2>2, <2>3
  <2>6. Len(c.recs) \in Nat
    BY DEF Content
  <2>7. files'[n] \in [cache : Content, stable : Content] /\ files'[n].cache = d /\ files'[n].stable = s
    BY <2>5
  <2>8. ~d.torn
    BY Zenon, <2>3
  <2> QED
    BY Zenon, <2>2, <2>3, <2>6, <2>7, <2>8
<1>7. Disk'
  BY Zenon, <1>2, <1>5, <1>6 DEF Disk
<1>8. /\ DOMAIN segs' = 1..N /\ segs' = [i \in 1..N |-> segs'[i]]
      /\ \A i \in 1..N : /\ segs'[i] = [base |-> names[i][1], prev |-> names[i][2],
                                       count |-> Len(files[names[i]].cache.recs)]
                         /\ names[i] \in DOMAIN files /\ names[i] \in Nat \X Nat
                         /\ names[i][2] < names[i][1]
  BY <1>0, <1>2, <1>3, <1>4 DEF Scanned, Disk
<1>9. \A i \in 1..N : /\ segs'[i] \in Segment /\ NameOf(segs'[i]) = names[i]
                      /\ segs'[i].count = Len(CacheOf(segs[i])')
                      /\ segs'[i].base \in Nat /\ segs'[i].prev \in Nat /\ segs'[i].count \in Nat
                      /\ segs'[i].prev < segs'[i].base
                      /\ segs'[i].base = names[i][1]
  <2> TAKE i \in 1..N
  <2>1. segs'[i] \in Segment /\ NameOf(segs'[i]) = names[i]
    BY <1>6, <1>8 DEF Segment, NameOf
  <2>2. segs'[i].count = Len(CacheOf(segs[i])')
    BY <1>6, <1>8, <2>1 DEF CacheOf
  <2> QED
    BY <1>8, <2>1, <2>2 DEF Segment
<1>10. segs' \in Seq(Segment) /\ Len(segs') = N
  <2>1. segs' \in [1..N -> Segment]
    BY Zenon, <1>8, <1>9
  <2> QED
    BY <1>3, <2>1
<1>11. \A i \in 2..N : segs'[i].prev = LastLSN(segs'[i - 1])
  BY <1>0, <1>3, <1>4, <1>8 DEF Damaged
<1>12. \A i \in 1..N : LastLSN(segs'[i]) \in Nat /\ segs'[i].base <= LastLSN(segs'[i]) + 1
  BY <1>9 DEF LastLSN
<1>13. \A i, j \in 1..N : i < j => segs'[i].base < segs'[j].base /\ LastLSN(segs'[i]) <= segs'[j].prev
  <2> SUFFICES ASSUME NEW i \in 1..N, NEW j \in 1..N, i < j
               PROVE  segs'[i].base < segs'[j].base /\ LastLSN(segs'[i]) <= segs'[j].prev
    BY Zenon
  <2>1. segs'[i].base < segs'[j].base
    BY Zenon, <1>3, <1>9
  <2>2. PICK a \in 1..N, b \in 1..N : a = i + 1 /\ b = j - 1 /\ a \in 2..N /\ j \in 2..N /\ a <= j
    BY <1>3
  <2>3. segs'[a].prev = LastLSN(segs'[i])
    <3>1. a - 1 = i
      BY <1>3, <2>2
    <3> QED
      BY Zenon, <1>11, <2>2, <3>1
  <2>4. segs'[j].prev = LastLSN(segs'[b])
    BY Zenon, <1>11, <2>2
  <2>5. CASE a = j
    BY <1>12, <2>1, <2>3, <2>5
  <2>6. CASE a # j
    <3>1. a <= b
      BY <2>2, <2>6
    <3>2. segs'[a].base <= segs'[b].base
      <4>1. CASE a = b
        BY <1>9, <4>1
      <4>2. CASE a # b
        BY <1>3, <1>9, <3>1, <4>2
      <4> QED
        BY Zenon, <4>1, <4>2
    <3>3. LastLSN(segs'[i]) < segs'[a].base
      BY Zenon, <1>9, <2>3
    <3>4. segs'[b].base <= LastLSN(segs'[b]) + 1
      BY Zenon, <1>12
    <3>5. LastLSN(segs'[i]) <= LastLSN(segs'[b])
      <4> PICK u \in Nat, v \in Nat, w \in Nat, x \in Nat :
             u = LastLSN(segs'[i]) /\ v = segs'[a].base /\ w = segs'[b].base /\ x = LastLSN(segs'[b])
        BY Zenon, <1>9, <1>12
      <4> QED
        BY <3>2, <3>3, <3>4
    <3> QED
      BY Zenon, <2>1, <2>4, <3>5
  <2> QED
    BY Zenon, <2>5, <2>6
<1>14. Chain'
  <2>1. \A i \in DOMAIN segs' : i > 1 => segs'[i].prev = LastLSN(segs'[i - 1])
    <3> SUFFICES ASSUME NEW i \in DOMAIN segs', i > 1 PROVE segs'[i].prev = LastLSN(segs'[i - 1])
      BY Zenon
    <3>1. i \in 2..N
      BY <1>3, <1>8
    <3> QED
      BY Zenon, <1>11, <3>1
  <2>2. \A i \in DOMAIN segs' : NameOf(segs'[i]) \in DOMAIN files'
    BY Zenon, <1>5, <1>8, <1>9
  <2> QED
    BY <1>8, <1>9, <1>10, <1>13, <2>1, <2>2 DEF Chain
<1>15. Attached'
  BY <1>1, <1>3, <1>5, <1>8, <1>9 DEF Attached
<1>16. NumbersType'
  BY Zenon, <1>1, <1>2 DEF NumbersType
<1>17. DiskInv'
  BY Zenon, <1>1, <1>7, <1>14, <1>15, <1>16 DEF DiskInv, Ready
<1> QED
  BY Zenon, <1>1, <1>5, <1>6, <1>17


(* Numbering resumes in the last segment, or in a new one above all others. *)
LEMMA ResumedFacts ==
  ASSUME DiskInv, OpenAttach
  PROVE  \/ segs # <<>> /\ reserved <= LastLSN(active) /\ segs' = segs /\ files' = files
         \/ \E a \in Segment :
              /\ a.base = reserved + 1 /\ a.count = 0
              /\ segs' = Append(segs, a) /\ files' = WithFile(NameOf(a), Empty, Empty)
              /\ segs = <<>> => a.prev = 0 /\ DOMAIN files = {}
              /\ segs # <<>> => a.prev = LastLSN(active) /\ reserved > LastLSN(active)
              /\ \A i \in DOMAIN segs : segs[i].base < a.base /\ LastLSN(segs[i]) <= a.prev
              /\ \A n \in DOMAIN files : n[1] < a.base
<1>1. /\ phase = "attach" /\ segs' = Resumed
      /\ files' = IF Resumed = segs THEN files ELSE WithFile(NameOf(Last(Resumed)), Empty, Empty)
  BY Zenon DEF OpenAttach
<1>2. /\ Loaded /\ Chain /\ Attached /\ NumbersType /\ Disk
  BY Zenon, <1>1 DEF DiskInv, Loaded
<1>3. segs \in Seq(Segment) /\ reserved \in Nat /\ Len(segs) \in Nat /\ DOMAIN segs = 1..Len(segs)
  BY <1>2 DEF Chain, NumbersType
<1>4. segs # <<>> => LastLSN(active) \in Nat
  BY Zenon, <1>2, ActiveFacts
<1>5. CASE segs # <<>> /\ ~(reserved > LastLSN(active))
  <2>1. Resumed = segs /\ reserved <= LastLSN(active)
    BY <1>3, <1>4, <1>5 DEF Resumed
  <2> QED
    BY Zenon, <1>1, <1>5, <2>1
<1>6. ASSUME NEW a \in Segment, Resumed = Append(segs, a)
      PROVE  segs' = Append(segs, a) /\ files' = WithFile(NameOf(a), Empty, Empty)
  <2>0. PICK b : b = Append(segs, a) /\ Len(b) = Len(segs) + 1 /\ b[Len(segs) + 1] = a
    BY <1>3, <1>6
  <2>1. Resumed # segs /\ Last(Resumed) = a
    <3>1. Resumed = b
      BY Zenon, <1>6, <2>0
    <3>2. b # segs
      <4>1. PICK k \in Nat : k = Len(segs)
        BY Zenon, <1>3
      <4>2. Len(b) = k + 1
        BY Zenon, <2>0, <4>1
      <4>3. k + 1 # k
        OBVIOUS
      <4> QED
        BY Zenon, <4>1, <4>2, <4>3
    <3>3. b[Len(b)] = a
      BY Zenon, <2>0
    <3> QED
      BY Zenon, <3>1, <3>2, <3>3 DEF Last
  <2> QED
    BY Zenon, <1>1, <1>6, <2>1
<1>7. CASE segs = <<>>
  <2> DEFINE a == [base |-> reserved + 1, prev |-> 0, count |-> 0]
  <2>1. a \in Segment /\ a.base = reserved + 1 /\ a.count = 0 /\ a.prev = 0
    BY <1>3 DEF Segment
  <2>2. Resumed = <<a>> /\ Append(segs, a) = <<a>>
    BY <1>7 DEF Resumed
  <2>3. DOMAIN files = {} /\ DOMAIN segs = {}
    <3>1. DOMAIN segs = {}
      BY <1>7
    <3>2. \A n \in DOMAIN files : \E i \in DOMAIN segs : n = NameOf(segs[i])
      BY Zenon, <1>2 DEF Attached
    <3> QED
      BY Zenon, <3>1, <3>2
  <2> HIDE DEF a
  <2>4. segs' = Append(segs, a) /\ files' = WithFile(NameOf(a), Empty, Empty)
    BY Zenon, <1>6, <2>1, <2>2
  <2> QED
    BY Zenon, <1>7, <2>1, <2>3, <2>4
<1>8. CASE segs # <<>> /\ reserved > LastLSN(active)
  <2> DEFINE a == [base |-> reserved + 1, prev |-> LastLSN(active), count |-> 0]
  <2>1. a \in Segment /\ a.base = reserved + 1 /\ a.count = 0 /\ a.prev = LastLSN(active)
    BY <1>3, <1>4, <1>8 DEF Segment
  <2>2. Resumed = Append(segs, a)
    BY Zenon, <1>8 DEF Resumed
  <2> HIDE DEF a
  <2>3. segs' = Append(segs, a) /\ files' = WithFile(NameOf(a), Empty, Empty)
    BY Zenon, <1>6, <2>1, <2>2
  <2>4. \A i \in DOMAIN segs : segs[i].base < a.base /\ LastLSN(segs[i]) <= a.prev
    <3> TAKE i \in DOMAIN segs
    <3>1. /\ segs[i] \in Segment /\ active \in Segment /\ segs[i].base <= active.base
          /\ active.base <= LastLSN(active) + 1 /\ LastLSN(segs[i]) <= LastLSN(active)
      BY Zenon, <1>2, <1>8, ActiveFacts
    <3> QED
      BY <1>3, <1>4, <1>8, <2>1, <3>1 DEF Segment
  <2>5. \A n \in DOMAIN files : n[1] < a.base
    <3> TAKE n \in DOMAIN files
    <3>1. PICK i \in DOMAIN segs : n = NameOf(segs[i])
      BY Zenon, <1>2 DEF Attached
    <3> QED
      BY Zenon, <2>4, <3>1 DEF NameOf
  <2> QED
    BY Zenon, <1>8, <2>1, <2>3, <2>4, <2>5
<1> QED
  BY Zenon, <1>5, <1>7, <1>8

-----------------------------------------------------------------------------
(* The end of a process, and what happens to its files while there is none. *)

(* A crash leaves every file, with one of the contents that may survive it. *)
LEMMA CrashDisk ==
  ASSUME DiskInv, NEW kind \in {"process", "machine"}, Crash(kind)
  PROVE  /\ DiskInv' /\ DOMAIN files' = DOMAIN files
         /\ kind = "process" => files' = files
         /\ kind = "machine" =>
              \A n \in DOMAIN files :
                \E c \in Survivors(files[n]) : c \in Content /\ files'[n] = [cache |-> c, stable |-> c]
<1>1. /\ NoProcess /\ phase' = "down" /\ reservedFile' = reservedFile
      /\ kind = "process" => files' = files
  BY Zenon DEF Crash
<1>2. Disk /\ reservedFile \in Nat
  BY Zenon DEF DiskInv, NumbersType
<1>3. kind = "machine" =>
        /\ DOMAIN files' = DOMAIN files
        /\ \A n \in DOMAIN files :
             \E c \in Survivors(files[n]) : c \in Content /\ files'[n] = [cache |-> c, stable |-> c]
  <2> SUFFICES ASSUME kind = "machine"
               PROVE  /\ DOMAIN files' = DOMAIN files
                      /\ \A n \in DOMAIN files :
                           \E c \in Survivors(files[n]) :
                             c \in Content /\ files'[n] = [cache |-> c, stable |-> c]
    BY Zenon
  <2>1. PICK after \in [DOMAIN files -> UNION {Survivors(files[n]) : n \in DOMAIN files}] :
         /\ \A n \in DOMAIN files : after[n] \in Survivors(files[n])
         /\ files' = [n \in DOMAIN files |-> [cache |-> after[n], stable |-> after[n]]]
    BY Zenon DEF Crash
  <2>2. DOMAIN files' = DOMAIN files
    BY Zenon, <2>1
  <2>3. ASSUME NEW n \in DOMAIN files
        PROVE  \E c \in Survivors(files[n]) : c \in Content /\ files'[n] = [cache |-> c, stable |-> c]
    <3>1. PICK f \in [cache : Content, stable : Content] : f = files[n]
      BY Zenon, <1>2 DEF Disk
    <3>2. PICK c \in Survivors(f) : c = after[n]
      BY Zenon, <2>1, <3>1
    <3>3. c \in Content
      BY Zenon, SurvivorFacts
    <3> QED
      BY Zenon, <2>1, <3>1, <3>2, <3>3
  <2> QED
    BY Zenon, <2>2, <2>3
<1>4. DOMAIN files' = DOMAIN files /\ Disk'
  <2>1. CASE kind = "process"
    BY Zenon, <1>1, <1>2, <2>1 DEF Disk
  <2>2. CASE kind = "machine"
    <3>1. \A n \in DOMAIN files : files'[n] \in [cache : Content, stable : Content]
      BY <1>3, <2>2
    <3> QED
      BY Zenon, <1>2, <1>3, <2>2, <3>1 DEF Disk
  <2> QED
    BY Zenon, <2>1, <2>2
<1> QED
  BY Zenon, <1>1, <1>2, <1>3, <1>4, EndDisk

(* Close changes what the disk holds of the last segment, and no content. *)
LEMMA CloseDisk ==
  ASSUME DiskInv, NEW r \in BOOLEAN, NEW s \in BOOLEAN, CloseEnd(r, s)
  PROVE  /\ DiskInv' /\ DOMAIN files' = DOMAIN files
         /\ Ready /\ Loaded /\ segs # <<>> /\ NameOf(active) \in DOMAIN files
         /\ \A n \in DOMAIN files : n # NameOf(active) => files'[n] = files[n]
         /\ LET f == files[NameOf(active)]
            IN  files'[NameOf(active)] = [cache |-> f.cache, stable |-> IF s THEN f.cache ELSE f.stable]
<1> DEFINE f == files[NameOf(active)]
           st == IF s THEN f.cache ELSE f.stable
<1>1. /\ phase = "closing" /\ phase' = "down" /\ NoProcess
      /\ reservedFile' = IF r /\ reserved > nextLSN - 1 THEN nextLSN - 1 ELSE reservedFile
      /\ files' = WithFile(NameOf(active), f.cache, st)
  BY Zenon DEF CloseEnd
<1>2. /\ Ready /\ Loaded /\ NumbersType /\ Numbers /\ Disk /\ segs # <<>>
  BY Zenon, <1>1 DEF DiskInv, Ready, Loaded, Numbers
<1>3. NameOf(active) \in DOMAIN files /\ f \in [cache : Content, stable : Content] /\ LastLSN(active) \in Nat
  BY Zenon, <1>2, ActiveFacts
<1>4. /\ DOMAIN files' = DOMAIN files
      /\ files'[NameOf(active)] = [cache |-> f.cache, stable |-> st]
      /\ \A n \in DOMAIN files : n # NameOf(active) => files'[n] = files[n]
  BY Zenon, <1>1, <1>3 DEF WithFile
<1>5. [cache |-> f.cache, stable |-> st] \in [cache : Content, stable : Content]
  BY Zenon, <1>3
<1>6. Disk'
  BY Zenon, <1>2, <1>4, <1>5 DEF Disk
<1>7. reservedFile' \in Nat
  <2>1. reserved \in Nat /\ nextLSN \in Nat /\ reservedFile \in Nat
    BY Zenon, <1>2 DEF NumbersType
  <2>2. nextLSN - 1 \in Nat
    <3>1. phase = "closing" => pending = <<>> /\ cpc = "idle"
      BY Zenon DEF CloseEnd
    <3>2. nextLSN = LastLSN(active) + 1 + Len(inflight) + Len(pending)
      BY Zenon, <1>2 DEF Numbers
    <3> QED
      BY <1>1, <1>3, <2>1, <3>2 DEF NumbersType
  <2> QED
    BY Zenon, <1>1, <2>1, <2>2
<1> QED
  BY Zenon, <1>1, <1>2, <1>3, <1>4, <1>6, <1>7, EndDisk


(* A segment of a log that nobody has open disappears. *)
LEMMA VanishDisk ==
  ASSUME DiskInv, Vanish
  PROVE  /\ DiskInv' /\ phase = "down" /\ phase' = "down"
         /\ \E n, m \in DOMAIN files :
              /\ n[1] < m[1] /\ n[1] + Len(files[n].cache.recs) <= m[1]
              /\ DOMAIN files' = DOMAIN files \ {n} /\ \A k \in DOMAIN files' : files'[k] = files[k]
<1>1. /\ phase = "down" /\ phase' = phase
      /\ UNCHANGED <<reservedFile, nextLSN, reserved, first, pendingMin>>
  BY Zenon DEF Vanish, memory, rounds
<1>2. PICK n \in DOMAIN files, m \in DOMAIN files :
        n[1] < m[1] /\ n[1] + Len(files[n].cache.recs) <= m[1] /\ files' = Without(n)
  BY Zenon DEF Vanish
<1>3. DOMAIN files' = DOMAIN files \ {n} /\ \A k \in DOMAIN files' : files'[k] = files[k]
  BY Zenon, <1>2 DEF Without
<1>4. Disk'
  BY Zenon, <1>3 DEF DiskInv, Disk
<1> QED
  BY Zenon, <1>1, <1>2, <1>3, <1>4 DEF DiskInv, NumbersType, Loaded, Ready

(* The empty directory. *)
LEMMA DiskInit == Init => DiskInv
<1> SUFFICES ASSUME Init PROVE DiskInv
  BY Zenon
<1>1. DOMAIN files = {} /\ phase = "down" /\ NumbersType
  BY Zenon DEF Init, NumbersType
<1>2. Disk
  BY Zenon, <1>1 DEF Disk
<1> QED
  BY Zenon, <1>1, <1>2 DEF DiskInv, Loaded, Ready

(* Every step keeps the files, the list of segments and the numbers in       *)
(* agreement.                                                                *)
LEMMA DiskNext == RoundsInv /\ RoundsInv' /\ DiskInv /\ [Next]_vars => DiskInv'
(* Nothing happens to the files or to the list. *)
<1>SameFiles.
  ASSUME DiskInv, UNCHANGED <<files, segs>>
  PROVE  Disk' /\ (Chain => Chain') /\ (Covered => Covered')
  BY Zenon, <1>SameFiles DEF DiskInv, Disk, Chain, Covered, Leftover, CacheOf, active

(* stage() claims its numbers in RESERVED before it hands them out. *)
<1>StageDisk.
  ASSUME RoundsInv, RoundsInv', DiskInv, NEW n \in 1..2, Stage(n)
  PROVE  DiskInv'
  <2> USE <1>StageDisk
  <2> DEFINE new == Newest
             ids == [i \in 1..n |-> new + i]
             want == IF nextLSN + n - 1 > reserved THEN Reservation(n) ELSE reserved
  <2>1. /\ phase = "up" /\ ~broken
        /\ reserved' = want
        /\ reservedFile' = IF want # reserved THEN want ELSE reservedFile
        /\ pending' = pending \o ids
        /\ pendingMin' = IF pending = <<>> THEN nextLSN ELSE pendingMin
        /\ nextLSN' = nextLSN + n
        /\ UNCHANGED <<files, phase, segs, broken, inflight, first, cpc>>
    BY Zenon DEF Stage
  <2> HIDE DEF new
  <2>2. /\ NumbersType /\ Chain /\ Numbers /\ Progress
    BY Zenon, <2>1 DEF DiskInv, Loaded, Ready
  <2>3. new \in Nat /\ new + n <= MaxRecords /\ MaxRecords \in Nat
    BY Zenon, Written, LogAssumption DEF Stage, new
  <2>4. ids \in Seq(Records) /\ Len(ids) = n
    BY <2>3 DEF Records
  <2> HIDE DEF ids
  <2>5. pending \in Seq(Records) /\ inflight \in Seq(Records)
    BY Zenon DEF RoundsInv, RoundsType
  <2>6. Len(pending') = Len(pending) + n /\ pending' # <<>> /\ Len(pending) \in Nat /\ Len(inflight) \in Nat
    BY <2>1, <2>4, <2>5
  <2>7. Reservation(n) \in Nat /\ Reservation(n) >= nextLSN + n - 1
    BY Zenon, <2>2, ReservationFacts
  <2>8. want \in Nat /\ want >= nextLSN + n - 1
    BY <2>2, <2>7 DEF NumbersType
  <2> HIDE DEF want
  <2>9. NumbersType'
    BY <2>1, <2>2, <2>8 DEF NumbersType
  <2>10. pending = <<>> => Len(pending) = 0
    OBVIOUS
  <2>11. Disk' /\ Chain' /\ (Covered => Covered')
    BY Zenon, <2>1, <2>2, <1>SameFiles
  <2>12. LastLSN(active) \in Nat
    BY Zenon, <2>1, <2>2, ActiveFacts DEF Numbers, Loaded
  <2>13. Numbers'
    <3>1. nextLSN' = (LastLSN(active) + 1 + Len(inflight) + Len(pending))'
      BY SMTT(30), <2>1, <2>2, <2>6, <2>12 DEF Numbers, NumbersType, active
    <3>2. pendingMin' = (LastLSN(active) + 1 + Len(inflight))'
      <4>1. CASE pending = <<>>
        BY <2>1, <2>2, <2>6, <2>10, <2>12, <4>1 DEF Numbers, NumbersType, active
      <4>2. CASE pending # <<>>
        BY Zenon, <2>1, <2>2, <4>2 DEF Numbers, active
      <4> QED
        BY Zenon, <4>1, <4>2
    <3>3. (nextLSN - 1 <= reserved)' /\ (reserved <= reservedFile)'
      <4>1. reserved <= reservedFile
        BY Zenon, <2>2 DEF Numbers
      <4>2. reserved' <= reservedFile'
        BY <2>1, <2>2, <2>8, <4>1 DEF NumbersType
      <4> QED
        BY <2>1, <2>2, <2>8, <4>2 DEF NumbersType
    <3> QED
      BY Zenon, <2>1, <2>2, <2>11, <3>1, <3>2, <3>3 DEF Numbers, active
  <2>14. Progress'
    BY Zenon, <2>1, <2>2 DEF Progress, active, CacheOf, NextSegment
  <2> QED
    BY Zenon, <2>1, <2>9, <2>11, <2>13, <2>14 DEF DiskInv

(* A reservation that is not made may be in the file all the same: it is     *)
(* above every number in use.                                                *)
<1>ReserveFailsDisk.
  ASSUME RoundsInv, DiskInv, NEW n \in 1..2, StageReserveFails(n)
  PROVE  DiskInv'
  <2> USE <1>ReserveFailsDisk
  <2>1. /\ phase = "up" /\ nextLSN + n - 1 > reserved
        /\ reservedFile' \in {reservedFile, Reservation(n)}
        /\ UNCHANGED <<files, phase, segs, broken, inflight, first, cpc, pending, pendingMin,
                       nextLSN, reserved>>
    BY Zenon DEF StageReserveFails, memory, rounds
  <2>2. /\ NumbersType /\ Chain /\ Numbers /\ Progress
    BY Zenon, <2>1 DEF DiskInv, Loaded, Ready
  <2>3. Reservation(n) \in Nat /\ Reservation(n) >= nextLSN + n - 1
    BY Zenon, <2>2, ReservationFacts
  <2>4. NumbersType' /\ reserved <= reservedFile'
    BY <2>1, <2>2, <2>3 DEF NumbersType, Numbers
  <2>5. Disk' /\ Chain' /\ (Covered => Covered')
    BY Zenon, <2>1, <2>2, <1>SameFiles
  <2>6. Numbers'
    BY Zenon, <2>1, <2>2, <2>4, <2>5 DEF Numbers, active
  <2>7. Progress'
    BY Zenon, <2>1, <2>2 DEF Progress, active, CacheOf, NextSegment
  <2> QED
    BY Zenon, <2>1, <2>4, <2>5, <2>6, <2>7 DEF DiskInv

(* commit() takes the round; it rotates only away from a segment that holds  *)
(* something.                                                                *)
<1>TakeDisk.
  ASSUME RoundsInv, DiskInv, CommitTake
  PROVE  DiskInv'
  <2> USE <1>TakeDisk
  <2>1. /\ Running /\ cpc = "idle" /\ ~broken /\ pending # <<>>
        /\ inflight' = pending /\ first' = pendingMin
        /\ pending' = <<>> /\ pendingMin' = 0
        /\ cpc' \in {"create", "write"} /\ (cpc' = "create" => active.count > 0)
        /\ UNCHANGED <<files, reservedFile, phase, segs, broken, nextLSN, reserved>>
    BY Zenon DEF CommitTake, disk
  <2>2. /\ NumbersType /\ Chain /\ Numbers /\ Progress
    BY Zenon, <2>1 DEF DiskInv, Loaded, Ready, Running
  <2>3. NumbersType'
    BY Zenon, <2>1, <2>2 DEF NumbersType
  <2>4. Disk' /\ Chain' /\ (Covered => Covered')
    BY Zenon, <2>1, <2>2, <1>SameFiles
  <2>5. inflight = <<>> /\ Len(inflight) = 0 /\ Len(pending') = 0 /\ Len(pending) \in Nat
    BY <2>1 DEF RoundsInv, RoundsType
  <2>6. LastLSN(active) \in Nat
    BY Zenon, <2>1, <2>2, ActiveFacts DEF Numbers, Loaded, Running
  <2>7. Numbers'
    BY <2>1, <2>2, <2>4, <2>5, <2>6 DEF Numbers, active
  <2>8. Progress'
    BY Zenon, <2>1, <2>2 DEF Progress, active, CacheOf, NextSegment
  <2> QED
    BY Zenon, <2>1, <2>3, <2>4, <2>7, <2>8 DEF DiskInv, Running

(* The steps that leave the files, the list and the numbers alone. *)
<1>RestDisk.
  ASSUME DiskInv,
         UNCHANGED <<files, reservedFile, segs, nextLSN, reserved, broken, pending, pendingMin,
                     inflight, first>>,
         cpc' = cpc \/ (cpc # "idle" /\ cpc' = "rollback"),
         Loaded' => Loaded, Ready' => Ready, phase' = "attach" => phase = "attach"
  PROVE  DiskInv'
  <2> USE <1>RestDisk
  <2>1. NumbersType'
    BY Zenon DEF DiskInv, NumbersType
  <2>2. Disk' /\ (Chain => Chain') /\ (Covered => Covered')
    BY Zenon, <1>SameFiles
  <2>3. Attached => Attached'
    BY Zenon DEF Attached, CacheOf
  <2>4. Numbers => Numbers'
    BY Zenon, <2>2 DEF Numbers, active
  <2>5. Progress => Progress'
    BY Zenon DEF Progress, active, CacheOf, NextSegment
  <2> QED
    BY Zenon, <2>1, <2>2, <2>3, <2>4, <2>5 DEF DiskInv

(* The committer writes to the active segment alone. *)
<1>TouchDisk.
  ASSUME DiskInv, Ready, NEW c \in Content, NEW s \in Content,
         files' = WithFile(NameOf(active), c, s), segs' = segs,
         active.count <= Len(c.recs)
  PROVE  /\ Disk' /\ Chain' /\ Covered' /\ active' = active /\ segs' # <<>>
         /\ DOMAIN files' = DOMAIN files
         /\ files'[NameOf(active)] = [cache |-> c, stable |-> s]
         /\ \A n \in DOMAIN files : n # NameOf(active) => files'[n] = files[n]
         /\ CacheOf(active)' = c.recs
  <2> USE <1>TouchDisk
  <2>1. Loaded /\ segs # <<>> /\ Chain /\ Disk /\ Covered
    BY Zenon DEF DiskInv, Ready, Loaded, Numbers
  <2>2. NameOf(active) \in DOMAIN files /\ active' = active
    BY Zenon, <2>1, ActiveFacts DEF active
  <2>3. /\ DOMAIN files' = DOMAIN files
        /\ files'[NameOf(active)] = [cache |-> c, stable |-> s]
        /\ \A n \in DOMAIN files : n # NameOf(active) => files'[n] = files[n]
    BY Zenon, <2>2 DEF WithFile
  <2>4. CacheOf(active)' = c.recs
    BY <2>2, <2>3 DEF CacheOf
  <2>5. [cache |-> c, stable |-> s] \in [cache : Content, stable : Content]
    BY Zenon
  <2>6. Disk'
    BY Zenon, <2>1, <2>3, <2>5 DEF Disk
  <2>7. \A i \in DOMAIN segs : i # Len(segs) => files'[NameOf(segs[i])] = files[NameOf(segs[i])]
    BY Zenon, <2>1, <2>3, ActiveFacts
  <2>8. Chain'
    <3>1. \A i \in DOMAIN segs : /\ NameOf(segs[i]) \in DOMAIN files'
                                 /\ segs[i].count <= Len(CacheOf(segs[i])')
                                 /\ i < Len(segs) => segs[i].count = Len(CacheOf(segs[i])')
      <4> TAKE i \in DOMAIN segs
      <4>0. Len(segs) \in Nat
        BY Zenon, <2>1, ActiveFacts
      <4>1. CASE i = Len(segs)
        BY <2>1, <2>3, <2>4, <4>0, <4>1 DEF active, Chain, CacheOf
      <4>2. CASE i # Len(segs)
        BY Zenon, <2>1, <2>3, <2>7, <4>2 DEF Chain, CacheOf
      <4> QED
        BY Zenon, <4>1, <4>2
    <3> QED
      BY Zenon, <2>1, <3>1 DEF Chain, CacheOf
  <2>9. Covered'
    <3> SUFFICES ASSUME NEW n \in DOMAIN files
                 PROVE  (\E i \in DOMAIN segs : n = NameOf(segs[i])) \/ Leftover(n)'
      BY Zenon, <2>3 DEF Covered
    <3>1. CASE n = NameOf(active)
      BY Zenon, <2>1, <3>1, ActiveFacts DEF active
    <3>2. CASE n # NameOf(active)
      BY Zenon, <2>1, <2>2, <2>3, <3>2 DEF Covered, Leftover
    <3> QED
      BY Zenon, <3>1, <3>2
  <2> QED
    BY Zenon, <2>1, <2>2, <2>3, <2>4, <2>6, <2>8, <2>9

(* Write, whole or cut short, appends to the active file only. *)
<1>WriteDisk.
  ASSUME RoundsInv, DiskInv, Write \/ WriteFails
  PROVE  DiskInv'
  <2> USE <1>WriteDisk
  <2>1. PICK k \in 0..Len(inflight), torn \in BOOLEAN :
          /\ cpc = "write"
          /\ files' = WithFile(NameOf(active), Appended(k, torn), files[NameOf(active)].stable)
          /\ cpc' \in {"sync", "rollback"} /\ (cpc' = "sync" => k = Len(inflight))
          /\ UNCHANGED <<reservedFile, phase, segs, nextLSN, reserved, broken, pending, pendingMin,
                         inflight, first>>
    BY Zenon, WriteFacts
  <2>2. Running /\ Ready
    BY Zenon, <2>1 DEF RoundsInv, Running, Ready
  <2>3. /\ NumbersType /\ Chain /\ Numbers /\ Progress
    BY Zenon, <2>2 DEF DiskInv, Loaded, Ready
  <2>4. ~broken /\ Len(CacheOf(active)) = active.count
    BY Zenon, <2>1, <2>3 DEF RoundsInv, RoundsType, Progress
  <2>5. /\ Appended(k, torn) \in Content /\ files[NameOf(active)].stable \in Content
        /\ Len(Appended(k, torn).recs) = active.count + k
    BY Zenon, <2>2, <2>4, ContentFacts DEF CacheOf
  <2>6. active.count \in Nat
    BY Zenon, <2>2, <2>3, ActiveFacts DEF Numbers, Segment, Ready, Loaded
  <2>7. /\ Disk' /\ Chain' /\ Covered' /\ active' = active /\ segs' # <<>>
        /\ CacheOf(active)' = Appended(k, torn).recs
    <3>1. PICK c \in Content, s \in Content :
            c = Appended(k, torn) /\ s = files[NameOf(active)].stable
      BY Zenon, <2>5
    <3>2. active.count <= Len(c.recs) /\ files' = WithFile(NameOf(active), c, s)
      BY <2>1, <2>5, <2>6, <3>1
    <3> QED
      BY Zenon, <2>1, <2>2, <3>1, <3>2, <1>TouchDisk
  <2>8. Numbers'
    BY Zenon, <2>1, <2>3, <2>7 DEF Numbers
  <2>9. Progress'
    BY Zenon, <2>1, <2>5, <2>7 DEF Progress, CacheOf
  <2>10. NumbersType'
    BY Zenon, <2>1, <2>3 DEF NumbersType
  <2> QED
    BY Zenon, <2>1, <2>2, <2>7, <2>8, <2>9, <2>10 DEF DiskInv, Ready

(* A failed round gives its numbers back; the file is cut back, or the log   *)
(* is broken.                                                                *)
<1>RollbackDisk.
  ASSUME RoundsInv, DiskInv, Rollback \/ RollbackFails
  PROVE  DiskInv'
  <2> USE <1>RollbackDisk
  <2>1. /\ cpc \in {"rollback", "unrollable"}
        /\ nextLSN' = first /\ pending' = <<>> /\ pendingMin' = 0 /\ inflight' = <<>> /\ first' = 0
        /\ cpc' = "idle"
        /\ UNCHANGED <<reservedFile, phase, segs, reserved>>
    BY Zenon DEF Rollback, RollbackFails, FailRound
  <2>2. Running /\ Ready
    BY Zenon, <2>1 DEF RoundsInv, Running, Ready
  <2>3. /\ NumbersType /\ Chain /\ Numbers /\ Progress /\ Disk
    BY Zenon, <2>2 DEF DiskInv, Loaded, Ready
  <2>4. /\ CutBack \in Content /\ files[NameOf(active)].stable \in Content
        /\ files[NameOf(active)] \in [cache : Content, stable : Content]
        /\ Len(CutBack.recs) = active.count /\ active.count \in Nat /\ LastLSN(active) \in Nat
    BY Zenon, <2>2, <2>3, ContentFacts, ActiveFacts DEF Numbers, Ready, Loaded, Segment
  <2>5. /\ Disk' /\ Chain' /\ Covered' /\ active' = active /\ segs' # <<>>
        /\ (broken' = FALSE => Len(CacheOf(active)') = active.count)
    <3>1. CASE UNCHANGED files /\ broken' = TRUE
      BY Zenon, <2>1, <2>3, <3>1, <1>SameFiles DEF Numbers, active
    <3>2. CASE \E s \in Content : files' = WithFile(NameOf(active), CutBack, s)
      <4>1. PICK s \in Content : files' = WithFile(NameOf(active), CutBack, s)
        BY Zenon, <3>2
      <4>2. PICK c \in Content : c = CutBack
        BY Zenon, <2>4
      <4>3. active.count <= Len(c.recs) /\ files' = WithFile(NameOf(active), c, s)
        BY <2>4, <4>1, <4>2
      <4>4. /\ Disk' /\ Chain' /\ Covered' /\ active' = active /\ segs' # <<>>
            /\ CacheOf(active)' = c.recs
        BY Zenon, <2>1, <2>2, <4>3, <1>TouchDisk
      <4> QED
        BY Zenon, <2>4, <4>2, <4>4
    <3>3. CASE Rollback
      BY Zenon, <2>4, <3>2, <3>3 DEF Rollback
    <3>4. CASE RollbackFails
      BY Zenon, <2>4, <3>1, <3>2, <3>4, SurvivorFacts DEF RollbackFails
    <3> QED
      BY Zenon, <3>3, <3>4
  <2>6. Len(inflight') = 0 /\ Len(pending') = 0
    BY Zenon, <2>1
  <2>7. Numbers'
    BY <2>1, <2>3, <2>4, <2>5, <2>6 DEF Numbers
  <2>8. broken' \in BOOLEAN
    BY Zenon DEF Rollback, RollbackFails, RoundsInv, RoundsType
  <2>9. Progress'
    BY Zenon, <2>1, <2>5, <2>8 DEF Progress, CacheOf
  <2>10. NumbersType'
    BY Zenon, <2>1, <2>3 DEF NumbersType
  <2> QED
    BY Zenon, <2>1, <2>2, <2>5, <2>7, <2>9, <2>10 DEF DiskInv, Ready

(* createSegment, whether or not what follows it succeeds. *)
<1>CreateDisk.
  ASSUME RoundsInv, DiskInv, cpc = "create",
         files' = WithFile(NextSegment, Empty, Empty), cpc' \in {"rotate", "rollback"},
         UNCHANGED <<reservedFile, phase, segs, nextLSN, reserved, broken, pending, pendingMin,
                     inflight, first>>
  PROVE  DiskInv'
  <2> USE <1>CreateDisk
  <2>1. /\ Ready /\ Loaded /\ segs # <<>> /\ first \in Nat /\ first - 1 \in Nat
        /\ first - 1 = LastLSN(active) /\ NextSegment \in Nat \X Nat
        /\ \A i \in DOMAIN segs : /\ segs[i].base < first /\ NameOf(segs[i]) # NextSegment
                                  /\ NameOf(segs[i]) \in DOMAIN files
        /\ NameOf(active) # NextSegment
        /\ \A n \in DOMAIN files : n[1] = first => n = NextSegment
    BY Zenon, NextSegmentFacts
  <2>2. /\ NumbersType /\ Chain /\ Numbers /\ Progress /\ Disk
    BY Zenon, <2>1 DEF DiskInv
  <2>3. /\ DOMAIN files' = DOMAIN files \cup {NextSegment}
        /\ files'[NextSegment] = [cache |-> Empty, stable |-> Empty]
        /\ \A n \in DOMAIN files : n # NextSegment => files'[n] = files[n]
    BY Zenon DEF WithFile
  <2>4. NextSegment[1] = first /\ NextSegment[2] = first - 1 /\ NextSegment' = NextSegment
    BY Zenon DEF NextSegment
  <2>5. Disk'
    <3>2. Empty \in Content
      BY SMTT(30) DEF Empty, Content
    <3>3. \A n \in DOMAIN files' : /\ n \in Nat \X Nat /\ n[2] < n[1]
                                   /\ files'[n] \in [cache : Content, stable : Content]
      BY <2>1, <2>2, <2>3, <2>4, <3>2 DEF Disk
    <3>4. \A n, m \in DOMAIN files' : n[1] = m[1] => n = m
      BY Zenon, <2>1, <2>2, <2>3, <2>4 DEF Disk
    <3> QED
      BY Zenon, <3>3, <3>4 DEF Disk
  <2>6. \A i \in DOMAIN segs : files'[NameOf(segs[i])] = files[NameOf(segs[i])]
    BY Zenon, <2>1, <2>3
  <2>7. Chain'
    BY Zenon, <2>1, <2>2, <2>3, <2>6 DEF Chain, CacheOf
  <2>8. active' = active /\ NameOf(active) \in DOMAIN files
    BY Zenon, <2>1, ActiveFacts DEF active
  <2>9. Covered'
    <3> SUFFICES ASSUME NEW n \in DOMAIN files \cup {NextSegment}
                 PROVE  (\E i \in DOMAIN segs : n = NameOf(segs[i])) \/ Leftover(n)'
      BY ZenonT(30), <2>3 DEF Covered
    <3>1. CASE n = NextSegment
      <4>1. \A i \in DOMAIN segs : ~(first < segs[i].base)
        <5> TAKE i \in DOMAIN segs
        <5>1. segs[i] \in Segment
          BY <2>2 DEF Chain
        <5> QED
          BY <2>1, <5>1 DEF Segment
      <4> QED
        BY SMTT(30), <2>1, <2>3, <2>4, <2>8, <3>1, <4>1 DEF Leftover, Empty
    <3>2. CASE n # NextSegment
      BY Zenon, <2>2, <2>3, <2>8, <3>2 DEF Numbers, Covered, Leftover
    <3> QED
      BY Zenon, <3>1, <3>2
  <2>10. Numbers'
    BY ZenonT(30), <2>1, <2>2, <2>8, <2>9 DEF Numbers
  <2>11. Progress'
    <3>1. CacheOf(active)' = CacheOf(active)
      BY Zenon, <2>1, <2>3, <2>8 DEF CacheOf
    <3> QED
      BY <2>2, <2>3, <2>4, <2>8, <3>1 DEF Progress, Empty
  <2>12. NumbersType'
    BY Zenon, <2>2 DEF NumbersType
  <2> QED
    BY Zenon, <2>1, <2>5, <2>7, <2>10, <2>11, <2>12 DEF DiskInv, Ready

(* The segment that was to be the next one is discarded, or cannot be. *)
<1>DropDisk.
  ASSUME RoundsInv, DiskInv, cpc = "rotate", cpc' \in {"rollback", "unrollable"},
         DOMAIN files' \in {DOMAIN files, DOMAIN files \ {NextSegment}},
         \A n \in DOMAIN files' :
           files'[n] \in {files[n], [cache |-> files[n].cache, stable |-> files[n].cache]},
         UNCHANGED <<reservedFile, phase, segs, nextLSN, reserved, broken, pending, pendingMin,
                     inflight, first>>
  PROVE  DiskInv'
  <2> USE <1>DropDisk
  <2>1. /\ Ready /\ Loaded /\ segs # <<>>
        /\ \A i \in DOMAIN segs : /\ NameOf(segs[i]) # NextSegment
                                  /\ NameOf(segs[i]) \in DOMAIN files
        /\ NameOf(active) # NextSegment
    BY Zenon, NextSegmentFacts
  <2>2. /\ NumbersType /\ Chain /\ Numbers /\ Progress /\ Disk
    BY Zenon, <2>1 DEF DiskInv
  <2>3. Disk'
    <3>2. \A n \in DOMAIN files' : files'[n] \in [cache : Content, stable : Content]
      BY <2>2 DEF Disk
    <3> QED
      BY Zenon, <2>2, <3>2 DEF Disk
  <2>4. \A i \in DOMAIN segs : NameOf(segs[i]) \in DOMAIN files' /\ CacheOf(segs[i])' = CacheOf(segs[i])
    BY <2>1 DEF CacheOf
  <2>5. Chain'
    BY Zenon, <2>2, <2>4 DEF Chain
  <2>6. active' = active /\ CacheOf(active)' = CacheOf(active)
    BY Zenon, <2>1, <2>4, ActiveFacts DEF active
  <2>7. Covered'
    BY <2>2, <2>6 DEF Numbers, Covered, Leftover
  <2>8. Numbers'
    BY Zenon, <2>1, <2>2, <2>6, <2>7 DEF Numbers
  <2>9. Progress'
    BY Zenon, <2>2, <2>6 DEF Progress
  <2>10. NumbersType'
    BY Zenon, <2>2 DEF NumbersType
  <2> QED
    BY Zenon, <2>1, <2>3, <2>5, <2>8, <2>9, <2>10 DEF DiskInv, Ready

(* Recovery sets the numbering up above the records and the reservation. *)
<1>AttachDisk.
  ASSUME RoundsInv, DiskInv, OpenAttach
  PROVE  DiskInv'
  <2> USE <1>AttachDisk
  <2>1. /\ phase = "attach" /\ phase' = "reconcile" /\ segs' = Resumed
        /\ nextLSN' = LastLSN(Last(Resumed)) + 1
        /\ UNCHANGED <<reservedFile, reserved, broken, pending, pendingMin, inflight, first, cpc>>
    BY Zenon DEF OpenAttach, rounds
  <2>2. /\ Loaded /\ Chain /\ Attached /\ NumbersType /\ Disk
    BY Zenon, <2>1 DEF DiskInv, Loaded
  <2>3. cpc = "idle" /\ inflight = <<>> /\ pending = <<>> /\ Len(inflight) = 0 /\ Len(pending) = 0
    BY Zenon, <2>1 DEF RoundsInv, Running
  <2>4. active' = Last(Resumed)
    BY Zenon, <2>1 DEF active, Last
  <2>5. /\ Disk' /\ Chain' /\ segs' # <<>>
        /\ \A n \in DOMAIN files' : \E i \in DOMAIN segs' : n = NameOf(segs'[i])
        /\ active'.count = Len(CacheOf(active)') /\ LastLSN(active') + 1 \in Nat
    <3>1. CASE segs # <<>> /\ segs' = segs /\ files' = files
      <4>1. active' = active /\ CacheOf(active)' = CacheOf(active)
        BY Zenon, <3>1 DEF active, CacheOf
      <4>2. active.count = Len(CacheOf(active)) /\ LastLSN(active) \in Nat
        BY Zenon, <2>2, <3>1, ActiveFacts DEF Attached, active
      <4>3. Disk' /\ Chain'
        BY Zenon, <2>2, <3>1, <1>SameFiles
      <4> QED
        BY <2>2, <3>1, <4>1, <4>2, <4>3 DEF Attached
    <3>2. ASSUME NEW a \in Segment, a.base = reserved + 1, a.count = 0,
                 segs' = Append(segs, a), files' = WithFile(NameOf(a), Empty, Empty),
                 segs = <<>> => a.prev = 0 /\ DOMAIN files = {},
                 segs # <<>> => a.prev = LastLSN(active) /\ reserved > LastLSN(active),
                 \A i \in DOMAIN segs : segs[i].base < a.base /\ LastLSN(segs[i]) <= a.prev,
                 \A n \in DOMAIN files : n[1] < a.base
          PROVE  /\ Disk' /\ Chain' /\ segs' # <<>>
                 /\ \A n \in DOMAIN files' : \E i \in DOMAIN segs' : n = NameOf(segs'[i])
                 /\ active'.count = Len(CacheOf(active)') /\ LastLSN(active') + 1 \in Nat
      <4>1. a.base \in Nat /\ a.prev \in Nat /\ NameOf(a) \in Nat \X Nat /\ NameOf(a)[1] = a.base
            /\ NameOf(a)[2] = a.prev /\ LastLSN(a) + 1 \in Nat
        BY <3>2 DEF Segment, NameOf, LastLSN
      <4>2. a.prev < a.base
        <5>1. CASE segs = <<>>
          BY SMTT(30), <2>2, <3>2, <5>1 DEF NumbersType
        <5>2. CASE segs # <<>>
          BY SMTT(30), <2>2, <3>2, <4>1, <5>2 DEF NumbersType
        <5> QED
          BY Zenon, <5>1, <5>2
      <4>3. NameOf(a) \notin DOMAIN files
        BY <3>2, <4>1
      <4>4. /\ DOMAIN files' = DOMAIN files \cup {NameOf(a)}
            /\ files'[NameOf(a)] = [cache |-> Empty, stable |-> Empty]
            /\ \A n \in DOMAIN files : files'[n] = files[n]
        BY Zenon, <3>2, <4>3 DEF WithFile
      <4>5. Disk'
        <5>2. Empty \in Content
          BY SMTT(30) DEF Empty, Content
        <5>3. \A n \in DOMAIN files' : /\ n \in Nat \X Nat /\ n[2] < n[1]
                                       /\ files'[n] \in [cache : Content, stable : Content]
          BY SMTT(30), <2>2, <4>1, <4>2, <4>4, <5>2 DEF Disk
        <5>4. \A n, m \in DOMAIN files' : n[1] = m[1] => n = m
          BY SMTT(30), <2>2, <3>2, <4>1, <4>4 DEF Disk
        <5> QED
          BY Zenon, <5>3, <5>4 DEF Disk
      <4>6. /\ NameOf(a) \in DOMAIN files' /\ Len(files'[NameOf(a)].cache.recs) \in Nat
            /\ Len(files'[NameOf(a)].cache.recs) = 0
        BY <4>4 DEF Empty
      <4>7. \A i \in DOMAIN segs :
             /\ NameOf(segs[i]) \in DOMAIN files'
             /\ files'[NameOf(segs[i])].cache.recs = CacheOf(segs[i])
             /\ segs[i].count = Len(CacheOf(segs[i]))
             /\ segs[i].base < a.base /\ LastLSN(segs[i]) <= a.prev
        BY Zenon, <2>2, <3>2, <4>4 DEF Chain, Attached, CacheOf
      <4>8. /\ Chain' /\ active' = a /\ Len(segs') = Len(segs) + 1 /\ DOMAIN segs' = 1..(Len(segs) + 1)
            /\ segs'[Len(segs) + 1] = a
            /\ DOMAIN segs \subseteq DOMAIN segs' /\ \A i \in DOMAIN segs : segs'[i] = segs[i]
        BY ZenonT(30), <2>2, <3>2, <4>6, <4>7, AppendChain
      <4>9. Len(segs) \in Nat /\ segs' # <<>> /\ Len(segs) + 1 \in DOMAIN segs'
        BY <2>2, <4>8 DEF Chain
      <4>10. \A n \in DOMAIN files' : \E i \in DOMAIN segs' : n = NameOf(segs'[i])
        BY Zenon, <2>2, <4>4, <4>8, <4>9 DEF Attached
      <4>11. CacheOf(active)' = files'[NameOf(a)].cache.recs
        BY ZenonT(30), <4>8 DEF CacheOf
      <4> QED
        BY ZenonT(30), <3>2, <4>1, <4>5, <4>6, <4>8, <4>9, <4>10, <4>11
    <3> QED
      BY Zenon, <3>1, <3>2, ResumedFacts
  <2>6. Numbers'
    BY <2>1, <2>2, <2>3, <2>4, <2>5 DEF Numbers, Attached, Covered, NumbersType
  <2>7. Progress'
    BY Zenon, <2>1, <2>3, <2>5 DEF Progress
  <2>8. NumbersType'
    BY Zenon, <2>1, <2>2, <2>4, <2>5 DEF NumbersType
  <2> QED
    BY Zenon, <2>1, <2>5, <2>6, <2>7, <2>8 DEF DiskInv

<1> SUFFICES ASSUME RoundsInv, RoundsInv', DiskInv, [Next]_vars PROVE DiskInv'
  BY Zenon
<1>1. CASE \/ UNCHANGED vars \/ SyncFails \/ CloseBegin \/ Deliver \/ Persist \/ Reconcile \/ OpenRefuses
           \/ TruncateDone
  <2>1. /\ UNCHANGED <<files, reservedFile, segs, nextLSN, reserved, broken, pending, pendingMin,
                       inflight, first>>
        /\ cpc' = cpc \/ (cpc # "idle" /\ cpc' = "rollback")
    BY Zenon, <1>1 DEF vars, SyncFails, CloseBegin, Deliver, Persist, Reconcile, OpenRefuses, TruncateDone,
                disk, memory, rounds
  <2>2. TruncateDone => Ready
    BY Zenon DEF TruncateDone, RoundsInv, Ready
  <2>3. (Loaded' => Loaded) /\ (Ready' => Ready) /\ (phase' = "attach" => phase = "attach")
    BY Zenon, <1>1, <2>2 DEF vars, SyncFails, CloseBegin, Deliver, Persist, Reconcile, OpenRefuses, TruncateDone,
                      Loaded, Ready
  <2> QED
    BY Zenon, <2>1, <2>3, <1>RestDisk
<1>2. CASE \E n \in 1..2 : Stage(n)
  BY Zenon, <1>2, <1>StageDisk
<1>3. CASE \E n \in 1..2 : StageReserveFails(n)
  BY Zenon, <1>3, <1>ReserveFailsDisk
<1>4. CASE CommitTake
  BY Zenon, <1>4, <1>TakeDisk
<1>5. CASE RotateCreate \/ RotateCreateFails
  <2>1. /\ cpc = "create" /\ cpc' \in {"rotate", "rollback"}
        /\ UNCHANGED <<reservedFile, phase, segs, nextLSN, reserved, broken, pending, pendingMin,
                       inflight, first>>
        /\ files' = WithFile(NextSegment, Empty, Empty) \/ (UNCHANGED files /\ cpc' = "rollback")
    BY Zenon, <1>5 DEF RotateCreate, RotateCreateFails, rounds, NextSegment
  <2>2. CASE files' = WithFile(NextSegment, Empty, Empty)
    BY Zenon, <2>1, <2>2, <1>CreateDisk
  <2>3. CASE UNCHANGED files /\ cpc' = "rollback"
    <3>1. (Loaded' => Loaded) /\ (Ready' => Ready) /\ (phase' = "attach" => phase = "attach")
      BY Zenon, <2>1 DEF Loaded, Ready
    <3> QED
      BY Zenon, <2>1, <2>3, <3>1, <1>RestDisk
  <2> QED
    BY Zenon, <2>1, <2>2, <2>3
<1>6. CASE RotateSync
  BY Zenon, <1>6, RotateDisk
<1>7. CASE RotateSyncFails \/ RotateCloseFails
  <2>1. /\ cpc = "rotate" /\ cpc' \in {"rollback", "unrollable"}
        /\ UNCHANGED <<reservedFile, phase, segs, nextLSN, reserved, broken, pending, pendingMin,
                       inflight, first>>
    BY Zenon, <1>7 DEF RotateSyncFails, RotateCloseFails, rounds
  <2>2. NameOf(active) \in DOMAIN files
    BY Zenon, <2>1, NextSegmentFacts, ActiveFacts DEF DiskInv
  <2>3. /\ DOMAIN files' \in {DOMAIN files, DOMAIN files \ {NextSegment}}
        /\ \A n \in DOMAIN files' :
             files'[n] \in {files[n], [cache |-> files[n].cache, stable |-> files[n].cache]}
    <3>1. CASE RotateSyncFails
      BY Zenon, <3>1 DEF RotateSyncFails, NextSegment, Without
    <3>2. CASE RotateCloseFails
      BY Zenon, <2>2, <3>2 DEF RotateCloseFails, NextSegment, WithFile
    <3> QED
      BY Zenon, <1>7, <3>1, <3>2
  <2> QED
    BY Zenon, <2>1, <2>3, <1>DropDisk
<1>8. CASE Write \/ WriteFails
  BY Zenon, <1>8, <1>WriteDisk
<1>9. CASE Commit
  BY Zenon, <1>9, CommitDisk
<1>10. CASE Rollback \/ RollbackFails
  BY Zenon, <1>10, <1>RollbackDisk
<1>11. CASE TruncateOne
  BY Zenon, <1>11, TruncateDisk
<1>12. CASE \E kind \in {"process", "machine"} : Crash(kind)
  BY Zenon, <1>12, CrashDisk
<1>13. CASE Vanish
  BY Zenon, <1>13, VanishDisk
<1>14. CASE OpenScan
  BY Zenon, <1>14, ScanDisk
<1>15. CASE OpenAttach
  BY Zenon, <1>15, <1>AttachDisk
<1>16. CASE \E r, s \in BOOLEAN : CloseEnd(r, s)
  BY Zenon, <1>16, CloseDisk
<1>17. CASE ReconcileRefuses
  <2>1. NoProcess /\ phase' = "refused" /\ reservedFile' = reservedFile /\ files' = files
    BY Zenon, <1>17 DEF ReconcileRefuses, disk
  <2>2. Disk' /\ reservedFile' \in Nat
    BY Zenon, <2>1 DEF DiskInv, NumbersType, Disk
  <2> QED
    BY Zenon, <2>1, <2>2, EndDisk
<1> QED
  BY Zenon, <1>1, <1>2, <1>3, <1>4, <1>5, <1>6, <1>7, <1>8, <1>9, <1>10, <1>11, <1>12, <1>13, <1>14,
     <1>15, <1>16, <1>17 DEF Next, Committer, Faulty, Open

=============================================================================
