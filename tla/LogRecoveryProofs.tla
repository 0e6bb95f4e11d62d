------------------------- MODULE LogRecoveryProofs --------------------------
(***************************************************************************)
(* Proofs about which records module Log keeps under which LSNs, and what  *)
(* it recovers, for all constants, upon the invariants of LogProofs:       *)
(*                                                                         *)
(*   FailureIsFinal          a write told of a failure is never delivered  *)
(*   NumbersAreNeverReused   an LSN names one record over all runs         *)
(*   RecoveryAccepts         Open takes every log that was not harmed      *)
(*                                                                         *)
(* The further layers of the inductive invariant:                          *)
(*                                                                         *)
(*   PlacesInv  which records the files and the sink have, and where       *)
(*   ForcedInv  what has been forced to the disk                           *)
(*   MarksInv   the checkpoint, the mark and the first segment             *)
(*   SoundInv   a log that was not harmed is in one piece                  *)
(***************************************************************************)
EXTENDS LogProofs

\* <<LSN, record>> pairs: of a content, of a file, of all files and the sink, of
\* the round in flight, and those whose writers were answered otherwise than by
\* an error of the round.
Held(n, c) == {<<n[1] + i - 1, c.recs[i]>> : i \in DOMAIN c.recs}
InFile(n)  == Held(n, files[n].cache) \cup Held(n, files[n].stable)
Kept       == seen \cup UNION {InFile(n) : n \in DOMAIN files}
Fresh      == {<<first + j - 1, inflight[j]>> : j \in DOMAIN inflight}
Past(p)    == told[p[2]] \in {"ok", "lost", "broken"}
Settled    == {p \in Kept : told[p[2]] \in {"ok", "lost"}}

(***************************************************************************)
(* Every pair in a file or at the sink is of an answered record, none of   *)
(* them failed, or of the round in flight.  The settled ones are ordered   *)
(* alike by LSN and by record, each is in one file, and none is above      *)
(* RESERVED or, in a log that is ready, above the last LSN.                *)
(***************************************************************************)
PlacesInv ==
  /\ seen \subseteq Nat \X Records
  /\ \A p \in seen : Past(p)
  /\ \A n \in DOMAIN files : \A p \in Held(n, files[n].stable) : Past(p)
  /\ \A n \in DOMAIN files : \A p \in Held(n, files[n].cache) :
       Past(p) \/ (p \in Fresh /\ n = NameOf(active) /\ cpc \in {"sync", "rollback"})
  /\ \A p, q \in Settled : p[1] < q[1] <=> p[2] < q[2]
  /\ \A p \in Settled, q \in Kept : told[q[2]] = "broken" /\ p[2] < q[2] => p[1] < q[1]
  /\ \A n, m \in DOMAIN files :
       n # m => \A p \in Settled : ~(p \in InFile(n) /\ p \in InFile(m))
  /\ \A p \in Settled : p[1] <= reservedFile
  /\ Ready => \A p \in Settled : p[1] <= LastLSN(active)

\* A file of which the cache may hold more records than the disk.
Unforced(n) == Running /\ n = NameOf(active) /\ (cpc \in {"sync", "rollback"} \/ broken)

(* In the modes that fsync, until a process leaves a tail to the cache: what *)
(* is published is on the disk, and the active file alone may hold more.  Of *)
(* records, that is: a torn tail may be on the disk after Open has cut it.   *)
ForcedInv ==
  /\ syncNever \in BOOLEAN /\ cached \in BOOLEAN
  /\ ~syncNever /\ ~cached =>
    /\ \A n \in DOMAIN files : files[n].cache.recs = files[n].stable.recs \/ Unforced(n)
    /\ Running => active.count <= Len(files[NameOf(active)].stable.recs)

(* The checkpoint reaches what Truncate may remove, the mark the checkpoint  *)
(* and the end of what was truncated.                                        *)
MarksInv ==
  /\ {checkpoint, mark, lastCP, durable} \subseteq Nat
  /\ trim => lastCP <= checkpoint
  /\ Serving => lastCP <= mark /\ segs[1].prev <= mark

\* The last LSN of a file, the next file, and files that form a chain from the
\* checkpoint: what recovery needs to find.
End(n) == n[1] + Len(files[n].cache.recs) - 1
Adjacent(n, m) == n[1] < m[1] /\ \A k \in DOMAIN files : k[1] <= n[1] \/ m[1] <= k[1]
Linked ==
  /\ \A n, m \in DOMAIN files : Adjacent(n, m) => m[2] = End(n) /\ ~files[n].cache.torn
  /\ \A n \in DOMAIN files : (\A m \in DOMAIN files : n[1] <= m[1]) => n[2] <= checkpoint

\* The same of a log that has been opened.
Whole ==
  /\ \A n \in DOMAIN files : \/ \E i \in DOMAIN segs : n = NameOf(segs[i])
                             \/ cpc = "rotate" /\ n = NextSegment
  /\ \A n \in DOMAIN files :
       files[n].cache.torn => segs # <<>> /\ n = NameOf(active) /\ (cpc = "rollback" \/ broken)
  /\ segs # <<>> => segs[1].prev <= checkpoint

(* A log that was not harmed is in one piece, and Open has not refused it.   *)
SoundInv ==
  /\ harmed \in BOOLEAN
  /\ ~harmed => /\ phase # "refused"
                /\ phase = "down" => Linked
                /\ Loaded => Whole

-----------------------------------------------------------------------------
(* The records: which of them the files hold, and under which LSN. *)

(* The records of the round under way have the LSNs that follow those in     *)
(* use, in their order, and RESERVED covers them.                            *)
LEMMA FreshFacts ==
  ASSUME RoundsInv, DiskInv
  PROVE  /\ Fresh # {} => Ready /\ cpc # "idle" /\ LastLSN(active) \in Nat
         /\ \A p \in Fresh : /\ p \in Nat \X Records /\ told[p[2]] = "staged"
                             /\ LastLSN(active) < p[1] /\ p[1] <= LastLSN(active) + Len(inflight)
                             /\ p[1] <= nextLSN - 1 /\ p[1] <= reservedFile
         /\ \A p, q \in Fresh : p[1] < q[1] <=> p[2] < q[2]
<1>1. inflight \in Seq(Records) /\ Len(inflight) \in Nat /\ DOMAIN inflight = 1..Len(inflight)
      /\ Len(pending) \in Nat
  BY DEF RoundsInv, RoundsType
<1> SUFFICES ASSUME inflight # <<>>
             PROVE  /\ Ready /\ cpc # "idle" /\ LastLSN(active) \in Nat
                    /\ \A p \in Fresh : /\ p \in Nat \X Records /\ told[p[2]] = "staged"
                             /\ LastLSN(active) < p[1] /\ p[1] <= LastLSN(active) + Len(inflight)
                             /\ p[1] <= nextLSN - 1 /\ p[1] <= reservedFile
                    /\ \A p, q \in Fresh : p[1] < q[1] <=> p[2] < q[2]
  <2>1. inflight = <<>> => Fresh = {}
    BY DEF Fresh
  <2> QED
    BY Zenon, <2>1
<1>2. cpc # "idle" /\ Running /\ Ready /\ Loaded
  BY Zenon DEF RoundsInv, Running, Ready, Loaded
<1>3. Numbers /\ NumbersType /\ segs # <<>>
  BY Zenon, <1>2 DEF DiskInv, Numbers
<1>4. LastLSN(active) \in Nat
  BY Zenon, <1>2, <1>3, ActiveFacts
<1>5. first = LastLSN(active) + 1 /\ nextLSN - 1 >= LastLSN(active) + Len(inflight)
      /\ nextLSN - 1 <= reservedFile /\ nextLSN \in Nat /\ reservedFile \in Nat
  <2>1. /\ nextLSN = LastLSN(active) + 1 + Len(inflight) + Len(pending)
        /\ first = LastLSN(active) + 1 /\ nextLSN - 1 <= reserved /\ reserved <= reservedFile
        /\ nextLSN \in Nat /\ reserved \in Nat /\ reservedFile \in Nat
    BY Zenon, <1>2, <1>3 DEF Numbers, NumbersType
  <2> QED
    BY SMTT(30), <1>1, <1>4, <2>1
<1>6. \A p \in Fresh : \E j \in DOMAIN inflight : p[1] = first + j - 1 /\ p[2] = inflight[j] /\ p = <<p[1], p[2]>>
  BY DEF Fresh
<1>7. \A j \in DOMAIN inflight : inflight[j] \in Records /\ told[inflight[j]] = "staged"
  BY <1>1 DEF RoundsInv, Range
<1>8. ASSUME NEW p \in Fresh
      PROVE  /\ p \in Nat \X Records /\ told[p[2]] = "staged"
             /\ LastLSN(active) < p[1] /\ p[1] <= LastLSN(active) + Len(inflight)
             /\ p[1] <= nextLSN - 1 /\ p[1] <= reservedFile
  <2>1. PICK j \in DOMAIN inflight : p[1] = first + j - 1 /\ p[2] = inflight[j] /\ p = <<p[1], p[2]>>
    BY Zenon, <1>6, <1>8
  <2>2. j \in Nat /\ 1 <= j /\ j <= Len(inflight)
    BY <1>1, <2>1
  <2> QED
    BY <1>1, <1>4, <1>5, <1>7, <2>1, <2>2
<1>9. ASSUME NEW p \in Fresh, NEW q \in Fresh PROVE p[1] < q[1] <=> p[2] < q[2]
  <2>1. PICK i \in DOMAIN inflight : p[1] = first + i - 1 /\ p[2] = inflight[i]
    BY Zenon, <1>6, <1>9
  <2>2. PICK j \in DOMAIN inflight : q[1] = first + j - 1 /\ q[2] = inflight[j]
    BY Zenon, <1>6, <1>9
  <2>3. (i < j => inflight[i] < inflight[j]) /\ (j < i => inflight[j] < inflight[i])
    BY Zenon DEF RoundsInv, Ascending
  <2>4. inflight[i] \in Nat /\ inflight[j] \in Nat
    BY <1>7, LogAssumption DEF Records
  <2> QED
    <3>1. i \in Nat /\ j \in Nat /\ first \in Nat
      BY <1>1, <1>4, <1>5
    <3>2. (first + i - 1 < first + j - 1 <=> i < j) /\ (i < j \/ i = j \/ j < i)
      BY <3>1
    <3>3. PICK a \in Nat, b \in Nat : a = inflight[i] /\ b = inflight[j]
      BY Zenon, <2>4
    <3>4. (i < j => a < b) /\ (j < i => b < a) /\ (i = j => a = b)
      BY Zenon, <2>3, <3>3
    <3>5. i < j <=> a < b
      BY <3>1, <3>4
    <3> QED
      BY Zenon, <2>1, <2>2, <3>2, <3>3, <3>5
<1> QED
  BY Zenon, <1>2, <1>4, <1>8, <1>9

(* A record in a file was answered, or is of the round under way and in the  *)
(* active segment.                                                           *)
LEMMA KeptFacts ==
  ASSUME RoundsInv, DiskInv, PlacesInv
  PROVE  /\ \A n \in DOMAIN files : \A p \in InFile(n) : p \in Kept
         /\ \A p \in Kept : /\ p \in Nat \X Records
                            /\ told[p[2]] \in {"ok", "lost", "broken", "staged"}
                            /\ told[p[2]] = "staged" => p \in Fresh /\ p \notin seen
         /\ \A n \in DOMAIN files : \A p \in InFile(n) :
              told[p[2]] = "staged" => n = NameOf(active) /\ cpc \in {"sync", "rollback"}
(* The pairs of a content are its records at their LSNs. *)
<1>HeldFacts.
  ASSUME NEW n \in Nat \X Nat, n[2] < n[1], NEW c \in Content
  PROVE  /\ \A i \in DOMAIN c.recs :
              /\ i \in Nat /\ i >= 1 /\ n[1] + i - 1 \in Nat /\ c.recs[i] \in Records
              /\ <<n[1] + i - 1, c.recs[i]>> \in Held(n, c)
         /\ \A p \in Held(n, c) :
              /\ p \in Nat \X Records
              /\ \E i \in DOMAIN c.recs : p = <<n[1] + i - 1, c.recs[i]>>
  <2> USE <1>HeldFacts
  <2>1. c.recs \in Seq(Records) /\ n[1] \in Nat /\ n[2] \in Nat
    BY Zenon DEF Content
  <2>2. \A i \in DOMAIN c.recs : i \in Nat /\ i >= 1 /\ n[1] + i - 1 \in Nat /\ c.recs[i] \in Records
    BY <2>1
  <2> QED
    BY <2>2 DEF Held

<1>1. \A n \in DOMAIN files : \A p \in InFile(n) :
        /\ p \in Nat \X Records
        /\ told[p[2]] \in {"ok", "lost", "broken"} \/ (p \in Fresh /\ n = NameOf(active) /\ cpc \in {"sync", "rollback"})
  <2> TAKE n \in DOMAIN files
  <2>1. n \in Nat \X Nat /\ n[2] < n[1] /\ files[n].cache \in Content /\ files[n].stable \in Content
    BY Zenon DEF DiskInv, Disk
  <2>2. \A p \in Held(n, files[n].cache) : p \in Nat \X Records
    BY Zenon, <2>1, <1>HeldFacts
  <2>3. \A p \in Held(n, files[n].stable) : p \in Nat \X Records
    BY Zenon, <2>1, <1>HeldFacts
  <2> QED
    BY Zenon, <2>2, <2>3 DEF PlacesInv, InFile, Past
<1>2. \A p \in Fresh : told[p[2]] = "staged"
  BY Zenon, FreshFacts
<1>3. \A p \in seen : p \in Nat \X Records /\ told[p[2]] \in {"ok", "lost", "broken"}
  BY Zenon DEF PlacesInv, Past
<1> QED
  BY Zenon, <1>1, <1>2, <1>3 DEF Kept


(* A log that is ready has a last LSN. *)
LEMMA LastIsNat == DiskInv /\ Ready => LastLSN(active) \in Nat
BY Zenon, ActiveFacts DEF DiskInv, Ready, Loaded, Numbers

(* What a write appends to the active segment is of the round under way. *)
LEMMA AppendedFacts ==
  ASSUME RoundsInv, DiskInv, cpc = "write", NEW k \in 0..Len(inflight), NEW torn \in BOOLEAN
  PROVE  LET n == NameOf(active)
             c == files[n].cache
             a == Appended(k, torn)
         IN  /\ \A p \in Held(n, a) : p \in Held(n, c) \/ p \in Fresh
             /\ \A i \in DOMAIN c.recs : i \in DOMAIN a.recs /\ a.recs[i] = c.recs[i]
<1> DEFINE n == NameOf(active)
           c == files[n].cache
           a == Appended(k, torn)
           s == SubSeq(inflight, 1, k)
<1>1. Running /\ Ready /\ Loaded /\ ~broken
  BY Zenon DEF RoundsInv, RoundsType, Running, Ready, Loaded
<1>2. Numbers /\ Progress /\ segs # <<>>
  BY Zenon, <1>1 DEF DiskInv, Numbers
<1>3. /\ active \in Segment /\ n \in DOMAIN files /\ c \in Content /\ LastLSN(active) \in Nat
      /\ Len(c.recs) = active.count /\ first = LastLSN(active) + 1
  BY Zenon, <1>1, <1>2, ActiveFacts DEF Numbers, Progress, CacheOf
<1>4. c.recs \in Seq(Records) /\ inflight \in Seq(Records) /\ active.base \in Nat /\ active.count \in Nat
      /\ first = active.base + active.count /\ n[1] = active.base
  BY SMTT(30), <1>3 DEF Content, RoundsInv, RoundsType, Segment, LastLSN, NameOf
<1>5. /\ s \in Seq(Records) /\ Len(s) = k /\ DOMAIN s = 1..k
      /\ \A j \in 1..k : j \in DOMAIN inflight /\ s[j] = inflight[j]
  BY <1>4
<1> HIDE DEF s
<1>6. /\ \A i \in DOMAIN c.recs : (c.recs \o s)[i] = c.recs[i]
      /\ \A j \in DOMAIN s : (c.recs \o s)[Len(c.recs) + j] = s[j]
      /\ \A i \in DOMAIN (c.recs \o s) : i \in DOMAIN c.recs \/ \E j \in DOMAIN s : i = Len(c.recs) + j
      /\ Len(c.recs \o s) = Len(c.recs) + Len(s) /\ c.recs \o s \in Seq(Records)
  <2>1. c.recs \o s \in Seq(Records) /\ Joined(c.recs \o s, c.recs, s)
    BY Zenon, <1>4, <1>5, Concatenation
  <2> QED
    BY Zenon, <2>1 DEF Joined
<1>7. a.recs = c.recs \o s
  BY Zenon DEF Appended, s
<1> HIDE DEF c
<1>8. PICK r \in Seq(Records) :
        /\ r = a.recs /\ \A i \in DOMAIN c.recs : i \in DOMAIN r /\ r[i] = c.recs[i]
        /\ \A j \in DOMAIN s : r[Len(c.recs) + j] = s[j]
        /\ \A i \in DOMAIN r : i \in DOMAIN c.recs \/ \E j \in DOMAIN s : i = Len(c.recs) + j
  <2>1. \A i \in DOMAIN c.recs : i \in DOMAIN (c.recs \o s)
    BY SMTT(30), <1>4, <1>5, <1>6
  <2> QED
    BY Zenon, <1>6, <1>7, <2>1
<1> HIDE DEF a
<1>9. \A p \in Held(n, a) : p \in Held(n, c) \/ p \in Fresh
  <2> TAKE p \in Held(n, a)
  <2>1. PICK i \in DOMAIN r : p = <<n[1] + i - 1, r[i]>>
    BY Zenon, <1>8 DEF Held
  <2>2. CASE i \in DOMAIN c.recs
    BY Zenon, <1>8, <2>1, <2>2 DEF Held
  <2>3. CASE i \notin DOMAIN c.recs
    <3>1. PICK j \in DOMAIN s : i = Len(c.recs) + j
      BY Zenon, <1>8, <2>1, <2>3
    <3>2. r[i] = inflight[j] /\ j \in DOMAIN inflight /\ j \in Nat
      BY <1>5, <1>8, <3>1
    <3>3. n[1] + i - 1 = first + j - 1
      <4>1. PICK b \in Nat, m \in Nat : b = active.base /\ m = active.count
        BY Zenon, <1>4
      <4>2. i = m + j /\ n[1] = b /\ first = b + m
        BY Zenon, <1>3, <1>4, <3>1, <4>1 DEF c
      <4> HIDE DEF n
      <4> QED
        BY <3>2, <4>2
    <3> QED
      BY Zenon, <2>1, <3>2, <3>3 DEF Fresh
  <2> QED
    BY Zenon, <2>2, <2>3
<1> QED
  BY Zenon, <1>8, <1>9 DEF a, c


(* An LSN that is published is in one segment, and names what that holds. *)
LEMMA ReadFacts ==
  ASSUME DiskInv, Ready, NEW l \in PublishedLSNs
  PROVE  /\ l \in Nat /\ l <= LastLSN(active)
         /\ \E i \in DOMAIN segs : l \in LSNsOf(segs[i])
         /\ \A i \in DOMAIN segs :
              l \in LSNsOf(segs[i]) =>
                /\ l - segs[i].base + 1 \in 1..segs[i].count
                /\ l - segs[i].base + 1 \in DOMAIN CacheOf(segs[i])
                /\ RecordAt(l) = CacheOf(segs[i])[l - segs[i].base + 1]
<1>1. Loaded /\ segs # <<>> /\ Chain /\ Disk /\ LastLSN(active) \in Nat
  BY Zenon, LastIsNat DEF DiskInv, Ready, Loaded, Numbers
<1>2. \E i \in DOMAIN segs : l \in LSNsOf(segs[i])
  BY Zenon DEF PublishedLSNs
<1>3. \A i \in DOMAIN segs :
        /\ segs[i].base \in Nat /\ segs[i].count \in Nat /\ segs[i].prev \in Nat
        /\ LastLSN(segs[i]) \in Nat /\ LastLSN(segs[i]) <= LastLSN(active)
        /\ LastLSN(segs[i]) = segs[i].base + segs[i].count - 1
        /\ segs[i].prev < segs[i].base /\ NameOf(segs[i]) \in DOMAIN files
  BY Zenon, <1>1, ActiveFacts DEF Segment, LastLSN
<1>4. \A i, j \in DOMAIN segs : l \in LSNsOf(segs[i]) /\ l \in LSNsOf(segs[j]) => i = j
  <2> SUFFICES ASSUME NEW i \in DOMAIN segs, NEW j \in DOMAIN segs, i < j,
                      l \in LSNsOf(segs[i]), l \in LSNsOf(segs[j])
               PROVE  FALSE
    <3>1. \A i \in DOMAIN segs : i \in Nat
      BY <1>1 DEF Chain
    <3> QED
      BY <3>1
  <2>1. LastLSN(segs[i]) <= segs[j].prev
    BY Zenon, <1>1 DEF Chain
  <2>2. l <= LastLSN(segs[i]) /\ segs[j].base <= l /\ l \in Int
    BY <1>3 DEF LSNsOf
  <2> QED
    BY <1>3, <2>1, <2>2
<1>5. PICK k \in DOMAIN segs : l \in LSNsOf(segs[k])
  BY Zenon, <1>2
<1>6. l \in Nat /\ l <= LastLSN(active)
  <2>1. l \in Int /\ segs[k].base <= l /\ l <= LastLSN(segs[k])
    BY <1>3, <1>5 DEF LSNsOf
  <2> QED
    BY <1>1, <1>3, <2>1
<1>7. RecordAt(l) = CacheOf(segs[k])[l - segs[k].base + 1]
  <2> DEFINE s == CHOOSE s \in Range(segs) : l \in LSNsOf(s)
  <2>1. \E a \in Range(segs) : l \in LSNsOf(a)
    BY Zenon, <1>5 DEF Range
  <2>2. s \in Range(segs) /\ l \in LSNsOf(s)
    BY Zenon, <2>1
  <2>3. RecordAt(l) = files[NameOf(s)].cache.recs[l - s.base + 1]
    BY Zenon DEF RecordAt
  <2> HIDE DEF s
  <2>4. s = segs[k]
    BY Zenon, <1>4, <1>5, <2>2 DEF Range
  <2> QED
    BY Zenon, <2>3, <2>4 DEF CacheOf
<1>8. /\ l - segs[k].base + 1 \in 1..segs[k].count
      /\ l - segs[k].base + 1 \in DOMAIN CacheOf(segs[k])
  <2>1. l - segs[k].base + 1 \in 1..segs[k].count
    BY <1>3, <1>5, <1>6 DEF LSNsOf
  <2>2. CacheOf(segs[k]) \in Seq(Records) /\ segs[k].count <= Len(CacheOf(segs[k]))
    BY Zenon, <1>1, <1>3 DEF Disk, Content, CacheOf, Chain
  <2> QED
    BY <1>3, <2>1, <2>2
<1> QED
  BY Zenon, <1>2, <1>4, <1>5, <1>6, <1>7, <1>8

(* The sink is given a record of the files that was answered. *)
LEMMA DeliveredIsPast ==
  ASSUME RoundsInv, DiskInv, PlacesInv, Deliver
  PROVE  <<mark', RecordAt(mark')>> \in Kept /\ Past(<<mark', RecordAt(mark')>>)
<1>1. /\ phase = "up" /\ Readable # {} /\ mark' = Min(Readable)
      /\ seen' = seen \cup {<<mark', RecordAt(mark')>>}
      /\ UNCHANGED <<files, segs, reservedFile, first, inflight, cpc, told, phase>>
  BY Zenon DEF Deliver, disk, memory, rounds
<1>2. Ready
  BY Zenon, <1>1 DEF Ready
<1>3. PICK l \in PublishedLSNs : l = mark'
  <2>1. \A l \in Readable : l \in PublishedLSNs
    BY Zenon DEF Readable
  <2>2. Readable \in SUBSET Nat
    BY Zenon, <1>2, <2>1, ReadFacts
  <2> PICK S \in SUBSET Nat : S = Readable
    BY Zenon, <2>2
  <2>3. Min(S) \in S
    BY Zenon, <1>1, Least
  <2> QED
    BY Zenon, <1>1, <2>1, <2>3
<1>4. PICK i \in DOMAIN segs :
        /\ l \in LSNsOf(segs[i]) /\ l \in Nat /\ l <= LastLSN(active)
        /\ l - segs[i].base + 1 \in DOMAIN CacheOf(segs[i])
        /\ RecordAt(l) = CacheOf(segs[i])[l - segs[i].base + 1]
  BY Zenon, <1>2, ReadFacts
<1> DEFINE p == <<l, RecordAt(l)>>
           n == NameOf(segs[i])
<1>5. n \in DOMAIN files /\ segs[i].base \in Nat /\ n[1] = segs[i].base /\ LastLSN(active) \in Nat
  BY Zenon, <1>2, ActiveFacts DEF DiskInv, Ready, Loaded, Numbers, Segment, NameOf
<1>6. p \in Held(n, files[n].cache)
  <2> DEFINE k == l - segs[i].base + 1
  <2>1. k \in DOMAIN files[n].cache.recs /\ RecordAt(l) = files[n].cache.recs[k]
    BY Zenon, <1>4 DEF CacheOf
  <2>2. l = n[1] + k - 1
    BY <1>4, <1>5
  <2> HIDE DEF k
  <2> QED
    BY Zenon, <2>1, <2>2 DEF Held
<1>7. p \notin Fresh
  <2>1. p \in Fresh => LastLSN(active) < p[1]
    BY Zenon, FreshFacts
  <2> QED
    BY <1>4, <1>5, <2>1
<1>8. Past(p) /\ p \in Kept
  BY <1>5, <1>6, <1>7 DEF PlacesInv, Kept, InFile
<1> QED
  BY Zenon, <1>3, <1>8

(* Every step keeps the records where their LSNs say.                        *)
LEMMA PlacesNext ==
  RoundsInv /\ DiskInv /\ DiskInv' /\ PlacesInv /\ [Next]_vars => PlacesInv'
(* A step that brings no record to a file but one of the round under way,    *)
(* and settles or breaks no record but one of that round.                    *)
<1>PlacesStep.
  ASSUME RoundsInv, DiskInv, DiskInv', PlacesInv,
         \A p \in seen' : p \in seen \/ (p \in Kept /\ Past(p)),
         \A n \in DOMAIN files' : \A p \in InFile(n)' :
           (n \in DOMAIN files /\ p \in InFile(n)) \/ told'[p[2]] = "staged",
         \A r \in Records : /\ told'[r] \in {"ok", "lost"} => told[r] \in {"ok", "lost", "staged"}
                            /\ told'[r] = "broken" => told[r] \in {"broken", "staged"}
                            /\ told[r] \in {"ok", "lost", "broken"} => told'[r] \in {"ok", "lost", "broken"},
         reservedFile' >= reservedFile \/ (Ready /\ reservedFile' >= nextLSN - 1),
         Ready' => \/ /\ Ready /\ LastLSN(active)' >= LastLSN(active)
                      /\ \A r \in Records : told'[r] \in {"ok", "lost"} => told[r] # "staged"
                   \/ Ready /\ LastLSN(active)' = LastLSN(active) + Len(inflight)
                   \/ LastLSN(active)' >= reservedFile',
         \A n \in DOMAIN files' : \A p \in Held(n, files'[n].stable) : Past(p)',
         \A n \in DOMAIN files' : \A p \in Held(n, files'[n].cache) :
           Past(p)' \/ (p \in Fresh' /\ n = NameOf(active)' /\ cpc' \in {"sync", "rollback"})
  PROVE  PlacesInv'
  <2> USE <1>PlacesStep
  <2>1. /\ \A n \in DOMAIN files : \A p \in InFile(n) : p \in Kept
        /\ \A p \in Kept : /\ p \in Nat \X Records
                           /\ told[p[2]] \in {"ok", "lost", "broken", "staged"}
                           /\ told[p[2]] = "staged" => p \in Fresh /\ p \notin seen
        /\ \A n \in DOMAIN files : \A p \in InFile(n) :
             told[p[2]] = "staged" => n = NameOf(active) /\ cpc \in {"sync", "rollback"}
    BY Zenon, KeptFacts
  <2>2. /\ Fresh # {} => Ready /\ cpc # "idle" /\ LastLSN(active) \in Nat
        /\ \A p \in Fresh : /\ p \in Nat \X Records /\ told[p[2]] = "staged"
                            /\ LastLSN(active) < p[1] /\ p[1] <= LastLSN(active) + Len(inflight)
                            /\ p[1] <= nextLSN - 1 /\ p[1] <= reservedFile
        /\ \A p, q \in Fresh : p[1] < q[1] <=> p[2] < q[2]
    BY Zenon, FreshFacts
  <2>3. \A p \in seen : p \in Kept
    BY Zenon DEF Kept
  <2>4. \A p \in Kept' : p \in Kept \/ told'[p[2]] = "staged"
    <3> TAKE p \in Kept'
    <3>1. CASE p \in seen'
      BY Zenon, <2>3, <3>1
    <3>2. CASE \E n \in DOMAIN files' : p \in InFile(n)'
      BY Zenon, <2>1, <3>2
    <3> QED
      BY <3>1, <3>2 DEF Kept
  <2>5. \A p \in Settled' : p \in Kept /\ told'[p[2]] \in {"ok", "lost"} /\ (p \in Settled \/ p \in Fresh)
    BY Zenon, <2>1, <2>4 DEF Settled
  <2>6. \A q \in Kept' : told'[q[2]] = "broken" =>
          q \in Kept /\ (told[q[2]] = "broken" \/ q \in Fresh)
    BY Zenon, <2>1, <2>4
  <2>7. \A p \in Settled : /\ p \in Nat \X Records /\ p[1] \in Nat /\ p[2] \in Int
                           /\ told[p[2]] \in {"ok", "lost"} /\ p[1] <= reservedFile
                           /\ Ready => p[1] <= LastLSN(active)
    BY <2>1, LogAssumption DEF Settled, PlacesInv, Records
  <2>8. \A p \in Fresh : p[1] \in Nat /\ p[2] \in Records /\ p[2] \in Int
    BY <2>2, LogAssumption DEF Records
  <2>9. \A p \in Settled, q \in Fresh : p[1] < q[1] /\ p[2] < q[2]
    <3> TAKE p \in Settled, q \in Fresh
    <3>1. p[1] <= LastLSN(active) /\ LastLSN(active) < q[1] /\ LastLSN(active) \in Nat
      BY Zenon, <2>2, <2>7
    <3>2. p[2] < q[2]
      BY <2>2, <2>7, <2>8 DEF RoundsInv
    <3> QED
      BY <2>7, <2>8, <3>1, <3>2
  <2>10. (\A p \in seen : p \in Nat \X Records)' /\ (\A p \in seen : Past(p))'
    <3>1. \A p \in seen' : p \in Kept /\ Past(p)
      BY Zenon, <2>3 DEF PlacesInv
    <3> QED
      BY Zenon, <2>1, <3>1 DEF Past
  <2>11. \A p, q \in Settled' : p[1] < q[1] <=> p[2] < q[2]
    <3> TAKE p, q \in Settled'
    <3>1. CASE p \in Settled /\ q \in Settled
      BY Zenon, <3>1 DEF PlacesInv
    <3>2. CASE p \in Settled /\ q \in Fresh
      BY Zenon, <2>9, <3>2
    <3>3. CASE p \in Fresh /\ q \in Settled
      <4>1. q[1] < p[1] /\ q[2] < p[2]
        BY Zenon, <2>9, <3>3
      <4> QED
        BY <2>7, <2>8, <3>3, <4>1
    <3>4. CASE p \in Fresh /\ q \in Fresh
      BY Zenon, <2>2, <3>4
    <3> QED
      BY Zenon, <2>5, <3>1, <3>2, <3>3, <3>4
  <2>12. \A p \in Settled', q \in Kept' : told'[q[2]] = "broken" /\ p[2] < q[2] => p[1] < q[1]
    <3> SUFFICES ASSUME NEW p \in Settled', NEW q \in Kept', told'[q[2]] = "broken", p[2] < q[2]
                 PROVE  p[1] < q[1]
      BY Zenon
    <3>1. q \in Kept /\ (told[q[2]] = "broken" \/ q \in Fresh) /\ q \in Nat \X Records
      <4>1. q \in Kept /\ (told[q[2]] = "broken" \/ q \in Fresh)
        BY Zenon, <2>6
      <4> QED
        BY Zenon, <2>1, <4>1
    <3>2. CASE p \in Settled /\ told[q[2]] = "broken"
      BY Zenon, <3>1, <3>2 DEF PlacesInv
    <3>3. CASE p \in Settled /\ q \in Fresh
      BY Zenon, <2>9, <3>3
    <3>4. CASE p \in Fresh /\ told[q[2]] = "broken"
      <4>1. q[2] < p[2] /\ q[2] \in Int
        BY SMTT(30), <2>2, <2>8, <3>1, <3>4, LogAssumption DEF RoundsInv, Records
      <4> QED
        BY SMTT(30), <2>8, <3>4, <4>1
    <3>5. CASE p \in Fresh /\ q \in Fresh
      BY Zenon, <2>2, <3>5
    <3> QED
      BY Zenon, <2>5, <3>1, <3>2, <3>3, <3>4, <3>5
  <2>13. \A n, m \in DOMAIN files' :
           n # m => \A p \in Settled' : ~(p \in InFile(n)' /\ p \in InFile(m)')
    <3> SUFFICES ASSUME NEW n \in DOMAIN files', NEW m \in DOMAIN files', n # m,
                        NEW p \in Settled', p \in InFile(n)', p \in InFile(m)'
                 PROVE  FALSE
      BY Zenon
    <3>1. n \in DOMAIN files /\ p \in InFile(n) /\ m \in DOMAIN files /\ p \in InFile(m)
      BY Zenon, <2>5
    <3>2. CASE p \in Settled
      BY Zenon, <3>1, <3>2 DEF PlacesInv
    <3>3. CASE p \in Fresh
      <4>1. n = NameOf(active) /\ m = NameOf(active)
        BY Zenon, <2>1, <2>2, <3>1, <3>3
      <4> QED
        BY Zenon, <4>1
    <3> QED
      BY Zenon, <2>5, <3>2, <3>3
  <2>14. \A p \in Settled' : p[1] <= reservedFile'
    <3> TAKE p \in Settled'
    <3>0. reservedFile \in Nat /\ reservedFile' \in Nat /\ nextLSN \in Nat
      BY Zenon DEF DiskInv, NumbersType
    <3>1. CASE reservedFile' >= reservedFile
      BY SMTT(30), <2>2, <2>5, <2>7, <2>8, <3>0, <3>1
    <3>2. CASE Ready /\ reservedFile' >= nextLSN - 1
      <4>1. LastLSN(active) \in Nat /\ LastLSN(active) <= nextLSN - 1
        <5>1. Numbers /\ Loaded
          BY Zenon, <3>2 DEF DiskInv, Ready, Loaded
        <5>2. LastLSN(active) \in Nat /\ Len(inflight) \in Nat /\ Len(pending) \in Nat
          BY <5>1, ActiveFacts DEF Numbers, RoundsInv, RoundsType
        <5> QED
          BY <5>1, <5>2 DEF Numbers
      <4> QED
        BY SMTT(30), <2>2, <2>5, <2>7, <2>8, <3>0, <3>2, <4>1
    <3> QED
      BY Zenon, <3>1, <3>2
  <2>15. Ready' => \A p \in Settled' : p[1] <= LastLSN(active)'
    <3> SUFFICES ASSUME Ready', NEW p \in Settled' PROVE p[1] <= LastLSN(active)'
      BY Zenon
    <3>1. p[1] \in Nat /\ LastLSN(active)' \in Nat
      <4>1. (LastLSN(active) \in Nat)'
        BY LastIsNat, PTL
      <4> QED
        BY Zenon, <2>5, <2>7, <2>8, <4>1
    <3>2. Ready => LastLSN(active) \in Nat /\ Len(inflight) \in Nat
      <4>1. inflight \in Seq(Records)
        BY Zenon DEF RoundsInv, RoundsType
      <4>2. Len(inflight) \in Nat
        BY <4>1
      <4> QED
        BY Zenon, <4>2, LastIsNat
    <3>3. CASE /\ Ready /\ LastLSN(active)' >= LastLSN(active)
               /\ \A r \in Records : told'[r] \in {"ok", "lost"} => told[r] # "staged"
      <4>1. p \in Settled
        BY Zenon, <2>2, <2>5, <2>8, <3>3
      <4> QED
        BY SMTT(30), <2>7, <3>1, <3>2, <3>3, <4>1
    <3>4. CASE Ready /\ LastLSN(active)' = LastLSN(active) + Len(inflight)
      <4>1. CASE p \in Settled
        BY SMTT(30), <2>7, <3>1, <3>2, <3>4, <4>1
      <4>2. CASE p \in Fresh
        BY Zenon, <2>2, <3>4, <4>2
      <4> QED
        BY Zenon, <2>5, <4>1, <4>2
    <3>5. CASE LastLSN(active)' >= reservedFile'
      <4>1. reservedFile' \in Nat
        BY Zenon DEF DiskInv, NumbersType
      <4> QED
        BY <2>14, <3>1, <3>5, <4>1
    <3> QED
      BY Zenon, <3>3, <3>4, <3>5
  <2> QED
    BY Zenon, <2>10, <2>11, <2>12, <2>13, <2>14, <2>15 DEF PlacesInv

(* A step that answers nobody and at most loses or forces what files hold. *)
<1>QuietPlaces.
  ASSUME RoundsInv, DiskInv, DiskInv', PlacesInv, seen' = seen,
         \A r \in Records : told'[r] = told[r] \/ (told[r] = "new" /\ told'[r] = "staged"),
         \A n \in DOMAIN files' : \A p \in Held(n, files'[n].cache) :
           n \in DOMAIN files /\ p \in Held(n, files[n].cache),
         \A n \in DOMAIN files' : \A p \in Held(n, files'[n].stable) :
           /\ n \in DOMAIN files
           /\ \/ p \in Held(n, files[n].stable)
              \/ p \in Held(n, files[n].cache) /\ cpc \notin {"sync", "rollback"},
         reservedFile' >= reservedFile \/ (Ready /\ reservedFile' >= nextLSN - 1),
         Ready' => \/ Ready /\ LastLSN(active)' >= LastLSN(active)
                   \/ LastLSN(active)' >= reservedFile',
         \/ cpc \notin {"sync", "rollback"}
         \/ cpc' \in {"sync", "rollback"} /\ Fresh' = Fresh /\ NameOf(active)' = NameOf(active)
  PROVE  PlacesInv'
  <2> USE <1>QuietPlaces
  <2>1. \A n \in DOMAIN files' : \A p \in InFile(n)' : n \in DOMAIN files /\ p \in InFile(n)
    BY Zenon DEF InFile
  <2>2. \A n \in DOMAIN files : \A p \in InFile(n) : p \in Nat \X Records
    BY Zenon, KeptFacts
  <2>3. \A p \in Nat \X Records : Past(p) => Past(p)'
    BY Zenon DEF Past
  <2>4. \A n \in DOMAIN files' : \A p \in Held(n, files'[n].stable) : Past(p)'
    <3> TAKE n \in DOMAIN files'
    <3> TAKE p \in Held(n, files'[n].stable)
    <3>1. n \in DOMAIN files /\ p \in Nat \X Records
      BY Zenon, <2>1, <2>2 DEF InFile
    <3>2. Past(p)
      BY Zenon, <3>1 DEF PlacesInv
    <3> QED
      BY Zenon, <2>3, <3>1, <3>2
  <2>5. \A n \in DOMAIN files' : \A p \in Held(n, files'[n].cache) :
          Past(p)' \/ (p \in Fresh' /\ n = NameOf(active)' /\ cpc' \in {"sync", "rollback"})
    <3> TAKE n \in DOMAIN files'
    <3> TAKE p \in Held(n, files'[n].cache)
    <3>1. n \in DOMAIN files /\ p \in Held(n, files[n].cache) /\ p \in Nat \X Records
      BY Zenon, <2>1, <2>2 DEF InFile
    <3>2. Past(p) \/ (p \in Fresh /\ n = NameOf(active) /\ cpc \in {"sync", "rollback"})
      BY Zenon, <3>1 DEF PlacesInv
    <3> QED
      BY Zenon, <2>3, <3>1, <3>2
  <2>6. Ready' => \/ /\ Ready /\ LastLSN(active)' >= LastLSN(active)
                     /\ \A r \in Records : told'[r] \in {"ok", "lost"} => told[r] # "staged"
                  \/ LastLSN(active)' >= reservedFile'
    BY Zenon
  <2>7. \A r \in Records : /\ told'[r] \in {"ok", "lost"} => told[r] \in {"ok", "lost", "staged"}
                           /\ told'[r] = "broken" => told[r] \in {"broken", "staged"}
                           /\ told[r] \in {"ok", "lost", "broken"} => told'[r] \in {"ok", "lost", "broken"}
    BY Zenon
  <2> QED
    BY Zenon, <2>1, <2>4, <2>5, <2>6, <2>7, <1>PlacesStep

(* Nothing happens to the log's last LSN. *)
<1>SameActive.
  ASSUME DiskInv, Ready, segs' = segs
  PROVE  /\ LastLSN(active)' >= LastLSN(active) /\ NameOf(active)' = NameOf(active)
         /\ LastLSN(active)' = LastLSN(active)
  <2> USE <1>SameActive
  <2>1. LastLSN(active) \in Nat
    BY Zenon, LastIsNat
  <2>2. active' = active
    BY Zenon DEF active
  <2> QED
    BY <2>1, <2>2

(* Steps that leave the segments, the active one and the round alone. *)
<1>RestPlaces.
  ASSUME RoundsInv, DiskInv, DiskInv', PlacesInv,
         UNCHANGED <<files, segs, seen, first, inflight>>,
         \A r \in Records : told'[r] = told[r] \/ (told[r] = "new" /\ told'[r] = "staged"),
         cpc' = cpc \/ (cpc = "sync" /\ cpc' = "rollback"), Ready' => Ready,
         reservedFile' >= reservedFile \/ (Ready /\ reservedFile' >= nextLSN - 1)
  PROVE  PlacesInv'
  <2> USE <1>RestPlaces
  <2>1. Ready' => Ready /\ LastLSN(active)' >= LastLSN(active)
    BY Zenon, <1>SameActive
  <2>2. Fresh' = Fresh /\ NameOf(active)' = NameOf(active)
    BY Zenon DEF Fresh, active
  <2> QED
    BY Zenon, <2>1, <2>2, <1>QuietPlaces

(* Staging gives new records new LSNs and writes nothing. *)
<1>StagePlaces.
  ASSUME RoundsInv, DiskInv, DiskInv', PlacesInv, NEW n \in 1..2, Stage(n)
  PROVE  PlacesInv'
  <2> USE <1>StagePlaces
  <2> DEFINE new == Newest
             ids == [i \in 1..n |-> new + i]
             want == IF nextLSN + n - 1 > reserved THEN Reservation(n) ELSE reserved
  <2>1. /\ phase = "up" /\ reservedFile' = IF want # reserved THEN want ELSE reservedFile
        /\ told' = [r \in Records |-> IF r \in Range(ids) THEN "staged" ELSE told[r]]
        /\ UNCHANGED <<files, segs, seen, first, inflight, cpc, phase>>
    BY Zenon DEF Stage, Tell
  <2>2. new \in Nat /\ \A r \in Records : told[r] # "new" <=> r <= new
    BY Zenon, Written
  <2> HIDE DEF new
  <2>3. \A r \in Range(ids) : r \in Int /\ r > new
    BY <2>2 DEF Range
  <2> HIDE DEF ids
  <2>4. \A r \in Records : told'[r] = told[r] \/ (told[r] = "new" /\ told'[r] = "staged")
    <3> TAKE r \in Records
    <3>1. r \in Range(ids) => told[r] = "new"
      BY <2>2, <2>3
    <3> QED
      BY Zenon, <2>1, <3>1
  <2>5. Ready /\ Ready'
    BY Zenon, <2>1 DEF Ready
  <2>6. reservedFile' >= reservedFile \/ (Ready /\ reservedFile' >= nextLSN - 1)
    <3>1. NumbersType
      BY Zenon DEF DiskInv
    <3>2. Reservation(n) \in Nat /\ Reservation(n) >= nextLSN + n - 1
      BY Zenon, <3>1, ReservationFacts
    <3> QED
      BY <2>1, <2>5, <3>1, <3>2 DEF NumbersType
  <2> QED
    BY Zenon, <2>1, <2>4, <2>5, <2>6, <1>RestPlaces

(* Write puts pairs of the round, and no others, into the active file. *)
<1>WritePlaces.
  ASSUME RoundsInv, DiskInv, DiskInv', PlacesInv, Write \/ WriteFails
  PROVE  PlacesInv'
  <2> USE <1>WritePlaces
  <2> DEFINE n == NameOf(active)
  <2>1. PICK k \in 0..Len(inflight), torn \in BOOLEAN :
          /\ cpc = "write"
          /\ files' = WithFile(n, Appended(k, torn), files[n].stable)
          /\ cpc' \in {"sync", "rollback"}
          /\ UNCHANGED <<reservedFile, phase, segs, nextLSN, inflight, first, told, seen>>
    BY Zenon, WriteFacts
  <2>2. Running /\ Ready /\ Loaded
    BY Zenon, <2>1 DEF RoundsInv, Running, Ready, Loaded
  <2>3. n \in DOMAIN files
    BY Zenon, <2>2, ActiveFacts DEF DiskInv, Numbers
  <2>4. \A p \in Held(n, Appended(k, torn)) : p \in Held(n, files[n].cache) \/ p \in Fresh
    BY Zenon, <2>1, AppendedFacts
  <2>5. /\ DOMAIN files' = DOMAIN files /\ files'[n] = [cache |-> Appended(k, torn), stable |-> files[n].stable]
        /\ \A m \in DOMAIN files : m # n => files'[m] = files[m]
    BY Zenon, <2>1, <2>3 DEF WithFile
  <2>6. Fresh' = Fresh /\ n' = n /\ LastLSN(active)' = LastLSN(active) /\ LastLSN(active) \in Nat
        /\ reservedFile \in Nat
    BY Zenon, <2>1, <2>2, LastIsNat DEF Fresh, active, DiskInv, NumbersType
  <2>7. \A p \in Fresh : told'[p[2]] = "staged"
    BY Zenon, <2>1, FreshFacts
  <2>8. \A m \in DOMAIN files' : /\ files'[m].stable = files[m].stable
                                 /\ \A p \in Held(m, files'[m].cache) :
                                      \/ p \in Held(m, files[m].cache)
                                      \/ p \in Fresh /\ m = n
    <3> TAKE m \in DOMAIN files'
    <3>1. CASE m = n
      BY <2>4, <2>5, <3>1
    <3>2. CASE m # n
      BY Zenon, <2>5, <3>2
    <3> QED
      BY Zenon, <3>1, <3>2
  <2>9. \A p : Past(p)' <=> Past(p)
    BY Zenon, <2>1 DEF Past
  <2>10. \A m \in DOMAIN files' : \A p \in InFile(m)' :
             (m \in DOMAIN files /\ p \in InFile(m)) \/ told'[p[2]] = "staged"
    BY Zenon, <2>5, <2>7, <2>8 DEF InFile
  <2>11. \A m \in DOMAIN files' : \A p \in Held(m, files'[m].stable) : Past(p)'
    BY Zenon, <2>5, <2>8, <2>9 DEF PlacesInv
  <2>12. \A m \in DOMAIN files' : \A p \in Held(m, files'[m].cache) :
           Past(p)' \/ (p \in Fresh' /\ m = NameOf(active)' /\ cpc' \in {"sync", "rollback"})
    BY Zenon, <2>1, <2>5, <2>6, <2>8, <2>9 DEF PlacesInv
  <2>13. Ready /\ LastLSN(active)' >= LastLSN(active) /\ reservedFile' >= reservedFile
    BY <2>1, <2>2, <2>6
  <2>14. \A r \in Records : told'[r] = told[r]
    BY Zenon, <2>1
  <2> QED
    BY Zenon, <2>1, <2>10, <2>11, <2>12, <2>13, <2>14, <1>PlacesStep

(* Commit settles the round above everything settled before. *)
<1>CommitPlaces.
  ASSUME RoundsInv, DiskInv, DiskInv', PlacesInv, Commit
  PROVE  PlacesInv'
  <2> USE <1>CommitPlaces
  <2> DEFINE n == NameOf(active)
  <2>1. /\ cpc = "sync" /\ cpc' = "idle" /\ files' = WithFile(n, files[n].cache, IF syncNever THEN files[n].stable ELSE files[n].cache)
        /\ told' = [r \in Records |-> IF r \in Range(inflight) THEN "ok" ELSE told[r]]
        /\ UNCHANGED <<reservedFile, seen>>
    BY Zenon DEF Commit, Tell
  <2>2. Running /\ Ready /\ Loaded
    BY Zenon, <2>1 DEF RoundsInv, Running, Ready, Loaded
  <2>3. n \in DOMAIN files
    BY Zenon, <2>2, ActiveFacts DEF DiskInv, Numbers
  <2>4. /\ DOMAIN files' = DOMAIN files
        /\ \A m \in DOMAIN files : files'[m].cache = files[m].cache /\ files'[m].stable \in {files[m].stable, files[m].cache}
    BY Zenon, <2>1, <2>3 DEF WithFile
  <2>5. \A r \in Range(inflight) : told[r] = "staged" /\ r \in Records
    BY DEF RoundsInv, RoundsType, Range
  <2>6. \A p \in Fresh : p[2] \in Range(inflight)
    BY DEF Fresh, Range
  <2>7. \A p \in Nat \X Records : (Past(p) => Past(p)') /\ (p \in Fresh => Past(p)')
    BY Zenon, <2>1, <2>6 DEF Past
  <2>8. \A m \in DOMAIN files : \A p \in InFile(m) : p \in Nat \X Records /\ (Past(p) \/ p \in Fresh)
    BY Zenon, KeptFacts DEF PlacesInv, InFile
  <2>9. \A m \in DOMAIN files' : \A p \in InFile(m)' : m \in DOMAIN files /\ p \in InFile(m)
    BY Zenon, <2>4 DEF InFile
  <2>10. \A m \in DOMAIN files' : \A p \in InFile(m)' : Past(p)'
    BY Zenon, <2>7, <2>8, <2>9
  <2>11. /\ \A m \in DOMAIN files' : \A p \in Held(m, files'[m].stable) : Past(p)'
         /\ \A m \in DOMAIN files' : \A p \in Held(m, files'[m].cache) : Past(p)'
    BY Zenon, <2>10 DEF InFile
  <2>12. LastLSN(active)' = LastLSN(active) + Len(inflight)
    BY Zenon, CommitDisk
  <2>13. reservedFile' >= reservedFile
    BY <2>1 DEF DiskInv, NumbersType
  <2>14. \A r \in Records :
           /\ told'[r] \in {"ok", "lost"} => told[r] \in {"ok", "lost", "staged"}
           /\ told'[r] = "broken" => told[r] \in {"broken", "staged"}
           /\ told[r] \in {"ok", "lost", "broken"} => told'[r] \in {"ok", "lost", "broken"}
    BY Zenon, <2>1, <2>5
  <2>15. \A p \in seen' : p \in seen \/ (p \in Kept /\ Past(p))
    BY Zenon, <2>1
  <2>16. Ready' => \/ /\ Ready /\ LastLSN(active)' >= LastLSN(active)
                      /\ \A r \in Records : told'[r] \in {"ok", "lost"} => told[r] # "staged"
                   \/ Ready /\ LastLSN(active)' = LastLSN(active) + Len(inflight)
                   \/ LastLSN(active)' >= reservedFile'
    BY Zenon, <2>2, <2>12
  <2>17. \A m \in DOMAIN files' : \A p \in Held(m, files'[m].cache) :
           Past(p)' \/ (p \in Fresh' /\ m = NameOf(active)' /\ cpc' \in {"sync", "rollback"})
    BY Zenon, <2>11
  <2>18. \A m \in DOMAIN files' : \A p \in InFile(m)' :
           (m \in DOMAIN files /\ p \in InFile(m)) \/ told'[p[2]] = "staged"
    BY Zenon, <2>9
  <2> QED
    BY Zenon, <2>11, <2>13, <2>14, <2>15, <2>16, <2>17, <2>18, <1>PlacesStep

(* What a rollback leaves was published: nothing of the round is in it. *)
<1>CutBackFacts.
  ASSUME RoundsInv, DiskInv, Ready
  PROVE  /\ \A p \in Held(NameOf(active), CutBack) :
              p \in Held(NameOf(active), files[NameOf(active)].cache) /\ p \notin Fresh
         /\ NameOf(active) \in DOMAIN files
  <2> USE <1>CutBackFacts
  <2> DEFINE n == NameOf(active)
             c == files[n].cache
  <2>1. Loaded /\ segs # <<>> /\ Numbers
    BY Zenon DEF DiskInv, Ready, Loaded, Numbers
  <2>2. /\ active \in Segment /\ n \in DOMAIN files /\ c \in Content /\ LastLSN(active) \in Nat
        /\ active.count <= Len(c.recs) /\ n[1] = active.base
    BY Zenon, <2>1, ActiveFacts DEF CacheOf, NameOf
  <2>3. /\ CutBack \in Content /\ Len(CutBack.recs) = active.count
        /\ \A i \in 1..active.count : CutBack.recs[i] = c.recs[i]
    BY Zenon, ContentFacts
  <2>4. c.recs \in Seq(Records) /\ active.base \in Nat /\ active.count \in Nat
        /\ LastLSN(active) = active.base + active.count - 1
    BY Zenon, <2>2 DEF Content, Segment, LastLSN
  <2>5. DOMAIN CutBack.recs = 1..active.count /\ \A i \in 1..active.count : i \in DOMAIN c.recs
    BY <2>2, <2>3, <2>4 DEF Content
  <2>6. ASSUME NEW p \in Held(n, CutBack) PROVE p \in Held(n, c) /\ p \notin Fresh
    <3>1. PICK i \in 1..active.count : p = <<n[1] + i - 1, CutBack.recs[i]>>
      BY Zenon, <2>5, <2>6 DEF Held
    <3>2. p \in Held(n, c)
      BY Zenon, <2>3, <2>5, <3>1 DEF Held
    <3>3. p[1] <= LastLSN(active) /\ p[1] \in Int
      <4>1. p[1] = active.base + i - 1
        BY Zenon, <2>2, <3>1
      <4> QED
        BY <2>4, <4>1
    <3>4. p \in Fresh => LastLSN(active) < p[1]
      BY Zenon, FreshFacts
    <3> QED
      BY <2>2, <3>2, <3>3, <3>4
  <2> QED
    BY Zenon, <2>2, <2>6

(* Rollback takes the pairs of the round out of the file; when it fails      *)
(* they may stay, as records of a broken round.                              *)
<1>RollbackPlaces.
  ASSUME RoundsInv, DiskInv, DiskInv', PlacesInv, Rollback \/ RollbackFails
  PROVE  PlacesInv'
  <2> USE <1>RollbackPlaces
  <2> DEFINE n == NameOf(active)
             R == Range(inflight) \cup Range(pending)
  <2>1. /\ cpc \in {"rollback", "unrollable"} /\ UNCHANGED <<reservedFile, segs, seen, phase>>
    BY Zenon DEF Rollback, RollbackFails
  <2>2. PICK what \in {"failed", "broken"} :
          /\ told' = [r \in Records |-> IF r \in R THEN what ELSE told[r]]
          /\ what = "failed" => files' = WithFile(n, CutBack, CutBack)
          /\ what = "broken" => \/ files' = files
                                \/ \E c \in Survivors(files[n]) : files' = WithFile(n, CutBack, c)
    BY Zenon DEF Rollback, RollbackFails, FailRound, Tell
  <2>3. Running /\ Ready
    BY Zenon, <2>1 DEF RoundsInv, Running, Ready
  <2>4. /\ \A p \in Held(n, CutBack) : p \in Held(n, files[n].cache) /\ p \notin Fresh
        /\ n \in DOMAIN files
    BY Zenon, <2>3, <1>CutBackFacts
  <2>5. \A r \in R : told[r] = "staged" /\ r \in Records
    BY DEF RoundsInv, RoundsType, Range
  <2>6. \A p \in Fresh : p[2] \in Range(inflight)
    BY DEF Fresh, Range
  <2>7. \A p \in Nat \X Records : (Past(p) => Past(p)') /\ (p \in Fresh /\ what = "broken" => Past(p)')
    BY Zenon, <2>2, <2>5, <2>6 DEF Past
  <2>8. \A m \in DOMAIN files : \A p \in InFile(m) : p \in Nat \X Records /\ (Past(p) \/ p \in Fresh)
    BY Zenon, KeptFacts DEF PlacesInv, InFile
  <2>9. /\ DOMAIN files' = DOMAIN files
        /\ \A m \in DOMAIN files' : \A p \in InFile(m)' :
             p \in InFile(m) /\ (what = "failed" => Past(p))
    <3>1. CASE what = "failed"
      <4>1. /\ DOMAIN files' = DOMAIN files /\ files'[n] = [cache |-> CutBack, stable |-> CutBack]
            /\ \A m \in DOMAIN files : m # n => files'[m] = files[m]
        BY Zenon, <2>2, <2>4, <3>1 DEF WithFile
      <4>2. ASSUME NEW m \in DOMAIN files, NEW p \in InFile(m)' PROVE p \in InFile(m) /\ Past(p)
        <5>1. CASE m = n
          <6>1. p \in Held(n, CutBack)
            BY <4>1, <4>2, <5>1 DEF InFile
          <6> QED
            BY Zenon, <2>4, <2>8, <5>1, <6>1 DEF InFile
        <5>2. CASE m # n
          <6>1. p \in InFile(m)
            BY Zenon, <4>1, <4>2, <5>2 DEF InFile
          <6>2. told[p[2]] = "staged" => m = n
            BY Zenon, <4>2, <6>1, KeptFacts
          <6>3. p \in Fresh => told[p[2]] = "staged"
            BY Zenon, FreshFacts
          <6> QED
            BY Zenon, <2>8, <4>2, <5>2, <6>1, <6>2, <6>3
        <5> QED
          BY Zenon, <5>1, <5>2
      <4> QED
        BY Zenon, <3>1, <4>1, <4>2
    <3>2. CASE what = "broken"
      <4>1. CASE files' = files
        BY Zenon, <3>2, <4>1 DEF InFile
      <4>2. CASE \E c \in Survivors(files[n]) : files' = WithFile(n, CutBack, c)
        <5>1. PICK c \in Survivors(files[n]) : files' = WithFile(n, CutBack, c)
          BY Zenon, <4>2
        <5>2. /\ DOMAIN files' = DOMAIN files /\ files'[n] = [cache |-> CutBack, stable |-> c]
              /\ \A m \in DOMAIN files : m # n => files'[m] = files[m]
          BY Zenon, <2>4, <5>1 DEF WithFile
        <5>3. \A p \in Held(n, c) : p \in InFile(n)
          <6>1. PICK f \in [cache : Content, stable : Content] : f = files[n]
            BY Zenon, <2>4 DEF DiskInv, Disk
          <6>2. /\ c \in Content
                /\ \A i \in DOMAIN c.recs : \/ i \in DOMAIN f.cache.recs /\ c.recs[i] = f.cache.recs[i]
                                            \/ i \in DOMAIN f.stable.recs /\ c.recs[i] = f.stable.recs[i]
            BY Zenon, <5>1, <6>1, SurvivorFacts
          <6> QED
            BY Zenon, <6>1, <6>2 DEF Held, InFile
        <5>4. ASSUME NEW m \in DOMAIN files, NEW p \in InFile(m)' PROVE p \in InFile(m)
          <6>1. CASE m = n
            BY <2>4, <5>2, <5>3, <5>4, <6>1 DEF InFile
          <6>2. CASE m # n
            BY Zenon, <5>2, <5>4, <6>2 DEF InFile
          <6> QED
            BY Zenon, <6>1, <6>2
        <5> QED
          BY Zenon, <3>2, <5>2, <5>4
      <4> QED
        BY Zenon, <2>2, <3>2, <4>1, <4>2
    <3> QED
      BY Zenon, <3>1, <3>2
  <2>10. \A m \in DOMAIN files' : \A p \in InFile(m)' : Past(p)'
    BY Zenon, <2>7, <2>8, <2>9
  <2>11. /\ \A m \in DOMAIN files' : \A p \in Held(m, files'[m].stable) : Past(p)'
         /\ \A m \in DOMAIN files' : \A p \in Held(m, files'[m].cache) : Past(p)'
    BY Zenon, <2>10 DEF InFile
  <2>12. LastLSN(active)' >= LastLSN(active)
    BY Zenon, <2>1, <2>3, <1>SameActive
  <2>13. reservedFile' >= reservedFile
    BY <2>1 DEF DiskInv, NumbersType
  <2>14. \A r \in Records :
           /\ told'[r] \in {"ok", "lost"} => told[r] \in {"ok", "lost"}
           /\ told'[r] = "broken" => told[r] \in {"broken", "staged"}
           /\ told[r] \in {"ok", "lost", "broken"} => told'[r] \in {"ok", "lost", "broken"}
    BY Zenon, <2>2, <2>5
  <2>15. \A p \in seen' : p \in seen
    BY Zenon, <2>1
  <2> QED
    BY Zenon, <2>3, <2>9, <2>11, <2>12, <2>13, <2>14, <2>15, <1>PlacesStep

(* The sink is given a settled pair, or one of a broken round. *)
<1>DeliverPlaces.
  ASSUME RoundsInv, DiskInv, DiskInv', PlacesInv, Deliver
  PROVE  PlacesInv'
  <2> USE <1>DeliverPlaces
  <2>1. /\ phase = "up"
        /\ seen' = seen \cup {<<mark', RecordAt(mark')>>}
        /\ UNCHANGED <<files, segs, reservedFile, first, inflight, cpc, told, phase>>
    BY Zenon DEF Deliver, disk, memory, rounds
  <2>2. Ready
    BY Zenon, <2>1 DEF Ready
  <2>9. \A q \in seen' : q \in seen \/ (q \in Kept /\ Past(q))
    BY Zenon, <2>1, DeliveredIsPast
  <2>10. \A m \in DOMAIN files' : \A q \in InFile(m)' : m \in DOMAIN files /\ q \in InFile(m)
    BY Zenon, <2>1 DEF InFile
  <2>11. Fresh' = Fresh /\ NameOf(active)' = NameOf(active) /\ \A q : Past(q)' <=> Past(q)
    BY Zenon, <2>1 DEF Fresh, active, Past
  <2>12. /\ \A m \in DOMAIN files' : \A q \in Held(m, files'[m].stable) : Past(q)'
         /\ \A m \in DOMAIN files' : \A q \in Held(m, files'[m].cache) :
              Past(q)' \/ (q \in Fresh' /\ m = NameOf(active)' /\ cpc' \in {"sync", "rollback"})
    BY Zenon, <2>1, <2>11 DEF PlacesInv
  <2>13. Ready /\ LastLSN(active)' >= LastLSN(active) /\ reservedFile' >= reservedFile
    BY <2>1, <2>2, <1>SameActive DEF DiskInv, NumbersType
  <2>14. \A r \in Records : told'[r] = told[r]
    BY Zenon, <2>1
  <2> QED
    BY Zenon, <2>9, <2>10, <2>12, <2>13, <2>14, <1>PlacesStep

(* A crash loses the answers that were still owed, with their records or     *)
(* without.                                                                  *)
<1>CrashPlaces.
  ASSUME RoundsInv, DiskInv, DiskInv', PlacesInv, NEW kind \in {"process", "machine"}, Crash(kind)
  PROVE  PlacesInv'
  <2> USE <1>CrashPlaces
  <2> DEFINE S == {r \in Records : \/ told[r] = "staged"
                                   \/ told[r] = "ok" /\ syncNever /\ kind = "machine"}
  <2>1. /\ told' = [r \in Records |-> IF r \in S THEN "lost" ELSE told[r]]
        /\ phase' = "down" /\ UNCHANGED <<seen, reservedFile>>
    BY Zenon DEF Crash, Tell
  <2>2. \A r \in S : r \in Records /\ told[r] \in {"staged", "ok"}
    BY Zenon
  <2>3. \A r \in Records : told[r] = "staged" => r \in S
    BY Zenon
  <2> HIDE DEF S
  <2>4. \A n \in DOMAIN files' : \A p \in InFile(n)' : n \in DOMAIN files /\ p \in InFile(n)
    <3>1. DOMAIN files' = DOMAIN files
      BY Zenon, CrashDisk
    <3>2. CASE kind = "process"
      <4>1. files' = files
        BY Zenon, <3>2, CrashDisk
      <4> QED
        BY Zenon, <4>1 DEF InFile
    <3>3. CASE kind = "machine"
      <4> SUFFICES ASSUME NEW n \in DOMAIN files, NEW p \in InFile(n)' PROVE p \in InFile(n)
        BY Zenon, <3>1
      <4>1. PICK c \in Survivors(files[n]) : c \in Content /\ files'[n] = [cache |-> c, stable |-> c]
        BY Zenon, <3>3, CrashDisk
      <4>2. PICK f \in [cache : Content, stable : Content] : f = files[n]
        BY Zenon DEF DiskInv, Disk
      <4>3. \A i \in DOMAIN c.recs : \/ i \in DOMAIN f.cache.recs /\ c.recs[i] = f.cache.recs[i]
                                     \/ i \in DOMAIN f.stable.recs /\ c.recs[i] = f.stable.recs[i]
        BY Zenon, <4>1, <4>2, SurvivorFacts
      <4>4. p \in Held(n, c)
        BY <4>1 DEF InFile
      <4> QED
        BY Zenon, <4>2, <4>3, <4>4 DEF Held, InFile
    <3> QED
      BY Zenon, <3>2, <3>3
  <2>5. \A p \in Nat \X Records : (Past(p) => Past(p)') /\ (told[p[2]] = "staged" => Past(p)')
    BY Zenon, <2>1, <2>2, <2>3 DEF Past
  <2>6. \A n \in DOMAIN files : \A p \in InFile(n) :
          p \in Nat \X Records /\ (Past(p) \/ told[p[2]] = "staged")
    BY Zenon, KeptFacts DEF Past
  <2>7. \A n \in DOMAIN files' : \A p \in InFile(n)' : Past(p)'
    BY Zenon, <2>4, <2>5, <2>6
  <2>8. /\ \A n \in DOMAIN files' : \A p \in Held(n, files'[n].stable) : Past(p)'
        /\ \A n \in DOMAIN files' : \A p \in Held(n, files'[n].cache) : Past(p)'
    BY Zenon, <2>7 DEF InFile
  <2>9. \A r \in Records :
          /\ told'[r] \in {"ok", "lost"} => told[r] \in {"ok", "lost", "staged"}
          /\ told'[r] = "broken" => told[r] \in {"broken", "staged"}
          /\ told[r] \in {"ok", "lost", "broken"} => told'[r] \in {"ok", "lost", "broken"}
    BY Zenon, <2>1, <2>2
  <2>10. ~Ready' /\ reservedFile' >= reservedFile /\ \A p \in seen' : p \in seen
    BY <2>1 DEF Ready, DiskInv, NumbersType
  <2> QED
    BY Zenon, <2>4, <2>8, <2>9, <2>10, <1>PlacesStep

(* Steps taken while no record of a round is in a file: files are created    *)
(* empty, removed, forced or left alone.                                     *)
<1>IdlePlaces.
  ASSUME RoundsInv, DiskInv, DiskInv', PlacesInv, cpc \notin {"sync", "rollback"},
         UNCHANGED <<told, seen>>,
         \A n \in DOMAIN files' :
           \/ files'[n].cache.recs = <<>> /\ files'[n].stable.recs = <<>>
           \/ /\ n \in DOMAIN files /\ files'[n].cache.recs = files[n].cache.recs
              /\ files'[n].stable.recs \in {files[n].stable.recs, files[n].cache.recs},
         reservedFile' >= reservedFile \/ (Ready /\ reservedFile' >= nextLSN - 1),
         Ready' => \/ Ready /\ LastLSN(active)' >= LastLSN(active)
                   \/ LastLSN(active)' >= reservedFile'
  PROVE  PlacesInv'
  <2> USE <1>IdlePlaces
  <2>1. \A n \in DOMAIN files' : \A p \in Held(n, files'[n].cache) :
          n \in DOMAIN files /\ p \in Held(n, files[n].cache)
    BY DEF Held
  <2>2. \A n \in DOMAIN files' : \A p \in Held(n, files'[n].stable) :
          /\ n \in DOMAIN files
          /\ \/ p \in Held(n, files[n].stable)
             \/ p \in Held(n, files[n].cache) /\ cpc \notin {"sync", "rollback"}
    BY DEF Held
  <2>3. \A r \in Records : told'[r] = told[r] \/ (told[r] = "new" /\ told'[r] = "staged")
    BY Zenon
  <2> QED
    BY Zenon, <2>1, <2>2, <2>3, <1>QuietPlaces

(* Recovery moves no record, and the last LSN is above all settled ones. *)
<1>AttachPlaces.
  ASSUME RoundsInv, DiskInv, DiskInv', PlacesInv, OpenAttach
  PROVE  PlacesInv'
  <2> USE <1>AttachPlaces
  <2>1. /\ phase = "attach" /\ UNCHANGED <<told, seen, reservedFile>>
    BY Zenon DEF OpenAttach, ghost
  <2>2. cpc = "idle" /\ reserved = reservedFile /\ Chain /\ Loaded /\ reservedFile \in Nat
    BY Zenon, <2>1 DEF RoundsInv, Running, DiskInv, Attached, Loaded, NumbersType
  <2>3. CASE segs # <<>> /\ reserved <= LastLSN(active) /\ segs' = segs /\ files' = files
    <3>1. LastLSN(active)' >= reservedFile'
      <4>1. LastLSN(active) \in Nat
        BY Zenon, <2>2, <2>3, ActiveFacts
      <4>2. active' = active
        BY ZenonT(30), <2>3 DEF active
      <4> QED
        BY Zenon, <2>1, <2>2, <2>3, <4>1, <4>2
    <3> QED
      BY SMTT(30), <2>1, <2>2, <2>3, <3>1, <1>IdlePlaces
  <2>4. CASE \E a \in Segment :
               /\ a.base = reserved + 1 /\ a.count = 0
               /\ segs' = Append(segs, a) /\ files' = WithFile(NameOf(a), Empty, Empty)
    <3> PICK a \in Segment :
               /\ a.base = reserved + 1 /\ a.count = 0
               /\ segs' = Append(segs, a) /\ files' = WithFile(NameOf(a), Empty, Empty)
      BY Zenon, <2>4
    <3>1. active' = a
      BY <2>2 DEF Chain, active
    <3>2. LastLSN(active)' = LastLSN(a)
      BY Zenon, <3>1 DEF LastLSN
    <3>3. LastLSN(active)' >= reservedFile'
      BY <2>1, <2>2, <3>2 DEF LastLSN
    <3>4. \A n \in DOMAIN files' :
            \/ files'[n].cache.recs = <<>> /\ files'[n].stable.recs = <<>>
            \/ n \in DOMAIN files /\ files'[n] = files[n]
      BY Zenon DEF WithFile, Empty
    <3>5. \A n \in DOMAIN files' :
             \/ files'[n].cache.recs = <<>> /\ files'[n].stable.recs = <<>>
             \/ /\ n \in DOMAIN files /\ files'[n].cache.recs = files[n].cache.recs
                /\ files'[n].stable.recs \in {files[n].stable.recs, files[n].cache.recs}
      BY Zenon, <3>4
    <3> QED
      BY <2>1, <2>2, <3>3, <3>5, <1>IdlePlaces
  <2> QED
    BY Zenon, <2>3, <2>4, ResumedFacts

<1> SUFFICES ASSUME RoundsInv, DiskInv, DiskInv', PlacesInv, [Next]_vars PROVE PlacesInv'
  BY Zenon
<1> DEFINE Kinder == \A n \in DOMAIN files' :
           \/ files'[n].cache.recs = <<>> /\ files'[n].stable.recs = <<>>
           \/ /\ n \in DOMAIN files /\ files'[n].cache.recs = files[n].cache.recs
              /\ files'[n].stable.recs \in {files[n].stable.recs, files[n].cache.recs}
<1>1. CASE \/ UNCHANGED vars \/ SyncFails \/ CloseBegin \/ Persist \/ Reconcile \/ OpenRefuses
           \/ TruncateDone
  <2>1. /\ UNCHANGED <<files, reservedFile, segs, inflight, first, told, seen>>
        /\ cpc' = cpc \/ (cpc = "sync" /\ cpc' = "rollback")
    BY Zenon, <1>1 DEF vars, SyncFails, CloseBegin, Persist, Reconcile, OpenRefuses, TruncateDone,
                disk, memory, rounds, ghost
  <2>2. TruncateDone => Ready
    BY Zenon DEF TruncateDone, RoundsInv, Ready
  <2>3. Ready' => Ready
    BY Zenon, <1>1, <2>2 DEF vars, SyncFails, CloseBegin, Persist, Reconcile, OpenRefuses, TruncateDone, Ready
  <2>4. reservedFile' >= reservedFile
    BY <2>1 DEF DiskInv, NumbersType
  <2> QED
    BY Zenon, <2>1, <2>3, <2>4, <1>RestPlaces
<1>2. CASE \E n \in 1..2 : Stage(n)
  BY Zenon, <1>2, <1>StagePlaces
<1>3. CASE \E n \in 1..2 : StageReserveFails(n)
  <2> PICK n \in 1..2 : StageReserveFails(n)
    BY Zenon, <1>3
  <2>1. /\ phase = "up" /\ UNCHANGED <<files, segs, inflight, first, told, seen, cpc, phase>>
        /\ reservedFile' \in {reservedFile, Reservation(n)}
    BY Zenon DEF StageReserveFails, memory, rounds, ghost
  <2>2. NumbersType /\ Ready /\ (Ready' => Ready)
    BY Zenon, <2>1 DEF DiskInv, Ready
  <2>3. Reservation(n) \in Nat /\ Reservation(n) >= nextLSN + n - 1
    BY Zenon, <2>2, ReservationFacts
  <2>4. reservedFile' >= reservedFile \/ (Ready /\ reservedFile' >= nextLSN - 1)
    BY <2>1, <2>2, <2>3 DEF NumbersType
  <2> QED
    BY Zenon, <2>1, <2>2, <2>4, <1>RestPlaces
<1>4. CASE CommitTake
  <2>1. cpc = "idle" /\ UNCHANGED <<files, segs, told, seen, reservedFile, phase>>
    BY Zenon, <1>4 DEF CommitTake, disk, ghost
  <2>2. Ready' => Ready /\ LastLSN(active)' >= LastLSN(active)
    BY Zenon, <2>1, <1>SameActive DEF Ready
  <2>3. reservedFile' >= reservedFile
    BY <2>1 DEF DiskInv, NumbersType
  <2> QED
    BY Zenon, <2>1, <2>2, <2>3, <1>IdlePlaces
<1>5. CASE RotateCreate \/ RotateCreateFails
  <2>1. /\ cpc = "create" /\ UNCHANGED <<reservedFile, phase, segs, told, seen>>
        /\ files' = WithFile(NextSegment, Empty, Empty) \/ UNCHANGED files
    BY Zenon, <1>5 DEF RotateCreate, RotateCreateFails, NextSegment, ghost
  <2>2. Ready' => Ready /\ LastLSN(active)' >= LastLSN(active)
    BY Zenon, <2>1, <1>SameActive DEF Ready
  <2>3. reservedFile' >= reservedFile
    BY <2>1 DEF DiskInv, NumbersType
  <2>4. \A n \in DOMAIN files' :
          \/ files'[n].cache.recs = <<>> /\ files'[n].stable.recs = <<>>
          \/ n \in DOMAIN files /\ files'[n] = files[n]
    BY <2>1 DEF WithFile, Empty
  <2>5. Kinder
    BY Zenon, <2>4
  <2> QED
    BY Zenon, <2>1, <2>2, <2>3, <2>5, <1>IdlePlaces
<1>6. CASE RotateSync
  <2>1. cpc = "rotate" /\ UNCHANGED <<reservedFile, phase, told, seen>>
    BY Zenon, <1>6 DEF RotateSync, ghost
  <2>2. /\ DOMAIN files' = DOMAIN files /\ LastLSN(active)' = LastLSN(active)
        /\ \A n \in DOMAIN files : /\ files'[n].cache = files[n].cache
                                   /\ files'[n].stable \in {files[n].cache, files[n].stable}
    BY Zenon, <1>6, RotateDisk
  <2>3. Kinder
    BY Zenon, <2>2
  <2>4. Ready' => Ready /\ LastLSN(active)' >= LastLSN(active)
    <3>1. Ready' => Ready
      BY Zenon, <2>1 DEF Ready
    <3>2. Ready => LastLSN(active) \in Nat
      BY Zenon, LastIsNat
    <3> QED
      BY <2>2, <3>1, <3>2
  <2>5. reservedFile' >= reservedFile
    BY <2>1 DEF DiskInv, NumbersType
  <2> QED
    BY Zenon, <2>1, <2>3, <2>4, <2>5, <1>IdlePlaces
<1>7. CASE RotateSyncFails \/ RotateCloseFails
  <2>1. cpc = "rotate" /\ UNCHANGED <<reservedFile, phase, segs, told, seen>>
    BY Zenon, <1>7 DEF RotateSyncFails, RotateCloseFails, ghost
  <2>2. \A n \in DOMAIN files' :
          /\ n \in DOMAIN files
          /\ files'[n] \in {files[n], [cache |-> files[n].cache, stable |-> files[n].cache]}
    <3>1. NameOf(active) \in DOMAIN files
      BY Zenon, <2>1, NextSegmentFacts, ActiveFacts DEF DiskInv
    <3>2. CASE RotateSyncFails
      BY Zenon, <3>2 DEF RotateSyncFails, Without
    <3>3. CASE RotateCloseFails
      BY Zenon, <3>1, <3>3 DEF RotateCloseFails, WithFile
    <3> QED
      BY Zenon, <1>7, <3>2, <3>3
  <2>3. Kinder
    BY <2>2
  <2>4. Ready' => Ready /\ LastLSN(active)' >= LastLSN(active)
    BY Zenon, <2>1, <1>SameActive DEF Ready
  <2>5. reservedFile' >= reservedFile
    BY <2>1 DEF DiskInv, NumbersType
  <2> QED
    BY Zenon, <2>1, <2>3, <2>4, <2>5, <1>IdlePlaces
<1>8. CASE Write \/ WriteFails
  BY Zenon, <1>8, <1>WritePlaces
<1>9. CASE Commit
  BY Zenon, <1>9, <1>CommitPlaces
<1>10. CASE Rollback \/ RollbackFails
  BY Zenon, <1>10, <1>RollbackPlaces
<1>11. CASE TruncateOne
  <2>1. UNCHANGED <<cpc, inflight, first, told, seen, reservedFile, phase>>
    BY Zenon, <1>11 DEF TruncateOne, rounds, ghost
  <2>2. /\ Ready /\ active' = active
        /\ \A n \in DOMAIN files' : n \in DOMAIN files /\ files'[n] = files[n]
    BY Zenon, <1>11, TruncateDisk
  <2>3. LastLSN(active)' >= LastLSN(active)
    <3>1. LastLSN(active)' = LastLSN(active) /\ LastLSN(active) \in Nat
      BY Zenon, <2>2, LastIsNat
    <3> QED
      BY <3>1
  <2>4. Fresh' = Fresh /\ NameOf(active)' = NameOf(active) /\ reservedFile' >= reservedFile
    BY <2>1, <2>2 DEF Fresh, DiskInv, NumbersType
  <2>5. \A r \in Records : told'[r] = told[r]
    BY Zenon, <2>1
  <2>6. /\ \A n \in DOMAIN files' : \A p \in Held(n, files'[n].cache) :
             n \in DOMAIN files /\ p \in Held(n, files[n].cache)
        /\ \A n \in DOMAIN files' : \A p \in Held(n, files'[n].stable) :
             n \in DOMAIN files /\ p \in Held(n, files[n].stable)
    BY Zenon, <2>2
  <2> QED
    BY Zenon, <2>1, <2>2, <2>3, <2>4, <2>5, <2>6, <1>QuietPlaces
<1>12. CASE \E kind \in {"process", "machine"} : Crash(kind)
  BY Zenon, <1>12, <1>CrashPlaces
<1>13. CASE Vanish \/ OpenScan
  <2>1. phase = "down" /\ phase' \in {"down", "attach"} /\ UNCHANGED <<told, seen, reservedFile>>
    BY Zenon, <1>13 DEF Vanish, OpenScan, ghost
  <2>2. cpc = "idle" /\ ~Ready' /\ reservedFile' >= reservedFile
    BY <2>1 DEF RoundsInv, Running, Ready, DiskInv, NumbersType
  <2>3. \A n \in DOMAIN files' : /\ n \in DOMAIN files
                                 /\ files'[n].cache.recs = files[n].cache.recs
                                 /\ files'[n].stable.recs = files[n].stable.recs
    <3>1. CASE Vanish
      BY Zenon, <3>1, VanishDisk
    <3>2. CASE OpenScan
      BY Zenon, <3>2, ScanDisk
    <3> QED
      BY Zenon, <1>13, <3>1, <3>2
  <2>4. Kinder
    BY Zenon, <2>3
  <2> QED
    BY Zenon, <2>1, <2>2, <2>4, <1>IdlePlaces
<1>15. CASE OpenAttach
  BY Zenon, <1>15, <1>AttachPlaces
<1>16. CASE \E r, s \in BOOLEAN : CloseEnd(r, s)
  <2> PICK r \in BOOLEAN, s \in BOOLEAN : CloseEnd(r, s)
    BY Zenon, <1>16
  <2>1. /\ cpc = "idle" /\ phase' = "down" /\ UNCHANGED <<told, seen>>
        /\ reservedFile' \in {reservedFile, nextLSN - 1}
    BY Zenon DEF CloseEnd, ghost
  <2>2. /\ DOMAIN files' = DOMAIN files /\ Ready
        /\ \A n \in DOMAIN files : n # NameOf(active) => files'[n] = files[n]
        /\ LET f == files[NameOf(active)]
           IN  files'[NameOf(active)] = [cache |-> f.cache, stable |-> IF s THEN f.cache ELSE f.stable]
    BY Zenon, CloseDisk
  <2>3. Kinder
    BY <2>2
  <2>4. ~Ready' /\ (reservedFile' >= reservedFile \/ (Ready /\ reservedFile' >= nextLSN - 1))
    BY <2>1, <2>2 DEF Ready, DiskInv, NumbersType
  <2> QED
    BY Zenon, <2>1, <2>3, <2>4, <1>IdlePlaces
<1>17. CASE ReconcileRefuses
  <2>1. /\ phase = "reconcile" /\ phase' = "refused" /\ UNCHANGED <<told, seen, reservedFile, files>>
    BY Zenon, <1>17 DEF ReconcileRefuses, disk, ghost
  <2>2. cpc = "idle" /\ ~Ready' /\ reservedFile' >= reservedFile
    BY <2>1 DEF RoundsInv, Running, Ready, DiskInv, NumbersType
  <2> QED
    BY Zenon, <2>1, <2>2, <1>IdlePlaces
<1>18. CASE Deliver
  BY Zenon, <1>18, <1>DeliverPlaces
<1> QED
  BY Zenon, <1>1, <1>2, <1>3, <1>4, <1>5, <1>6, <1>7, <1>8, <1>9, <1>10, <1>11, <1>12, <1>13,
     <1>15, <1>16, <1>17, <1>18 DEF Next, Committer, Faulty, Open

(* Nothing is in any place. *)
LEMMA PlacesInit == Init => PlacesInv
<1> SUFFICES ASSUME Init PROVE PlacesInv
  BY Zenon
<1>1. DOMAIN files = {} /\ seen = {} /\ phase = "down"
  BY Zenon DEF Init
<1>2. Kept = {} /\ Settled = {} /\ ~Ready
  BY Zenon, <1>1 DEF Kept, Settled, Ready
<1> QED
  BY Zenon, <1>1, <1>2 DEF PlacesInv

(* Records and places agree in every reachable state. *)
LEMMA PlacesInvariance == Spec => [](RoundsInv /\ DiskInv /\ PlacesInv)
BY RoundsInit, DiskInit, PlacesInit, RoundsNext, DiskNext, PlacesNext, PTL DEF Spec

(***************************************************************************)
(* A write that was told its round failed is never delivered: rollback()   *)
(* takes the records out of the file before it answers, and nothing brings *)
(* them back.                                                              *)
(***************************************************************************)
THEOREM FailureIsFinal == Spec => []FailedNeverDelivered
<1>1. PlacesInv => FailedNeverDelivered
  BY Zenon DEF PlacesInv, Past, FailedNeverDelivered
<1> QED
  BY <1>1, PlacesInvariance, PTL

(***************************************************************************)
(* Over all runs of the program an LSN names one record, a record has one  *)
(* LSN and both are in the same order: no crash, rollback or reservation   *)
(* brings a number back that a delivered record had.                       *)
(***************************************************************************)
THEOREM NumbersAreNeverReused == Spec => []LSNNamesOneRecord
<1>1. PlacesInv => LSNNamesOneRecord
  <2> SUFFICES ASSUME PlacesInv, NEW p \in seen, NEW q \in seen,
                      told[p[2]] # "broken", told[q[2]] # "broken"
               PROVE  p[1] < q[1] <=> p[2] < q[2]
    BY Zenon DEF LSNNamesOneRecord
  <2>1. p \in Settled /\ q \in Settled
    BY Zenon DEF PlacesInv, Past, Settled, Kept
  <2> QED
    BY Zenon, <2>1 DEF PlacesInv
<1> QED
  BY <1>1, PlacesInvariance, PTL


-----------------------------------------------------------------------------
(* What the disk has been made to keep. *)

(* The active segment has a file, with every record it has published. *)
ActiveHeld == NameOf(active) \in DOMAIN files /\ active.count <= Len(CacheOf(active))

(* Rollback and the fsyncs work on that file. *)
LEMMA ActiveHolds == DiskInv /\ Ready => ActiveHeld
BY Zenon, ActiveFacts DEF DiskInv, Ready, Loaded, Numbers, ActiveHeld

(* Every step keeps what the disk has of the files.                          *)
LEMMA ForcedNext ==
  RoundsInv /\ DiskInv /\ DiskInv' /\ ForcedInv /\ [Next]_vars => ForcedInv'
(* Steps that leave files, segments and the committer's place alone. *)
<1>RestForced.
  ASSUME RoundsInv, DiskInv, ForcedInv, UNCHANGED <<files, segs, broken, syncNever, cached>>,
         \/ Running <=> Running'
         \/ phase \in {"trim", "up"} /\ phase' = "up"
         \/ ~Running' /\ (cpc \notin {"sync", "rollback"} /\ ~broken),
         cpc' = cpc \/ cpc \notin {"sync", "rollback"} \/ cpc' = "rollback"
  PROVE  ForcedInv'
  <2> USE <1>RestForced
  <2>1. active' = active
    BY Zenon DEF active
  <2>2. ~syncNever /\ ~cached =>
          \A n \in DOMAIN files : files[n].cache.recs = files[n].stable.recs \/ Unforced(n)'
    <3> SUFFICES ASSUME ~syncNever, ~cached, NEW n \in DOMAIN files, Unforced(n)
                 PROVE  files[n].cache.recs = files[n].stable.recs \/ Unforced(n)'
      BY Zenon DEF ForcedInv
    <3>1. Running /\ n = NameOf(active) /\ (cpc \in {"sync", "rollback"} \/ broken)
      BY Zenon DEF Unforced
    <3>2. Running'
      BY Zenon, <3>1 DEF Running
    <3> QED
      BY Zenon, <2>1, <3>1, <3>2 DEF Unforced
  <2>3. ~syncNever /\ ~cached /\ Running' => active.count <= Len(files[NameOf(active)].stable.recs)
    <3> SUFFICES ASSUME ~syncNever, ~cached, Running', ~Running
                 PROVE  active.count <= Len(files[NameOf(active)].stable.recs)
      BY Zenon DEF ForcedInv
    <3>1. phase = "trim"
      BY Zenon DEF Running
    <3>2. Loaded /\ segs # <<>>
      BY Zenon, <3>1 DEF Loaded, DiskInv, Ready, Numbers
    <3>3. NameOf(active) \in DOMAIN files /\ active.count <= Len(CacheOf(active))
      BY Zenon, <3>2, ActiveFacts
    <3>4. files[NameOf(active)].cache.recs = files[NameOf(active)].stable.recs
      BY Zenon, <3>3 DEF ForcedInv, Unforced
    <3> QED
      BY Zenon, <3>3, <3>4 DEF CacheOf
  <2> QED
    BY Zenon, <2>1, <2>2, <2>3 DEF ForcedInv

(* Steps after which every file is as the disk has it. *)
<1>CalmForced.
  ASSUME DiskInv', syncNever' \in BOOLEAN, cached' \in BOOLEAN,
         ~syncNever' /\ ~cached' => \A n \in DOMAIN files' : files'[n].cache.recs = files'[n].stable.recs
  PROVE  ForcedInv'
  <2> USE <1>CalmForced
  <2>1. ~syncNever' /\ ~cached' /\ Running' => active'.count <= Len(files'[NameOf(active)'].stable.recs)
    <3> SUFFICES ASSUME ~syncNever', ~cached', Running'
                 PROVE  active'.count <= Len(files'[NameOf(active)'].stable.recs)
      BY Zenon
    <3>1. Ready'
      BY Zenon DEF Ready, Running
    <3>2. ActiveHeld'
      BY <3>1, ActiveHolds, PTL
    <3>4. NameOf(active)' \in DOMAIN files' /\ active'.count <= Len(CacheOf(active)')
      BY Zenon, <3>2 DEF ActiveHeld
    <3> QED
      BY Zenon, <3>4 DEF CacheOf
  <2> QED
    BY Zenon, <2>1 DEF ForcedInv

<1> SUFFICES ASSUME RoundsInv, DiskInv, DiskInv', ForcedInv, [Next]_vars PROVE ForcedInv'
  BY Zenon
<1>0. syncNever' = syncNever /\ syncNever \in BOOLEAN /\ cached \in BOOLEAN
  BY Zenon DEF Next, Committer, vars, ForcedInv
<1> DEFINE Calm == ~Running \/ (cpc \notin {"sync", "rollback"} /\ ~broken)
<1>c. ~syncNever /\ ~cached /\ Calm => \A n \in DOMAIN files : files[n].cache.recs = files[n].stable.recs
  BY Zenon DEF ForcedInv, Unforced
<1>b. broken => cpc = "idle"
  BY Zenon DEF RoundsInv
<1>1. CASE \/ UNCHANGED vars \/ SyncFails \/ CloseBegin \/ Deliver \/ Persist
           \/ TruncateDone \/ (\E n \in 1..2 : Stage(n) \/ StageReserveFails(n))
  <2>1. /\ UNCHANGED <<files, segs, broken, cached>>
        /\ cpc' = cpc \/ cpc \notin {"sync", "rollback"} \/ cpc' = "rollback"
    BY Zenon, <1>1 DEF vars, SyncFails, CloseBegin, Deliver, Persist, TruncateDone, Stage, StageReserveFails,
                disk, memory, rounds, bounds
  <2>2. \/ Running <=> Running'
        \/ phase \in {"trim", "up"} /\ phase' = "up"
    BY Zenon, <1>1 DEF vars, SyncFails, CloseBegin, Deliver, Persist, TruncateDone, Stage, StageReserveFails,
                Running, RoundsInv
  <2> QED
    BY Zenon, <1>0, <2>1, <2>2, <1>RestForced
<1>2. CASE \/ CommitTake \/ RotateCreate \/ RotateCreateFails \/ RotateSync \/ RotateSyncFails
           \/ RotateCloseFails
  <2>1. Calm /\ cached' = cached
    BY Zenon, <1>2, <1>b DEF CommitTake, RotateCreate, RotateCreateFails, RotateSync, RotateSyncFails,
                RotateCloseFails, bounds
  <2>2. \A n \in DOMAIN files' :
          files'[n].cache.recs = files'[n].stable.recs \/ (n \in DOMAIN files /\ files'[n] = files[n])
    <3>1. PICK c : c = files[NameOf(active)].cache
      BY Zenon
    <3>2. \A n \in DOMAIN files' : \/ n \in DOMAIN files /\ files'[n] = files[n]
                                   \/ files'[n] = [cache |-> c, stable |-> c]
                                   \/ files'[n] = [cache |-> Empty, stable |-> Empty]
      <4>1. CASE CommitTake \/ RotateCreate \/ RotateCreateFails
        BY Zenon, <4>1 DEF CommitTake, RotateCreate, RotateCreateFails, WithFile, disk
      <4>2. CASE RotateSync
        BY Zenon, <3>1, <4>2 DEF RotateSync, WithFile
      <4>3. CASE RotateSyncFails
        BY Zenon, <4>3 DEF RotateSyncFails, Without
      <4>4. CASE RotateCloseFails
        BY Zenon, <3>1, <4>4 DEF RotateCloseFails, WithFile
      <4> QED
        BY Zenon, <1>2, <4>1, <4>2, <4>3, <4>4
    <3>3. ASSUME NEW d, NEW f, f = [cache |-> d, stable |-> d] PROVE f.cache = f.stable
      <4>1. f.cache = d /\ f.stable = d
        BY Zenon, <3>3
      <4> QED
        BY Zenon, <4>1
    <3> QED
      BY Zenon, <3>2, <3>3
  <2>3. ~syncNever' /\ ~cached' => \A n \in DOMAIN files' : files'[n].cache.recs = files'[n].stable.recs
    BY Zenon, <1>0, <1>c, <2>1, <2>2
  <2> QED
    BY Zenon, <1>0, <2>1, <2>3, <1>CalmForced
<1>3. CASE Vanish \/ OpenScan \/ OpenAttach \/ Reconcile \/ ReconcileRefuses \/ OpenRefuses
  <2>1. Calm /\ cached' = cached
    BY Zenon, <1>3 DEF Vanish, OpenScan, OpenAttach, Reconcile, ReconcileRefuses, OpenRefuses, bounds, Running
  <2>2. ~OpenScan => \A n \in DOMAIN files' :
          files'[n].cache.recs = files'[n].stable.recs \/ (n \in DOMAIN files /\ files'[n] = files[n])
    <3>1. CASE Vanish
      BY Zenon, <3>1, VanishDisk
    <3>2. CASE OpenAttach
      <4>1. files' = files \/ \E n : files' = WithFile(n, Empty, Empty)
        BY Zenon, <3>2, ResumedFacts
      <4>2. ASSUME NEW m, files' = WithFile(m, Empty, Empty), NEW n \in DOMAIN files'
            PROVE  files'[n].cache.recs = files'[n].stable.recs \/ (n \in DOMAIN files /\ files'[n] = files[n])
        BY Zenon, <4>2 DEF WithFile
      <4> QED
        BY Zenon, <4>1, <4>2
    <3>3. CASE Reconcile \/ ReconcileRefuses \/ OpenRefuses
      BY Zenon, <3>3 DEF Reconcile, ReconcileRefuses, OpenRefuses, disk
    <3> QED
      BY Zenon, <1>3, <3>1, <3>2, <3>3
  <2>3. OpenScan => \A n \in DOMAIN files' :
          n \in DOMAIN files /\ (files[n].cache.recs = files[n].stable.recs => files'[n].cache.recs = files'[n].stable.recs)
    BY Zenon, ScanDisk
  <2>4. ~syncNever' /\ ~cached' => \A n \in DOMAIN files' : files'[n].cache.recs = files'[n].stable.recs
    BY Zenon, <1>0, <1>c, <2>1, <2>2, <2>3
  <2> QED
    BY Zenon, <1>0, <2>1, <2>4, <1>CalmForced
<1>4. CASE \E kind \in {"process", "machine"} : Crash(kind)
  <2> PICK kind \in {"process", "machine"} : Crash(kind)
    BY Zenon, <1>4
  <2>1. cached' = (cached \/ (kind = "process" /\ ~syncNever))
    BY Zenon DEF Crash
  <2>2. kind = "machine" => \A n \in DOMAIN files' : files'[n].cache.recs = files'[n].stable.recs
    BY CrashDisk
  <2>3. cached' \in BOOLEAN
    BY Zenon, <2>1
  <2>4. ~syncNever' /\ ~cached' => kind = "machine"
    BY Zenon, <1>0, <2>1
  <2> QED
    BY Zenon, <1>0, <2>2, <2>3, <2>4, <1>CalmForced
<1>5. CASE \E r, s \in BOOLEAN : CloseEnd(r, s)
  <2> PICK r \in BOOLEAN, s \in BOOLEAN : CloseEnd(r, s)
    BY Zenon, <1>5
  <2>1. cached' = (cached \/ (~s /\ ~syncNever))
    BY Zenon DEF CloseEnd
  <2>2. /\ DOMAIN files' = DOMAIN files
        /\ \A n \in DOMAIN files : n # NameOf(active) => files'[n] = files[n]
        /\ LET f == files[NameOf(active)]
           IN  files'[NameOf(active)] = [cache |-> f.cache, stable |-> IF s THEN f.cache ELSE f.stable]
    BY Zenon, CloseDisk
  <2>3. cached' \in BOOLEAN /\ (~syncNever' /\ ~cached' => s /\ ~cached)
    BY Zenon, <1>0, <2>1
  <2>4. ~syncNever /\ ~cached => \A n \in DOMAIN files : n # NameOf(active) => files[n].cache.recs = files[n].stable.recs
    BY Zenon DEF ForcedInv, Unforced
  <2>5. s => files'[NameOf(active)].cache.recs = files'[NameOf(active)].stable.recs
    BY <2>2
  <2>6. ~syncNever' /\ ~cached' => \A n \in DOMAIN files' : files'[n].cache.recs = files'[n].stable.recs
    BY Zenon, <1>0, <2>2, <2>3, <2>4, <2>5
  <2> QED
    BY Zenon, <1>0, <2>3, <2>6, <1>CalmForced
<1>6. CASE TruncateOne
  <2>1. UNCHANGED <<cpc, broken, phase, cached>>
    BY Zenon, <1>6 DEF TruncateOne, bounds
  <2>2. /\ NameOf(segs[1]) # NameOf(active) /\ active' = active /\ NameOf(active)' = NameOf(active)
        /\ DOMAIN files' = DOMAIN files \ {NameOf(segs[1])} /\ Loaded /\ segs # <<>>
        /\ \A n \in DOMAIN files' : files'[n] = files[n]
    BY Zenon, <1>6, TruncateDisk DEF Ready, Loaded
  <2>3. NameOf(active) \in DOMAIN files'
    BY Zenon, <2>2, ActiveFacts
  <2>4. \A n : Unforced(n)' <=> Unforced(n)
    BY Zenon, <2>1, <2>2 DEF Unforced, Running
  <2>5. Running' <=> Running
    BY Zenon, <2>1 DEF Running
  <2> QED
    BY Zenon, <1>0, <2>1, <2>2, <2>3, <2>4, <2>5 DEF ForcedInv
<1>7. CASE Write \/ WriteFails
  <2>1. PICK k \in 0..Len(inflight), torn \in BOOLEAN :
          /\ cpc = "write"
          /\ files' = WithFile(NameOf(active), Appended(k, torn), files[NameOf(active)].stable)
          /\ cpc' \in {"sync", "rollback"} /\ UNCHANGED <<phase, segs, cached>>
    BY Zenon, <1>7, WriteFacts
  <2>2. Running /\ Ready
    BY Zenon, <2>1 DEF RoundsInv, Running, Ready
  <2>3. active' = active /\ NameOf(active)' = NameOf(active) /\ Running'
    BY Zenon, <2>1, <2>2 DEF active, Running
  <2>4. DOMAIN files' = DOMAIN files \cup {NameOf(active)}
    BY Zenon, <2>1 DEF WithFile
  <2>5. \A n \in DOMAIN files' : n # NameOf(active) => n \in DOMAIN files /\ files'[n] = files[n]
    BY Zenon, <2>1, <2>4 DEF WithFile
  <2>6. files'[NameOf(active)].stable = files[NameOf(active)].stable
    BY Zenon, <2>1, <2>4 DEF WithFile
  <2>7. ~syncNever /\ ~cached =>
          \A n \in DOMAIN files' : n # NameOf(active) => files'[n].cache.recs = files'[n].stable.recs
    BY Zenon, <2>5 DEF ForcedInv, Unforced
  <2>8. Unforced(NameOf(active))'
    BY Zenon, <2>1, <2>3 DEF Unforced
  <2>9. ~syncNever /\ ~cached => active.count <= Len(files[NameOf(active)].stable.recs)
    BY Zenon, <2>2 DEF ForcedInv
  <2> QED
    BY Zenon, <1>0, <2>1, <2>3, <2>6, <2>7, <2>8, <2>9 DEF ForcedInv
<1>8. CASE Commit \/ Rollback
  <2>1. /\ cpc \in {"sync", "rollback"} /\ UNCHANGED <<phase, cached, broken>>
        /\ \E c : files' = WithFile(NameOf(active), c, IF Commit /\ syncNever THEN files[NameOf(active)].stable ELSE c)
    <3>1. CASE Commit
      BY Zenon, <1>8, <3>1 DEF Commit, bounds
    <3>2. CASE Rollback
      <4>1. /\ cpc = "rollback" /\ UNCHANGED <<phase, cached, broken>>
            /\ files' = WithFile(NameOf(active), CutBack, CutBack)
        BY Zenon, <3>2 DEF Rollback, bounds
      <4>2. ~Commit
        BY Zenon, <4>1 DEF Commit
      <4> QED
        BY Zenon, <4>1, <4>2
    <3> QED
      BY Zenon, <1>8, <3>1, <3>2
  <2>2. ~syncNever => \A n \in DOMAIN files' :
          files'[n].cache.recs = files'[n].stable.recs \/ (n # NameOf(active) /\ n \in DOMAIN files /\ files'[n] = files[n])
    BY <2>1 DEF WithFile
  <2>3. ~syncNever /\ ~cached => \A n \in DOMAIN files : n # NameOf(active) => files[n].cache.recs = files[n].stable.recs
    BY Zenon DEF ForcedInv, Unforced
  <2>4. ~syncNever' /\ ~cached' => \A n \in DOMAIN files' : files'[n].cache.recs = files'[n].stable.recs
    BY Zenon, <1>0, <2>1, <2>2, <2>3
  <2> QED
    BY Zenon, <1>0, <2>1, <2>4, <1>CalmForced
<1>9. CASE RollbackFails
  <2>1. /\ cpc \in {"unrollable", "rollback"} /\ broken' /\ UNCHANGED <<phase, segs, cached>>
        /\ \/ UNCHANGED files
           \/ \E c \in Survivors(files[NameOf(active)]) : files' = WithFile(NameOf(active), CutBack, c)
    BY Zenon, <1>9 DEF RollbackFails
  <2>2. Running /\ Ready
    BY Zenon, <2>1 DEF RoundsInv, Running, Ready
  <2>3. active' = active /\ NameOf(active)' = NameOf(active) /\ Running'
    BY Zenon, <2>1, <2>2 DEF active, Running
  <2>4. Loaded /\ segs # <<>>
    BY Zenon, <2>2 DEF DiskInv, Ready, Loaded, Numbers
  <2>5. /\ active.count \in Nat /\ active.count <= Len(CacheOf(active))
        /\ files[NameOf(active)] \in [cache : Content, stable : Content]
    BY Zenon, <2>4, ActiveFacts DEF Segment
  <2>6. ~syncNever /\ ~cached => /\ active.count <= Len(files[NameOf(active)].stable.recs)
                                 /\ \A n \in DOMAIN files : n # NameOf(active) => files[n].cache.recs = files[n].stable.recs
    BY Zenon, <2>2 DEF ForcedInv, Unforced
  <2>7. ~syncNever /\ ~cached => active.count <= Len(files'[NameOf(active)].stable.recs)
    <3>1. CASE UNCHANGED files
      BY Zenon, <2>6, <3>1
    <3>2. CASE \E c \in Survivors(files[NameOf(active)]) : files' = WithFile(NameOf(active), CutBack, c)
      <4> PICK c \in Survivors(files[NameOf(active)]) : files' = WithFile(NameOf(active), CutBack, c)
        BY Zenon, <3>2
      <4> PICK f \in [cache : Content, stable : Content] : f = files[NameOf(active)]
        BY Zenon, <2>5
      <4>1. \A k \in Nat : k <= Len(f.cache.recs) /\ k <= Len(f.stable.recs) => k <= Len(c.recs)
        BY Zenon, SurvivorFacts
      <4>2. files'[NameOf(active)].stable = c
        BY Zenon DEF WithFile
      <4> QED
        BY Zenon, <2>5, <2>6, <4>1, <4>2 DEF CacheOf
    <3> QED
      BY Zenon, <2>1, <3>1, <3>2
  <2>8. \A n \in DOMAIN files' : n # NameOf(active) => n \in DOMAIN files /\ files'[n] = files[n]
    BY Zenon, <2>1 DEF WithFile
  <2>9. Unforced(NameOf(active))'
    BY Zenon, <2>1, <2>3 DEF Unforced
  <2> QED
    BY Zenon, <1>0, <2>1, <2>3, <2>6, <2>7, <2>8, <2>9 DEF ForcedInv
<1> QED
  BY Zenon, <1>1, <1>2, <1>3, <1>4, <1>5, <1>6, <1>7, <1>8, <1>9 DEF Next, Committer, Faulty, Open

(* Nothing has been written. *)
LEMMA ForcedInit == Init => ForcedInv
<1> SUFFICES ASSUME Init PROVE ForcedInv
  BY Zenon
<1>1. DOMAIN files = {} /\ phase = "down" /\ cached = FALSE /\ syncNever \in BOOLEAN
  BY Zenon, LogAssumption DEF Init
<1> QED
  BY Zenon, <1>1 DEF ForcedInv, Running


-----------------------------------------------------------------------------
(* The checkpoint and the mark. *)

(* lastRecordLSN: above every record, and no further than the last segment.  *)
LastRecorded ==
  /\ lastRecordLSN(segs) \in Nat /\ lastRecordLSN(segs) <= LastLSN(active)
  /\ \A i \in DOMAIN segs : segs[i].count > 0 => LastLSN(segs[i]) <= lastRecordLSN(segs)

(* What lastRecordLSN gives recovery as the durable LSN. *)
LEMMA LastRecordFacts == DiskInv /\ Ready => LastRecorded
<1> SUFFICES ASSUME DiskInv, Ready PROVE LastRecorded
  BY Zenon
<1>1. Loaded /\ segs # <<>> /\ LastLSN(active) \in Nat
  BY Zenon, LastIsNat DEF DiskInv, Ready, Loaded, Numbers
<1>2. \A i \in DOMAIN segs : /\ segs[i].base \in Nat /\ segs[i].count \in Nat
                             /\ LastLSN(segs[i]) \in Nat /\ LastLSN(segs[i]) <= LastLSN(active)
                             /\ LastLSN(segs[i]) = segs[i].base + segs[i].count - 1
  BY Zenon, <1>1, ActiveFacts DEF Segment, LastLSN
<1> DEFINE S == {0} \cup UNION {LSNsOf(segs[i]) : i \in DOMAIN segs}
<1>3. \A l \in S : l \in Nat /\ l <= LastLSN(active)
  <2>1. \A i \in DOMAIN segs : \A l \in LSNsOf(segs[i]) : l \in Nat /\ l <= LastLSN(active)
    BY <1>1, <1>2 DEF LSNsOf
  <2> QED
    BY <1>1, <2>1
<1>4. \A i \in DOMAIN segs : segs[i].count > 0 => LastLSN(segs[i]) \in S
  <2>1. \A i \in DOMAIN segs : segs[i].count > 0 => LastLSN(segs[i]) \in LSNsOf(segs[i])
    BY <1>2 DEF LSNsOf
  <2> QED
    BY Zenon, <2>1
<1>5. S \in SUBSET Nat /\ S # {}
  BY Zenon, <1>3
<1>6. lastRecordLSN(segs) = Max(S)
  BY Zenon DEF lastRecordLSN
<1> HIDE DEF S
<1>7. PICK b \in Nat : b = LastLSN(active)
  BY Zenon, <1>1
<1>8. Max(S) \in S /\ \A n \in S : n <= Max(S)
  BY Zenon, <1>3, <1>5, <1>7, Greatest
<1> QED
  BY Zenon, <1>3, <1>4, <1>6, <1>8 DEF LastRecorded

(* A log that is ready has a first segment. *)
LEMMA FirstFacts ==
  ASSUME DiskInv, Ready
  PROVE  /\ 1 \in DOMAIN segs /\ segs[1].base \in Nat /\ segs[1].prev \in Nat
         /\ segs[1].prev < segs[1].base /\ NameOf(segs[1]) \in DOMAIN files
<1>1. Loaded /\ segs # <<>>
  BY Zenon DEF DiskInv, Ready, Loaded, Numbers
<1>2. 1 \in DOMAIN segs
  BY <1>1, ActiveFacts
<1> QED
  BY Zenon, <1>1, <1>2, ActiveFacts DEF Segment

(* The checkpoint that batch.Open resumes from. *)
LEMMA ClampedFacts ==
  ASSUME DiskInv, MarksInv, Ready
  PROVE  /\ Clamped \in Nat /\ segs[1].base - 1 <= Clamped /\ segs[1].prev <= Clamped
         /\ Clamped = segs[1].base - 1 \/ (Clamped <= checkpoint /\ Clamped <= durable)
         /\ Max({checkpoint, Clamped}) \in {checkpoint, Clamped}
         /\ checkpoint <= Max({checkpoint, Clamped}) /\ Clamped <= Max({checkpoint, Clamped})
         /\ Max({checkpoint, Clamped}) \in Nat
<1>1. checkpoint \in Nat /\ durable \in Nat
  BY Zenon DEF MarksInv
<1>2. segs[1].base \in Nat /\ segs[1].prev \in Nat /\ segs[1].prev < segs[1].base
  BY Zenon, FirstFacts
<1>3. PICK m \in Nat : m = Min({checkpoint, durable}) /\ m <= checkpoint /\ m <= durable
  <2>1. Min({checkpoint, durable}) \in {checkpoint, durable}
        /\ Min({checkpoint, durable}) <= checkpoint /\ Min({checkpoint, durable}) <= durable
    BY <1>1 DEF Min
  <2> QED
    BY Zenon, <1>1, <2>1
<1>4. PICK b \in Nat : b = segs[1].base - 1 /\ segs[1].prev <= b
  BY <1>2
<1>5. Max({b, m}) \in {b, m} /\ Max({b, m}) >= b
  BY DEF Max
<1>6. PICK c \in Nat : c = Clamped /\ c \in {b, m} /\ c >= b
  BY Zenon, <1>3, <1>4, <1>5 DEF Clamped
<1>7. Max({checkpoint, c}) \in {checkpoint, c} /\ Max({checkpoint, c}) >= checkpoint /\ Max({checkpoint, c}) >= c
  BY <1>1 DEF Max
<1> QED
  BY <1>1, <1>2, <1>3, <1>4, <1>6, <1>7

(* Truncate() removes the head when the checkpoint covers it, which is what  *)
(* the next segment follows.                                                 *)
LEMMA TruncateHead ==
  ASSUME RoundsInv, DiskInv, MarksInv, TruncateOne
  PROVE  segs'[1].prev \in Nat /\ segs'[1].prev <= lastCP
<1>1. Doomed /\ lastCP \in Nat
  BY Zenon DEF TruncateOne, MarksInv
<1>2. segs'[1] = segs[2] /\ 1 \in DOMAIN segs /\ 2 \in DOMAIN segs /\ Loaded /\ Len(segs) \in Nat
  <2>1. /\ DOMAIN segs' = 1..(Len(segs) - 1) /\ Len(segs) \in Nat /\ Len(segs) > 1 /\ Ready
        /\ \A i \in DOMAIN segs' : i + 1 \in DOMAIN segs /\ segs'[i] = segs[i + 1]
    BY Zenon, TruncateDisk
  <2>2. Loaded /\ segs # <<>>
    BY Zenon, <2>1 DEF DiskInv, Ready, Loaded, Numbers
  <2>3. DOMAIN segs = 1..Len(segs)
    BY Zenon, <2>2, ActiveFacts
  <2> QED
    BY <2>1, <2>2, <2>3
<1>3. segs[2].prev = LastLSN(segs[1]) /\ LastLSN(segs[1]) \in Nat
  <2>1. Chain
    BY Zenon, <1>2 DEF DiskInv
  <2>2. segs[2].prev = LastLSN(segs[2 - 1])
    BY <1>2, <2>1 DEF Chain
  <2>3. LastLSN(segs[1]) \in Nat
    BY <1>2, ActiveFacts
  <2> QED
    BY <2>2, <2>3
<1>4. segs[2].prev <= lastCP
  BY <1>1, <1>3 DEF Doomed
<1> QED
  BY Zenon, <1>2, <1>3, <1>4

(* Every step keeps the mark above what Truncate was called for, and above   *)
(* what the first segment follows.                                           *)
LEMMA MarksNext ==
  RoundsInv /\ DiskInv /\ DiskInv' /\ MarksInv /\ [Next]_vars => MarksInv'
(* Steps that leave checkpoint, mark and segments alone. *)
<1>RestMarks.
  ASSUME MarksInv, UNCHANGED <<checkpoint, mark, lastCP>>, durable' \in Nat, trim' => trim,
         Serving' => Serving /\ segs'[1].prev = segs[1].prev
  PROVE  MarksInv'
  BY Zenon, <1>RestMarks DEF MarksInv

(* Steps that end the process. *)
<1>EndMarks.
  ASSUME MarksInv, NoProcess, checkpoint' = checkpoint, phase' \in {"down", "refused"}
  PROVE  MarksInv'
  BY <1>EndMarks DEF MarksInv, NoProcess, Serving

<1> SUFFICES ASSUME RoundsInv, DiskInv, DiskInv', MarksInv, [Next]_vars PROVE MarksInv'
  BY Zenon
<1>0. {checkpoint, mark, lastCP, durable} \subseteq Nat
  BY Zenon DEF MarksInv
<1>1. CASE \/ UNCHANGED vars \/ SyncFails \/ CloseBegin \/ OpenRefuses
           \/ (\E n \in 1..2 : Stage(n) \/ StageReserveFails(n))
           \/ CommitTake \/ RotateCreate \/ RotateCreateFails \/ RotateSyncFails \/ RotateCloseFails
           \/ Write \/ WriteFails \/ Rollback \/ RollbackFails
  <2>1. /\ UNCHANGED <<checkpoint, mark, lastCP, durable, trim, segs>>
        /\ Serving' => Serving
    BY Zenon, <1>1 DEF vars, SyncFails, CloseBegin, OpenRefuses, Stage, StageReserveFails, CommitTake,
         RotateCreate, RotateCreateFails, RotateSyncFails, RotateCloseFails, Write, WriteFails,
         Rollback, RollbackFails, disk, memory, reader, Serving
  <2> QED
    BY Zenon, <1>0, <2>1, <1>RestMarks
<1>2. CASE RotateSync
  <2>1. UNCHANGED <<checkpoint, mark, lastCP, durable, trim, phase>> /\ cpc = "rotate"
    BY Zenon, <1>2 DEF RotateSync, reader
  <2>2. 1 \in DOMAIN segs /\ \A i \in DOMAIN segs : segs'[i] = segs[i]
    <3>1. \A i \in DOMAIN segs : segs'[i] = segs[i]
      BY Zenon, <1>2, RotateDisk
    <3>2. Ready
      BY Zenon, <2>1, NextSegmentFacts
    <3> QED
      BY Zenon, <3>1, <3>2, FirstFacts
  <2> QED
    BY Zenon, <1>0, <2>1, <2>2, <1>RestMarks DEF Serving
<1>3. CASE Vanish \/ OpenScan \/ OpenAttach
  <2>1. UNCHANGED <<checkpoint, mark, lastCP, trim>> /\ phase' \in {"down", "attach", "reconcile"}
    BY Zenon, <1>3 DEF Vanish, OpenScan, OpenAttach, reader
  <2>2. ~OpenAttach => durable' = durable
    BY Zenon, <1>3 DEF Vanish, OpenScan, memory
  <2>3. OpenAttach => durable' \in Nat
    <3> SUFFICES ASSUME OpenAttach PROVE durable' \in Nat
      BY Zenon
    <3>1. Ready' /\ durable' = lastRecordLSN(segs')
      BY Zenon DEF OpenAttach, Ready
    <3>2. LastRecorded'
      BY <3>1, LastRecordFacts, PTL
    <3> QED
      BY Zenon, <3>1, <3>2 DEF LastRecorded
  <2> QED
    BY Zenon, <1>0, <2>1, <2>2, <2>3, <1>RestMarks DEF Serving
<1>4. CASE \/ ReconcileRefuses \/ (\E kind \in {"process", "machine"} : Crash(kind))
           \/ (\E r, s \in BOOLEAN : CloseEnd(r, s))
  <2>1. NoProcess /\ checkpoint' = checkpoint /\ phase' \in {"down", "refused"}
    BY Zenon, <1>4 DEF ReconcileRefuses, Crash, CloseEnd, disk
  <2> QED
    BY Zenon, <2>1, <1>EndMarks
<1>5. CASE Commit
  <2>1. /\ UNCHANGED <<checkpoint, mark, lastCP, trim, phase>> /\ cpc = "sync"
        /\ durable' = first + Len(inflight) - 1
    BY Zenon, <1>5 DEF Commit, reader
  <2>2. Ready /\ Loaded /\ segs # <<>>
    BY Zenon, <2>1 DEF RoundsInv, Running, Ready, Loaded, DiskInv, Numbers
  <2>3. segs'[1].prev = segs[1].prev
    <3>1. /\ NameOf(active)' = NameOf(active) /\ Len(segs') = Len(segs)
          /\ \A i \in DOMAIN segs : i # Len(segs) => segs'[i] = segs[i]
      BY Zenon, <1>5, CommitDisk
    <3>2. 1 \in DOMAIN segs
      BY <2>2, ActiveFacts
    <3>3. CASE Len(segs) = 1
      <4>1. active' = segs'[1] /\ active = segs[1]
        BY Zenon, <3>1, <3>3 DEF active
      <4> QED
        BY Zenon, <3>1, <4>1 DEF NameOf
    <3> QED
      BY Zenon, <3>1, <3>2, <3>3
  <2>4. durable' \in Nat
    <3>1. first = LastLSN(active) + 1 /\ LastLSN(active) \in Nat
      BY Zenon, <2>1, <2>2, LastIsNat DEF DiskInv, Numbers
    <3>2. Len(inflight) \in Nat
      BY DEF RoundsInv, RoundsType
    <3> QED
      BY <2>1, <3>1, <3>2
  <2> QED
    BY Zenon, <2>1, <2>3, <2>4, <1>RestMarks DEF Serving
<1>6. CASE Deliver
  <2>1. /\ phase = "up" /\ Readable # {} /\ mark' = Min(Readable)
        /\ UNCHANGED <<checkpoint, lastCP, durable, trim, phase, segs>>
    BY Zenon, <1>6 DEF Deliver, disk, memory
  <2>2. \A l \in Readable : l \in PublishedLSNs /\ mark < l
    BY Zenon DEF Readable
  <2>3. Readable \in SUBSET Nat
    BY Zenon, <2>1, <2>2, ReadFacts DEF Ready
  <2>4. PICK S \in SUBSET Nat : S = Readable
    BY Zenon, <2>3
  <2>5. Min(S) \in S
    BY Zenon, <2>1, <2>4, Least
  <2>6. mark' \in Nat /\ mark < mark'
    BY Zenon, <2>1, <2>2, <2>4, <2>5
  <2>7. segs[1].prev \in Nat
    BY Zenon, <2>1, FirstFacts DEF Ready
  <2> QED
    BY <1>0, <2>1, <2>6, <2>7 DEF MarksInv, Serving
<1>7. CASE Persist
  <2>1. /\ phase = "up" /\ checkpoint' = mark /\ lastCP' = mark /\ UNCHANGED <<phase, segs, durable, mark>>
    BY Zenon, <1>7 DEF Persist, memory
  <2> QED
    BY <1>0, <2>1 DEF MarksInv, Serving
<1>8. CASE TruncateDone
  <2>1. /\ trim /\ trim' = FALSE /\ UNCHANGED <<checkpoint, mark, lastCP, durable, segs>>
    BY Zenon, <1>8 DEF TruncateDone, memory, disk
  <2>2. Serving
    BY Zenon, <2>1 DEF RoundsInv, Serving
  <2> QED
    BY Zenon, <1>0, <2>1, <2>2, <1>RestMarks
<1>9. CASE TruncateOne
  <2>1. /\ trim /\ Doomed /\ UNCHANGED <<checkpoint, mark, lastCP, durable, trim, phase>>
    BY Zenon, <1>9 DEF TruncateOne, reader
  <2>2. segs'[1].prev \in Nat /\ segs'[1].prev <= lastCP
    BY Zenon, <1>9, TruncateHead
  <2>5. Serving => segs'[1].prev <= mark
    BY <1>0, <2>2 DEF MarksInv
  <2> QED
    BY Zenon, <1>0, <2>1, <2>5 DEF MarksInv, Serving
<1>10. CASE Reconcile
  <2>1. /\ phase = "reconcile" /\ mark' = Clamped /\ lastCP' = Clamped
        /\ checkpoint' = Max({checkpoint, Clamped}) /\ UNCHANGED <<segs, durable>>
    BY Zenon, <1>10 DEF Reconcile, memory
  <2>2. /\ Clamped \in Nat /\ segs[1].prev <= Clamped
        /\ Clamped <= Max({checkpoint, Clamped}) /\ Max({checkpoint, Clamped}) \in Nat
    BY Zenon, <2>1, ClampedFacts DEF Ready
  <2> QED
    BY <1>0, <2>1, <2>2 DEF MarksInv
<1> QED
  BY Zenon, <1>1, <1>2, <1>3, <1>4, <1>5, <1>6, <1>7, <1>8, <1>9, <1>10 DEF Next, Committer, Faulty, Open

(* Checkpoint and mark start at zero. *)
LEMMA MarksInit == Init => MarksInv
BY DEF Init, MarksInv, Serving

-----------------------------------------------------------------------------
(* What recovery accepts. *)

(* Harm is never undone. *)
LEMMA HarmStays == SoundInv /\ [Next]_vars => harmed' \in BOOLEAN /\ (harmed => harmed')
<1> SUFFICES ASSUME SoundInv, [Next]_vars PROVE harmed' \in BOOLEAN /\ (harmed => harmed')
  BY Zenon
<1>0. harmed \in BOOLEAN
  BY Zenon DEF SoundInv
<1>a. (\E kind \in {"process", "machine"} : Crash(kind)) \/ harmed' = harmed \/ harmed' = TRUE
  BY Zenon DEF Next, Committer, Faulty, Open, vars, bounds, Stage, StageReserveFails, CommitTake, RotateCreate,
         RotateCreateFails, RotateSync, RotateSyncFails, RotateCloseFails, Write, WriteFails, Commit,
         SyncFails, Rollback, RollbackFails, CloseBegin, CloseEnd, Deliver, Persist, TruncateOne,
         TruncateDone, Vanish, OpenRefuses, OpenScan, OpenAttach, ReconcileRefuses, Reconcile
<1>b. \A kind \in {"process", "machine"} :
        Crash(kind) => harmed' = (harmed \/ (kind = "machine" /\ (syncNever \/ cached \/ CutUndone)))
  BY Zenon DEF Crash
<1> QED
  BY Zenon, <1>0, <1>a, <1>b

(* Every step keeps a log that was not harmed in one piece.                  *)
LEMMA SoundNext ==
  RoundsInv /\ DiskInv /\ DiskInv' /\ ForcedInv /\ MarksInv /\ MarksInv' /\ SoundInv /\ [Next]_vars
    => SoundInv'
(* recover() finds nothing to refuse in a directory whose segments follow    *)
(* one another.                                                              *)
<1>LinkedAccepted.
  ASSUME Disk, Linked, NEW names \in Listings
  PROVE  ~Damaged(names) /\ (names # <<>> => 1 \in DOMAIN names /\ names[1][2] <= checkpoint)
  <2> USE <1>LinkedAccepted
  <2> DEFINE N == Len(names)
  <2>1. /\ N \in Nat /\ names \in Seq(DOMAIN files) /\ Len(names) = N
        /\ \A i, j \in 1..N : i < j => names[i][1] < names[j][1]
        /\ \A n \in DOMAIN files : \E i \in 1..N : n = names[i]
    BY Zenon, ListingFacts
  <2>5. DOMAIN names = 1..N
    BY Zenon, ListingFacts
  <2> HIDE DEF N
  <2>2. \A n \in DOMAIN files : n \in Nat \X Nat /\ files[n].cache.recs \in Seq(Records)
    BY Zenon DEF Disk, Content
  <2>3. \A i \in 1..N : i + 1 \in 1..N => Adjacent(names[i], names[i + 1])
    <3> TAKE i \in 1..N
    <3> HAVE i + 1 \in 1..N
    <3>0. names[i][1] < names[i + 1][1]
      BY <2>1
    <3> SUFFICES ASSUME NEW k \in DOMAIN files
                 PROVE  k[1] <= names[i][1] \/ names[i + 1][1] <= k[1]
      BY Zenon, <3>0 DEF Adjacent
    <3>1. PICK j \in 1..N : k = names[j]
      BY Zenon, <2>1
    <3>2. names[i] \in DOMAIN files /\ names[i + 1] \in DOMAIN files
      BY <2>1
    <3>3. names[i][1] \in Nat /\ names[i + 1][1] \in Nat /\ k[1] \in Nat
      BY Zenon, <2>2, <3>2
    <3>4. CASE j < i
      BY <2>1, <3>1, <3>3, <3>4
    <3>5. CASE j = i \/ j = i + 1
      BY <2>1, <3>1, <3>3, <3>5
    <3>6. CASE j > i + 1
      BY <2>1, <3>1, <3>3, <3>6
    <3> QED
      BY <2>1, <3>4, <3>5, <3>6
  <2>4. \A i \in 1..N : i + 1 \in 1..N => names[i + 1][2] = End(names[i]) /\ ~files[names[i]].cache.torn
    <3> TAKE i \in 1..N
    <3> HAVE i + 1 \in 1..N
    <3>1. names[i] \in DOMAIN files /\ names[i + 1] \in DOMAIN files
      BY <2>1
    <3> QED
      BY Zenon, <2>3, <3>1 DEF Linked
  <2>6. ASSUME NEW i \in DOMAIN names, i < Len(names), files[names[i]].cache.torn PROVE FALSE
    <3>1. i \in 1..N /\ i + 1 \in 1..N
      BY <2>1, <2>5, <2>6
    <3> QED
      BY Zenon, <2>4, <2>6, <3>1
  <2>7. ASSUME NEW i \in 2..Len(names) PROVE LastLSN(Scanned(names)[i - 1]) = names[i][2]
    <3>1. PICK j \in 1..N : j = i - 1 /\ j + 1 = i /\ i \in 1..N
      BY <2>1, <2>7
    <3>2. PICK s : s = Scanned(names)[j]
      BY Zenon
    <3>3. s = [base  |-> names[j][1], prev |-> names[j][2], count |-> Len(files[names[j]].cache.recs)]
      BY Zenon, <2>5, <3>1, <3>2 DEF Scanned
    <3>4. LastLSN(s) = End(names[j])
      <4>1. s.base = names[j][1] /\ s.count = Len(files[names[j]].cache.recs)
        BY Zenon, <3>3
      <4> QED
        BY Zenon, <4>1 DEF LastLSN, End
    <3>5. names[j + 1][2] = End(names[j])
      BY Zenon, <2>4, <3>1
    <3> QED
      BY Zenon, <3>1, <3>2, <3>4, <3>5
  <2>8. ASSUME names # <<>> PROVE 1 \in DOMAIN names /\ names[1][2] <= checkpoint
    <3>1. 1 \in 1..N
      BY <2>1, <2>5, <2>8
    <3>2. names[1] \in DOMAIN files
      BY <2>1, <3>1
    <3>3. \A m \in DOMAIN files : names[1][1] <= m[1]
      <4> TAKE m \in DOMAIN files
      <4>1. PICK j \in 1..N : m = names[j]
        BY Zenon, <2>1
      <4>2. names[1][1] \in Nat /\ m[1] \in Nat
        BY Zenon, <2>2, <3>2
      <4>3. 1 < j => names[1][1] < names[j][1]
        BY Zenon, <2>1, <3>1
      <4>4. 1 = j \/ 1 < j
        BY <2>1
      <4> QED
        BY <4>1, <4>2, <4>3, <4>4
    <3> QED
      BY Zenon, <2>5, <3>1, <3>2, <3>3 DEF Linked
  <2> QED
    BY Zenon, <2>6, <2>7, <2>8 DEF Damaged

(* A log left in one piece: what the process leaves is linked. *)
<1>WholeLeavesLinked.
  ASSUME RoundsInv, DiskInv, Loaded, Whole, checkpoint' = checkpoint, DOMAIN files' = DOMAIN files,
         \A n \in DOMAIN files :
           \/ /\ files'[n].cache.recs = files[n].cache.recs
              /\ files'[n].cache.torn => files[n].cache.torn \/ ~\E m \in DOMAIN files : n[1] < m[1]
           \/ segs # <<>> /\ n = NameOf(active) /\ cpc # "rotate"
  PROVE  Linked'
  <2> USE <1>WholeLeavesLinked
  <2>1. Chain /\ Disk
    BY Zenon DEF DiskInv
  <2>2. DOMAIN segs = 1..Len(segs) /\ Len(segs) \in Nat
    BY <2>1 DEF Chain
  <2>3. \A i \in DOMAIN segs :
          /\ segs[i] \in Segment /\ NameOf(segs[i]) \in DOMAIN files
          /\ NameOf(segs[i])[1] = segs[i].base /\ NameOf(segs[i])[2] = segs[i].prev
          /\ segs[i].base \in Nat
    <3> TAKE i \in DOMAIN segs
    <3>1. segs[i] \in Segment /\ NameOf(segs[i]) \in DOMAIN files
      BY <2>1, <2>2 DEF Chain
    <3>2. NameOf(segs[i])[1] = segs[i].base /\ NameOf(segs[i])[2] = segs[i].prev
      BY Zenon DEF NameOf
    <3>3. segs[i].base \in Nat
      BY Zenon, <3>1 DEF Segment
    <3> QED
      BY Zenon, <3>1, <3>2, <3>3
  <2>4. \A i \in DOMAIN segs : i < Len(segs) =>
          NameOf(segs[i]) # NameOf(active) /\ segs[i].count = Len(CacheOf(segs[i]))
    BY <2>1, <2>2, ActiveFacts DEF Chain
  <2>5. cpc = "rotate" =>
          /\ segs # <<>> /\ Len(segs) \in DOMAIN segs
          /\ active.count = Len(CacheOf(active)) /\ ~broken
          /\ NextSegment[1] = first /\ NextSegment[2] = LastLSN(active) /\ first \in Nat
          /\ \A i \in DOMAIN segs : segs[i].base < first
    <3> SUFFICES ASSUME cpc = "rotate"
                 PROVE  /\ segs # <<>> /\ Len(segs) \in DOMAIN segs
                        /\ active.count = Len(CacheOf(active)) /\ ~broken
                        /\ NextSegment[1] = first /\ NextSegment[2] = LastLSN(active) /\ first \in Nat
                        /\ \A i \in DOMAIN segs : segs[i].base < first
      BY Zenon
    <3>1. /\ Ready /\ segs # <<>> /\ first \in Nat /\ first - 1 = LastLSN(active)
          /\ \A i \in DOMAIN segs : segs[i].base < first
      BY Zenon, NextSegmentFacts
    <3>2. ~broken
      BY Zenon DEF RoundsInv
    <3>3. active.count = Len(CacheOf(active))
      BY Zenon, <3>1, <3>2 DEF DiskInv, Progress
    <3> QED
      BY Zenon, <3>1, <3>2, <3>3, ActiveFacts DEF NextSegment
  <2>6. \A i, j \in DOMAIN segs : i < j => segs[i].base < segs[j].base
    BY Zenon, <2>1 DEF Chain
  <2>7. ASSUME NEW n \in DOMAIN files, NEW m \in DOMAIN files, Adjacent(n, m)
        PROVE  m[2] = End(n)' /\ ~files'[n].cache.torn
    <3>0. n[1] < m[1]
      BY Zenon, <2>7 DEF Adjacent
    <3>1. PICK i \in DOMAIN segs : n = NameOf(segs[i])
      <4>1. CASE cpc = "rotate" /\ n = NextSegment
        <5>1. n[1] < m[1]
          BY Zenon, <2>7 DEF Adjacent
        <5>2. m # n
          BY <4>1, <5>1, <2>5
        <5>3. PICK j \in DOMAIN segs : m = NameOf(segs[j])
          BY Zenon, <4>1, <5>2 DEF Whole
        <5> QED
          BY <2>3, <2>5, <4>1, <5>1, <5>3
      <4> QED
        BY Zenon, <4>1 DEF Whole
    <3>2. CASE \E j \in DOMAIN segs : m = NameOf(segs[j])
      <4> PICK j \in DOMAIN segs : m = NameOf(segs[j])
        BY Zenon, <3>2
      <4>1. segs[i].base < segs[j].base
        BY Zenon, <2>3, <2>7, <3>1 DEF Adjacent
      <4>2. i < j
        BY SMTT(30), <2>2, <2>3, <2>6, <4>1
      <4>3. i + 1 \in DOMAIN segs
        BY <2>2, <4>2
      <4>4. ~(i + 1 < j)
        <5> SUFFICES ASSUME i + 1 < j PROVE FALSE
          BY Zenon
        <5>1. segs[i].base < segs[i + 1].base /\ segs[i + 1].base < segs[j].base
          BY <2>2, <2>6, <4>3
        <5>2. NameOf(segs[i + 1]) \in DOMAIN files /\ NameOf(segs[i + 1])[1] = segs[i + 1].base
          BY Zenon, <2>3, <4>3
        <5>3. NameOf(segs[i + 1])[1] <= n[1] \/ m[1] <= NameOf(segs[i + 1])[1]
          BY Zenon, <2>7, <5>2 DEF Adjacent
        <5> QED
          BY <2>3, <3>1, <4>3, <5>1, <5>2, <5>3
      <4>5. j = i + 1 /\ i < Len(segs) /\ j > 1 /\ j - 1 = i
        BY <2>2, <4>2, <4>4
      <4>6. segs[j].prev = LastLSN(segs[i])
        BY Zenon, <2>1, <4>5 DEF Chain
      <4>7. n # NameOf(active) /\ segs[i].count = Len(files[n].cache.recs)
        BY Zenon, <2>4, <3>1, <4>5 DEF CacheOf
      <4>8. files'[n].cache.recs = files[n].cache.recs /\ ~files'[n].cache.torn
        BY Zenon, <3>0, <4>7 DEF Whole
      <4>9. End(n)' = LastLSN(segs[i])
        BY Zenon, <2>3, <3>1, <4>7, <4>8 DEF End, LastLSN
      <4> QED
        BY Zenon, <2>3, <4>6, <4>8, <4>9
    <3>3. CASE cpc = "rotate" /\ m = NextSegment
      <4>1. i = Len(segs)
        <5> SUFFICES ASSUME i # Len(segs) PROVE FALSE
          BY Zenon
        <5>1. segs[i].base < segs[Len(segs)].base /\ segs[Len(segs)].base < first
          BY <2>2, <2>5, <2>6, <3>3
        <5>2. NameOf(segs[Len(segs)]) \in DOMAIN files /\ NameOf(segs[Len(segs)])[1] = segs[Len(segs)].base
          BY Zenon, <2>3, <2>5, <3>3
        <5>3. NameOf(segs[Len(segs)])[1] <= n[1] \/ m[1] <= NameOf(segs[Len(segs)])[1]
          BY Zenon, <2>7, <5>2 DEF Adjacent
        <5> QED
          BY <2>3, <2>5, <3>1, <3>3, <5>1, <5>2, <5>3
      <4>2. segs[i] = active
        BY Zenon, <4>1 DEF active
      <4>3. /\ files'[n].cache.recs = files[n].cache.recs /\ ~files'[n].cache.torn
            /\ active.count = Len(files[n].cache.recs)
        BY Zenon, <2>5, <3>0, <3>1, <3>3, <4>2 DEF Whole, CacheOf
      <4>4. End(n)' = LastLSN(active)
        BY Zenon, <2>3, <3>1, <4>2, <4>3 DEF End, LastLSN
      <4> QED
        BY Zenon, <2>5, <3>3, <4>3, <4>4
    <3> QED
      BY Zenon, <3>2, <3>3 DEF Whole
  <2>8. ASSUME NEW n \in DOMAIN files, \A m \in DOMAIN files : n[1] <= m[1]
        PROVE  n[2] <= checkpoint
    <3>1. CASE cpc = "rotate" /\ n = NextSegment
      <4>1. n[1] <= NameOf(segs[Len(segs)])[1]
        BY Zenon, <2>3, <2>5, <2>8, <3>1
      <4> QED
        BY <2>3, <2>5, <3>1, <4>1
    <3>2. CASE \E i \in DOMAIN segs : n = NameOf(segs[i])
      <4> PICK i \in DOMAIN segs : n = NameOf(segs[i])
        BY Zenon, <3>2
      <4>1. 1 \in DOMAIN segs
        BY <2>2
      <4>2. n[1] <= NameOf(segs[1])[1]
        BY Zenon, <2>3, <2>8, <4>1
      <4>3. i = 1
        BY <2>2, <2>3, <2>6, <4>1, <4>2
      <4> QED
        BY <2>3, <4>1, <4>3 DEF Whole
    <3> QED
      BY Zenon, <3>1, <3>2 DEF Whole
  <2>9. \A n, m \in DOMAIN files' : Adjacent(n, m)' => m[2] = End(n)' /\ ~files'[n].cache.torn
    <3>1. \A n, m : Adjacent(n, m)' <=> Adjacent(n, m)
      BY Zenon DEF Adjacent
    <3> QED
      BY Zenon, <2>7, <3>1
  <2>10. \A n \in DOMAIN files' : (\A m \in DOMAIN files' : n[1] <= m[1]) => n[2] <= checkpoint'
    BY Zenon, <2>8
  <2> QED
    BY Zenon, <2>9, <2>10 DEF Linked

(* Steps that leave the files and the segments alone. *)
<1>RestWhole.
  ASSUME Whole, UNCHANGED <<files, segs>>, cpc # "rotate" \/ (cpc' = cpc /\ first' = first),
         cpc = "rollback" \/ broken => cpc' = "rollback" \/ broken',
         segs # <<>> => segs[1].prev <= checkpoint'
  PROVE  Whole'
  <2> USE <1>RestWhole
  <2>1. NextSegment' = NextSegment \/ cpc # "rotate"
    BY Zenon DEF NextSegment
  <2>2. active' = active
    BY Zenon DEF active
  <2> QED
    BY Zenon, <2>1, <2>2 DEF Whole

(* Steps that write to the active segment. *)
<1>TouchWhole.
  ASSUME DiskInv, Ready, Whole, DOMAIN files' = DOMAIN files, DOMAIN segs' = DOMAIN segs, segs' # <<>>,
         \A i \in DOMAIN segs : NameOf(segs'[i]) = NameOf(segs[i]),
         NameOf(active)' = NameOf(active), cpc # "rotate", checkpoint' = checkpoint,
         \A n \in DOMAIN files : n # NameOf(active) => files'[n].cache = files[n].cache,
         files'[NameOf(active)].cache.torn => cpc' = "rollback" \/ broken'
  PROVE  Whole'
  <2> USE <1>TouchWhole
  <2>1. segs'[1].prev <= checkpoint'
    <3>1. 1 \in DOMAIN segs
      BY Zenon, FirstFacts
    <3>2. segs'[1].prev = segs[1].prev
      BY Zenon, <3>1 DEF NameOf
    <3> QED
      BY <3>1, <3>2 DEF Whole
  <2>2. \A n \in DOMAIN files : files'[n].cache.torn => n = NameOf(active) /\ (cpc' = "rollback" \/ broken')
    BY Zenon DEF Whole
  <2>3. \A n \in DOMAIN files : \E i \in DOMAIN segs' : n = NameOf(segs'[i])
    BY Zenon DEF Whole
  <2> QED
    BY Zenon, <2>1, <2>2, <2>3 DEF Whole

(* The committer's steps in one segment. *)
<1>CommitterWhole.
  ASSUME RoundsInv, DiskInv, Whole, Write \/ WriteFails \/ Commit \/ Rollback \/ RollbackFails
  PROVE  Whole'
  <2> USE <1>CommitterWhole
  <2>1. cpc \in {"write", "sync", "rollback", "unrollable"} /\ checkpoint' = checkpoint
    BY Zenon DEF Write, WriteFails, Commit, Rollback, RollbackFails
  <2>2. Ready /\ Loaded /\ segs # <<>> /\ ~broken
    BY Zenon, <2>1 DEF RoundsInv, Running, Ready, Loaded, DiskInv, Numbers
  <2>3. NameOf(active) \in DOMAIN files /\ 1 \in DOMAIN segs
    BY <2>2, ActiveFacts
  <2>4. CASE Write \/ WriteFails
    <3>1. PICK k \in 0..Len(inflight), torn \in BOOLEAN :
            /\ files' = WithFile(NameOf(active), Appended(k, torn), files[NameOf(active)].stable)
            /\ cpc' \in {"sync", "rollback"} /\ segs' = segs /\ (cpc' = "sync" => torn = FALSE)
      BY Zenon, <2>4, WriteFacts
    <3>2. /\ DOMAIN files' = DOMAIN files
          /\ \A n \in DOMAIN files : n # NameOf(active) => files'[n] = files[n]
          /\ files'[NameOf(active)].cache = Appended(k, torn)
      BY ZenonT(30), <2>3, <3>1 DEF WithFile
    <3>3. files'[NameOf(active)].cache.torn = torn
      BY <3>2 DEF Appended
    <3>4. files'[NameOf(active)].cache.torn => cpc' = "rollback"
      BY Zenon, <3>1, <3>3
    <3>5. active' = active
      BY Zenon, <3>1 DEF active
    <3> QED
      BY Zenon, <2>1, <2>2, <3>1, <3>2, <3>4, <3>5, <1>TouchWhole
  <2>5. CASE Commit
    <3>1. /\ NameOf(active)' = NameOf(active) /\ Len(segs') = Len(segs) /\ DiskInv'
          /\ \A i \in DOMAIN segs : i # Len(segs) => segs'[i] = segs[i]
          /\ \A n \in DOMAIN files : files'[n].cache = files[n].cache
      BY Zenon, <2>5, CommitDisk
    <3>2. cpc = "sync" /\ DOMAIN files' = DOMAIN files /\ DOMAIN segs' = DOMAIN segs
      BY Zenon, <2>3, <2>5 DEF Commit, WithFile
    <3>3. segs' # <<>> /\ \A i \in DOMAIN segs : NameOf(segs'[i]) = NameOf(segs[i])
      BY <2>3, <3>1, <3>2 DEF active
    <3>4. ~files'[NameOf(active)].cache.torn
      BY Zenon, <2>2, <2>3, <3>1, <3>2 DEF Whole
    <3> QED
      BY Zenon, <2>1, <2>2, <3>1, <3>2, <3>3, <3>4, <1>TouchWhole
  <2>6. CASE Rollback \/ RollbackFails
    <3>1. /\ segs' = segs /\ (broken' \/ (Rollback /\ files' = WithFile(NameOf(active), CutBack, CutBack)))
          /\ files' = files \/ \E c : files' = WithFile(NameOf(active), CutBack, c)
      BY Zenon, <2>6 DEF Rollback, RollbackFails
    <3>2. /\ DOMAIN files' = DOMAIN files
          /\ \A n \in DOMAIN files : n # NameOf(active) => files'[n] = files[n]
      BY Zenon, <2>3, <3>1 DEF WithFile
    <3>3. broken' \/ ~files'[NameOf(active)].cache.torn
      BY <3>1 DEF WithFile, CutBack
    <3>4. active' = active
      BY Zenon, <3>1 DEF active
    <3> QED
      BY Zenon, <2>1, <2>2, <3>1, <3>2, <3>3, <3>4, <1>TouchWhole
  <2> QED
    BY Zenon, <2>4, <2>5, <2>6

(* Rotation, a discarded segment that stayed aside. *)
<1>RotateWhole.
  ASSUME RoundsInv, DiskInv, Whole, harmed' = harmed, harmed = FALSE,
         RotateCreate \/ RotateCreateFails \/ RotateSync \/ RotateSyncFails \/ RotateCloseFails
  PROVE  Whole'
  <2> USE <1>RotateWhole
  <2>1. cpc \in {"create", "rotate"} /\ checkpoint' = checkpoint
    BY Zenon DEF RotateCreate, RotateCreateFails, RotateSync, RotateSyncFails, RotateCloseFails
  <2>2. /\ Ready /\ Loaded /\ segs # <<>> /\ ~broken /\ NameOf(active) # NextSegment
        /\ \A i \in DOMAIN segs : NameOf(segs[i]) # NextSegment
    BY Zenon, <2>1, NextSegmentFacts DEF RoundsInv
  <2>3. 1 \in DOMAIN segs /\ NameOf(active) \in DOMAIN files
    BY <2>2, ActiveFacts
  <2>4. \A n \in DOMAIN files : ~files[n].cache.torn
    BY Zenon, <2>1, <2>2 DEF Whole
  <2>5. \A n \in DOMAIN files : (\E i \in DOMAIN segs : n = NameOf(segs[i])) \/ n = NextSegment
    BY Zenon DEF Whole
  <2>6. CASE RotateSync
    <3>1. /\ DOMAIN files' = DOMAIN files /\ NameOf(active)' = NextSegment
          /\ \A i \in DOMAIN segs : i \in DOMAIN segs' /\ segs'[i] = segs[i]
          /\ \A n \in DOMAIN files : files'[n].cache = files[n].cache
          /\ DOMAIN segs' = DOMAIN segs \cup {Len(segs')}
      BY Zenon, <2>6, RotateDisk
    <3>2. \A n \in DOMAIN files' : ~files'[n].cache.torn
      BY Zenon, <2>4, <3>1
    <3>3. Len(segs') \in DOMAIN segs' /\ NameOf(segs'[Len(segs')]) = NextSegment
      BY Zenon, <3>1 DEF active
    <3>4. \A n \in DOMAIN files' : \E i \in DOMAIN segs' : n = NameOf(segs'[i])
      BY Zenon, <2>5, <3>1, <3>3
    <3>5. segs'[1].prev <= checkpoint'
      BY Zenon, <2>1, <2>2, <2>3, <3>1 DEF Whole
    <3> QED
      BY Zenon, <3>2, <3>4, <3>5 DEF Whole
  <2>7. CASE RotateCreate \/ RotateCreateFails
    <3>1. /\ cpc = "create" /\ cpc' \in {"rotate", "rollback"} /\ UNCHANGED <<segs, first>>
          /\ files' = files \/ (cpc' = "rotate" /\ files' = WithFile(NextSegment, Empty, Empty))
      BY Zenon, <2>7 DEF RotateCreate, RotateCreateFails, NextSegment, rounds
    <3>2. \A n \in DOMAIN files' : ~files'[n].cache.torn
      BY <2>4, <3>1 DEF WithFile, Empty
    <3>3. \A n \in DOMAIN files' : n \in DOMAIN files \/ (cpc' = "rotate" /\ n = NextSegment)
      BY Zenon, <3>1 DEF WithFile
    <3>4. NextSegment' = NextSegment
      BY Zenon, <3>1 DEF NextSegment
    <3> QED
      BY Zenon, <2>1, <3>1, <3>2, <3>3, <3>4 DEF Whole
  <2>8. CASE RotateSyncFails \/ RotateCloseFails
    <3>1. /\ segs' = segs
          /\ \A n \in DOMAIN files' : /\ n \in DOMAIN files /\ n # NextSegment
                                      /\ files'[n].cache = files[n].cache
      <4>1. CASE RotateSyncFails
        BY Zenon, <4>1 DEF RotateSyncFails, NextSegment, Without
      <4>2. CASE RotateCloseFails
        <5>1. PICK c : c = files[NameOf(active)].cache
          BY Zenon
        <5>2. /\ segs' = segs
              /\ \A n \in DOMAIN files' :
                   /\ n \in DOMAIN files /\ n # NextSegment
                   /\ files'[n] = IF n = NameOf(active) THEN [cache |-> c, stable |-> c] ELSE files[n]
          BY Zenon, <2>3, <4>2, <5>1 DEF RotateCloseFails, NextSegment, WithFile
        <5>3. [cache |-> c, stable |-> c].cache = c
          BY Zenon
        <5> QED
          BY Zenon, <5>1, <5>2, <5>3
      <4> QED
        BY Zenon, <2>8, <4>1, <4>2
    <3> QED
      BY ZenonT(30), <2>1, <2>4, <2>5, <3>1 DEF Whole
  <2> QED
    BY Zenon, <2>6, <2>7, <2>8

(* Truncate() takes the first segment, and the checkpoint covers it. *)
<1>TruncateWhole.
  ASSUME RoundsInv, DiskInv, MarksInv, Whole, TruncateOne
  PROVE  Whole'
  <2> USE <1>TruncateWhole
  <2>1. UNCHANGED <<cpc, first, broken, checkpoint>> /\ trim
    BY Zenon DEF TruncateOne, rounds
  <2>2. /\ Ready /\ active' = active /\ segs # <<>> /\ segs' # <<>>
        /\ DOMAIN files' = DOMAIN files \ {NameOf(segs[1])}
        /\ \A n \in DOMAIN files' : files'[n] = files[n]
        /\ DOMAIN segs' = 1..(Len(segs) - 1)
        /\ \A i \in DOMAIN segs' : i + 1 \in DOMAIN segs /\ segs'[i] = segs[i + 1]
        /\ Len(segs) \in Nat
    BY Zenon, TruncateDisk
  <2>3. segs'[1].prev <= checkpoint'
    <3>1. segs'[1].prev \in Nat /\ segs'[1].prev <= lastCP
      BY Zenon, TruncateHead
    <3> QED
      BY <2>1, <3>1 DEF MarksInv
  <2>4. \A n \in DOMAIN files' : \/ \E i \in DOMAIN segs' : n = NameOf(segs'[i])
                                 \/ cpc' = "rotate" /\ n = NextSegment'
    <3> TAKE n \in DOMAIN files'
    <3>1. n \in DOMAIN files /\ n # NameOf(segs[1]) /\ NextSegment' = NextSegment
      BY Zenon, <2>1, <2>2 DEF NextSegment
    <3>2. CASE \E i \in DOMAIN segs : n = NameOf(segs[i])
      <4> PICK i \in DOMAIN segs : n = NameOf(segs[i])
        BY Zenon, <3>2
      <4>1. DOMAIN segs = 1..Len(segs)
        BY Zenon, <2>2, ActiveFacts DEF Ready, Loaded
      <4>2. i # 1 /\ i \in 1..Len(segs)
        BY Zenon, <3>1, <4>1
      <4>5. i - 1 \in 1..(Len(segs) - 1) /\ (i - 1) + 1 = i
        BY <2>2, <4>2
      <4>3. PICK j \in DOMAIN segs' : j + 1 = i
        BY Zenon, <2>2, <4>5
      <4>4. n = NameOf(segs'[j])
        BY Zenon, <2>2, <4>3
      <4> QED
        BY Zenon, <4>4
    <3> QED
      BY Zenon, <2>1, <3>1, <3>2 DEF Whole
  <2>5. \A n \in DOMAIN files' : files'[n].cache.torn =>
          segs' # <<>> /\ n = NameOf(active)' /\ (cpc' = "rollback" \/ broken')
    BY Zenon, <2>1, <2>2 DEF Whole
  <2> QED
    BY Zenon, <2>3, <2>4, <2>5 DEF Whole

(* recover() and what follows it in wal.Open. *)
<1>OpenWhole.
  ASSUME RoundsInv, DiskInv, DiskInv', MarksInv, OpenScan \/ OpenAttach,
         phase = "down" => Linked, Loaded => Whole
  PROVE  Whole'
  <2> USE <1>OpenWhole
  <2>0. checkpoint' = checkpoint /\ checkpoint \in Nat
    BY Zenon DEF OpenScan, OpenAttach, MarksInv
  <2>1. CASE OpenScan
    <3>1. /\ DOMAIN files' = DOMAIN files /\ phase' = "attach" /\ phase = "down"
          /\ \A n \in DOMAIN files : ~files'[n].cache.torn
      BY Zenon, <2>1, ScanDisk DEF OpenScan
    <3>2. \A n \in DOMAIN files' : \E i \in DOMAIN segs' : n = NameOf(segs[i])'
      BY Zenon, <3>1 DEF DiskInv, Attached
    <3>3. segs' # <<>> => segs'[1].prev <= checkpoint
      <4> HAVE segs' # <<>>
      <4>1. PICK names \in Listings : segs' = Scanned(names)
        BY Zenon, <2>1 DEF OpenScan
      <4>2. names \in Seq(DOMAIN files) /\ DOMAIN names = 1..Len(names) /\ DOMAIN segs' = DOMAIN names
        BY ZenonT(30), <4>1, ListingFacts DEF Scanned
      <4>3. names # <<>>
        BY <4>1, <4>2 DEF Scanned
      <4>4. 1 \in DOMAIN names /\ names[1][2] <= checkpoint
        BY Zenon, <3>1, <4>3, <1>LinkedAccepted DEF DiskInv
      <4> QED
        BY Zenon, <4>1, <4>4 DEF Scanned
    <3> QED
      BY Zenon, <2>0, <3>1, <3>2, <3>3 DEF Whole
  <2>2. CASE OpenAttach
    <3>1. /\ phase = "attach" /\ UNCHANGED <<cpc, broken>>
      BY Zenon, <2>2 DEF OpenAttach
    <3>2. Whole /\ Chain /\ cpc = "idle" /\ Loaded
      BY Zenon, <3>1 DEF Loaded, DiskInv, RoundsInv, Running
    <3>3. CASE segs' = segs /\ files' = files
      BY Zenon, <2>0, <3>1, <3>2, <3>3, <1>RestWhole DEF Whole
    <3>4. CASE \E a \in Segment :
                 /\ segs' = Append(segs, a) /\ files' = WithFile(NameOf(a), Empty, Empty)
                 /\ segs = <<>> => a.prev = 0
                 /\ \A n \in DOMAIN files : n[1] < a.base
      <4> PICK a \in Segment :
                 /\ segs' = Append(segs, a) /\ files' = WithFile(NameOf(a), Empty, Empty)
                 /\ segs = <<>> => a.prev = 0
                 /\ \A n \in DOMAIN files : n[1] < a.base
        BY Zenon, <3>4
      <4>1. /\ segs \in Seq(Segment) /\ DOMAIN segs = 1..Len(segs) /\ Len(segs) \in Nat
        BY <3>2 DEF Chain
      <4>2. /\ DOMAIN segs' = 1..(Len(segs) + 1) /\ segs'[Len(segs) + 1] = a
            /\ \A i \in DOMAIN segs : i \in DOMAIN segs' /\ segs'[i] = segs[i]
        BY <4>1
      <4>3. \A n \in DOMAIN files' : \E i \in DOMAIN segs' : n = NameOf(segs'[i])
        <5> TAKE n \in DOMAIN files'
        <5>1. n \in DOMAIN files \/ n = NameOf(a)
          BY Zenon DEF WithFile
        <5>2. CASE n = NameOf(a)
          <6>1. Len(segs) + 1 \in DOMAIN segs'
            BY <4>1, <4>2
          <6> QED
            BY Zenon, <4>2, <5>2, <6>1
        <5>3. CASE n \in DOMAIN files
          <6>1. PICK i \in DOMAIN segs : n = NameOf(segs[i])
            BY Zenon, <3>2, <5>3 DEF Whole
          <6> QED
            BY Zenon, <4>2, <6>1
        <5> QED
          BY Zenon, <5>1, <5>2, <5>3
      <4>4. segs'[1].prev <= checkpoint
        <5>1. CASE segs = <<>>
          BY <2>0, <4>2, <5>1
        <5>2. CASE segs # <<>>
          <6>1. 1 \in DOMAIN segs
            BY <4>1, <5>2
          <6> QED
            BY Zenon, <3>2, <4>2, <5>2, <6>1 DEF Whole
        <5> QED
          BY Zenon, <5>1, <5>2
      <4>5. \A n \in DOMAIN files' : files'[n].cache.torn =>
              n # NameOf(a) /\ n \in DOMAIN files /\ files[n].cache.torn
        BY Zenon DEF WithFile, Empty
      <4>6. \A n \in DOMAIN files' : ~files'[n].cache.torn
        <5> SUFFICES ASSUME NEW n \in DOMAIN files', files'[n].cache.torn PROVE FALSE
          BY Zenon
        <5>1. n \in DOMAIN files /\ segs # <<>> /\ n = NameOf(active) /\ broken
          BY Zenon, <3>2, <4>5 DEF Whole
        <5>2. ~broken
          BY Zenon, <3>1 DEF RoundsInv, Running
        <5> QED
          BY Zenon, <5>1, <5>2
      <4> QED
        BY Zenon, <2>0, <4>3, <4>4, <4>6 DEF Whole
    <3> QED
      BY Zenon, <2>2, <3>3, <3>4, ResumedFacts
  <2> QED
    BY Zenon, <2>1, <2>2

(* A crash that does no harm leaves every segment but the active one as it   *)
(* was.                                                                      *)
<1>CrashLinked.
  ASSUME RoundsInv, DiskInv, ForcedInv, Loaded, Whole,
         NEW kind \in {"process", "machine"}, Crash(kind),
         kind = "machine" => ~syncNever /\ ~cached /\ ~CutUndone
  PROVE  Linked'
  <2> USE <1>CrashLinked
  <2>1. DOMAIN files' = DOMAIN files /\ checkpoint' = checkpoint
    BY Zenon, CrashDisk DEF Crash
  <2>2. CASE kind = "process"
    <3>1. files' = files
      BY Zenon, <2>2, CrashDisk
    <3> QED
      BY Zenon, <2>1, <3>1, <1>WholeLeavesLinked
  <2>3. CASE kind = "machine"
    <3>1. \A n \in DOMAIN files :
            \/ /\ files'[n].cache.recs = files[n].cache.recs
               /\ files'[n].cache.torn => files[n].cache.torn \/ ~\E m \in DOMAIN files : n[1] < m[1]
            \/ segs # <<>> /\ n = NameOf(active) /\ cpc # "rotate"
      <4> TAKE n \in DOMAIN files
      <4>1. CASE files[n].cache.recs = files[n].stable.recs
        <5>1. PICK c \in Survivors(files[n]) : files'[n] = [cache |-> c, stable |-> c]
          BY Zenon, <2>3, CrashDisk
        <5>2. PICK f \in [cache : Content, stable : Content] : f = files[n]
          BY Zenon DEF DiskInv, Disk
        <5>3. c \in {f.cache, f.stable}
          BY Zenon, <4>1, <5>1, <5>2, SurvivorFacts
        <5>4. files'[n].cache = c
          <6>1. PICK g : g = files'[n]
            BY Zenon
          <6>2. g = [cache |-> c, stable |-> c]
            BY Zenon, <5>1, <6>1
          <6>3. g.cache = c
            BY Zenon, <6>2
          <6> QED
            BY Zenon, <6>1, <6>3
        <5>5. CASE c = f.cache
          BY Zenon, <5>2, <5>4, <5>5
        <5>6. CASE c = f.stable
          <6>1. files'[n].cache = files[n].stable
            BY Zenon, <5>2, <5>4, <5>6
          <6>2. files'[n].cache.torn /\ files[n].stable.torn => ~\E m \in DOMAIN files : n[1] < m[1]
            BY Zenon, <2>3 DEF CutUndone
          <6> QED
            BY Zenon, <4>1, <6>1, <6>2
        <5> QED
          BY Zenon, <5>3, <5>5, <5>6
      <4>2. CASE Unforced(n)
        <5>1. Ready
          BY Zenon, <4>2 DEF Unforced, Running, Ready
        <5> QED
          BY Zenon, <4>2, <5>1 DEF Unforced, RoundsInv, DiskInv, Numbers
      <4> QED
        BY Zenon, <2>3, <4>1, <4>2 DEF ForcedInv
    <3> QED
      BY Zenon, <2>1, <3>1, <1>WholeLeavesLinked
  <2> QED
    BY Zenon, <2>2, <2>3

<1> SUFFICES ASSUME RoundsInv, DiskInv, DiskInv', ForcedInv, MarksInv, MarksInv', SoundInv, [Next]_vars
             PROVE  SoundInv'
  BY Zenon
<1>0. harmed \in BOOLEAN
  BY Zenon DEF SoundInv
<1>b. \A kind \in {"process", "machine"} :
        Crash(kind) => harmed' = (harmed \/ (kind = "machine" /\ (syncNever \/ cached \/ CutUndone)))
  BY Zenon DEF Crash
<1>c. harmed' \in BOOLEAN /\ (harmed => harmed')
  BY Zenon, HarmStays
<1> SUFFICES ASSUME ~harmed'
             PROVE  phase' # "refused" /\ (phase' = "down" => Linked') /\ (Loaded' => Whole')
  BY Zenon, <1>c DEF SoundInv
<1>d. /\ ~harmed /\ phase # "refused" /\ (phase = "down" => Linked) /\ (Loaded => Whole)
  BY Zenon, <1>c DEF SoundInv
<1>1. CASE \/ UNCHANGED vars \/ SyncFails \/ CloseBegin \/ Deliver \/ TruncateDone \/ CommitTake
           \/ (\E n \in 1..2 : Stage(n) \/ StageReserveFails(n))
  <2>1. /\ UNCHANGED <<files, segs, checkpoint>>
        /\ cpc # "rotate" \/ (cpc' = cpc /\ first' = first)
        /\ cpc = "rollback" \/ broken => cpc' = "rollback" \/ broken'
    <3>1. CASE SyncFails \/ CommitTake
      BY Zenon, <3>1 DEF SyncFails, CommitTake, disk
    <3>2. CASE UNCHANGED vars \/ CloseBegin \/ Deliver \/ TruncateDone
      <4>1. UNCHANGED <<disk, memory>>
        BY Zenon, <3>2 DEF vars, CloseBegin, Deliver, TruncateDone
      <4> QED
        BY Zenon, <4>1 DEF disk, memory, rounds
    <3>3. CASE \E n \in 1..2 : Stage(n) \/ StageReserveFails(n)
      BY Zenon, <3>3 DEF Stage, StageReserveFails, memory, rounds
    <3> QED
      BY Zenon, <1>1, <3>1, <3>2, <3>3
  <2>2. (Loaded' => Loaded) /\ (phase' \in {"down", "refused"} => phase' = phase)
    BY Zenon, <1>1 DEF vars, SyncFails, CloseBegin, Deliver, TruncateDone, CommitTake, Stage, StageReserveFails,
                Loaded, RoundsInv
  <2>3. Loaded' => Whole'
    BY Zenon, <1>d, <2>1, <2>2, <1>RestWhole DEF Whole
  <2>4. Linked => Linked'
    BY Zenon, <2>1 DEF Linked, Adjacent, End
  <2> QED
    BY Zenon, <1>d, <2>2, <2>3, <2>4
<1>2. CASE Persist \/ Reconcile
  <2>1. /\ UNCHANGED <<files, segs, cpc, first, broken>> /\ Ready /\ phase' \in {"up", "trim"}
    BY Zenon, <1>2 DEF Persist, Reconcile, memory, rounds, Ready
  <2>2. Loaded /\ checkpoint \in Nat
    BY Zenon, <2>1 DEF Ready, Loaded, MarksInv
  <2>3. segs[1].prev <= checkpoint'
    <3>1. segs # <<>> /\ segs[1].prev \in Nat
      BY <2>1, FirstFacts
    <3>2. CASE Persist
      BY Zenon, <3>1, <3>2 DEF Persist, MarksInv, Serving
    <3>3. CASE Reconcile
      <4>1. checkpoint' \in Nat /\ checkpoint <= checkpoint'
        BY Zenon, <2>1, <3>3, ClampedFacts DEF Reconcile
      <4>2. segs[1].prev <= checkpoint
        BY Zenon, <1>d, <2>2, <3>1 DEF Whole
      <4> QED
        BY <2>2, <3>1, <4>1, <4>2
    <3> QED
      BY Zenon, <1>2, <3>2, <3>3
  <2>4. Whole'
    BY Zenon, <1>d, <2>1, <2>2, <2>3, <1>RestWhole
  <2> QED
    BY Zenon, <2>1, <2>4
<1>3. CASE Write \/ WriteFails \/ Commit \/ Rollback \/ RollbackFails
  <2>1. phase' = phase
    BY Zenon, <1>3 DEF Write, WriteFails, Commit, Rollback, RollbackFails
  <2>2. Loaded /\ phase # "down"
    BY Zenon, <1>3 DEF Write, WriteFails, Commit, Rollback, RollbackFails, RoundsInv, Running, Loaded
  <2>3. Whole'
    BY Zenon, <1>3, <1>d, <2>2, <1>CommitterWhole
  <2> QED
    BY Zenon, <1>d, <2>1, <2>2, <2>3
<1>4. CASE RotateCreate \/ RotateCreateFails \/ RotateSync \/ RotateSyncFails \/ RotateCloseFails
  <2>1. phase' = phase
    BY Zenon, <1>4 DEF RotateCreate, RotateCreateFails, RotateSync, RotateSyncFails, RotateCloseFails
  <2>2. Loaded /\ phase # "down"
    BY Zenon, <1>4 DEF RotateCreate, RotateCreateFails, RotateSync, RotateSyncFails, RotateCloseFails,
                RoundsInv, Running, Loaded
  <2>3. harmed' = harmed /\ harmed = FALSE
    BY Zenon, <1>0, <1>c, <1>d
  <2>4. Whole'
    BY Zenon, <1>4, <1>d, <2>2, <2>3, <1>RotateWhole
  <2> QED
    BY Zenon, <1>d, <2>1, <2>2, <2>4
<1>5. CASE TruncateOne
  <2>1. phase' = phase /\ Loaded /\ phase # "down"
    BY Zenon, <1>5 DEF TruncateOne, RoundsInv, Loaded
  <2> QED
    BY Zenon, <1>5, <1>d, <2>1, <1>TruncateWhole
<1>6. CASE OpenScan \/ OpenAttach
  <2>1. phase' \in {"attach", "reconcile"}
    BY Zenon, <1>6 DEF OpenScan, OpenAttach
  <2> QED
    BY Zenon, <1>6, <1>d, <2>1, <1>OpenWhole
<1>7. CASE \E kind \in {"process", "machine"} : Crash(kind)
  <2> PICK kind \in {"process", "machine"} : Crash(kind)
    BY Zenon, <1>7
  <2>1. phase' = "down" /\ Loaded
    BY Zenon DEF Crash, Loaded, RoundsInv, RoundsType, Phases
  <2>2. kind = "machine" => ~syncNever /\ ~cached /\ ~CutUndone
    BY Zenon, <1>0, <1>b DEF ForcedInv
  <2>3. Linked'
    BY Zenon, <1>d, <2>1, <2>2, <1>CrashLinked
  <2> QED
    BY Zenon, <2>1, <2>3 DEF Loaded
<1>8. CASE \E r, s \in BOOLEAN : CloseEnd(r, s)
  <2> PICK r \in BOOLEAN, s \in BOOLEAN : CloseEnd(r, s)
    BY Zenon, <1>8
  <2>1. phase' = "down" /\ cpc = "idle" /\ checkpoint' = checkpoint
    BY Zenon DEF CloseEnd
  <2>2. /\ DOMAIN files' = DOMAIN files /\ Loaded
        /\ \A n \in DOMAIN files : files'[n].cache = files[n].cache
    <3>1. /\ DOMAIN files' = DOMAIN files /\ Loaded
          /\ \A n \in DOMAIN files : n # NameOf(active) => files'[n] = files[n]
          /\ LET f == files[NameOf(active)]
             IN  files'[NameOf(active)] = [cache |-> f.cache, stable |-> IF s THEN f.cache ELSE f.stable]
      BY Zenon, CloseDisk
    <3>2. files'[NameOf(active)].cache = files[NameOf(active)].cache
      <4>1. PICK g, c, d :
              /\ g = files'[NameOf(active)] /\ c = files[NameOf(active)].cache
              /\ d = IF s THEN files[NameOf(active)].cache ELSE files[NameOf(active)].stable
        BY Zenon
      <4>2. g = [cache |-> c, stable |-> d]
        BY Zenon, <3>1, <4>1
      <4>3. g.cache = c
        BY Zenon, <4>2
      <4> QED
        BY Zenon, <4>1, <4>3
    <3> QED
      BY Zenon, <3>1, <3>2
  <2>3. Linked'
    BY Zenon, <1>d, <2>1, <2>2, <1>WholeLeavesLinked
  <2> QED
    BY Zenon, <2>1, <2>3 DEF Loaded
<1>9. CASE Vanish
  BY Zenon, <1>9 DEF Vanish
<1>10. CASE OpenRefuses
  <2>1. phase = "down" /\ Disk /\ \E names \in Listings : Damaged(names)
    BY Zenon, <1>10 DEF OpenRefuses, DiskInv
  <2> QED
    BY Zenon, <1>d, <2>1, <1>LinkedAccepted
<1>11. CASE ReconcileRefuses
  <2>1. phase = "reconcile" /\ segs[1].prev > checkpoint
    BY Zenon, <1>11 DEF ReconcileRefuses
  <2>2. segs # <<>> /\ segs[1].prev \in Nat /\ checkpoint \in Nat /\ Loaded
    BY <2>1, FirstFacts DEF Ready, Loaded, MarksInv
  <2>3. segs[1].prev <= checkpoint
    BY Zenon, <1>d, <2>2 DEF Whole
  <2> QED
    BY <2>1, <2>2, <2>3
<1> QED
  BY Zenon, <1>1, <1>2, <1>3, <1>4, <1>5, <1>6, <1>7, <1>8, <1>9, <1>10, <1>11 DEF Next, Committer, Faulty, Open

(* The empty directory is in one piece. *)
LEMMA SoundInit == Init => SoundInv
<1> SUFFICES ASSUME Init PROVE SoundInv
  BY Zenon
<1>1. DOMAIN files = {} /\ phase = "down" /\ harmed = FALSE
  BY Zenon DEF Init
<1> QED
  BY Zenon, <1>1 DEF SoundInv, Linked, Loaded

(* An unharmed log is in one piece in every reachable state. *)
LEMMA SoundInvariance == Spec => [](ForcedInv /\ MarksInv /\ SoundInv)
BY RoundsInit, DiskInit, ForcedInit, MarksInit, SoundInit, RoundsNext, DiskNext, ForcedNext, MarksNext,
   SoundNext, PTL DEF Spec

(***************************************************************************)
(* Open refuses a log only once it has been harmed: by a segment lost or   *)
(* left behind, or by a machine crash that takes back what recovery built  *)
(* on, the cut of a torn tail included (wal.go, recover).  Whatever else   *)
(* happened, crashes, failed writes, rotations and rollbacks included,     *)
(* recover() and batch.Open take the directory they find.                  *)
(***************************************************************************)
THEOREM RecoveryAccepts == Spec => []OpenSucceeds
<1>1. SoundInv => OpenSucceeds
  BY Zenon DEF SoundInv, OpenSucceeds
<1> QED
  BY <1>1, SoundInvariance, PTL

=============================================================================
