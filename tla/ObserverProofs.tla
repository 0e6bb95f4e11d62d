--------------------------- MODULE ObserverProofs ---------------------------
(***************************************************************************)
(* What the buffer tells of itself, in two parts that share no state, each *)
(* for every value of its constants: the age of the backlog (AgeTracker),  *)
(* and the events, which Close outlasts (Dispatcher).                      *)
(***************************************************************************)
EXTENDS AgeTracker, Dispatcher, SequenceTheorems, TLAPS

-----------------------------------------------------------------------------
(***************************************************************************)
(* The age tracker never understates and holds no mark for records that    *)
(* are gone, for any number of goroutines, any granularity and any bound   *)
(* on the marks.  What has to be added to the two properties to make them  *)
(* inductive is what each single mark says: trim() makes a later mark the  *)
(* head, and Merged makes one mark of two.                                 *)
(***************************************************************************)

\* A writer on its way to the tracker carries records of the log.
AcceptersOK ==
  \A w \in Accepters : wr[w].pc # "idle" => wr[w].first \in 1..wr[w].last /\ wr[w].last \in LSNs

\* Every mark ends at a record that was noted and is not trimmed.
MarksFresh ==
  \A i \in 1..Len(marks) : marks[i].lsn > trimmed /\ noted[marks[i].lsn] >= 0

\* A record noted and not trimmed is below some mark, and no mark up to the
\* first one that covers it is younger than its note.
Covers ==
  \A l \in LSNs : l > trimmed /\ noted[l] >= 0 =>
    /\ marks # <<>> /\ l <= newest.lsn
    /\ \A j \in 1..Len(marks) : j = 1 \/ marks[j - 1].lsn < l => marks[j].at <= noted[l]

Inv == TypeOK /\ AcceptersOK /\ MarksFresh /\ Covers

Mark == [lsn : LSNs, at : 0..now]

\* The invariant holds when the buffer opens, with or without a backlog (countBacklog).
LEMMA InitInv == Init => Inv
<1> SUFFICES ASSUME Init PROVE Inv
  BY Zenon
<1> USE AgeAssumption
<1>1. \/ marks = <<>> /\ Inherited = 0
      \/ marks = <<[lsn |-> Inherited, at |-> 0]>> /\ Inherited \in LSNs
  BY DEF Init, LSNs
<1>2. TypeOK
  <2>1. marks \in Seq(Mark) /\ Len(marks) <= 1
    <3>1. CASE marks = <<>>
      BY <3>1
    <3>2. CASE marks = <<[lsn |-> Inherited, at |-> 0]>> /\ Inherited \in LSNs
      <4>1. [lsn |-> Inherited, at |-> 0] \in Mark
        BY <3>2 DEF Mark, Init
      <4> QED
        BY <3>2, <4>1
    <3> QED
      BY Zenon, <3>1, <3>2, <1>1
  <2>2. wr \in [Accepters -> [pc : {"idle", "clock", "note"}, first : 0..durable,
                            last : 0..durable, at : 0..now]]
    BY DEF Init, NoNote
  <2>3. noted \in [LSNs -> -1..now] /\ done \in [Completers -> 0..low]
    BY DEF Init, LSNs
  <2> QED
    BY <2>1, <2>2, <2>3 DEF TypeOK, Init, Mark
<1>3. AcceptersOK
  BY Zenon DEF Init, AcceptersOK, NoNote
<1>4. MarksFresh
  BY <1>1 DEF Init, MarksFresh, LSNs
<1>5. Covers
  BY <1>1 DEF Init, Covers, LSNs, newest
<1> QED
  BY Zenon, <1>2, <1>3, <1>4, <1>5 DEF Inv

\* What the type invariant says of one mark and of two.
LEMMA MarkTypes ==
  ASSUME TypeOK
  PROVE  /\ Len(marks) \in Nat /\ DOMAIN marks = 1..Len(marks) /\ now \in Nat
         /\ \A i \in 1..Len(marks) : marks[i] \in Mark /\ marks[i].lsn \in Nat /\ marks[i].at \in 0..now
         /\ \A i, j \in 1..Len(marks) : i <= j => /\ marks[i].lsn <= marks[j].lsn
                                                  /\ marks[i].at <= marks[j].at
<1>1. Len(marks) \in Nat /\ DOMAIN marks = 1..Len(marks) /\ now \in Nat
  BY DEF TypeOK
<1>2. \A i \in 1..Len(marks) : marks[i] \in Mark
  <2>1. marks \in Seq(Mark)
    BY Zenon DEF TypeOK, Mark
  <2> QED
    BY <2>1
<1>3. \A i \in 1..Len(marks) : marks[i].lsn \in Nat /\ marks[i].at \in 0..now
  BY <1>2, AgeAssumption DEF Mark, LSNs
<1>4. \A i, j \in 1..Len(marks) : i < j => /\ marks[i].lsn < marks[j].lsn
                                           /\ marks[i].at + Granularity <= marks[j].at
  BY Zenon DEF TypeOK
<1>5. \A i, j \in 1..Len(marks) : i <= j => marks[i].lsn <= marks[j].lsn /\ marks[i].at <= marks[j].at
  <2> TAKE i, j \in 1..Len(marks)
  <2>1. CASE i = j
    BY <2>1, <1>3, <1>1
  <2>2. CASE i < j
    <3>1. marks[i].lsn \in Nat /\ marks[j].lsn \in Nat /\ marks[i].at \in Nat /\ marks[j].at \in Nat
      BY <1>3, <1>1
    <3>2. marks[i].lsn < marks[j].lsn /\ marks[i].at + Granularity <= marks[j].at
      BY Zenon, <2>2, <1>4
    <3> QED
      BY SMTT(30), <3>1, <3>2, AgeAssumption
  <2> QED
    BY <2>1, <2>2, <1>1
<1> QED
  BY Zenon, <1>1, <1>2, <1>3, <1>5

\* Merging adjacent pairs (note) keeps every clause about marks, and makes room for one more.
LEMMA MergedKeeps ==
  ASSUME TypeOK, Len(marks) >= 1
  PROVE  /\ Merged \in Seq(Mark) /\ Len(Merged) \in 1..Len(marks)
         /\ Len(marks) = MaxMarks => Len(Merged) < MaxMarks
         /\ Merged[Len(Merged)].lsn = newest.lsn
         /\ Merged[Len(Merged)].at <= newest.at
         /\ \A i, j \in 1..Len(Merged) : i < j => /\ Merged[i].lsn < Merged[j].lsn
                                                 /\ Merged[i].at + Granularity <= Merged[j].at
         /\ \A i \in 1..Len(Merged) : \E j \in 1..Len(marks) : Merged[i].lsn = marks[j].lsn
         /\ \A l \in LSNs, j \in 1..Len(Merged) : j = 1 \/ Merged[j - 1].lsn < l =>
              \E i \in 1..Len(marks) : /\ i = 1 \/ marks[i - 1].lsn < l
                                       /\ Merged[j].at = marks[i].at
<1> DEFINE n == Len(marks)
           k == (n + 1) \div 2
           top(i) == IF 2 * i <= n THEN 2 * i ELSE 2 * i - 1
<1>1. n \in Nat \ {0} /\ k \in Nat \ {0} /\ n <= 2 * k /\ 2 * k <= n + 1
  BY MarkTypes
<1>2. Merged = [i \in 1..k |-> [lsn |-> marks[top(i)].lsn, at |-> marks[2 * i - 1].at]]
  BY Zenon DEF Merged
<1>3. \A i \in 1..k : /\ top(i) \in 1..n /\ 2 * i - 1 \in 1..n
                      /\ Merged[i].lsn = marks[top(i)].lsn /\ Merged[i].at = marks[2 * i - 1].at
  BY <1>1, <1>2
<1> HIDE DEF top, k
<1>4. Merged \in Seq(Mark) /\ Len(Merged) = k
  <2>1. Merged \in [1..k -> Mark]
    BY Zenon, <1>2, <1>3, MarkTypes DEF Mark
  <2> QED
    BY <2>1, <1>1
<1>5. top(k) = n /\ 2 * k - 1 <= n /\ \A i, j \in 1..k : i < j => top(i) < top(j) /\ 2 * i - 1 < 2 * j - 1
  BY <1>1 DEF top, k
<1>6. Merged[k].lsn = newest.lsn /\ Merged[k].at <= newest.at
  <2>1. k \in 1..k /\ n \in 1..n /\ 2 * k - 1 \in 1..n
    BY <1>1, <1>3
  <2>2. Merged[k].lsn = marks[n].lsn /\ Merged[k].at = marks[2 * k - 1].at
    BY Zenon, <2>1, <1>3, <1>5
  <2>3. marks[2 * k - 1].at <= marks[n].at
    BY Zenon, <2>1, <1>5, MarkTypes
  <2> QED
    BY Zenon, <2>2, <2>3 DEF newest
<1>7. \A i, j \in 1..k : i < j => /\ Merged[i].lsn < Merged[j].lsn
                                  /\ Merged[i].at + Granularity <= Merged[j].at
  <2> TAKE i, j \in 1..k
  <2> HAVE i < j
  <2>1. top(i) < top(j) /\ 2 * i - 1 < 2 * j - 1 /\ top(i) \in 1..n /\ top(j) \in 1..n
        /\ 2 * i - 1 \in 1..n /\ 2 * j - 1 \in 1..n
    BY Zenon, <1>3, <1>5
  <2>2. marks[top(i)].lsn < marks[top(j)].lsn
    BY Zenon, <2>1 DEF TypeOK
  <2>3. marks[2 * i - 1].at + Granularity <= marks[2 * j - 1].at
    BY Zenon, <2>1 DEF TypeOK
  <2> QED
    BY Zenon, <2>2, <2>3, <1>3
<1>8. \A i \in 1..k : \E j \in 1..n : Merged[i].lsn = marks[j].lsn
  BY Zenon, <1>3
<1>9. \A l \in LSNs, j \in 1..k : j = 1 \/ Merged[j - 1].lsn < l =>
        \E i \in 1..n : (i = 1 \/ marks[i - 1].lsn < l) /\ Merged[j].at = marks[i].at
  <2> TAKE l \in LSNs, j \in 1..k
  <2> HAVE j = 1 \/ Merged[j - 1].lsn < l
  <2>1. 2 * j - 1 \in 1..n /\ Merged[j].at = marks[2 * j - 1].at
    BY Zenon, <1>3
  <2>2. CASE j = 1
    BY <2>1, <2>2
  <2>3. CASE j # 1
    <3>1. j - 1 \in 1..k /\ top(j - 1) = 2 * j - 2
      BY <2>1, <2>3, <1>1 DEF top
    <3>2. marks[(2 * j - 1) - 1].lsn < l
      <4>1. Merged[j - 1].lsn = marks[2 * j - 2].lsn
        BY Zenon, <3>1, <1>3
      <4>2. (2 * j - 1) - 1 = 2 * j - 2
        BY <1>1
      <4> QED
        BY Zenon, <4>1, <4>2, <2>3
    <3> QED
      BY Zenon, <3>2, <2>1
  <2> QED
    BY Zenon, <2>2, <2>3
<1>10. n = MaxMarks => k < MaxMarks
  BY <1>1, AgeAssumption
<1>11. k \in 1..n
  BY <1>1
<1> QED
  BY Zenon, <1>4, <1>6, <1>7, <1>8, <1>9, <1>10, <1>11

\* What note(w) makes of the marks, however it does it: the new ones are in order, end
\* at records that were noted, reach as far as the old ones and the record, and
\* up to the first one that covers a record the old ones cover they are as old.
Renewed(w) ==
  /\ marks' \in Seq(Mark) /\ Len(marks') <= MaxMarks
  /\ \A i, j \in 1..Len(marks') : i < j => /\ marks'[i].lsn < marks'[j].lsn
                                           /\ marks'[i].at + Granularity <= marks'[j].at
  /\ \A i \in 1..Len(marks') : \/ marks'[i].lsn = wr[w].last /\ wr[w].last > trimmed
                               \/ \E j \in 1..Len(marks) : marks'[i].lsn = marks[j].lsn
  /\ wr[w].last > trimmed => marks' # <<>> /\ wr[w].last <= newest'.lsn
  /\ marks # <<>> => marks' # <<>> /\ newest.lsn <= newest'.lsn
  /\ \A l \in LSNs, j \in 1..Len(marks') :
       /\ marks # <<>> /\ l <= newest.lsn
       /\ j = 1 \/ marks'[j - 1].lsn < l
       => \E i \in 1..Len(marks) : (i = 1 \/ marks[i - 1].lsn < l) /\ marks'[j].at = marks[i].at

\* A note that renews the marks keeps the invariant.
LEMMA RenewedInv ==
  ASSUME Inv, NEW w \in Accepters, note(w), Renewed(w)
  PROVE  Inv'
<1>1. TypeOK /\ AcceptersOK /\ MarksFresh /\ Covers
  BY Zenon DEF Inv
<1>2. /\ wr[w].last \in LSNs /\ wr[w].first \in 1..wr[w].last
      /\ UNCHANGED <<now, trimmed, durable, low, done>>
      /\ noted' = [l \in LSNs |-> IF l \in wr[w].first..wr[w].last THEN now ELSE noted[l]]
      /\ wr' = [wr EXCEPT ![w] = NoNote]
  BY Zenon, <1>1 DEF note, AcceptersOK
<1>3. now \in Nat /\ wr[w].last \in Nat /\ wr[w].first \in Nat /\ LSNs \subseteq Nat
  BY <1>1, <1>2, AgeAssumption DEF TypeOK, LSNs
<1>4. noted \in [LSNs -> -1..now] /\ noted' \in [LSNs -> -1..now]
  BY SMTT(30), <1>1, <1>2, <1>3 DEF TypeOK
<1>5. TypeOK'
  <2>1. marks' \in Seq([lsn : LSNs, at : 0..now'])
    BY Zenon, <1>2 DEF Renewed, Mark
  <2>2. wr' \in [Accepters -> [pc : {"idle", "clock", "note"}, first : 0..durable',
                             last : 0..durable', at : 0..now']]
    <3>1. NoNote \in [pc : {"idle", "clock", "note"}, first : 0..durable, last : 0..durable, at : 0..now]
      BY <1>1, <1>3 DEF NoNote, TypeOK
    <3> QED
      BY Zenon, <3>1, <1>1, <1>2 DEF TypeOK
  <2> QED
    BY Zenon, <2>1, <2>2, <1>1, <1>2, <1>4 DEF TypeOK, Renewed
<1>6. AcceptersOK'
  BY Zenon, <1>1, <1>2 DEF AcceptersOK, NoNote, TypeOK
<1>7. \A i \in 1..Len(marks') : marks'[i] \in Mark /\ marks'[i].at <= now /\ marks'[i].lsn \in LSNs
  <2>1. marks' \in Seq(Mark)
    BY Zenon DEF Renewed
  <2>2. \A i \in 1..Len(marks') : marks'[i] \in Mark
    BY <2>1
  <2> QED
    BY <2>2, <1>3 DEF Mark
<1>8. MarksFresh'
  <2> SUFFICES ASSUME NEW i \in 1..Len(marks')
               PROVE  marks'[i].lsn > trimmed /\ noted'[marks'[i].lsn] >= 0
    BY Zenon, <1>2 DEF MarksFresh
  <2>1. CASE marks'[i].lsn = wr[w].last /\ wr[w].last > trimmed
    BY <2>1, <1>2, <1>3
  <2>2. CASE \E j \in 1..Len(marks) : marks'[i].lsn = marks[j].lsn
    <3>1. marks'[i].lsn > trimmed /\ noted[marks'[i].lsn] >= 0
      BY Zenon, <2>2, <1>1 DEF MarksFresh
    <3> QED
      BY <3>1, <1>2, <1>3, <1>7
  <2> QED
    BY Zenon, <2>1, <2>2 DEF Renewed
<1>9. Covers'
  <2> SUFFICES ASSUME NEW l \in LSNs, l > trimmed, noted'[l] >= 0
               PROVE  /\ marks' # <<>> /\ l <= newest'.lsn
                      /\ \A j \in 1..Len(marks') : j = 1 \/ marks'[j - 1].lsn < l =>
                           marks'[j].at <= noted'[l]
    BY Zenon, <1>2 DEF Covers
  <2>0. trimmed \in Nat /\ l \in Nat
    BY <1>1, <1>3 DEF TypeOK
  <2>1. marks' # <<>> => newest'.lsn \in Nat
    <3> HAVE marks' # <<>>
    <3>1. Len(marks') \in 1..Len(marks')
      BY DEF Renewed
    <3> QED
      BY Zenon, <3>1, <1>7, <1>3 DEF newest
  <2>2. CASE l \in wr[w].first..wr[w].last
    <3>1. noted'[l] = now
      BY Zenon, <2>2, <1>2
    <3>2. wr[w].last > trimmed
      BY <2>0, <2>2, <1>3
    <3> QED
      BY <3>1, <3>2, <1>7, <2>0, <2>1, <2>2, <1>3 DEF Renewed
  <2>3. CASE l \notin wr[w].first..wr[w].last
    <3>1. noted'[l] = noted[l]
      BY Zenon, <2>3, <1>2
    <3>2. /\ marks # <<>> /\ l <= newest.lsn
          /\ \A j \in 1..Len(marks) : j = 1 \/ marks[j - 1].lsn < l => marks[j].at <= noted[l]
      BY Zenon, <3>1, <1>1 DEF Covers
    <3>3. newest.lsn \in Nat
      <4>1. Len(marks) \in 1..Len(marks)
        BY <3>2, <1>1 DEF TypeOK
      <4> QED
        BY Zenon, <4>1, <1>1, MarkTypes DEF newest
    <3>4. marks' # <<>> /\ l <= newest'.lsn
      BY <3>2, <3>3, <2>0, <2>1 DEF Renewed
    <3>5. ASSUME NEW j \in 1..Len(marks'), j = 1 \/ marks'[j - 1].lsn < l
          PROVE  marks'[j].at <= noted'[l]
      <4>1. PICK i \in 1..Len(marks) : (i = 1 \/ marks[i - 1].lsn < l) /\ marks'[j].at = marks[i].at
        BY Zenon, <3>2, <3>5 DEF Renewed
      <4> QED
        BY Zenon, <4>1, <3>1, <3>2
    <3> QED
      BY Zenon, <3>4, <3>5
  <2> QED
    BY Zenon, <2>2, <2>3
<1> QED
  BY Zenon, <1>5, <1>6, <1>8, <1>9 DEF Inv

\* note() renews the marks, whether it returns early, extends the newest one, or appends.
LEMMA NoteRenews ==
  ASSUME Inv, NEW w \in Accepters, note(w)
  PROVE  Renewed(w)
<1> DEFINE n == Len(marks)
           lsn == wr[w].last
           at == wr[w].at
<1>1. TypeOK /\ AcceptersOK /\ MarksFresh /\ Covers
  BY Zenon DEF Inv
<1>2. wr[w] \in [pc : {"idle", "clock", "note"}, first : 0..durable, last : 0..durable, at : 0..now]
  BY Zenon, <1>1 DEF TypeOK
<1>3. /\ lsn \in LSNs /\ lsn \in Nat /\ at \in 0..now /\ at \in Nat
      /\ now \in Nat /\ trimmed \in Nat /\ n \in Nat
  <2>1. lsn \in LSNs
    BY Zenon, <1>1 DEF note, AcceptersOK
  <2>2. now \in Nat /\ trimmed \in Nat /\ n \in Nat
    BY <1>1, MarkTypes DEF TypeOK
  <2> QED
    BY <2>1, <2>2, <1>2, AgeAssumption DEF LSNs
<1>4. marks \in Seq(Mark) /\ n <= MaxMarks /\ (marks # <<>> <=> n >= 1)
  BY <1>1, <1>3 DEF TypeOK, Mark
<1>5. \A i, j \in 1..n : i < j => /\ marks[i].lsn < marks[j].lsn
                                  /\ marks[i].at + Granularity <= marks[j].at
  BY Zenon, <1>1 DEF TypeOK
<1>6. marks' = IF Covered(lsn) THEN marks
               ELSE IF Extends(at) THEN Extended(lsn)
               ELSE Append(Room, [lsn |-> lsn, at |-> at])
  BY Zenon DEF note
<1>7. \A i \in 1..n : /\ marks[i] \in Mark /\ marks[i].lsn \in Nat /\ marks[i].at \in Nat
                      /\ marks[i].at <= now
                      /\ marks[i].lsn <= newest.lsn /\ marks[i].at <= newest.at
  BY <1>1, <1>3, MarkTypes DEF newest
<1>8. CASE Covered(lsn)
  <2>1. marks' = marks /\ newest' = newest
    BY Zenon, <1>6, <1>8 DEF newest
  <2>2. lsn > trimmed => marks # <<>> /\ lsn <= newest.lsn
    BY <1>3, <1>8 DEF Covered
  <2>3. marks # <<>> => newest.lsn <= newest.lsn
    BY <1>4, <1>7, <1>3 DEF newest
  <2> QED
    BY Zenon, <2>1, <2>2, <2>3, <1>3, <1>4, <1>5 DEF Renewed
<1>9. CASE ~Covered(lsn) /\ Extends(at)
  <2>1. marks' = [marks EXCEPT ![n] = [marks[n] EXCEPT !.lsn = lsn]]
    BY Zenon, <1>6, <1>9 DEF Extended
  <2>2. n \in 1..n /\ marks[n] \in Mark /\ lsn > newest.lsn /\ newest = marks[n] /\ lsn > trimmed
    BY <1>3, <1>4, <1>7, <1>9 DEF Extends, Covered, newest
  <2>3. [marks[n] EXCEPT !.lsn = lsn] \in Mark
    BY Zenon, <2>2, <1>3 DEF Mark
  <2>4. marks' \in Seq(Mark) /\ Len(marks') = n
    <3>1. \A s \in Seq(Mark) : \A i \in DOMAIN s, m \in Mark :
            [s EXCEPT ![i] = m] \in Seq(Mark) /\ Len([s EXCEPT ![i] = m]) = Len(s)
      OBVIOUS
    <3>2. n \in DOMAIN marks
      BY <2>2, <1>4
    <3> QED
      BY Zenon, <3>1, <3>2, <2>1, <2>3, <1>4
  <2>5. marks'[n] = [marks[n] EXCEPT !.lsn = lsn] /\ \A i \in 1..n : i # n => marks'[i] = marks[i]
    BY <2>1, <2>2, <1>4
  <2>6. marks'[n].lsn = lsn /\ marks'[n].at = marks[n].at /\ newest' = marks'[n]
    BY Zenon, <2>2, <2>4, <2>5 DEF Mark, newest
  <2>7. \A i \in 1..n : marks'[i].at = marks[i].at /\ (i # n => marks'[i].lsn = marks[i].lsn)
    BY Zenon, <2>5, <2>6
  <2>8. \A i, j \in 1..n : i < j => /\ marks'[i].lsn < marks'[j].lsn
                                    /\ marks'[i].at + Granularity <= marks'[j].at
    <3> TAKE i, j \in 1..n
    <3> HAVE i < j
    <3>1. i # n /\ marks'[i].lsn = marks[i].lsn
      BY <2>7, <1>3
    <3>2. marks[i].lsn < marks'[j].lsn
      <4>1. CASE j = n
        BY <4>1, <2>6, <2>2, <1>7, <1>3
      <4>2. CASE j # n
        BY Zenon, <4>2, <2>7, <1>5
      <4> QED
        BY Zenon, <4>1, <4>2
    <3> QED
      BY Zenon, <3>1, <3>2, <2>7, <1>5
  <2>9. \A l \in LSNs, j \in 1..n : j = 1 \/ marks'[j - 1].lsn < l =>
          \E i \in 1..n : (i = 1 \/ marks[i - 1].lsn < l) /\ marks'[j].at = marks[i].at
    <3> TAKE l \in LSNs, j \in 1..n
    <3> HAVE j = 1 \/ marks'[j - 1].lsn < l
    <3>1. j = 1 \/ marks[j - 1].lsn < l
      <4>1. CASE j # 1
        <5>1. j - 1 \in 1..n /\ j - 1 # n
          BY <4>1, <1>3
        <5> QED
          BY Zenon, <5>1, <2>7
      <4> QED
        BY Zenon, <4>1
    <3> QED
      BY Zenon, <3>1, <2>7
  <2>10. \A i \in 1..n : \/ marks'[i].lsn = lsn /\ lsn > trimmed
                         \/ \E j \in 1..n : marks'[i].lsn = marks[j].lsn
    BY Zenon, <2>2, <2>6, <2>7
  <2>11. marks' # <<>> /\ lsn <= newest'.lsn /\ newest.lsn <= newest'.lsn
    BY <2>2, <2>4, <2>6, <1>3, <1>7
  <2> QED
    BY Zenon, <2>4, <2>8, <2>9, <2>10, <2>11, <1>4 DEF Renewed
<1>10. CASE ~Covered(lsn) /\ ~Extends(at)
  <2> DEFINE k == Len(Room)
             new == [lsn |-> lsn, at |-> at]
  <2>1. /\ Room \in Seq(Mark) /\ k \in 0..n /\ k < MaxMarks /\ (n >= 1 => k >= 1)
        /\ n >= 1 => Room[k].lsn = newest.lsn /\ Room[k].at <= newest.at
        /\ \A i, j \in 1..k : i < j => /\ Room[i].lsn < Room[j].lsn
                                       /\ Room[i].at + Granularity <= Room[j].at
        /\ \A i \in 1..k : \E j \in 1..n : Room[i].lsn = marks[j].lsn
        /\ \A l \in LSNs, j \in 1..k : j = 1 \/ Room[j - 1].lsn < l =>
              \E i \in 1..n : (i = 1 \/ marks[i - 1].lsn < l) /\ Room[j].at = marks[i].at
    <3>1. CASE n >= MaxMarks
      <4>1. n >= 1 /\ n = MaxMarks
        BY <3>1, <1>3, <1>4, AgeAssumption
      <4>2. Room = Merged
        BY Zenon, <3>1 DEF Room
      <4>3. Len(Merged) \in 1..n /\ Len(Merged) < MaxMarks
        BY Zenon, <4>1, <1>1, MergedKeeps
      <4>4. Len(Merged) \in 0..n /\ Len(Merged) >= 1
        BY <4>3
      <4> QED
        BY Zenon, <4>1, <4>2, <4>3, <4>4, <1>1, MergedKeeps
    <3>2. CASE ~(n >= MaxMarks)
      <4>1. Room = marks /\ k = n
        BY Zenon, <3>2 DEF Room
      <4>2. n >= 1 => newest = marks[n] /\ n \in 1..n
        BY <1>3 DEF newest
      <4> QED
        <5>1. n >= 1 => Room[k].lsn = newest.lsn /\ Room[k].at <= newest.at
          BY Zenon, <4>1, <4>2, <1>7
        <5>2. \A l \in LSNs, j \in 1..k : j = 1 \/ Room[j - 1].lsn < l =>
                \E i \in 1..n : (i = 1 \/ marks[i - 1].lsn < l) /\ Room[j].at = marks[i].at
          BY Zenon, <4>1
        <5>3. Room \in Seq(Mark) /\ k \in 0..n /\ k < MaxMarks
          BY <3>2, <4>1, <1>3, <1>4, AgeAssumption
        <5> QED
          BY Zenon, <4>1, <5>1, <5>2, <5>3, <1>5
    <3> QED
      BY Zenon, <3>1, <3>2
  <2> HIDE DEF k
  <2>2. k \in Nat
    BY <2>1, <1>3
  <2>3. new \in Mark
    BY Zenon, <1>3 DEF Mark
  <2>4. marks' = Append(Room, new)
    BY Zenon, <1>6, <1>10
  <2>5. /\ marks' \in Seq(Mark) /\ Len(marks') = k + 1 /\ marks'[k + 1] = new
        /\ \A i \in 1..k : marks'[i] = Room[i]
    BY <2>1, <2>3, <2>4 DEF k
  <2>6. \A i \in 1..k : Room[i] \in Mark /\ Room[i].lsn \in Nat /\ Room[i].at \in Nat
    <3>1. \A i \in 1..k : Room[i] \in Mark
      BY <2>1 DEF k
    <3> QED
      BY <3>1, <1>3, AgeAssumption DEF Mark, LSNs
  <2>7. newest' = new /\ marks' # <<>>
    BY <2>5, <2>2 DEF newest
  <2>8. n >= 1 => newest.lsn < lsn /\ newest.at + Granularity <= at
    <3> HAVE n >= 1
    <3>1. newest.lsn \in Nat /\ newest.at \in Nat
      BY <1>7, <1>3 DEF newest
    <3> QED
      BY SMTT(30), <3>1, <1>3, <1>4, <1>10, AgeAssumption DEF Covered, Extends
  <2>9. \A i \in 1..k : Room[i].lsn < lsn /\ Room[i].at + Granularity <= at
    <3> TAKE i \in 1..k
    <3>1. n >= 1 /\ k \in 1..k /\ i \in 1..k
      BY <2>1, <2>2, <1>3
    <3>2. Room[i].lsn <= Room[k].lsn /\ Room[i].at <= Room[k].at
      <4>1. CASE i = k
        BY <4>1, <3>1, <2>6
      <4>2. CASE i < k
        <5>1. Room[i].lsn < Room[k].lsn /\ Room[i].at + Granularity <= Room[k].at
          BY Zenon, <4>2, <3>1, <2>1
        <5> QED
          BY <5>1, <3>1, <2>6, AgeAssumption
      <4> QED
        BY <4>1, <4>2, <2>2
    <3>3. newest.lsn \in Nat /\ newest.at \in Nat
      BY <1>7, <1>3, <3>1 DEF newest
    <3> QED
      <4>1. Room[k].lsn = newest.lsn /\ Room[k].at <= newest.at
        BY Zenon, <3>1, <2>1
      <4>2. Room[i].lsn \in Nat /\ Room[i].at \in Nat /\ Room[k].at \in Nat
        BY Zenon, <3>1, <2>6
      <4>3. newest.lsn < lsn /\ newest.at + Granularity <= at
        BY Zenon, <3>1, <2>8
      <4>4. Room[i].lsn < lsn
        BY <3>2, <3>3, <4>1, <4>2, <4>3, <1>3
      <4>5. \A a, b, c, d, g \in Nat : a <= b /\ b <= c /\ c + g <= d => a + g <= d
        OBVIOUS
      <4>6. Room[i].at + Granularity <= at
        BY ZenonT(30), <3>2, <3>3, <4>1, <4>2, <4>3, <4>5, <1>3, AgeAssumption
      <4> QED
        BY Zenon, <4>4, <4>6
  <2>10. \A i, j \in 1..(k + 1) : i < j => /\ marks'[i].lsn < marks'[j].lsn
                                           /\ marks'[i].at + Granularity <= marks'[j].at
    <3> TAKE i, j \in 1..(k + 1)
    <3> HAVE i < j
    <3>1. i \in 1..k
      BY <2>2
    <3>2. CASE j = k + 1
      BY <3>1, <3>2, <2>5, <2>9
    <3>3. CASE j # k + 1
      <4>1. j \in 1..k
        BY <3>3, <2>2
      <4> QED
        BY Zenon, <3>1, <4>1, <2>5, <2>1
    <3> QED
      BY Zenon, <3>2, <3>3
  <2>11. lsn > trimmed
    BY <1>3, <1>10 DEF Covered
  <2>12. \A i \in 1..(k + 1) : \/ marks'[i].lsn = lsn /\ lsn > trimmed
                               \/ \E j \in 1..n : marks'[i].lsn = marks[j].lsn
    <3> TAKE i \in 1..(k + 1)
    <3>1. CASE i = k + 1
      BY <3>1, <2>5, <2>11
    <3>2. CASE i # k + 1
      <4>1. i \in 1..k
        BY <3>2, <2>2
      <4> QED
        BY <4>1, <2>5, <2>1
    <3> QED
      BY Zenon, <3>1, <3>2
  <2>13. ASSUME NEW l \in LSNs, NEW j \in 1..(k + 1), marks # <<>>, l <= newest.lsn,
                j = 1 \/ marks'[j - 1].lsn < l
         PROVE  \E i \in 1..n : (i = 1 \/ marks[i - 1].lsn < l) /\ marks'[j].at = marks[i].at
    <3>1. n >= 1 /\ k >= 1 /\ k \in 1..k /\ l \in Nat
      BY <2>13, <1>4, <2>1, <2>2, AgeAssumption DEF LSNs
    <3>2. j \in 1..k
      <4> SUFFICES ASSUME j = k + 1 PROVE FALSE
        BY <2>2
      <4>1. marks'[k].lsn < l
        BY <2>13, <3>1, <2>2
      <4>2. marks'[k].lsn = newest.lsn /\ newest.lsn \in Nat
        BY Zenon, <3>1, <2>5, <2>1, <2>6
      <4> QED
        BY <4>1, <4>2, <3>1, <2>13
    <3>3. marks'[j] = Room[j] /\ (j = 1 \/ Room[j - 1].lsn < l)
      <4>1. j # 1 => j - 1 \in 1..k
        BY <3>2, <2>2
      <4> QED
        BY Zenon, <4>1, <3>2, <2>5, <2>13
    <3> QED
      BY Zenon, <3>2, <3>3, <2>1
  <2>14. marks # <<>> => newest.lsn <= newest'.lsn
    <3> HAVE marks # <<>>
    <3>1. newest.lsn \in Nat /\ newest.lsn < lsn
      BY <1>4, <1>7, <1>3, <2>8 DEF newest
    <3> QED
      BY <3>1, <2>7, <1>3
  <2>15. lsn <= newest'.lsn /\ k + 1 <= MaxMarks
    BY <2>7, <1>3, <2>1, <2>2, AgeAssumption
  <2> QED
    BY <2>5, <2>7, <2>10, <2>12, <2>13, <2>14, <2>15 DEF Renewed
<1> QED
  BY Zenon, <1>8, <1>9, <1>10

\* trim() leaves the marks that reach above the low-water mark, and their cover.
LEMMA TrimInv ==
  ASSUME Inv, NEW c \in Completers, trim(c)
  PROVE  Inv'
<1> DEFINE n == Len(marks)
<1>1. TypeOK /\ AcceptersOK /\ MarksFresh /\ Covers
  BY Zenon DEF Inv
<1>2. /\ done[c] \in Nat /\ trimmed \in Nat /\ low \in Nat /\ n \in Nat /\ LSNs \subseteq Nat
      /\ done[c] <= low /\ trimmed <= low
      /\ UNCHANGED <<now, durable, low, wr, noted>>
      /\ trimmed' = IF done[c] > trimmed THEN done[c] ELSE trimmed
      /\ done' = [done EXCEPT ![c] = 0]
  BY SMTT(30), <1>1, AgeAssumption DEF trim, TypeOK, LSNs
<1>3. PICK i \in 0..n : Leading(i, done[c]) /\ marks' = SubSeq(marks, i + 1, n)
  BY Zenon DEF trim
<1>4. marks \in Seq(Mark)
  BY Zenon, <1>1 DEF TypeOK, Mark
<1>5. /\ marks' \in Seq(Mark) /\ Len(marks') = n - i
      /\ \A j \in 1..(n - i) : marks'[j] = marks[i + j] /\ i + j \in 1..n
  <2>1. \A j \in (i + 1)..n : marks[j] \in Mark
    BY <1>2, <1>4
  <2>2. /\ marks' \in Seq(Mark) /\ Len(marks') = IF i + 1 <= n THEN n - (i + 1) + 1 ELSE 0
        /\ \A j \in 1..(n - (i + 1) + 1) : marks'[j] = marks[(i + 1) + j - 1]
    BY <2>1, <1>2, <1>3, SubSeqProperties
  <2>3. n - (i + 1) + 1 = n - i /\ \A j \in 1..(n - i) : (i + 1) + j - 1 = i + j /\ i + j \in 1..n
    BY <1>2
  <2>4. Len(marks') = n - i
    BY <2>2, <1>2
  <2> QED
    BY Zenon, <2>2, <2>3, <2>4
<1>6. \A j \in 1..n : marks[j].lsn \in Nat /\ marks[j].at \in Nat
  BY <1>1, <1>2, MarkTypes
<1>7. \A j \in (i + 1)..n : marks[j].lsn > trimmed'
  <2> TAKE j \in (i + 1)..n
  <2>1. i < n /\ i + 1 \in 1..n /\ j \in 1..n /\ i + 1 <= j
    BY <1>2
  <2>2. marks[i + 1].lsn > done[c] /\ marks[i + 1].lsn <= marks[j].lsn
    BY Zenon, <2>1, <1>1, <1>3, MarkTypes DEF Leading
  <2>3. marks[j].lsn > trimmed
    BY Zenon, <2>1, <1>1 DEF MarksFresh
  <2> QED
    BY <2>1, <2>2, <2>3, <1>2, <1>6
<1>8. TypeOK'
  <2>1. marks' \in Seq([lsn : LSNs, at : 0..now']) /\ Len(marks') <= MaxMarks
    BY <1>1, <1>2, <1>5, AgeAssumption DEF TypeOK, Mark
  <2>2. \A j, k \in 1..Len(marks') : j < k => /\ marks'[j].lsn < marks'[k].lsn
                                              /\ marks'[j].at + Granularity <= marks'[k].at
    <3> TAKE j, k \in 1..Len(marks')
    <3> HAVE j < k
    <3>1. i + j \in 1..n /\ i + k \in 1..n /\ i + j < i + k
          /\ marks'[j] = marks[i + j] /\ marks'[k] = marks[i + k]
      BY <1>2, <1>5
    <3> QED
      BY Zenon, <3>1, <1>1 DEF TypeOK
  <2>3. done' \in [Completers -> 0..low'] /\ trimmed' \in 0..low'
    BY <1>1, <1>2 DEF TypeOK
  <2> QED
    BY Zenon, <2>1, <2>2, <2>3, <1>1, <1>2 DEF TypeOK
<1>9. AcceptersOK'
  BY Zenon, <1>1, <1>2 DEF AcceptersOK
<1>10. MarksFresh'
  <2> SUFFICES ASSUME NEW j \in 1..Len(marks')
               PROVE  marks'[j].lsn > trimmed' /\ noted[marks'[j].lsn] >= 0
    BY Zenon, <1>2 DEF MarksFresh
  <2>1. i + j \in 1..n /\ i + j \in (i + 1)..n /\ marks'[j] = marks[i + j]
    BY <1>2, <1>5
  <2> QED
    BY Zenon, <2>1, <1>1, <1>7 DEF MarksFresh
<1>11. Covers'
  <2> SUFFICES ASSUME NEW l \in LSNs, l > trimmed', noted[l] >= 0
               PROVE  /\ marks' # <<>> /\ l <= newest'.lsn
                      /\ \A j \in 1..Len(marks') : j = 1 \/ marks'[j - 1].lsn < l =>
                           marks'[j].at <= noted[l]
    BY Zenon, <1>2 DEF Covers
  <2>1. l \in Nat /\ l > trimmed /\ l > done[c]
    BY <1>2
  <2>2. /\ n >= 1 /\ l <= marks[n].lsn
        /\ \A j \in 1..n : j = 1 \/ marks[j - 1].lsn < l => marks[j].at <= noted[l]
    BY <2>1, <1>1, <1>2 DEF Covers, newest
  <2>3. i < n
    <3> SUFFICES ASSUME i = n PROVE FALSE
      BY <1>2
    <3>1. marks[n].lsn <= done[c]
      BY <2>2, <1>2, <1>3 DEF Leading
    <3> QED
      BY <3>1, <2>1, <2>2, <1>2, <1>6
  <2>4. marks' # <<>> /\ newest' = marks[n]
    <3>1. n - i \in 1..(n - i) /\ i + (n - i) = n
      BY <2>3, <1>2
    <3> QED
      BY <3>1, <1>5 DEF newest
  <2>5. ASSUME NEW j \in 1..Len(marks'), j = 1 \/ marks'[j - 1].lsn < l
        PROVE  marks'[j].at <= noted[l]
    <3>1. i + j \in 1..n /\ marks'[j] = marks[i + j]
      BY Zenon, <1>5
    <3>2. i + j = 1 \/ marks[(i + j) - 1].lsn < l
      <4>1. CASE j = 1 /\ i # 0
        <5>1. i \in 1..i /\ i \in 1..n /\ (i + j) - 1 = i
          BY <4>1, <1>2
        <5>2. marks[i].lsn <= done[c]
          BY Zenon, <5>1, <1>3 DEF Leading
        <5> QED
          BY <5>1, <5>2, <2>1, <1>2, <1>6
      <4>2. CASE j # 1
        <5>1. j - 1 \in 1..(n - i) /\ i + (j - 1) = (i + j) - 1
          BY <4>2, <1>2, <1>5
        <5>2. marks'[j - 1] = marks[(i + j) - 1]
          BY Zenon, <5>1, <1>5
        <5> QED
          BY Zenon, <5>2, <4>2, <2>5
      <4>3. CASE j = 1 /\ i = 0
        BY <4>3
      <4> QED
        BY Zenon, <4>1, <4>2, <4>3
    <3> QED
      BY Zenon, <3>1, <3>2, <2>2
  <2> QED
    BY Zenon, <2>2, <2>4, <2>5
<1> QED
  BY Zenon, <1>8, <1>9, <1>10, <1>11 DEF Inv

\* Steps that leave the marks, what is trimmed and what is noted alone.
LEMMA OtherInv ==
  ASSUME Inv, UNCHANGED <<marks, trimmed, noted>>, now' \in Nat, now' >= now,
         durable' \in 0..MaxLSN, durable' >= durable, low' \in 0..durable', low' >= low,
         done' \in [Completers -> 0..low'],
         wr' \in [Accepters -> [pc : {"idle", "clock", "note"}, first : 0..durable',
                              last : 0..durable', at : 0..now']],
         AcceptersOK'
  PROVE  Inv'
<1>1. TypeOK /\ MarksFresh /\ Covers
  BY Zenon DEF Inv
<1>2. now \in Nat /\ low \in Nat /\ durable \in Nat
  BY <1>1 DEF TypeOK
<1>3. marks' \in Seq([lsn : LSNs, at : 0..now'])
  <2>1. marks \in Seq([lsn : LSNs, at : 0..now])
    BY Zenon, <1>1 DEF TypeOK
  <2>2. [lsn : LSNs, at : 0..now] \subseteq [lsn : LSNs, at : 0..now']
    BY <1>2
  <2> QED
    BY Zenon, <2>1, <2>2, SeqMonotonic
<1>4. noted' \in [LSNs -> -1..now'] /\ trimmed' \in 0..low'
  BY <1>1, <1>2 DEF TypeOK
<1>5. TypeOK'
  BY Zenon, <1>1, <1>3, <1>4 DEF TypeOK
<1>6. MarksFresh' /\ Covers'
  BY Zenon, <1>1 DEF MarksFresh, Covers, newest
<1> QED
  BY Zenon, <1>5, <1>6 DEF Inv

\* Every step keeps the invariant.
LEMMA NextInv == Inv /\ [Next]_vars => Inv'
<1> SUFFICES ASSUME Inv, [Next]_vars PROVE Inv'
  BY Zenon
<1> USE AgeAssumption
<1>1. TypeOK /\ AcceptersOK
  BY Zenon DEF Inv
<1>2. CASE Tick
  <2>1. now' \in Nat /\ now' >= now /\ 0..now \subseteq 0..now'
    BY <1>1, <1>2 DEF Tick, TypeOK
  <2>2. wr' \in [Accepters -> [pc : {"idle", "clock", "note"}, first : 0..durable',
                             last : 0..durable', at : 0..now']]
    BY Zenon, <1>1, <1>2, <2>1 DEF Tick, TypeOK
  <2> QED
    BY <1>1, <1>2, <2>1, <2>2, OtherInv DEF Tick, TypeOK, AcceptersOK
<1>3. ASSUME NEW w \in Accepters, NEW k \in 1..2, Await(w, k) PROVE Inv'
  <2>1. /\ durable' \in 0..MaxLSN /\ durable' >= durable /\ durable + 1 \in 1..durable'
        /\ durable' \in LSNs /\ durable \in Nat
    BY <1>1, <1>3 DEF Await, TypeOK, LSNs
  <2>2. wr' \in [Accepters -> [pc : {"idle", "clock", "note"}, first : 0..durable',
                             last : 0..durable', at : 0..now']]
    BY SMTT(30), <1>1, <1>3, <2>1 DEF Await, TypeOK
  <2>3. AcceptersOK'
    BY Zenon, <1>1, <1>3, <2>1 DEF Await, AcceptersOK, TypeOK
  <2>4. low \in 0..durable'
    BY <1>1, <2>1 DEF TypeOK
  <2> QED
    BY <1>1, <1>3, <2>1, <2>2, <2>3, <2>4, OtherInv DEF Await, TypeOK
<1>4. ASSUME NEW w \in Accepters, ReadClock(w) PROVE Inv'
  <2>1. wr' \in [Accepters -> [pc : {"idle", "clock", "note"}, first : 0..durable',
                             last : 0..durable', at : 0..now']]
    <3> DEFINE R == [pc : {"idle", "clock", "note"}, first : 0..durable, last : 0..durable, at : 0..now]
    <3>1. wr \in [Accepters -> R] /\ now \in 0..now
      BY <1>1 DEF TypeOK
    <3>2. [wr[w] EXCEPT !.pc = "note", !.at = now] \in R
      BY Zenon, <3>1
    <3>3. wr' = [wr EXCEPT ![w] = [wr[w] EXCEPT !.pc = "note", !.at = now]]
          /\ durable' = durable /\ now' = now
      BY Zenon, <1>4, <3>1 DEF ReadClock
    <3> QED
      BY Zenon, <3>1, <3>2, <3>3
  <2>2. AcceptersOK'
    BY Zenon, <1>1, <1>4 DEF ReadClock, AcceptersOK, TypeOK
  <2>3. UNCHANGED <<now, marks, trimmed, durable, low, done, noted>>
    BY Zenon, <1>4 DEF ReadClock
  <2>4. /\ now' \in Nat /\ now' >= now /\ durable' \in 0..MaxLSN /\ durable' >= durable
        /\ low' \in 0..durable' /\ low' >= low /\ done' \in [Completers -> 0..low']
    BY <1>1, <2>3, AgeAssumption DEF TypeOK
  <2> QED
    BY Zenon, <2>1, <2>2, <2>3, <2>4, OtherInv
<1>5. ASSUME NEW w \in Accepters, note(w) PROVE Inv'
  BY Zenon, <1>5, NoteRenews, RenewedInv
<1>6. ASSUME NEW c \in Completers, ack(c) PROVE Inv'
  <2>1. PICK to \in (low + 1)..durable : low' = to /\ done' = [done EXCEPT ![c] = to]
    BY Zenon, <1>6 DEF ack
  <2>2. low' \in 0..durable /\ low' >= low /\ done' \in [Completers -> 0..low']
    BY <2>1, <1>1 DEF TypeOK
  <2>3. wr' = wr /\ UNCHANGED <<now, marks, trimmed, durable, noted>> /\ AcceptersOK'
    BY Zenon, <1>1, <1>6 DEF ack, AcceptersOK
  <2> QED
    BY <1>1, <2>2, <2>3, OtherInv DEF TypeOK
<1>7. ASSUME NEW c \in Completers, trim(c) PROVE Inv'
  BY Zenon, <1>7, TrimInv
<1>8. CASE UNCHANGED vars
  BY Zenon, <1>8 DEF vars, Inv, TypeOK, AcceptersOK, MarksFresh, Covers, newest
<1> QED
  BY Zenon, <1>2, <1>3, <1>4, <1>5, <1>6, <1>7, <1>8 DEF Next

\* What the invariant says of the head of the queue, which is all that oldest() looks at.
LEMMA InvImplies == Inv => NeverUnderstated /\ NoPhantomBacklog
<1> SUFFICES ASSUME Inv PROVE NeverUnderstated /\ NoPhantomBacklog
  BY Zenon
<1>1. TypeOK /\ MarksFresh /\ Covers
  BY Zenon DEF Inv
<1>2. NeverUnderstated
  <2> SUFFICES ASSUME NEW l \in LSNs, l > trimmed, noted[l] >= 0
               PROVE  oldest >= now - noted[l]
    BY Zenon DEF NeverUnderstated
  <2>1. marks # <<>> /\ 1 \in 1..Len(marks) /\ marks[1].at <= noted[l]
    <3>1. marks # <<>> /\ marks \in Seq(Mark)
      BY Zenon, <1>1 DEF Covers, TypeOK, Mark
    <3>2. 1 \in 1..Len(marks)
      BY <3>1
    <3>3. \A j \in 1..Len(marks) : j = 1 => marks[j].at <= noted[l]
      BY Zenon, <1>1 DEF Covers
    <3> QED
      BY <3>1, <3>2, <3>3
  <2>2. marks[1].at \in Nat /\ now \in Nat /\ noted[l] \in Int
    <3>1. now \in Nat /\ marks[1].at \in 0..now /\ noted[l] \in -1..now
      BY Zenon, <2>1, <1>1, MarkTypes DEF TypeOK
    <3> QED
      BY <3>1
  <2> QED
    BY <2>1, <2>2 DEF oldest
<1>3. NoPhantomBacklog
  <2> SUFFICES ASSUME \A l \in LSNs : noted[l] >= 0 => l <= trimmed, marks # <<>>
               PROVE  FALSE
    BY ZenonT(30) DEF NoPhantomBacklog
  <2>1. 1 \in 1..Len(marks) /\ marks[1].lsn \in LSNs /\ marks[1].lsn \in Nat /\ trimmed \in Nat
    <3>1. marks \in Seq(Mark) /\ trimmed \in 0..low /\ low \in 0..durable
      BY Zenon, <1>1 DEF TypeOK, Mark
    <3>2. 1 \in 1..Len(marks)
      BY SMTT(30), <3>1
    <3>3. marks[1] \in Mark /\ marks[1].lsn \in Nat
      BY Zenon, <1>1, <3>2, MarkTypes
    <3>4. marks[1].lsn \in LSNs
      BY SMTT(30), <3>3 DEF Mark
    <3>5. trimmed \in Nat
      BY SMTT(30), <3>1
    <3> QED
      BY Zenon, <3>2, <3>3, <3>4, <3>5
  <2>2. marks[1].lsn > trimmed /\ noted[marks[1].lsn] >= 0
    BY Zenon, <2>1, <1>1 DEF MarksFresh
  <2>3. marks[1].lsn <= trimmed
    BY Zenon, <2>1, <2>2
  <2> QED
    BY SMTT(30), <2>1, <2>2, <2>3
<1> QED
  BY Zenon, <1>2, <1>3

\* The invariant holds at all times.
LEMMA Invariance == Spec => []Inv
BY InitInv, NextInv, PTL DEF Spec

\* No age is understated by note()'s coalescing and merging, for any number of writers
\* whose notes come in any order.
THEOREM AgeIsNeverUnderstated == Spec => []NeverUnderstated
BY Invariance, InvImplies, PTL

\* No mark outlives the records it was made for, late notes included (ageTracker.trimmed).
THEOREM BacklogIsReal == Spec => []NoPhantomBacklog
BY Invariance, InvImplies, PTL

-----------------------------------------------------------------------------
(***************************************************************************)
(* Close outlasts everything that raises events, for any number of         *)
(* writers, settlers, deliveries and callers, hooks that write or close    *)
(* included.  The invariant says, for each stage of the one shutdown, what *)
(* has come to an end by then and cannot begin again: nobody enters a      *)
(* sealed buffer, a settler takes its place from somebody inside, and only *)
(* a running flusher starts deliveries.                                    *)
(***************************************************************************)

Stages == {"idle", "do", "writers", "drain", "abort", "cp", "stop", "join", "returned"}

\* The variables have their types.
DTypeOK ==
  /\ queued \in Nat /\ dropped \in Nat /\ raised \in Nat /\ ran \in Nat
  /\ hook \in {"recv", "run", "stuck", "gone"}
  /\ once \in Closers \cup {None}
  /\ close \in [Closers -> Stages]

\* One call does the shutdown; the others wait for it, have returned or never came.
OneShutdown ==
  /\ \A c \in Closers : c # once => close[c] \in {"idle", "do", "returned"}
  /\ once # None => sealed /\ close[once] \notin {"idle", "do"}
  /\ once = None => ~chClosed

\* What has ended when the shutdown has come to a stage.
Ended ==
  once # None =>
    /\ close[once] # "writers" => writing = {}
    /\ close[once] \in {"cp", "stop", "join", "returned"} => ~flusher /\ delivering = {}
    /\ close[once] \in {"stop", "join", "returned"} => ~checkpointer
    /\ chClosed => close[once] \in {"join", "returned"}

\* The dispatcher is gone only from a closed and empty queue, and the call that
\* waited for it has seen it go.
Gone ==
  /\ hook = "gone" => chClosed /\ queued = 0
  /\ once \in Callers /\ close[once] = "returned" /\ once \notin expired => hook = "gone"

DInv == DTypeOK /\ OneShutdown /\ Ended /\ Gone /\ EventsAccounted /\ NoSendOnClosed

\* The invariant holds when the buffer opens.
LEMMA DInitInv == DInit => DInv
BY DispatcherAssumption DEF DInit, DInv, DTypeOK, OneShutdown, Ended, Gone, EventsAccounted, NoSendOnClosed,
   Closers, Stages

\* An event raised while the queue is open is counted, and closes nothing.
LEMMA PostInv ==
  ASSUME DInv, ~chClosed, post, UNCHANGED <<hook, sources, closing>>
  PROVE  DInv'
<1>1. DTypeOK' /\ EventsAccounted' /\ NoSendOnClosed'
  BY DispatcherAssumption DEF DInv, DTypeOK, EventsAccounted, NoSendOnClosed, post, closing, Closers
<1>2. OneShutdown' /\ Ended' /\ Gone'
  BY Zenon DEF DInv, OneShutdown, Ended, Gone, post, sources, closing
<1> QED
  BY Zenon, <1>1, <1>2 DEF DInv

\* Who may still raise an event has an open queue before it.
LEMMA OpenQueue ==
  ASSUME DInv, writing # {} \/ flusher \/ delivering # {} \/ checkpointer
              \/ \E c \in Closers : close[c] \in {"cp", "stop"}
  PROVE  ~chClosed
BY Zenon DEF DInv, OneShutdown, Ended, DTypeOK

\* Writers, settlers and hooks that write: nobody enters behind a sealed buffer.
LEMMA WriterInv ==
  ASSUME DInv
  PROVE  /\ \A w \in Writers \cup {Hook} : Enter(w) => DInv'
         /\ \A w \in Inside, s \in Settlers : settle(w, s) => DInv'
         /\ \A w \in Inside : WriterRaises(w) \/ Leave(w) => DInv'
<1>1. ASSUME NEW w \in Writers \cup {Hook}, Enter(w) PROVE DInv'
  <2>1. once = None
    BY Zenon, <1>1 DEF DInv, OneShutdown, Enter
  <2> QED
    BY Zenon, <1>1, <2>1, DispatcherAssumption
    DEF Enter, events, closing, DInv, DTypeOK, OneShutdown, Ended, Gone, EventsAccounted, NoSendOnClosed
<1>2. ASSUME NEW w \in Inside, NEW s \in Settlers, settle(w, s) PROVE DInv'
  BY Zenon, <1>2 DEF settle, events, closing, DInv, DTypeOK, OneShutdown, Ended, Gone,
              EventsAccounted, NoSendOnClosed
<1>3. ASSUME NEW w \in Inside, WriterRaises(w) PROVE DInv'
  BY Zenon, <1>3, OpenQueue, PostInv DEF WriterRaises
<1>4. ASSUME NEW w \in Inside, Leave(w) PROVE DInv'
  BY Zenon, <1>4 DEF Leave, events, closing, DInv, DTypeOK, OneShutdown, Ended, Gone,
              EventsAccounted, NoSendOnClosed
<1> QED
  BY Zenon, <1>1, <1>2, <1>3, <1>4

\* The flusher, the deliveries it starts, and the checkpointer.
LEMMA SourceInv ==
  ASSUME DInv
  PROVE  /\ FlusherRaises \/ FlusherEnds \/ CheckpointerRaises \/ CheckpointerEnds => DInv'
         /\ \A d \in Deliveries : Dispatch(d) \/ DeliveryRaises(d) \/ DeliveryEnds(d) => DInv'
<1>1. CASE FlusherRaises
  BY Zenon, <1>1, OpenQueue, PostInv DEF FlusherRaises
<1>2. CASE CheckpointerRaises
  BY Zenon, <1>2, OpenQueue, PostInv DEF CheckpointerRaises
<1>3. CASE FlusherEnds
  BY Zenon, <1>3 DEF FlusherEnds, events, closing, DInv, DTypeOK, OneShutdown, Ended, Gone,
              EventsAccounted, NoSendOnClosed
<1>4. CASE CheckpointerEnds
  BY Zenon, <1>4 DEF CheckpointerEnds, events, closing, DInv, DTypeOK, OneShutdown, Ended, Gone,
              EventsAccounted, NoSendOnClosed
<1>5. ASSUME NEW d \in Deliveries, Dispatch(d) PROVE DInv'
  BY Zenon, <1>5 DEF Dispatch, events, closing, DInv, DTypeOK, OneShutdown, Ended, Gone,
              EventsAccounted, NoSendOnClosed
<1>6. ASSUME NEW d \in Deliveries, DeliveryRaises(d) PROVE DInv'
  BY Zenon, <1>6, OpenQueue, PostInv DEF DeliveryRaises
<1>7. ASSUME NEW d \in Deliveries, DeliveryEnds(d) PROVE DInv'
  BY Zenon, <1>7 DEF DeliveryEnds, events, closing, DInv, DTypeOK, OneShutdown, Ended, Gone,
              EventsAccounted, NoSendOnClosed
<1> QED
  BY Zenon, <1>1, <1>2, <1>3, <1>4, <1>5, <1>6, <1>7

\* The dispatcher: every event it takes is run or counted.
LEMMA HookInv ==
  ASSUME DInv, receive \/ HookReturns \/ HookPanics \/ HookSticks \/ runEnds
  PROVE  DInv'
<1> USE DEF sources, closing, events
<1>1. DTypeOK'
  BY DEF DInv, DTypeOK, receive, HookReturns, HookPanics, HookSticks, runEnds
<1>2. EventsAccounted'
  BY DEF DInv, DTypeOK, EventsAccounted, receive, HookReturns, HookPanics, HookSticks, runEnds, AtLarge
<1>3. Gone'
  BY Zenon DEF DInv, Gone, receive, HookReturns, HookPanics, HookSticks, runEnds, AtLarge
<1>4. OneShutdown' /\ Ended' /\ NoSendOnClosed'
  BY DEF DInv, OneShutdown, Ended, NoSendOnClosed, receive, HookReturns, HookPanics, HookSticks, runEnds
<1> QED
  BY Zenon, <1>1, <1>2, <1>3, <1>4 DEF DInv

\* The stages of Close, each behind the wait that makes its claim true.
LEMMA CloseInv ==
  ASSUME DInv, NEW c \in Closers, Close(c) \/ Expire(c) \/ Shutdown(c)
  PROVE  DInv'
<1> USE DispatcherAssumption DEF sources, closing, events, Go, Stages
<1>1. DTypeOK /\ OneShutdown /\ Ended /\ Gone /\ EventsAccounted /\ NoSendOnClosed
  BY Zenon DEF DInv
<1>2. close[c] \notin {"idle", "do", "returned"} => c = once /\ once # None
  BY Zenon, <1>1 DEF DTypeOK, OneShutdown, Closers
<1>3. CASE Close(c)
  <2>1. DTypeOK' /\ EventsAccounted' /\ NoSendOnClosed'
    BY Zenon, <1>1, <1>3 DEF Close, DTypeOK, EventsAccounted, NoSendOnClosed
  <2>2. OneShutdown' /\ Ended' /\ Gone'
    BY <1>1, <1>3 DEF Close, DTypeOK, OneShutdown, Ended, Gone, Closers
  <2> QED
    BY Zenon, <2>1, <2>2 DEF DInv
<1>4. CASE Expire(c)
  BY Zenon, <1>1, <1>4 DEF Expire, Called, DInv, DTypeOK, OneShutdown, Ended, Gone, EventsAccounted, NoSendOnClosed
<1>5. CASE awaitWriters(c) \/ awaitDrained(c) \/ awaitAborted(c)
  <2>1. DTypeOK' /\ EventsAccounted' /\ NoSendOnClosed'
    <3>1. UNCHANGED <<events, hook, once>> /\ close' \in [Closers -> Stages]
      BY Zenon, <1>1, <1>5 DEF awaitWriters, awaitDrained, awaitAborted, DTypeOK
    <3> QED
      BY Zenon, <1>1, <3>1 DEF DTypeOK, EventsAccounted, NoSendOnClosed
  <2>2. OneShutdown' /\ Ended' /\ Gone'
    BY <1>1, <1>2, <1>5 DEF awaitWriters, awaitDrained, awaitAborted, Idle, DTypeOK, OneShutdown, Ended, Gone
  <2> QED
    BY Zenon, <2>1, <2>2 DEF DInv
<1>6. CASE lastPersist(c)
  <2>1. ~chClosed
    BY Zenon, <1>6, OpenQueue DEF lastPersist
  <2>2. DTypeOK' /\ EventsAccounted' /\ NoSendOnClosed'
    BY <2>1, <1>1, <1>6 DEF lastPersist, post, DTypeOK, EventsAccounted, NoSendOnClosed
  <2>3. OneShutdown' /\ Ended' /\ Gone'
    BY <2>1, <1>1, <1>2, <1>6 DEF lastPersist, post, DTypeOK, OneShutdown, Ended, Gone
  <2> QED
    BY Zenon, <2>2, <2>3 DEF DInv
<1>7. CASE stop(c)
  <2>1. DTypeOK' /\ EventsAccounted' /\ NoSendOnClosed'
    BY Zenon, <1>1, <1>7 DEF stop, DTypeOK, EventsAccounted, NoSendOnClosed
  <2>2. OneShutdown' /\ Ended' /\ Gone'
    BY Zenon, <1>1, <1>2, <1>7 DEF stop, DTypeOK, OneShutdown, Ended, Gone
  <2> QED
    BY Zenon, <2>1, <2>2 DEF DInv
<1>8. CASE join(c) \/ do(c)
  <2>1. DTypeOK' /\ EventsAccounted' /\ NoSendOnClosed'
    <3>1. UNCHANGED <<events, hook, once>> /\ close' \in [Closers -> Stages]
      BY Zenon, <1>1, <1>8 DEF join, do, DTypeOK
    <3> QED
      BY Zenon, <1>1, <3>1 DEF DTypeOK, EventsAccounted, NoSendOnClosed
  <2>2. OneShutdown' /\ Ended' /\ Gone'
    BY <1>1, <1>2, <1>8 DEF join, do, DoReturned, DTypeOK, OneShutdown, Ended, Gone
  <2> QED
    BY Zenon, <2>1, <2>2 DEF DInv
<1> QED
  BY Zenon, <1>3, <1>4, <1>5, <1>6, <1>7, <1>8 DEF Shutdown

\* Every step keeps the invariant.
LEMMA DNextInv == DInv /\ [DNext]_dvars => DInv'
<1> SUFFICES ASSUME DInv, [DNext]_dvars PROVE DInv'
  BY Zenon
<1>1. CASE UNCHANGED dvars
  BY Zenon, <1>1 DEF dvars, events, sources, closing, DInv, DTypeOK, OneShutdown, Ended, Gone,
              EventsAccounted, NoSendOnClosed
<1>2. CASE DNext
  BY Zenon, <1>2, WriterInv, SourceInv, HookInv, CloseInv DEF DNext, Inside
<1> QED
  BY Zenon, <1>1, <1>2

\* The invariant holds at all times.
LEMMA DInvariance == DSpec => []DInv
BY DInitInv, DNextInv, PTL DEF DSpec

\* Nothing is ever posted to the queue that Close has closed (observer.go, stop).
THEOREM QueueOutlivesPosters == DSpec => []NoSendOnClosed
<1>1. DInv => NoSendOnClosed
  BY Zenon DEF DInv
<1> QED
  BY <1>1, DInvariance, PTL

\* Every event is in the queue, under way, run, or in Stats().ObserverDropped (post, call).
THEOREM NoEventIsLost == DSpec => []EventsAccounted
<1>1. DInv => EventsAccounted
  BY Zenon DEF DInv
<1> QED
  BY <1>1, DInvariance, PTL

\* A Close that did the shutdown and had the time has reported every event (flush.go, Close).
THEOREM CloseReportsEverything == DSpec => []CloseReportsAll
<1>1. DInv => CloseReportsAll
  BY DEF DInv, DTypeOK, Gone, EventsAccounted, CloseReportsAll
<1> QED
  BY <1>1, DInvariance, PTL

=============================================================================
