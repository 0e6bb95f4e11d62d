---------------------------- MODULE LowWaterMark ----------------------------
(***************************************************************************)
(* What the buffer needs of an acknowledgement tracker, and nothing about  *)
(* how one is built.  Log sequence numbers (LSNs) are acknowledged in any  *)
(* order.  The mark is always exact: everything at or below it has been    *)
(* acknowledged, and the LSN just above it has not, so it neither runs     *)
(* ahead of an unfinished delivery nor stalls behind a finished one.       *)
(***************************************************************************)
EXTENDS Integers

CONSTANT MaxLSN    \* bound: the log ends here

VARIABLES mark,    \* the low-water mark a caller of mark() is shown
          acked    \* every LSN acknowledged, by this run or an earlier one

vars == <<mark, acked>>

Exact(m, S) == m \in Nat /\ 1..m \subseteq S /\ m + 1 \notin S

Init ==
  /\ mark \in Nat
  /\ acked = 1..mark

(***************************************************************************)
(* The LSNs first..last are acknowledged, none of them for a second time.  *)
(***************************************************************************)
Acknowledge ==
  \E first, last \in 1..MaxLSN :
    /\ first <= last
    /\ (first..last) \cap acked = {}
    /\ acked' = acked \cup (first..last)
    /\ Exact(mark', acked')

(***************************************************************************)
(* A restart resumes from a mark that was true at some earlier time.       *)
(***************************************************************************)
Restart ==
  /\ mark' \in 0..mark
  /\ acked' = 1..mark'

Next == Acknowledge \/ Restart

Spec == Init /\ [][Next]_vars
=============================================================================
