------------------------------- MODULE Totals -------------------------------
(***************************************************************************)
(* Sums of counters.  Total(c) is the sum of the natural numbers c[x],     *)
(* taken as the number of units they count, c[x] of them for each x: that  *)
(* makes it a cardinality, about which facts for every finite domain can   *)
(* be proved without recursion.                                            *)
(***************************************************************************)
EXTENDS Integers, FiniteSets

Units(c) == UNION {{x} \X (1..c[x]) : x \in DOMAIN c}
Total(c) == Cardinality(Units(c))

=============================================================================
