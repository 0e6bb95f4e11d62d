-------------------------------- MODULE Gate --------------------------------
(***************************************************************************)
(* The broadcast gate of internal_support.go, and the loop around it that  *)
(* Flush (progress), awaitRetry (floors), admit and onDiskFull (space) all *)
(* follow: take the channel, test the condition, wait on the channel.  The *)
(* other side changes the state first and signals second.                  *)
(*                                                                         *)
(* The state is a level that only rises (the low-water mark, the floor,    *)
(* the capacity ever released); waiter w wants it at goal[w].  No timer    *)
(* helps here.                                                             *)
(***************************************************************************)
EXTENDS Integers

CONSTANTS Waiters, Publishers, MaxLevel

ASSUME GateAssumption == MaxLevel \in Nat

VARIABLES level,      \* what is waited for
          ch,         \* Gate.ch: the current channel; an older one is closed
          pub,        \* per publisher: between its change and its signal, or not
          pc, goal, held   \* per waiter: where it is, what it wants, its channel

gvars == <<level, ch, pub, pc, goal, held>>

GInit ==
  /\ level = 0 /\ ch = 0
  /\ pub = [p \in Publishers |-> "idle"]
  /\ pc = [w \in Waiters |-> "take"]
  /\ goal \in [Waiters -> 0..MaxLevel]
  /\ held = [w \in Waiters |-> 0]

\* gate.wait()
take(w) ==
  /\ pc[w] = "take"
  /\ held' = [held EXCEPT ![w] = ch]
  /\ pc' = [pc EXCEPT ![w] = "test"]
  /\ UNCHANGED <<level, ch, pub, goal>>

test(w) ==
  /\ pc[w] = "test"
  /\ pc' = [pc EXCEPT ![w] = IF level >= goal[w] THEN "done" ELSE "wait"]
  /\ UNCHANGED <<level, ch, pub, goal, held>>

\* The select: the channel the waiter holds is closed.
woken(w) ==
  /\ pc[w] = "wait" /\ held[w] # ch
  /\ pc' = [pc EXCEPT ![w] = "take"]
  /\ UNCHANGED <<level, ch, pub, goal, held>>

\* Mutant: nothing is signalled after the change.
changeSilently(p) ==
  /\ pub[p] = "idle" /\ level < MaxLevel
  /\ level' = level + 1
  /\ UNCHANGED <<ch, pub, pc, goal, held>>

\* The change: an ack, a raised floor, a release.
change(p) ==
  /\ pub[p] = "idle" /\ level < MaxLevel
  /\ level' = level + 1
  /\ pub' = [pub EXCEPT ![p] = "changed"]
  /\ UNCHANGED <<ch, pc, goal, held>>

\* gate.signal(): the channel is closed and replaced.
signal(p) ==
  /\ pub[p] = "changed"
  /\ ch' = ch + 1
  /\ pub' = [pub EXCEPT ![p] = "idle"]
  /\ UNCHANGED <<level, pc, goal, held>>

Wait(w)    == take(w) \/ test(w) \/ woken(w)
Publish(p) == change(p) \/ signal(p)

GNext == (\E w \in Waiters : Wait(w)) \/ (\E p \in Publishers : Publish(p))
GSpec == GInit /\ [][GNext]_gvars

-----------------------------------------------------------------------------
\* Types; no waiter holds a channel that does not exist yet.
TypeOK ==
  /\ level \in Nat /\ ch \in Nat
  /\ pub \in [Publishers -> {"idle", "changed"}]
  /\ pc \in [Waiters -> {"take", "test", "wait", "done"}]
  /\ goal \in [Waiters -> 0..MaxLevel]
  /\ held \in [Waiters -> Nat]
  /\ \A w \in Waiters : held[w] <= ch

(***************************************************************************)
(* No wake-up is lost: a waiter asleep on an open channel, its goal        *)
(* reached, has a signal still to come ("a signal between the check and    *)
(* the wait still wakes the waiter", internal_support.go).                 *)
(***************************************************************************)
NoLostWakeup ==
  \A w \in Waiters : pc[w] = "wait" /\ held[w] = ch /\ level >= goal[w] =>
                       \E p \in Publishers : pub[p] = "changed"

=============================================================================
