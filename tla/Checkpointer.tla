---------------------------- MODULE Checkpointer ----------------------------
(***************************************************************************)
(* Buffer.persist and the checkpointer goroutine of flush.go, running      *)
(* beside the deliveries of AckTracker, with crashes and restarts.         *)
(*                                                                         *)
(* persist() reads the low-water mark, writes it to the CHECKPOINT file,   *)
(* deletes the log segments it covers, and only then advances lastCP.      *)
(* Either file operation may fail; the next tick tries again.  The Buffer  *)
(* calls persist() from the checkpointer goroutine, and from Close after   *)
(* that goroutine has ended, so it never runs twice at once.               *)
(*                                                                         *)
(* A crash loses everything but the files.  Open starts a new tracker at   *)
(* the checkpoint, and the flusher re-reads from just above it.            *)
(***************************************************************************)
EXTENDS AckTracker

CONSTANTS MaxFaults,     \* bound: file operations that fail
          MaxCrashes     \* bound: crashes of the process

ASSUME BoundAssumption == MaxFaults \in Nat /\ MaxCrashes \in Nat

VARIABLES checkpoint,    \* contents of the CHECKPOINT file
          deleted,       \* every record at or below this LSN may be gone
          lastCP,        \* Buffer.lastCP
          cpPC,          \* where persist() is
          cpLow,         \* `low' inside persist()
          handled,       \* history: LSNs acknowledged by some run
          faults, crashes

cpVars   == <<checkpoint, deleted, lastCP, cpPC, cpLow>>
envVars  == <<faults, crashes>>
allVars  == <<vars, cpVars, handled, envVars>>

CInit ==
  /\ Init
  /\ checkpoint = 0 /\ deleted = 0 /\ lastCP = 0
  /\ cpPC = "idle" /\ cpLow = 0
  /\ handled = {}
  /\ faults = 0 /\ crashes = 0

-----------------------------------------------------------------------------
(* Deliveries, as in AckTracker; handled remembers what was acknowledged.  *)

CutStep(w) ==
  /\ \E to \in rangeFrom..MaxLSN : \E n \in 0..MaxLSN : Cut(w, to, n)
  /\ UNCHANGED <<cpVars, handled, envVars>>

AckStep(w) ==
  /\ AckAhead(w) \/ AckNext(w)
  /\ handled' = handled \cup LSNs(task[w])
  /\ UNCHANGED <<cpVars, envVars>>

AfterAckStep(w) ==
  /\ Drain(w) \/ Unlock(w) \/ Release(w)
  /\ UNCHANGED <<cpVars, handled, envVars>>

-----------------------------------------------------------------------------
(* persist(): acks.mark() takes the tracker's mutex, so it waits for it. *)

\* Mutants: the mark read without the mutex, or the highest LSN parked in done
\* taken for it; segments deleted before the checkpoint is written.
PersistReadAhead ==
  /\ cpPC = "idle"
  /\ cpLow' = IF DOMAIN done = {} THEN low ELSE done[CHOOSE f \in DOMAIN done : TRUE].last
  /\ cpLow' \notin {0, lastCP}
  /\ cpPC' = "write"
  /\ UNCHANGED <<vars, checkpoint, deleted, lastCP, handled, envVars>>

PersistReadDeletesFirst ==
  /\ cpPC = "idle"
  /\ mu = NoOne
  /\ low \notin {0, lastCP}
  /\ cpLow' = low
  /\ deleted' = low
  /\ cpPC' = "write"
  /\ UNCHANGED <<vars, checkpoint, lastCP, handled, envVars>>

PersistRead ==
  /\ cpPC = "idle"
  /\ mu = NoOne
  /\ low \notin {0, lastCP}
  /\ cpLow' = low
  /\ cpPC' = "write"
  /\ UNCHANGED <<vars, checkpoint, deleted, lastCP, handled, envVars>>

PersistWrite ==
  /\ cpPC = "write"
  /\ checkpoint' = cpLow
  /\ cpPC' = "truncate"
  /\ UNCHANGED <<vars, deleted, lastCP, cpLow, handled, envVars>>

\* WriteCheckpoint fails: before the rename, or after it, in syncing the directory.
PersistWriteFails ==
  /\ cpPC = "write"
  /\ faults < MaxFaults
  /\ faults' = faults + 1
  /\ checkpoint' \in {checkpoint, cpLow}
  /\ cpPC' = "idle"
  /\ UNCHANGED <<vars, deleted, lastCP, cpLow, handled, crashes>>

PersistTruncate ==
  /\ cpPC = "truncate"
  /\ deleted' = cpLow
  /\ lastCP' = cpLow
  /\ cpPC' = "idle"
  /\ UNCHANGED <<vars, checkpoint, cpLow, handled, envVars>>

\* Mutant: lastCP advances although the truncation failed, so no tick retries it.
PersistTruncateFailsQuietly ==
  /\ cpPC = "truncate"
  /\ faults < MaxFaults
  /\ faults' = faults + 1
  /\ deleted' \in deleted..cpLow
  /\ lastCP' = cpLow
  /\ cpPC' = "idle"
  /\ UNCHANGED <<vars, checkpoint, cpLow, handled, crashes>>

\* Truncate stops at the first segment it cannot remove, or fails to sync.
PersistTruncateFails ==
  /\ cpPC = "truncate"
  /\ faults < MaxFaults
  /\ faults' = faults + 1
  /\ deleted' \in deleted..cpLow
  /\ cpPC' = "idle"
  /\ UNCHANGED <<vars, checkpoint, lastCP, cpLow, handled, crashes>>

Persist == PersistRead \/ PersistWrite \/ PersistTruncate

(***************************************************************************)
(* The process dies anywhere and Open starts over from the CHECKPOINT      *)
(* file: newAckTracker(checkpoint), lastCP, and Truncate(checkpoint+1).    *)
(***************************************************************************)
CrashAndOpen ==
  /\ crashes < MaxCrashes
  /\ crashes' = crashes + 1
  /\ low' = checkpoint
  /\ done' = [f \in {} |-> [last |-> 0, count |-> 0]]
  /\ mu' = NoOne
  /\ pc' = [w \in Workers |-> "idle"]
  /\ task' = [w \in Workers |-> NoRange]
  /\ freed' = [w \in Workers |-> 0]
  /\ rangeFrom' = checkpoint + 1
  /\ pendingRecords' = 0
  /\ lastCP' = checkpoint
  /\ deleted' = checkpoint
  /\ cpPC' = "idle"
  /\ UNCHANGED <<checkpoint, cpLow, handled, faults>>

CNext ==
  \/ \E w \in Workers : CutStep(w) \/ AckStep(w) \/ AfterAckStep(w)
  \/ Persist \/ PersistWriteFails \/ PersistTruncateFails
  \/ CrashAndOpen

(***************************************************************************)
(* The flusher keeps reading, deliveries finish, and the ticker keeps      *)
(* calling persist().                                                      *)
(***************************************************************************)
CSpec ==
  /\ CInit /\ [][CNext]_allVars
  /\ WF_allVars(Persist)
  /\ \A w \in Workers : WF_allVars(CutStep(w) \/ AckStep(w) \/ AfterAckStep(w))

-----------------------------------------------------------------------------
\* Types of the checkpointer's variables, beside the tracker's.
CTypeOK ==
  /\ TypeOK
  /\ checkpoint \in 0..MaxLSN
  /\ deleted \in 0..MaxLSN
  /\ lastCP \in 0..MaxLSN
  /\ cpPC \in {"idle", "write", "truncate"}
  /\ cpLow \in 0..MaxLSN
  /\ handled \subseteq 1..MaxLSN
  /\ faults \in 0..MaxFaults /\ crashes \in 0..MaxCrashes

(***************************************************************************)
(* At-least-once across crashes: an LSN the CHECKPOINT file covers, which  *)
(* no later run will read again, has been acknowledged by some run.        *)
(***************************************************************************)
CheckpointCovered == 1..checkpoint \subseteq handled

(***************************************************************************)
(* No segment is deleted before a checkpoint that covers it is in the      *)
(* file, so a crash between the two steps of persist() loses nothing       *)
(* (flush.go:651-655, and the check Open makes at batch.go:212-223).       *)
(***************************************************************************)
DeletedCovered == deleted <= checkpoint

\* The CHECKPOINT file never goes back, across failures and restarts.
CheckpointMonotone == [][checkpoint' >= checkpoint]_checkpoint

(***************************************************************************)
(* A failed truncation is retried rather than skipped (flush.go:669-671):  *)
(* once the log ends, its last segment is deleted in the end.              *)
(***************************************************************************)
TruncationCatchesUp == <>[](deleted = MaxLSN)

(***************************************************************************)
(* Deliveries, persist() and restarts together implement LowWaterMark: a   *)
(* restart resumes at a mark that had been shown in the run that crashed,  *)
(* with nothing above it acknowledged, so that the rest is read again.     *)
(***************************************************************************)
ImplementsRestarts == LWM!Init /\ [][LWM!Next]_(LWM!vars)
=============================================================================
