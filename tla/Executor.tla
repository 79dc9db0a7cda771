------------------------------ MODULE Executor ------------------------------
(***************************************************************************)
(* The executor contract of src/include/concurrencpp/executors/executor.h  *)
(* as far as the handles it accepts are concerned: who owns each task      *)
(* handle, and how a task_state (module Task) is resolved.                 *)
(*                                                                         *)
(* An accepted handle is queued; a queued handle is either taken to be     *)
(* run (and then is called exactly once) or doomed (by clear or shutdown,  *)
(* and then is interrupted exactly once).  enqueue accepts handles only    *)
(* before shutdown closed the executor, and afterwards rejects them, the   *)
(* rejected handles interrupting their states as the error unwinds.        *)
(* Closing dooms everything still queued.  The order of the queue is not   *)
(* part of this contract.                                                  *)
(***************************************************************************)
EXTENDS FiniteSets

CONSTANT Tasks

VARIABLES status, resumes, queued, taken, doomed, closed

evars == <<status, resumes, queued, taken, doomed, closed>>

T == INSTANCE Task

EInit ==
    /\ T!TaskInit
    /\ queued = {}
    /\ taken = {}
    /\ doomed = {}
    /\ closed = FALSE

\* Fresh handles S are given to enqueue.
Fresh(S) == S # {} /\ \A t \in S : status[t] = "none"

\* enqueue(task) / enqueue(span): accepted while open.
Accept(S) ==
    /\ ~closed
    /\ Fresh(S)
    /\ status' = [t \in Tasks |-> IF t \in S THEN "idle" ELSE status[t]]
    /\ queued' = queued \cup S
    /\ UNCHANGED <<resumes, taken, doomed, closed>>

\* enqueue after shutdown: throws, and the handles interrupt their states.
Reject(S) ==
    /\ closed
    /\ Fresh(S)
    /\ status' = [t \in Tasks |-> IF t \in S THEN "interrupted" ELSE status[t]]
    /\ resumes' = [t \in Tasks |-> IF t \in S THEN 1 ELSE resumes[t]]
    /\ UNCHANGED <<queued, taken, doomed, closed>>

\* A handle leaves the queue to be run.
Take(t) ==
    /\ t \in queued
    /\ queued' = queued \ {t}
    /\ taken' = taken \cup {t}
    /\ UNCHANGED <<status, resumes, doomed, closed>>

\* A taken handle is called.
Run(t) ==
    /\ t \in taken
    /\ T!Call(t)
    /\ taken' = taken \ {t}
    /\ UNCHANGED <<queued, doomed, closed>>

\* clear: everything queued is doomed (only while open).
Drop ==
    /\ ~closed
    /\ doomed' = doomed \cup queued
    /\ queued' = {}
    /\ UNCHANGED <<status, resumes, taken, closed>>

\* shutdown: close, and doom everything queued.
Close ==
    /\ ~closed
    /\ closed' = TRUE
    /\ doomed' = doomed \cup queued
    /\ queued' = {}
    /\ UNCHANGED <<status, resumes, taken>>

\* A doomed handle is destroyed, interrupting its state.
Discard(t) ==
    /\ t \in doomed
    /\ T!Interrupt(t)
    /\ doomed' = doomed \ {t}
    /\ UNCHANGED <<queued, taken, closed>>

ENext ==
    \/ \E S \in SUBSET Tasks : Accept(S) \/ Reject(S)
    \/ \E t \in Tasks : Take(t) \/ Run(t) \/ Discard(t)
    \/ Drop
    \/ Close

ESpec == EInit /\ [][ENext]_evars

=============================================================================
