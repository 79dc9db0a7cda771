-------------------------------- MODULE Task --------------------------------
(***************************************************************************)
(* concurrencpp::task_state and concurrencpp::task (src/source/task.cpp).  *)
(*                                                                         *)
(* A task_state stands for one suspended coroutine.  A task is a move-only *)
(* handle to it.  Invoking a non-empty handle calls the state (normal      *)
(* resumption); destroying a non-empty handle interrupts the state, which  *)
(* still resumes the coroutine, but only if it is still idle.  The state   *)
(* of every task_state lives here; where the handles are (an executor's    *)
(* queue, a thread's local) is the business of the module that composes    *)
(* this one.  'resumes' counts how often the stored coroutine handle was   *)
(* resumed: it is history, not program state, and is what the contract    *)
(* "exactly one resumption, never both, never neither" is about.           *)
(***************************************************************************)
EXTENDS Naturals

CONSTANT Tasks          \* identities of task_state objects

VARIABLES status,       \* task_state::m_status, plus "none": not yet constructed
          resumes       \* number of times m_caller_handle() has been executed

\* "none": the task_state has not been constructed yet.
TaskStatus == {"none", "idle", "started", "interrupted"}

TaskTypeOK ==
    /\ status \in [Tasks -> TaskStatus]
    /\ resumes \in [Tasks -> Nat]

TaskInit ==
    /\ status = [t \in Tasks |-> "none"]
    /\ resumes = [t \in Tasks |-> 0]

\* Mutant of Call: the state is marked started but m_caller_handle is not
\* resumed.
CallNoResume(t) ==
    /\ status' = [status EXCEPT ![t] = "started"]
    /\ UNCHANGED resumes

\* task_state::call(), reached through task::operator()().  The assertion
\* m_status == idle is compiled out of a release build, so the step is taken
\* whatever the status; the properties say it must never be needed.
Call(t) ==
    /\ status' = [status EXCEPT ![t] = "started"]
    /\ resumes' = [resumes EXCEPT ![t] = @ + 1]

\* task_state::interrupt(), reached through task::~task() and
\* task::operator=: only an idle state is interrupted and resumed.
Interrupt(t) ==
    IF status[t] = "idle"
    THEN /\ status' = [status EXCEPT ![t] = "interrupted"]
         /\ resumes' = [resumes EXCEPT ![t] = @ + 1]
    ELSE UNCHANGED <<status, resumes>>

=============================================================================
