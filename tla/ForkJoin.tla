------------------------------ MODULE ForkJoin ------------------------------
(***************************************************************************)
(* co_await fork_join(executor, results...) of                             *)
(* src/include/concurrencpp/results/fj_result.h and                        *)
(* src/source/results/fj_result.cpp, on an executor that worker threads    *)
(* drain and that a closing thread may shut down.                          *)
(*                                                                         *)
(* 'size' fork_results (1..size) are joined, size chosen from Sizes; 0 is  *)
(* the empty vector of the std::vector overload, and NBranches bounds the  *)
(* sizes.  Branches 1..size-1 are enqueued as                              *)
(* tasks on the executor through the task_states m_tasks[i] (module Task); *)
(* the last branch is resumed inline by the caller.  A branch body runs to *)
(* its final suspension in one step; at final_suspend it calls fj_end ->   *)
(* task_completed, which decrements m_count and, on reaching zero, resumes *)
(* the caller inline on that thread: the caller then takes await_resume    *)
(* and destroys the awaitable, a temporary of the co_await expression.     *)
(*                                                                         *)
(* The executor is the manual executor at the grain of its lock regions:   *)
(* enqueue throws once shutdown set m_abort; a worker pops a handle under  *)
(* the lock and calls it after the unlock; shutdown moves the queue out    *)
(* and destroys the handles, which interrupts them.  Interrupting a        *)
(* task_state resumes the coroutine it holds, so an interrupted branch    *)
(* runs its body on the interrupting thread.                               *)
(***************************************************************************)
EXTENDS Naturals, Sequences

CONSTANTS NBranches,   \* the largest number of results joined
          Sizes,       \* the numbers of results a co_await may join
          Workers, Closers

VARIABLES
    size,       \* m_results.size() (the N of fj_awaitable<N>)
    fpc,        \* the caller's progress through the co_await
    next,       \* the loop index i + 1 of await_suspend
    count,      \* fj_awaitable_base::m_count
    br,         \* each branch coroutine: created, started, done, destroyed
    runs,       \* how often each branch body ran (history)
    alive,      \* the awaitable (m_count, m_tasks, m_results) exists
    resumed,    \* how often the caller was resumed (history)
    queue,      \* the executor's m_tasks (branch numbers)
    abort,      \* the executor's m_abort
    cpc,        \* each closer's progress through shutdown
    held,       \* the handles a closer moved out of the queue
    status,     \* Task: m_tasks[i].m_status
    resumes,    \* Task: resumptions of m_tasks[i]
    joined,     \* await_resume moved the frames into the join_results
    destroys,   \* how often each branch frame was destroyed (history)
    popped      \* the branch a worker popped and has not yet called (0: none)

vars == <<size, fpc, next, count, br, runs, alive, resumed, queue, abort, cpc, held,
          status, resumes, joined, destroys, popped>>

Branches == 1..NBranches

\* The branches started through a task_state (all but the last).
Enqueued == 1..(NBranches - 1)

T == INSTANCE Task WITH Tasks <- Enqueued

\* The caller's progress through await_suspend; "returned" once it has
\* returned (suspended, or already resumed from within), "skipped" when it
\* declined to suspend.
FPcs == {"init", "enqueue", "inline", "returned", "skipped", "unwind", "threw",
         "dropped"}

\* The awaitable has been constructed from 'size' non-empty results:
\* fj_awaitable_base(n) sets m_count = n.
\* m_tasks[i] holds no coroutine until set_handle ("none" in Task).
Init ==
    /\ T!TaskInit
    /\ size \in Sizes
    /\ fpc = "init"
    /\ next = 1
    /\ count = size
    /\ br = [b \in Branches |-> "created"]
    /\ runs = [b \in Branches |-> 0]
    /\ alive = TRUE
    /\ resumed = 0
    /\ queue = <<>>
    /\ abort = FALSE
    /\ cpc = [c \in Closers |-> "idle"]
    /\ held = [c \in Closers |-> <<>>]
    /\ joined = FALSE
    /\ destroys = [b \in Branches |-> 0]
    /\ popped = [w \in Workers |-> 0]

-----------------------------------------------------------------------------
(* A branch runs                                                           *)

\* Mutant of AwaitResume: the states are read with get_state instead of
\* move_state, so the awaitable's fork_results still own the frames when
\* the awaitable is destroyed.
AwaitResumeCopy ==
    /\ resumed' = resumed + 1
    /\ alive' = FALSE
    /\ joined' = TRUE
    /\ destroys' = [b \in Branches |-> IF b <= size THEN destroys[b] + 1 ELSE destroys[b]]

\* The caller is resumed and takes await_resume: fj_helper::move_state
\* moves every frame out of m_results into a join_result; the awaitable
\* temporary is then destroyed, its fork_results empty.
AwaitResume ==
    /\ resumed' = resumed + 1
    /\ alive' = FALSE
    /\ joined' = TRUE
    /\ UNCHANGED destroys

\* Mutant of TaskCompleted: the caller is resumed when the counter drops
\* to one instead of zero.
TaskCompletedEarly ==
    /\ count' = count - 1
    /\ IF count = 2
       THEN AwaitResume
       ELSE UNCHANGED <<resumed, alive, joined, destroys>>

\* Mutant of TaskCompleted: the last decrement is not recognised.
TaskCompletedNever ==
    /\ count' = count - 1
    /\ UNCHANGED <<resumed, alive, joined, destroys>>

\* fj_end -> task_completed: m_count.fetch_sub(1) == 1 resumes the caller,
\* which takes await_resume and destroys the awaitable.
TaskCompleted ==
    /\ count' = count - 1
    /\ IF count = 1
       THEN AwaitResume
       ELSE UNCHANGED <<resumed, alive, joined, destroys>>

\* Branch b's body runs from its initial suspension to final_suspend.
RunBranch(b) ==
    /\ runs' = [runs EXCEPT ![b] = @ + 1]
    /\ br' = [br EXCEPT ![b] = "done"]
    /\ TaskCompleted

-----------------------------------------------------------------------------
(* The caller: fj_vec_awaitable / fj_awaitable::await_suspend              *)

\* Mutant of Start: the empty vector is not special-cased; await_suspend
\* returns true with nothing started that could resume the caller.
StartSuspendEmpty ==
    /\ fpc = "init"
    /\ fpc' = CASE size = 0 -> "returned"
                 [] size = 1 -> "inline"
                 [] OTHER    -> "enqueue"
    /\ UNCHANGED <<size, alive, next, count, br, runs, resumed, queue, abort,
                   cpc, held, status, resumes, joined, destroys, popped>>

\* m_caller_handle = caller_handle; an empty vector returns false, so the
\* caller is not suspended and continues at once.  With one result (the
\* vector of size one, or fj_awaitable<.., 1>) no task_state is allocated
\* and the loop is skipped: the result is resumed inline.
Start ==
    /\ fpc = "init"
    /\ IF size = 0
       THEN fpc' = "skipped" /\ alive' = FALSE
       ELSE /\ fpc' = IF size = 1 THEN "inline" ELSE "enqueue"
            /\ UNCHANGED alive
    /\ UNCHANGED <<size, next, count, br, runs, resumed, queue, abort, cpc, held,
                   status, resumes, joined, destroys, popped>>

\* One iteration of the loop over the first n - 1 results: fj_start,
\* m_tasks[i].set_handle, then m_executor->enqueue(task(&m_tasks[i])).
\* Under the executor's lock the enqueue appends the handle, or, once the
\* executor is shut down, throws; the temporary task is then destroyed,
\* which interrupts m_tasks[i] and so runs the branch on this thread
\* before the exception leaves await_suspend.
EnqueueBranch ==
    /\ fpc = "enqueue"
    /\ IF ~abort
       THEN /\ br' = [br EXCEPT ![next] = "started"]
            /\ queue' = Append(queue, next)
            /\ status' = [status EXCEPT ![next] = "idle"]
            /\ next' = next + 1
            /\ fpc' = IF next + 1 = size THEN "inline" ELSE "enqueue"
            /\ UNCHANGED <<count, runs, alive, resumed, resumes, joined, destroys>>
       ELSE /\ status' = [status EXCEPT ![next] = "interrupted"]
            /\ resumes' = [resumes EXCEPT ![next] = @ + 1]
            /\ RunBranch(next)
            /\ fpc' = "unwind"
            /\ UNCHANGED <<next, queue>>
    /\ UNCHANGED <<size, abort, cpc, held, popped>>

\* The exception propagates out of the co_await: the awaitable temporary
\* is destroyed, and with it m_tasks and the fork_results in m_results,
\* whose destructors destroy every branch coroutine frame.
Unwind ==
    /\ fpc = "unwind"
    /\ fpc' = "threw"
    /\ alive' = FALSE
    /\ br' = [b \in Branches |-> IF b <= size THEN "destroyed" ELSE br[b]]
    /\ destroys' = [b \in Branches |-> IF b <= size THEN destroys[b] + 1 ELSE destroys[b]]
    /\ UNCHANGED <<size, next, count, runs, resumed, queue, abort, cpc, held,
                   status, resumes, joined, popped>>

\* fj_start on the last result, then last.resume(): the last branch runs
\* on the caller's thread.  If it completes last, the caller is resumed
\* inside this call; otherwise the caller stays suspended.
RunLast ==
    /\ fpc = "inline"
    /\ RunBranch(size)
    /\ fpc' = "returned"
    /\ UNCHANGED <<size, next, queue, abort, cpc, held, status, resumes, popped>>

-----------------------------------------------------------------------------
(* The executor                                                            *)

\* Mutant of WorkerPop: the front handle is moved out but not popped.
WorkerPopNoPop(w) ==
    /\ popped[w] = 0
    /\ queue # <<>>
    /\ ~abort
    /\ popped' = [popped EXCEPT ![w] = Head(queue)]
    /\ UNCHANGED <<size, fpc, next, count, br, runs, alive, resumed, queue, abort,
                   cpc, held, status, resumes, joined, destroys>>

\* A worker's loop, under the lock: stop once m_abort is set or the queue
\* is empty, else move the front handle out and pop it.
WorkerPop(w) ==
    /\ popped[w] = 0
    /\ queue # <<>>
    /\ ~abort
    /\ popped' = [popped EXCEPT ![w] = Head(queue)]
    /\ queue' = Tail(queue)
    /\ UNCHANGED <<size, fpc, next, count, br, runs, alive, resumed, abort,
                   cpc, held, status, resumes, joined, destroys>>

\* After the unlock: task() calls the popped handle, whatever happened to
\* the executor or the awaitable meanwhile.
WorkerCall(w) ==
    /\ popped[w] # 0
    /\ T!Call(popped[w])
    /\ RunBranch(popped[w])
    /\ popped' = [popped EXCEPT ![w] = 0]
    /\ UNCHANGED <<size, fpc, next, queue, abort, cpc, held>>

\* shutdown: under the lock set m_abort and move the queue out.
Shutdown(c) ==
    /\ cpc[c] = "idle"
    /\ cpc' = [cpc EXCEPT ![c] = "destroy"]
    /\ abort' = TRUE
    /\ held' = [held EXCEPT ![c] = queue]
    /\ queue' = <<>>
    /\ UNCHANGED <<size, fpc, next, count, br, runs, alive, resumed, status, resumes,
                   joined, destroys, popped>>

\* After notify_all: the moved-out handles are destroyed in order; each
\* interrupts its task_state, which runs the branch on this thread.
DestroyHandle(c) ==
    /\ cpc[c] = "destroy"
    /\ IF held[c] = <<>>
       THEN /\ cpc' = [cpc EXCEPT ![c] = "done"]
            /\ UNCHANGED <<held, count, br, runs, alive, resumed, status,
                           resumes, joined, destroys>>
       ELSE LET b == Head(held[c]) IN
            /\ held' = [held EXCEPT ![c] = Tail(@)]
            /\ T!Interrupt(b)
            /\ IF status[b] = "idle"
               THEN RunBranch(b)
               ELSE UNCHANGED <<count, br, runs, alive, resumed, joined, destroys>>
            /\ UNCHANGED cpc
    /\ UNCHANGED <<size, fpc, next, queue, abort, popped>>

-----------------------------------------------------------------------------

\* The resumed caller goes on and its join_results are destroyed, each
\* ~fork_result destroying the frame it holds.
DropJoins ==
    /\ fpc = "returned"
    /\ joined
    /\ fpc' = "dropped"
    /\ br' = [b \in Branches |-> IF b <= size THEN "destroyed" ELSE br[b]]
    /\ destroys' = [b \in Branches |-> IF b <= size THEN destroys[b] + 1 ELSE destroys[b]]
    /\ UNCHANGED <<size, next, count, runs, alive, resumed, queue, abort, cpc,
                   held, status, resumes, joined, popped>>

Caller == Start \/ EnqueueBranch \/ Unwind \/ RunLast \/ DropJoins

Next ==
    \/ Caller
    \/ \E w \in Workers : WorkerPop(w) \/ WorkerCall(w)
    \/ \E c \in Closers : Shutdown(c) \/ DestroyHandle(c)

\* The caller's thread runs await_suspend to its end; workers keep looping
\* while tasks are queued; a closer that began shutdown finishes it.
Fairness ==
    /\ WF_vars(Caller)
    /\ \A w \in Workers : WF_vars(WorkerPop(w)) /\ WF_vars(WorkerCall(w))
    /\ \A c \in Closers : WF_vars(DestroyHandle(c))

Spec == Init /\ [][Next]_vars /\ Fairness

-----------------------------------------------------------------------------
(* Properties                                                              *)

\* Every branch body runs at most once, whether a worker calls its task,
\* a shutdown interrupts it, a failed enqueue interrupts it, or the caller
\* resumes it inline.
BranchesRunOnce == \A b \in Branches : runs[b] <= 1

\* The countdown resumes the caller at most once, and only after every
\* branch has completed.
ResumedAfterAll ==
    /\ resumed <= 1
    /\ resumed = 1 => \A b \in 1..size : runs[b] = 1

\* The co_await ends: the caller is resumed, or it never suspended, or
\* the exception of a failed enqueue reached it.
CallerContinues == <>(resumed = 1 \/ fpc \in {"skipped", "threw"})

\* A branch only runs while the awaitable it reports to (m_count,
\* m_caller_handle, its task_state) and its own coroutine frame exist.
BranchRunsWhileJoined ==
    [][\A b \in Branches :
         runs'[b] > runs[b] => alive /\ br[b] # "destroyed"]_vars

\* Every branch coroutine frame is destroyed at most once: by the
\* fork_results of the awaitable when an enqueue failure unwinds the
\* co_await, or by the join_results await_resume moved them into, never
\* by both.
FrameDestroyedOnce == \A b \in Branches : destroys[b] <= 1

\* An enqueued branch whose task is interrupted (destroyed by shutdown
\* before it was called) observes Broken Task at its resume point instead
\* of running its body and producing a value.
InterruptedBranchBroken ==
    \A b \in Enqueued : status[b] = "interrupted" => runs[b] = 0

=============================================================================
