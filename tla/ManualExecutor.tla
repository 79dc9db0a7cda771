--------------------------- MODULE ManualExecutor ---------------------------
(***************************************************************************)
(* concurrencpp::manual_executor (src/source/executors/manual_executor.cpp)*)
(* driven by several application threads at once.                          *)
(*                                                                         *)
(* The executor keeps a FIFO of task handles (m_tasks) and a flag m_abort, *)
(* both guarded by m_lock, a condition variable m_condition, and a second  *)
(* flag m_atomic_abort read without the lock.  Every region that holds     *)
(* m_lock is one step here; a condition-variable wait is a step that adds  *)
(* the thread to 'blocked' (the wait set) and a later step, taken once it  *)
(* has been notified, a timeout has fired or a spurious wake-up happened,  *)
(* that re-acquires the lock and re-evaluates the predicate.  Work done    *)
(* outside the lock (running a task, destroying handles, notify_all) is a *)
(* step of its own, so other threads can interleave with it.               *)
(*                                                                         *)
(* Each thread makes at most MaxCalls calls; each call is one of the       *)
(* executor's public operations, with arguments from small sets.          *)
(***************************************************************************)
EXTENDS Naturals, Sequences, FiniteSets

CONSTANTS Threads,      \* application threads calling into the executor
          Tasks,        \* task_state identities, each enqueued at most once
          MaxCalls,     \* calls each thread makes
          MaxCount,     \* largest max_count / count argument passed
          Calls         \* Calls[th]: the methods thread th may call

VARIABLES queue,        \* m_tasks: sequence of task handles
          abort,        \* m_abort, written and read under m_lock
          atomicAbort,  \* m_atomic_abort
          blocked,      \* threads waiting on m_condition, not yet woken
          pc,           \* where each thread is inside its current call
          frame,        \* the call's method, argument and local 'executed'
          held,         \* handles a thread owns outside the queue
          ret,          \* what each thread's last wait_for_task_for returned
          calls,        \* number of calls each thread has made
          status,       \* task_state::m_status (module Task)
          resumes       \* resumptions of each task's coroutine (module Task)

vars == <<queue, abort, atomicAbort, blocked, pc, frame, held, ret, calls,
          status, resumes>>

T == INSTANCE Task

Ops == {"none", "enqueue", "post", "loop", "loop_until", "wait_for_tasks",
        "wait_for_tasks_for", "wait_for_task_for", "clear", "shutdown"}

Pcs == {"idle", "post_enqueue", "enq_notify", "loop_iter", "loop_run", "loop_end", "lu_iter",
        "lu_wait", "wt_wait", "wtf_wait", "sd_lock", "sd_notify", "destroy"}

\* The locals of a call of method m with argument n (max_count or count);
\* sawAbort records that a loop left its while loop on m_abort.
Frame(m, n) == [op |-> m, arg |-> n, executed |-> 0, sawAbort |-> FALSE]
NoFrame == Frame("none", 0)

\* The tasks a sequence of handles refers to.
TasksIn(s) == {s[i] : i \in DOMAIN s}

TypeOK ==
    /\ T!TaskTypeOK
    /\ queue \in Seq(Tasks)
    /\ abort \in BOOLEAN
    /\ atomicAbort \in BOOLEAN
    /\ blocked \subseteq Threads
    /\ pc \in [Threads -> Pcs]
    /\ frame \in [Threads -> [op : Ops, arg : 0..MaxCount, executed : 0..MaxCount,
                              sawAbort : BOOLEAN]]
    /\ held \in [Threads -> Seq(Tasks)]
    /\ ret \in [Threads -> [found : BOOLEAN, size : Nat]]
    /\ calls \in [Threads -> 0..MaxCalls]

Init ==
    /\ T!TaskInit
    /\ queue = <<>>
    /\ abort = FALSE
    /\ atomicAbort = FALSE
    /\ blocked = {}
    /\ pc = [th \in Threads |-> "idle"]
    /\ frame = [th \in Threads |-> NoFrame]
    /\ held = [th \in Threads |-> <<>>]
    /\ ret = [th \in Threads |-> [found |-> TRUE, size |-> 0]]
    /\ calls = [th \in Threads |-> 0]

-----------------------------------------------------------------------------
(* Helpers                                                                 *)

\* Thread th, between calls, may call method m.
CanCall(th, m) ==
    /\ pc[th] = "idle"
    /\ calls[th] < MaxCalls
    /\ m \in Calls[th]
    /\ calls' = [calls EXCEPT ![th] = @ + 1]

\* Thread th calls m(n) and the call goes on at p.
Enter(th, m, n, p) ==
    /\ CanCall(th, m)
    /\ frame' = [frame EXCEPT ![th] = Frame(m, n)]
    /\ pc' = [pc EXCEPT ![th] = p]

\* Thread th calls m and the call returns (or throws) within this step.
Immediate(th, m) == CanCall(th, m) /\ UNCHANGED <<pc, frame>>

\* Thread th's call returns or throws.
Return(th) ==
    /\ pc' = [pc EXCEPT ![th] = "idle"]
    /\ frame' = [frame EXCEPT ![th] = NoFrame]

Goto(th, p) == pc' = [pc EXCEPT ![th] = p] /\ UNCHANGED frame

\* The while loop breaks; 'stopped' is whether it broke on m_abort.
BreakLoop(th, stopped) ==
    /\ pc' = [pc EXCEPT ![th] = "loop_end"]
    /\ frame' = [frame EXCEPT ![th].sawAbort = stopped]

\* Block on m_condition (the wait releases m_lock atomically).
Block(th) == blocked' = blocked \cup {th}

-----------------------------------------------------------------------------
(* enqueue(task) and enqueue(std::span<task>)                              *)

\* Mutant of Enqueue: the m_abort check is missing.
EnqueueUnchecked(th, ts) ==
    /\ \A t \in TasksIn(ts) : status[t] = "none"
    /\ Enter(th, "enqueue", 0, "enq_notify")
    /\ status' = [t \in Tasks |-> IF t \in TasksIn(ts) THEN "idle" ELSE status[t]]
    /\ queue' = queue \o ts
    /\ UNCHANGED <<resumes, abort, atomicAbort, blocked, held, ret>>

\* Mutant of Enqueue: the span overload stores the span as one element
\* instead of inserting the handles it holds.
EnqueueSpanAsOne(th, ts) ==
    /\ \A t \in TasksIn(ts) : status[t] = "none"
    /\ ~abort
    /\ Enter(th, "enqueue", 0, "enq_notify")
    /\ status' = [t \in Tasks |-> IF t \in TasksIn(ts) THEN "idle" ELSE status[t]]
    /\ queue' = IF Len(ts) = 1 THEN queue \o ts ELSE Append(queue, ts)
    /\ UNCHANGED <<resumes, abort, atomicAbort, blocked, held, ret>>

\* The task_states of 'ts' are constructed and their handles passed in.
\* Under m_lock: if m_abort is set, throw; the handles are destroyed while
\* the error unwinds, which interrupts the fresh states.  Otherwise append.
EnqueueLocked(ts) ==
    /\ \A t \in TasksIn(ts) : status[t] = "none"
    /\ IF abort
       THEN /\ status' = [t \in Tasks |-> IF t \in TasksIn(ts) THEN "interrupted" ELSE status[t]]
            /\ resumes' = [t \in Tasks |-> IF t \in TasksIn(ts) THEN 1 ELSE resumes[t]]
            /\ UNCHANGED queue
       ELSE /\ status' = [t \in Tasks |-> IF t \in TasksIn(ts) THEN "idle" ELSE status[t]]
            /\ queue' = queue \o ts
            /\ UNCHANGED resumes

\* enqueue(task) / enqueue(span): the call throws, or goes on to notify.
Enqueue(th, ts) ==
    /\ IF abort THEN Immediate(th, "enqueue") ELSE Enter(th, "enqueue", 0, "enq_notify")
    /\ EnqueueLocked(ts)
    /\ UNCHANGED <<abort, atomicAbort, blocked, held, ret>>

\* executor::post / submit (do_post, do_submit): throw runtime_shutdown if
\* shutdown_requested(), a relaxed load of m_atomic_abort; otherwise start
\* the bridge coroutine.
Post(th) ==
    /\ IF atomicAbort THEN Immediate(th, "post") ELSE Enter(th, "post", 0, "post_enqueue")
    /\ UNCHANGED <<queue, abort, atomicAbort, blocked, held, ret, status, resumes>>

\* The bridge coroutine suspends initially on its executor_tag and enqueues
\* a task for itself.  shutdown may have run since the check, so this
\* enqueue can still throw, interrupting the fresh coroutine.
PostEnqueue(th) ==
    /\ pc[th] = "post_enqueue"
    /\ \E t \in Tasks : EnqueueLocked(<<t>>)
    /\ IF abort THEN Return(th) ELSE Goto(th, "enq_notify")
    /\ UNCHANGED <<abort, atomicAbort, blocked, held, ret, calls>>

\* After unlocking: m_condition.notify_all().
EnqueueNotify(th) ==
    /\ pc[th] = "enq_notify"
    /\ blocked' = {}
    /\ Return(th)
    /\ UNCHANGED <<queue, abort, atomicAbort, held, ret, calls, status, resumes>>

-----------------------------------------------------------------------------
(* loop_impl: loop(n), loop_once(), and the zero-timeout loop_for and      *)
(* loop_once_for.  max_count == 0 returns 0 at once.                       *)

Loop(th, n) ==
    /\ IF n = 0 THEN Immediate(th, "loop") ELSE Enter(th, "loop", n, "loop_iter")
    /\ UNCHANGED <<queue, abort, atomicAbort, blocked, held, ret, status, resumes>>

\* Mutant of TakeFront: the front handle is copied but not popped.
TakeFrontNoPop(th) ==
    /\ held' = [held EXCEPT ![th] = <<Head(queue)>>]
    /\ UNCHANGED queue
    /\ Goto(th, "loop_run")

\* Pop the front handle under m_lock and go run it outside the lock.
TakeFront(th) ==
    /\ held' = [held EXCEPT ![th] = <<Head(queue)>>]
    /\ queue' = Tail(queue)
    /\ Goto(th, "loop_run")

\* One iteration of the while loop up to the unlock.
LoopIter(th) ==
    /\ pc[th] = "loop_iter"
    /\ IF frame[th].executed = frame[th].arg \/ abort \/ queue = <<>>
       THEN /\ BreakLoop(th, frame[th].executed # frame[th].arg /\ abort)
            /\ UNCHANGED <<queue, held>>
       ELSE TakeFront(th)
    /\ UNCHANGED <<abort, atomicAbort, blocked, ret, calls, status, resumes>>

\* task(); ++executed.  The handle is consumed by the call.
LoopRun(th) ==
    /\ pc[th] = "loop_run"
    /\ T!Call(Head(held[th]))
    /\ held' = [held EXCEPT ![th] = <<>>]
    /\ frame' = [frame EXCEPT ![th].executed = @ + 1]
    /\ pc' = [pc EXCEPT ![th] = IF frame[th].op = "loop" THEN "loop_iter" ELSE "lu_iter"]
    /\ UNCHANGED <<queue, abort, atomicAbort, blocked, ret, calls>>

\* After the loop: throw if shutdown_requested(), else return 'executed'.
LoopEnd(th) ==
    /\ pc[th] = "loop_end"
    /\ Return(th)
    /\ UNCHANGED <<queue, abort, atomicAbort, blocked, held, ret, calls, status, resumes>>

-----------------------------------------------------------------------------
(* loop_until_impl: loop_for(n, t) and loop_once_for(t) with t > 0          *)

LoopUntil(th, n) ==
    /\ Enter(th, "loop_until", n, "lu_iter")
    /\ UNCHANGED <<queue, abort, atomicAbort, blocked, held, ret, status, resumes>>

\* The predicate of m_condition.wait_until in loop_until_impl.
TaskOrAbort == queue # <<>> \/ abort

\* After wait_until returned with the predicate's value 'found': stop on
\* m_abort, stop when nothing was found, else pop and run.
LUTake(th, found) ==
    IF abort \/ ~found
    THEN BreakLoop(th, abort) /\ UNCHANGED <<queue, held>>
    ELSE TakeFront(th)

\* Top of the loop: executed == max_count, the deadline having passed, or
\* lock and evaluate the wait predicate (blocking if it is false).
LUIter(th) ==
    /\ pc[th] = "lu_iter"
    /\ \/ /\ BreakLoop(th, FALSE)   \* executed == max_count, or now >= deadline
          /\ UNCHANGED <<queue, held, blocked>>
       \/ /\ frame[th].executed # frame[th].arg
          /\ IF TaskOrAbort
             THEN LUTake(th, TRUE) /\ UNCHANGED blocked
             ELSE Goto(th, "lu_wait") /\ Block(th) /\ UNCHANGED <<queue, held>>
    /\ UNCHANGED <<abort, atomicAbort, ret, calls, status, resumes>>

\* Woken (notified or spuriously): re-acquire m_lock, re-check the predicate.
LUWake(th) ==
    /\ pc[th] = "lu_wait"
    /\ th \notin blocked
    /\ IF TaskOrAbort
       THEN LUTake(th, TRUE) /\ UNCHANGED blocked
       ELSE Block(th) /\ UNCHANGED <<queue, held, pc, frame>>
    /\ UNCHANGED <<abort, atomicAbort, ret, calls, status, resumes>>

\* The deadline passes while waiting: wait_until returns the predicate.
LUTimeout(th) ==
    /\ pc[th] = "lu_wait"
    /\ blocked' = blocked \ {th}
    /\ LUTake(th, TaskOrAbort)
    /\ UNCHANGED <<abort, atomicAbort, ret, calls, status, resumes>>

-----------------------------------------------------------------------------
(* wait_for_task(), wait_for_tasks(count): the untimed wait_for_tasks_impl *)
(* count == 0 only checks shutdown_requested(); otherwise wait under the  *)
(* lock until m_tasks.size() >= count or m_abort, then throw on m_abort.  *)

Enough(c) == Len(queue) >= c \/ abort

WaitForTasks(th, c) ==
    /\ IF c = 0 \/ Enough(c)
       THEN Immediate(th, "wait_for_tasks") /\ UNCHANGED blocked
       ELSE Enter(th, "wait_for_tasks", c, "wt_wait") /\ Block(th)
    /\ UNCHANGED <<queue, abort, atomicAbort, held, ret, status, resumes>>

WTWake(th) ==
    /\ pc[th] = "wt_wait"
    /\ th \notin blocked
    /\ IF Enough(frame[th].arg)
       THEN Return(th) /\ UNCHANGED blocked
       ELSE Block(th) /\ UNCHANGED <<pc, frame>>
    /\ UNCHANGED <<queue, abort, atomicAbort, held, ret, calls, status, resumes>>

-----------------------------------------------------------------------------
(* wait_for_task_for(t), wait_for_tasks_for(count, t): the timed          *)
(* wait_for_tasks_impl, which throws on m_abort and otherwise returns     *)
(* m_tasks.size(); wait_for_task_for returns that size == 1.              *)

\* Record what wait_for_task_for returned, with the queue length then.
Report(th, m) ==
    ret' = IF m = "wait_for_task_for" /\ ~abort
           THEN [ret EXCEPT ![th] = [found |-> Len(queue) = 1, size |-> Len(queue)]]
           ELSE ret

WaitForTasksFor(th, m, c) ==
    /\ IF Enough(c)
       THEN Immediate(th, m) /\ Report(th, m) /\ UNCHANGED blocked
       ELSE Enter(th, m, c, "wtf_wait") /\ Block(th) /\ UNCHANGED ret
    /\ UNCHANGED <<queue, abort, atomicAbort, held, status, resumes>>

WTFWake(th) ==
    /\ pc[th] = "wtf_wait"
    /\ th \notin blocked
    /\ IF Enough(frame[th].arg)
       THEN Return(th) /\ Report(th, frame[th].op) /\ UNCHANGED blocked
       ELSE Block(th) /\ UNCHANGED <<pc, frame, ret>>
    /\ UNCHANGED <<queue, abort, atomicAbort, held, calls, status, resumes>>

WTFTimeout(th) ==
    /\ pc[th] = "wtf_wait"
    /\ blocked' = blocked \ {th}
    /\ Return(th)
    /\ Report(th, frame[th].op)
    /\ UNCHANGED <<queue, abort, atomicAbort, held, calls, status, resumes>>

-----------------------------------------------------------------------------
(* clear() and shutdown()                                                  *)

\* Mutant of Clear: the handles are handed out to be destroyed but m_tasks
\* is left as it was, so they are also still queued.
ClearKeepQueue(th) ==
    /\ IF abort
       THEN Immediate(th, "clear") /\ UNCHANGED <<queue, held>>
       ELSE /\ Enter(th, "clear", 0, "destroy")
            /\ held' = [held EXCEPT ![th] = queue]
            /\ UNCHANGED queue
    /\ UNCHANGED <<abort, atomicAbort, blocked, ret, status, resumes>>

\* Under m_lock: throw if m_abort, else move m_tasks out.  The moved-out
\* handles are destroyed after the unlock ("destroy"), then the count returns.
Clear(th) ==
    /\ IF abort
       THEN Immediate(th, "clear") /\ UNCHANGED <<queue, held>>
       ELSE /\ Enter(th, "clear", 0, "destroy")
            /\ held' = [held EXCEPT ![th] = queue]
            /\ queue' = <<>>
    /\ UNCHANGED <<abort, atomicAbort, blocked, ret, status, resumes>>

\* Mutant of Shutdown: m_atomic_abort is only read, not set, before the
\* lock region (as if it were stored after m_abort, or not at all).
ShutdownNoAtomic(th) ==
    /\ IF atomicAbort
       THEN Immediate(th, "shutdown")
       ELSE Enter(th, "shutdown", 0, "sd_lock")
    /\ UNCHANGED <<queue, abort, atomicAbort, blocked, held, ret, status, resumes>>

\* m_atomic_abort.exchange(true): a second shutdown returns at once.
Shutdown(th) ==
    /\ atomicAbort' = TRUE
    /\ IF atomicAbort
       THEN Immediate(th, "shutdown")
       ELSE Enter(th, "shutdown", 0, "sd_lock")
    /\ UNCHANGED <<queue, abort, blocked, held, ret, status, resumes>>

\* Mutant of ShutdownLock: m_tasks is not moved out.
ShutdownLockKeepQueue(th) ==
    /\ pc[th] = "sd_lock"
    /\ abort' = TRUE
    /\ Goto(th, "sd_notify")
    /\ UNCHANGED <<queue, held, atomicAbort, blocked, ret, calls, status, resumes>>

\* Under m_lock: m_abort = true; tasks = std::move(m_tasks).
ShutdownLock(th) ==
    /\ pc[th] = "sd_lock"
    /\ abort' = TRUE
    /\ held' = [held EXCEPT ![th] = queue]
    /\ queue' = <<>>
    /\ Goto(th, "sd_notify")
    /\ UNCHANGED <<atomicAbort, blocked, ret, calls, status, resumes>>

\* Mutant of ShutdownNotify: notify_one instead of notify_all.
ShutdownNotifyOne(th) ==
    /\ pc[th] = "sd_notify"
    /\ \/ blocked = {} /\ UNCHANGED blocked
       \/ \E w \in blocked : blocked' = blocked \ {w}
    /\ Goto(th, "destroy")
    /\ UNCHANGED <<queue, abort, atomicAbort, held, ret, calls, status, resumes>>

\* m_condition.notify_all() after the unlock.
ShutdownNotify(th) ==
    /\ pc[th] = "sd_notify"
    /\ blocked' = {}
    /\ Goto(th, "destroy")
    /\ UNCHANGED <<queue, abort, atomicAbort, held, ret, calls, status, resumes>>

\* Mutant of Destroy: handles are released without being interrupted.
DestroyNoInterrupt(th) ==
    /\ pc[th] = "destroy"
    /\ IF held[th] # <<>>
       THEN /\ held' = [held EXCEPT ![th] = Tail(@)]
            /\ UNCHANGED <<pc, frame, status, resumes>>
       ELSE /\ Return(th)
            /\ UNCHANGED <<held, status, resumes>>
    /\ UNCHANGED <<queue, abort, atomicAbort, blocked, ret, calls>>

\* Destroying the moved-out deque, one handle at a time: each destruction
\* interrupts its task_state, which resumes the coroutine on this thread.
Destroy(th) ==
    /\ pc[th] = "destroy"
    /\ IF held[th] # <<>>
       THEN /\ T!Interrupt(Head(held[th]))
            /\ held' = [held EXCEPT ![th] = Tail(@)]
            /\ UNCHANGED <<pc, frame>>
       ELSE /\ Return(th)
            /\ UNCHANGED <<held, status, resumes>>
    /\ UNCHANGED <<queue, abort, atomicAbort, blocked, ret, calls>>

\* A condition-variable wait may return without a notification.
SpuriousWake(th) ==
    /\ th \in blocked
    /\ blocked' = blocked \ {th}
    /\ UNCHANGED <<queue, abort, atomicAbort, pc, frame, held, ret, calls,
                   status, resumes>>

-----------------------------------------------------------------------------

\* Arguments: one or two fresh handles per enqueue call, counts up to MaxCount.
Batches == {<<t>> : t \in Tasks} \cup {<<t, u>> \in Tasks \X Tasks : t # u}

\* A thread starts a new call.
StartCall(th) ==
    \/ \E ts \in Batches : Enqueue(th, ts)
    \/ Post(th)
    \/ \E n \in 0..MaxCount : Loop(th, n)
    \/ \E n \in 1..MaxCount : LoopUntil(th, n)
    \/ \E c \in 0..MaxCount : WaitForTasks(th, c)
    \/ \E c \in 0..MaxCount : WaitForTasksFor(th, "wait_for_tasks_for", c)
    \/ WaitForTasksFor(th, "wait_for_task_for", 1)
    \/ Clear(th)
    \/ Shutdown(th)

\* A thread proceeds inside the call it is making.
Step(th) ==
    \/ PostEnqueue(th) \/ EnqueueNotify(th)
    \/ LoopIter(th) \/ LoopRun(th) \/ LoopEnd(th)
    \/ LUIter(th) \/ LUWake(th) \/ LUTimeout(th)
    \/ WTWake(th)
    \/ WTFWake(th) \/ WTFTimeout(th)
    \/ ShutdownLock(th) \/ ShutdownNotify(th) \/ Destroy(th)

Next == \E th \in Threads : StartCall(th) \/ Step(th) \/ SpuriousWake(th)

\* A thread inside a call keeps running it: nothing in the executor parks a
\* thread except m_condition, and a parked thread's Step is only enabled
\* once it is woken.  No fairness for starting calls or spurious wake-ups.
Fairness == \A th \in Threads : WF_vars(Step(th))

Spec == Init /\ [][Next]_vars /\ Fairness

-----------------------------------------------------------------------------
(* Properties                                                              *)

\* Exactly-once resumption (task.cpp): every task_state that has left idle
\* was resumed exactly once, by task::operator() or by the interruption of
\* task::~task(), and one never resumed is still "none" or idle.  Broken by
\* a task popped twice, run by two loop threads, or interrupted after a run.
ExactlyOnce ==
    \A t \in Tasks :
        resumes[t] = IF status[t] \in {"started", "interrupted"} THEN 1 ELSE 0

\* No task is leaked: every idle task_state is still referred to by a handle,
\* in m_tasks or held by a thread (popped by a loop, or moved out by clear
\* or shutdown and not yet destroyed).  A handle dropped without being run
\* or destroyed would leave its coroutine suspended forever.
NoLostTask ==
    \A t \in Tasks :
        status[t] = "idle" =>
            t \in TasksIn(queue) \/ \E th \in Threads : t \in TasksIn(held[th])

\* Once shutdown has set m_abort, m_tasks stays empty: enqueue checks m_abort
\* under the same lock under which shutdown moved the queue out, so no task
\* can be accepted that no one will ever run or interrupt.
NoTaskAfterShutdown == abort => queue = <<>>

\* A thread blocked in wait_for_tasks, wait_for_tasks_for or loop_for when
\* shutdown() is requested eventually returns (with runtime_shutdown) rather
\* than waiting forever: shutdown notifies every waiter after setting m_abort.
ShutdownWakesWaiters ==
    \A th \in Threads :
        (atomicAbort /\ pc[th] \in {"wt_wait", "wtf_wait", "lu_wait"})
            ~> pc[th] \notin {"wt_wait", "wtf_wait", "lu_wait"}

\* After shutdown() is requested, every task that is still idle is
\* eventually resumed: run by a loop that already popped it, or interrupted
\* by the destruction of the queue shutdown moved out.
ShutdownResolvesTasks ==
    \A t \in Tasks : (atomicAbort /\ status[t] = "idle") ~> status[t] # "idle"

\* A loop that left its while loop because it saw m_abort under m_lock
\* throws runtime_shutdown rather than returning a count: its final relaxed
\* shutdown_requested() load sees m_atomic_abort, because shutdown() sets
\* m_atomic_abort before it takes m_lock to set m_abort.
LoopReportsShutdown ==
    [][\A th \in Threads :
         (pc[th] = "loop_end" /\ pc'[th] = "idle" /\ frame[th].sawAbort)
             => atomicAbort]_vars

\* The handles threads hold outside the queue, by the step they are at.
HeldAt(P) == UNION {TasksIn(held[th]) : th \in {x \in Threads : pc[x] \in P}}

\* The abstract executor: the queue is what is queued, a loop's popped
\* handle is taken, the deque that clear or shutdown moved out is doomed,
\* and the executor is closed once shutdown set m_abort under the lock.
E == INSTANCE Executor WITH queued <- TasksIn(queue),
                            taken <- HeldAt({"loop_run"}),
                            doomed <- HeldAt({"sd_notify", "destroy"}),
                            closed <- abort

\* The manual executor implements the executor contract: it accepts
\* handles only before m_abort is set, every handle it pops is called and
\* every handle clear or shutdown moves out is interrupted, each once.
ExecutorContract == E!ESpec

\* wait_for_task_for(t) reports whether a task is available: when it
\* returns false, m_tasks was empty at that moment.
WaitForTaskForReportsTask ==
    \A th \in Threads : ~ret[th].found => ret[th].size = 0

=============================================================================
