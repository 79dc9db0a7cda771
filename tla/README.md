# TLA+ models of concurrencpp

This directory holds TLA+ models of the concurrency core of concurrencpp
(the sources under `src/`), the TLC configurations that check them, and
`PROJECT.json`, which maps every modelled definition to the source lines it
translates and lists runs, mutants, findings and hazards.

## 1. Inventory

### Components, their state and operations

| Component | Source | State | Operations |
|---|---|---|---|
| Task / task_state | `src/source/task.cpp`, `src/include/concurrencpp/task.h` | `task_state::m_status` ∈ {idle, started, interrupted}, the stored coroutine handle; `task::m_state` (pointer or null) | `task_state::set_handle`, `call`, `interrupt`, `await_resume` (throws broken_task when interrupted); `task` move construction, move assignment (interrupts the overwritten state), `operator()` (calls, then nulls), destructor (interrupts) |
| Executor contract | `executors/executor.h`, `derivable_executor.h`, `executor.cpp`, `executors/constants.h` | immutable name; concrete executors own the rest | `enqueue`, `max_concurrency_level`, `shutdown_requested`, `shutdown`, `post`/`submit` (check `shutdown_requested()` first, throw runtime_shutdown, else start a bridge coroutine that enqueues itself) |
| Manual executor | `src/source/executors/manual_executor.cpp` | `m_tasks` (deque of task), `m_abort` (under `m_lock`), `m_atomic_abort`, `m_condition` | `enqueue` (one / span), `loop_impl` (`loop`, `loop_once`, zero-timeout `loop_for`/`loop_once_for`), `loop_until_impl` (timed loops), untimed and timed `wait_for_tasks_impl` (`wait_for_task[s][_for]`), `clear`, `shutdown`, `size`/`empty` |
| Wait service | `src/source/threads/atomic_wait.cpp`, `threads/atomic_wait.h`, `utils/dlist.h`, `utils/math_helper.*` | native: the kernel's futex / WaitOnAddress queue. Fallback (macOS): a table of `atomic_wait_bucket`s, each a mutex and an intrusive doubly-linked list of `waiting_node`s (address, private condition variable, `m_notified`) | `atomic_wait`, `atomic_wait_for`, `atomic_notify_one`, `atomic_notify_all`; bucket `wait`, `wait_for`, `notify_one`, `notify_all`; `calc_table_size`, `index_for`; `dlist::push_front`, `remove_node`, `for_each`; `math_helper::is_prime`, `next_prime` |
| Result state machine | `results/shared_result.h`, `results/lazy_result.h` (wrappers); the state classes (`result_state_base`, `when_any_context`, `shared_result_state`) are not in `src/` | status word {idle, consumer set, producer done}; stored value / exception; the consumer's continuation | `build_result`/`build_exception`, `await`, `wait`, `wait_for`, `get`, `when_any`, `try_rewind_consumer`, `share` |
| Combinators | `src/include/concurrencpp/results/when_result.h` | the collection of results; for any-of a shared `when_any_context` | `when_all` (await each member in turn, then `resume_on`), `when_any` (scan and register, resume inline on a ready member, else suspend; rewind all consumers on resumption), empty-range and null checks |
| Fork-join | `results/fj_result.h`, `src/source/results/fj_result.cpp` | `fj_awaitable_base::m_count` (atomic), `m_caller_handle`, an array of `fork_result`s and of `task_state`s, each branch's `m_parent_awaitable` | `fork_join` overloads, `fj_awaitable::await_suspend` (enqueue n−1 branches, run the last inline), `task_completed` (countdown; the last resumes the caller), `fj_end`, `await_resume` (hand back join results) |
| Timer queue | `timers/timer_queue.h` (declarations only) | timer lists, worker thread, abort flags | `make_timer`, `make_one_shot_timer`, `make_delay_object`, `shutdown` — their bodies are not in `src/` |
| Generator | `results/generator.h` | the coroutine handle | `begin` (resumes once), `end` |
| Error helpers | `utils/throw_helper.*`, `results/constants.h` | none | building exception messages |

### How the components interact

* A **task** is the only thing an executor accepts.  Everything that runs on
  an executor (a `post`/`submit` bridge coroutine, a fork-join branch, a
  continuation resumed through `resume_on`) is a suspended coroutine behind a
  `task_state`, and its handle is moved into the executor's queue.
* The **manual executor** stores handles in `m_tasks`; application threads
  drain it with `loop*`, wait for arrivals with `wait_for_task*`, discard it
  with `clear`, and end it with `shutdown`.  Destroying a handle that was
  never run interrupts its `task_state`, which resumes the coroutine so that
  it observes broken_task instead of hanging.  All of this is shared state
  under one mutex plus one atomic flag, touched by any number of threads.
* **Results** connect a producer coroutine to consumers; a consumer either
  blocks its thread (through the **wait service**) or registers its own
  coroutine as the continuation.  Whichever side arrives second resumes the
  consumer.
* **when_all / when_any** register on many result states; when_any shares a
  `when_any_context` between all of them, so that only the first producer to
  finish resumes the caller, and rewinds the other registrations afterwards.
* **fork_join** enqueues n−1 branch coroutines on an executor (as tasks) and
  runs the last inline; the branches count down an atomic counter and the
  one that reaches zero resumes the caller on its own thread.
* The **wait service** is the one blocking primitive: the result state's
  blocking `wait` parks threads on the status word through it.

### What is hard

* Interleavings of threads around one mutex and one atomic flag in the
  manual executor: an `enqueue` racing `shutdown`, a loop running a task it
  popped while another thread shuts down or clears, a timed wait whose
  timeout races an arrival.
* Condition-variable waits: lost wake-ups (notify before the waiter blocks),
  spurious wake-ups, notify_all versus notify_one.
* Exactly-once resumption: every task is run or interrupted, never both,
  never neither — including handles discarded by `clear` and `shutdown`.
* Races between producers and consumers on a result's status word, and, for
  when_any, between N producers and the caller's scan and rewind.
* The countdown of fork_join, and what happens when `enqueue` throws half-way
  through starting the branches.
* The bucketed wait table: hash collisions, a notification that reaches a
  node whose thread has not yet left the list, a timeout racing a notify.
* Numeric edges: `wait_for_task_for` comparing a count with 1, the Windows
  `DWORD` cast of a millisecond timeout, the prime search's boundaries.

### What makes each component correct

* Task: every task_state is resumed exactly once, by a call or by an
  interruption, and a started state is never interrupted.
* Manual executor: no task is lost or run twice; nothing stays queued after
  shutdown; shutdown wakes every waiter and resolves every queued task; the
  return values of the wait calls say what the documentation says.
* Wait service: a waiter whose value changed and was notified eventually
  returns (no lost wake-up); a notification on one address never releases a
  waiter on another; `notify_one` releases one waiter per call; the bucket
  list stays a well-formed list.
* Result state: exactly one resumption per result, never zero; a consumer
  registering after completion is not suspended.
* when_any: the caller is resumed exactly once; the index it reports is a
  completed member; a member found ready during the scan wins over later
  ones; after resumption no member still holds the caller.
* when_all: the caller resumes only after every member completed.
* Fork-join: the caller is resumed exactly once, only after all n branches
  completed; exactly n−1 enqueues and one inline run; the awaitable outlives
  every branch that refers to it.
* math_helper: `next_prime(n)` is the least prime ≥ n (2 for n ≤ 1), and the
  wait table's size is prime and at least twice the hardware concurrency.

## 2. Plan

Modules, in the order they are (to be) written — the most important shared
state first:

1. `Task` — task_state status and its resumption count; composed by every
   module that moves task handles.  **Done.**
2. `ManualExecutor` (+ `MCManualExecutor`) — the reference executor under
   concurrent producers, loopers, waiters and a shutting-down thread,
   composing `Task`.  **Done.**
3. `AtomicWaitBucket` — the fallback wait table: one bucket's list of
   waiting nodes (as `dlist` pointers), waiters on colliding addresses,
   `wait`, `wait_for` with timeouts, `notify_one`, `notify_all`.  **Done**
   (with `DList`), and refined to the abstract `AtomicWait` contract.
   **Done.**
4. `MathHelper` — `is_prime` / `next_prime` / `calc_table_size` as
   RECURSIVE operators checked against a reference definition of primality.
   **Done.**
5. `ForkJoin` — the countdown, n−1 enqueues and the inline last branch on an
   executor with workers and shutdown; the partial-failure path when
   `enqueue` throws.  **Done.**
6. `ResultState` — the producer/consumer status word (spec-modelled: its
   source is not under `src/`), blocking and continuation consumers, and an
   abstract "exactly one resumption" specification it refines.
7. `WhenResult` (+ `AnyOf`) — the scan, claim and rewind of
   `when_result.h` over several result status words, and the abstract
   any-of race it refines.  **Done** (the status word is modelled inside
   it; a separate `ResultState` with blocking consumers is still to come).
9. `Executor` — the abstract executor contract (who owns a handle, how it
   is resolved), refined by `ManualExecutor`.  **Done.**
8. `NativeWait` — the native `atomic_wait_for` loop and the Windows `DWORD`
   conversion of the remaining time, with the width as a constant.
   **Done.**

Runs per module: one run checking the safety and liveness properties
together over the largest space in which TLC also finishes the liveness
check quickly, and one violation run for each disagreement met while
modelling.

## 3. Modules and runs so far

### `Task`

State: `status[t]` (`task_state::m_status`, plus `"none"` before the state
exists) and `resumes[t]`, a history counter of how often the stored
coroutine handle was resumed.  Actions used by the composing modules:
`Call(t)` (`task_state::call`, reached through `task::operator()`; the
`assert(m_status == idle)` is compiled out of release builds, so the model
takes the step in any status and the properties say it is never needed) and
`Interrupt(t)` (`task_state::interrupt`, reached through `task::~task`:
resumes only an idle state).

### `ManualExecutor`

State: `queue` (`m_tasks`), `abort` (`m_abort`), `atomicAbort`
(`m_atomic_abort`), `blocked` (threads parked on `m_condition` and not yet
woken), and per thread `pc`, `frame` (the method being executed, its
`max_count`/`count` argument and the local `executed`), `held` (handles the
thread owns outside the queue: the task a loop popped, the deque `clear` or
`shutdown` moved out), `ret` (what its last `wait_for_task_for` returned and
the queue length then) and `calls`.

Each region of the code that holds `m_lock` is one action; code after the
unlock (running the popped task, `notify_all`, destroying moved-out handles
one by one) is a separate action, so threads interleave exactly where the
code lets them.  A condition-variable wait adds the thread to `blocked`;
`notify_all` empties `blocked`; a woken thread re-acquires the lock and
re-evaluates the predicate (`LUWake`, `WTWake`, `WTFWake`); a timed wait may
instead time out at any moment (`LUTimeout`, `WTFTimeout`), and the deadline
check at the top of `loop_until_impl` may fire at any iteration.  Spurious
wake-ups (`SpuriousWake`) are allowed.

Each thread makes at most `MaxCalls` calls, chosen from `Calls[th]` (its
role).  `enqueue` takes one or two fresh tasks (the one-task and the span
overload).  `post`/`submit` (`executor.h`, `do_post`/`do_submit`) are
modelled on this executor as two steps: `Post` throws runtime_shutdown if
the relaxed `shutdown_requested()` load sees `m_atomic_abort`, and
`PostEnqueue` is the bridge coroutine enqueuing a task for itself, through
the same locked region as `enqueue` (`EnqueueLocked`).  A shutdown between
the two steps makes that enqueue throw after the check passed; the run
reaches this race, and `ExactlyOnce`, `NoLostTask` and
`NoTaskAfterShutdown` show the fresh coroutine is interrupted once and never
queued.  The check in `do_post` is therefore only a fast path: the
guarantee comes from `enqueue`'s check of `m_abort` under the lock.  Return
values other than `wait_for_task_for`'s are not recorded:
no property is about them.

Fairness: weak fairness on every step a thread takes inside a call
(`Step(th)`).  A thread inside a call keeps executing it — nothing parks it
except `m_condition`, and a parked thread's steps are only enabled once it is
woken (or, for timed waits, because the deadline eventually passes).  No
fairness for starting calls (an application may stop calling) or for
spurious wake-ups.

Properties:

* `ExactlyOnce` — every task_state that left idle was resumed exactly once.
* `NoLostTask` — every idle task is still referred to by a handle, in the
  queue or held by a thread.
* `NoTaskAfterShutdown` — once `m_abort` is set, `m_tasks` stays empty.
* `ShutdownWakesWaiters` — a thread blocked in a wait when shutdown is
  requested eventually leaves the wait.
* `ShutdownResolvesTasks` — after shutdown is requested, every idle task is
  eventually run or interrupted.
* `LoopReportsShutdown` (action property) — a `loop_impl` or
  `loop_until_impl` that broke out of its while loop because it saw
  `m_abort` under the lock throws `runtime_shutdown` rather than returning
  a count: its final relaxed `shutdown_requested()` load
  (`manual_executor.cpp:77`, `:126`) must see `m_atomic_abort`.  It holds
  because `shutdown` sets `m_atomic_abort` (line 226) before it takes the
  lock to set `m_abort` (line 235); a frame field `sawAbort` records why the
  loop broke.
* `WaitForTaskForReportsTask` — `wait_for_task_for` returns false only if no
  task is queued (violated, see findings).

Runs:

| Run | Config | Threads / bounds | Checks |
|---|---|---|---|
| `manual_executor` | `MCManualExecutor.cfg` | producer (enqueue, post), waiter (the three wait calls), waiter2 (wait_for_tasks, loop, loop_until), closer (clear, shutdown); 2 tasks, 1 call each, counts ≤ 2 | the four invariants, `ExecutorContract`, `ShutdownWakesWaiters`, `ShutdownResolvesTasks`, `LoopReportsShutdown`; ~46k states, < 1 min |
| `wait_for_task_for_result` | `MCManualExecutorWaitFor.cfg` | producer, one `wait_for_task_for` caller | `WaitForTaskForReportsTask`, expected violated |

The bounds let every interesting case happen: two tasks make a span enqueue
and a non-trivial FIFO; counts of 2 make `wait_for_tasks(2)` block after a
single enqueue; two threads that can block without a timeout at once are
what distinguishes `notify_all` from `notify_one` at shutdown.  One call
per thread keeps the liveness check fast; an earlier safety-only
configuration with two calls per thread (a `clear` followed by `shutdown`,
two loops; ~840k states) also passed.
Deadlock checking is off for these runs: a manual executor with no producer
left legitimately blocks `wait_for_tasks` forever, and threads that have
made all their calls stop.

Finding: `wait_for_task_for` returns `wait_for_tasks_impl(1, …) == 1`
(`manual_executor.cpp:214`), so with two tasks queued it returns false — the
counterexample is a span enqueue of two tasks followed by the call.

Refinement: `ManualExecutor` instantiates the abstract module `Executor`
with `queued` ← the tasks in `m_tasks`, `taken` ← the handle a loop popped
and has not called yet, `doomed` ← the handles `clear` or `shutdown` moved
out and has not destroyed yet, `closed` ← `m_abort`; `status` and `resumes`
map to themselves.  The run `manual_executor` also checks
`ExecutorContract == E!ESpec` as a property.

### `Executor`

The contract of `executor::enqueue` / `shutdown` (`executor.h`) as far as
task handles go, over sets rather than a FIFO: `Accept` (enqueue while
open), `Reject` (enqueue after shutdown: the handles are destroyed while
the error unwinds and interrupt their states), `Take` and `Run` (a handle
leaves the queue and is called once), `Drop` (clear), `Close` (shutdown:
closes and dooms everything queued) and `Discard` (a doomed handle is
destroyed, interrupting its state).  It has no run of its own; it is the
property `ExecutorContract` of `manual_executor`.

### `DList` and `AtomicWaitBucket`

`DList` is `details::dlist` (`dlist.h`): a list value is a record
`[head, next, prev]` whose `next`/`prev` are pointer functions over the
nodes, `Nil` a model value.  `PushFront` and `RemoveNode` (as its two
halves `UnlinkPrev`, `UnlinkNext`) translate the code; `Walk` follows
`next` from the head as `for_each` does (bounded, so a corrupted cyclic
list is still finite); `IsListOf(L, S)` says `L` is a well-formed list of
exactly the nodes `S`; `RemoveNodeAsserts` is the `assert` at the top of
`remove_node`.

`AtomicWaitBucket` is one bucket of the fallback wait table
(`atomic_wait.cpp`, the build without a native futex), shared by the
addresses `Addrs` that hash to it.  State: `val` (the atomics), `list`
(`m_nodes`), `notified` (each thread's node's `m_notified`), `pc`, `op`,
`old` (the value the waiter passed), `late` (the `wait_for` deadline has
passed) and `calls`.  Actions: `StartCall` (a waiter reads the atomic and
calls `wait`/`wait_for`; a notifier stores a new value), `Check` (the
unlocked test at the top of the loop), `LockAndPark` (under `m_lock`:
re-check, construct the node, `push_front`, wait on its condition
variable), `Wake` (the condition variable returns, the node is removed and
destroyed), `Expire` (the clock passes a deadline), `NotifyOne`,
`NotifyAll` (under `m_lock`, scanning `m_nodes` and flagging nodes on the
address).  Fairness: weak fairness on every step of a thread inside a
call (its lock regions are short; a flagged node's thread is woken) and on
`Expire` (time passes).

Properties: `ListWellFormed` (the list is always exactly the parked
threads' nodes, well linked), `WaiterReturns` (a parked waiter whose value
changed eventually returns — no lost wake-up; checked alone by the
`notify_one` violation run), `RemoveNodeAssertHolds`, and `WaitContract`:
the bucket implements `AtomicWait`.

`AtomicWait` is what the public templates `atomic_wait`,
`atomic_wait_for`, `atomic_notify_one` and `atomic_notify_all`
(`atomic_wait.h:138-177`) promise, with no bucket, list or lock: a thread
is `idle` or `waiting` with its `wop`, `wold` and `wlate`; `Begin` starts a
call with the value just read as `old`; `Store` changes an atomic;
`Expire` passes a `wait_for` deadline; `Return` ends a call, and only when
the `comp` lambda would say the value is no longer `old` or the deadline
passed.  `ASpec` asks weak fairness of `Return` alone: a caller that may
return does.  The refinement mapping (`AW == INSTANCE AtomicWait WITH ...`
in `AtomicWaitBucket`) maps a thread in `check`, `lock` or `park` to
`waiting`, the waiter operations to `wop`, and `old`, `late`, `val` to
themselves; a notifier's `notify` step is a stuttering step of the
contract.  So `WaitContract` checks both halves at once: no return on a
stale read, whether the unlocked `comp` (`atomic_wait.cpp:132`) or the one
under the lock, and no waiter left parked while its value has changed.

| Run | Config | Bounds | Checks |
|---|---|---|---|
| `wait_bucket` | `MCAtomicWaitBucket.cfg` | waiters w1 (wait, a), w2 (wait/wait_for, a), w3 (wait_for, b); notifiers n1 (notify_all, a), n2 (notify_one, b); 2 stores, 1 call each | `ListWellFormed`, `WaitContract`; ~34k states, < 1 min |
| `wait_bucket_notify_one` | `MCAtomicWaitBucketNotifyOne.cfg` | two waiters and two `notify_one` callers on one address | `WaiterReturns`, expected violated |
| `wait_bucket_remove_assert` | `MCAtomicWaitBucketLone.cfg` | one waiter, one notifier | `RemoveNodeAssertHolds`, expected violated |

Two addresses in one bucket make the list hold nodes of both while the
notify loops filter by address; a notify that flagged a node of the other
address would only make that waiter re-check and park again, which the
wait loop tolerates, so no property states the filter on its own;
`notify_one` is used only on b, whose one waiter is
timed, because with two untimed waiters it loses a wake-up (the finding
below, run on its own); three waiters make the list have a middle node, so
`remove_node` exercises both of its halves.  Deadlock checking is off: the
threads stop after their calls, and a waiter with no notifier left waits.

Findings: `notify_one` (`atomic_wait.cpp:191`) flags the first node on the
address even if it is already flagged, so two `notify_one`s after two
stores can both land on the same waiter while the other stays parked for
ever; and the `assert` in `dlist::remove_node` (`dlist.h:30`) fails when the
node removed is the only node of the list (a debug build aborts there).

### `MathHelper`

`is_prime`, `next_prime` (`math_helper.cpp`) and `calc_table_size`
(`atomic_wait.cpp`) as RECURSIVE operators; a counter `n` walks 0..300 and
the invariants compare them with `IsPrimeRef` (no divisor in 2..k-1):
`IsPrimeCorrect` and `NextPrimeLeast` (the result is the least prime
≥ n).  `calc_table_size` (0 → 37, else `next_prime(2 * hc)`) is a direct
use of `next_prime` and has no property of its own.  The mutant that
stops the trial division at `i * i < n` is caught first by
`NextPrimeLeast` (`next_prime(24)` becomes 25).  Run `math_helper`
(`MathHelper.cfg`).

### `ForkJoin`

`co_await fork_join(executor, results...)` (`fj_result.h`,
`fj_result.cpp`) joining `size` results, `size` chosen from the constant
`Sizes` (bounded by `NBranches`), on an executor drained by worker threads and shut down by
a closer.  State: the caller's `fpc` and loop index `next`, `count`
(`m_count`), each branch coroutine's `br`, `alive` (the awaitable
temporary exists), the executor's `queue`/`abort`, the closer's `cpc` and
moved-out handles `held`, the branches' task_states (module `Task`), and the
history counters `runs` and `resumed`.  Actions: `Start`, `EnqueueBranch`
(fj_start, set_handle, enqueue — or, once shut down, the throw whose
unwinding interrupts the fresh task_state), `Unwind` (the exception leaves
the co_await and destroys the awaitable and every branch frame), `RunLast`
(the inline last branch), `WorkerPop` (under the executor lock: stop on
`m_abort`, else pop the front handle into the worker's `popped`),
`WorkerCall` (after the unlock: `task()` calls it, whatever happened
meanwhile), `Shutdown`, `DestroyHandle`, and
`DropJoins` (the resumed caller destroys its join_results).  The caller's
resumption inside `TaskCompleted` is `AwaitResume`: `fj_helper::move_state`
moves each frame out of `m_results` into a `join_result` before the
awaitable temporary is destroyed.  `joined` records that hand-over and
`destroys` counts the destructions of each branch frame (history).
Interrupting a task_state resumes the stored handle, which for fork_join is
the branch coroutine itself, so an interrupted branch runs its body.
Fairness: weak fairness on the caller's steps, on workers and on a closer
that began shutdown.

`FrameDestroyedOnce` says every branch frame is destroyed at most once: by
the awaitable's fork_results when a failed enqueue unwinds the co_await,
or by the join_results after the caller's resumption, never by both.  Its
mutant reads the states with `get_state` instead of `move_state` in
`await_resume`.

| Run | Config | Checks |
|---|---|---|
| `fork_join` | `MCForkJoin.cfg` (0, 1 or 5 results, 2 workers, 1 closer) | `BranchesRunOnce`, `ResumedAfterAll`, `FrameDestroyedOnce`, `CallerContinues` |
| `fork_join_unwind` | `MCForkJoinUnwind.cfg` (3 branches) | `BranchRunsWhileJoined`, expected violated |
| `fork_join_broken_task` | `MCForkJoinBroken.cfg` (3 branches) | `InterruptedBranchBroken`, expected violated |

Findings: if `enqueue` throws in `await_suspend` (`fj_result.h:209`), the
interrupted branch has already run and counted down, and the unwinding
destroys the awaitable and the branch frames while earlier branches are
still queued or already popped by a worker — the closer, or the worker
after its unlock, then runs a destroyed frame that reports to a destroyed
awaitable (use after free).  An interrupted branch runs its body instead of
observing Broken Task (`task.cpp:36`), contrary to the spec's section on
task interruption.  The `std::vector` overload accepts an empty vector (`fj_result.h:286`):
`m_count` starts at 0 and `await_suspend` returns false before the loop,
whose bound `m_results.size() - 1` would otherwise wrap.  The `fork_join`
run includes the empty and the one-result joins, and `CallerContinues`
shows the caller is never left suspended in either; the spec's "invalid
argument for an empty range" applies to any-of, not to fork_join.

### `WhenResult` and `AnyOf`

`WhenResult` is one `when_any` call over the results `Any = 1..NAny` and one
`when_all` call over `All`, each result with its own producer that completes
it at any moment.  Each result's status word (`result_state_base::
m_pc_state`: idle, consumer_set, producer_done) and the `when_any_context`
word `m_status` (`Processing`, `DoneProcessing`, or the index of the
claiming result) are the shared state.  `result_state_base` and
`when_any_context` are not under `src/`; their operations (`Complete`,
`TryResume`, `ResumeAwaiter`, `ProducerResume`, `ResumeCaller`) are
modelled from the spec (sections 4.3, 4.4) and marked so in the map.  The
coroutine side translates `when_result.h`: `AnyCheck` (the scan of
`await_suspend`), `AnyRegister` (registering the context on a result),
`AnyResumeInline`, `AnyFinish` (`finish_processing`), `Rewind`
(`await_resume`'s loop of `try_rewind_consumer`), `AnyResumeOn`, and for
`when_all`, `AllAwait` and `AllResumeOn`.  A load followed by a
compare-exchange on the same word whose outcome the load decides is one
step; every other atomic is a step of its own.

`AnyOf` is what `when_any` promises, with no scan or rewinding: members
complete in any order, one completed member is claimed once and for good,
and the caller returns with that index.  `WhenResult` instantiates it
(`done` ← the results in producer_done, `claimed` ← `m_status` when it holds
an index, `returned` ← the coroutine is past `await_resume`, `result` ← the
index returned) and checks `AnyOfContract == AnyOfSpec!ASpec`.

Properties: `AnyOfContract`; `AnyResumedOnce` (the coroutine is continued
at most once, inline or by one producer); `RewoundAfterResume` (when
`when_any` returns, no result still has its context registered);
`AllAfterAll` (`when_all` resumes only after every result completed);
`AnyCompletes` and `AllCompletes` (once one, resp. all, results completed,
the coroutine returns).  Fairness: weak fairness on each coroutine's steps
and on a producer resuming the consumer it found; none on `Complete`, since
a producer need never finish.

| Run | Config | Bounds | Checks |
|---|---|---|---|
| `when_result` | `MCWhenResult.cfg` | 4 results for `when_any`, 2 for `when_all` | all six properties; ~37k states, < 10 s |

Four members let producers complete before, during and after the scan, on
both sides of the registered index, and during the rewind.

### `NativeWait`

The native service (`atomic_wait.h` 50–101, `atomic_wait.cpp` 13–66): the
`atomic_wait` and `atomic_wait_for` loops over one atomic, on
`WaitOnAddress`/`WakeByAddress*` (Windows) or `FUTEX_WAIT`/`FUTEX_WAKE`
(Linux), chosen by the constant `Platform`.  Time is kept relative: each
`wait_for` caller keeps `left = deadline - now`, and a parked thread keeps
the kernel timeout still to run, so `Tick` (a millisecond passes) keeps the
state finite without a state constraint, which liveness checking forbids.
A `DWORD` is `Width` bits: the Windows path hands the kernel
`KernelTimeout(left) = left % 2^Width`, and the all-ones value `Infinite`
sleeps for ever.  Actions: `StartCall`, `Load` (the loop's compare),
`Clock` (deadline reached or not), `Reload`, `Native` (the kernel compares
the atomic with `old` before parking), `Wake`, `SpuriousWake` (no fairness:
it may or may not happen), `NotifyOne`, `NotifyAll` (a store, then the
wake), `Tick`.  Fairness: weak fairness on each thread's steps and on
`Tick`.

Properties: `WaitForReturns` (every `atomic_wait_for` returns, whatever the
notifiers do), `ChangedWaiterReturns` (a waiter whose atomic changed
returns: no store is lost between its load and its kernel call).

| Run | Config | Bounds | Checks |
|---|---|---|---|
| `native_wait` | `MCNativeWait.cfg` | one waiter (wait / wait_for, timeouts 1 and 3 ms), one notifier (notify_one / notify_all); Windows, 4-bit DWORD, 3 calls each | both properties; ~9.5k states |
| `native_wait_infinite` | `MCNativeWaitInfinite.cfg` | the same with a timeout of 2^4 + 1 ms | `WaitForReturns`, expected violated |

One waiter: with two, `notify_one` may wake the one whose value did not
change and the other sleeps on, which the contract of `notify_one` allows
(the engine's own blocking waits go through the result state).  A 4-bit
`DWORD` makes the wrap reachable in a few steps; the behaviour is the same
at 32 bits.

Finding: `atomic_wait_for_native` casts the remaining milliseconds to
`DWORD` (`atomic_wait.cpp:19`).  A remainder of 2^32−1 ms becomes INFINITE,
and a multiple of 2^32 becomes 0, so the loop spins until the remainder
drops to 2^32−1.  So any `wait_for` of 49.7 days or more blocks until it
is notified instead of returning `timeout`.  TLC: timeout 17 with a 4-bit
`DWORD` sleeps 1 ms, spins at 16 and parks for ever at 15.

## 4. Not modelled

* Timer queue and generator: only declarations are in `src/`; the spec
  treats them as external collaborators.
* Exception messages (`throw_helper`): pure formatting.
* `size()` / `empty()` / `max_concurrency_level()`: read-only.
* The result state's blocking consumers (`wait`, `wait_for`, `get`) and
  `shared_result`/`lazy_result`: their state is in `result_state.h` /
  `shared_result_state.h`, not under `src/`; `src/` holds thin wrappers.
* The promise and result of the `post`/`submit` bridge coroutines (not
  under `src/`); `do_post`/`do_submit` themselves are in `ManualExecutor`.
* The thread-pool, worker-thread, thread and inline executors: not in `src/`.
