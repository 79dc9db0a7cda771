-------------------------- MODULE MCManualExecutor --------------------------
(* Model-checking instance of ManualExecutor.  Each thread is given a role *)
(* (the methods it calls), so that the producers, consumers, waiters and   *)
(* the thread that shuts the executor down of a typical program all run    *)
(* concurrently within a state space TLC can exhaust.                      *)
EXTENDS ManualExecutor, TLC

CONSTANTS producer, waiter, waiter2, closer

\* Thread roles for the run that checks the safety and liveness properties:
\* a producer, two threads that can block without a timeout (one of them
\* also runs the loop), one that waits with timeouts, and the thread that
\* clears or shuts the executor down.
MCCalls ==
    producer :> {"enqueue", "post"}
    @@ waiter :> {"wait_for_tasks", "wait_for_tasks_for", "wait_for_task_for"}
    @@ waiter2 :> {"wait_for_tasks", "loop", "loop_until"}
    @@ closer :> {"clear", "shutdown"}

\* Thread roles for the run on what wait_for_task_for returns.
MCCallsWaitFor ==
    producer :> {"enqueue"}
    @@ waiter :> {"wait_for_task_for"}
=============================================================================
