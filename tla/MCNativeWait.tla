---------------------------- MODULE MCNativeWait ----------------------------
(* Instances of NativeWait: a waiter and a notifier on one atomic.         *)
EXTENDS NativeWait, TLC

CONSTANTS w1, n1

\* w1 calls atomic_wait or atomic_wait_for; n1 stores and notifies one or
\* all.  With one waiter, notify_one wakes the thread whose value changed;
\* with several, it may wake another one, as its contract allows.
MCCalls == (w1 :> {"wait", "wait_for"}
            @@ n1 :> {"store_notify_one", "store_notify_all"})

\* Timeouts below INFINITE, one of them long enough for a kernel timeout
\* to run out and the loop to go round again.
MCTimeouts == {1, 3}

\* A timeout of INFINITE + 2 ms: the remaining time passes through INFINITE.
MCTimeoutsLong == {2^Width + 1}

=============================================================================
