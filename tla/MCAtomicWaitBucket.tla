------------------------- MODULE MCAtomicWaitBucket -------------------------
(* Instances of AtomicWaitBucket: waiters and notifiers on two addresses   *)
(* that collide in one bucket.                                             *)
EXTENDS AtomicWaitBucket, TLC

CONSTANTS w1, w2, w3, n1, n2, a, b

MCAddr == (w1 :> a @@ w2 :> a @@ w3 :> b @@ n1 :> a @@ n2 :> b)

\* Mixed: untimed and timed waiters on a, a timed waiter on the colliding
\* address b; n1 uses notify_all on a, n2 notify_one on b, where the one
\* waiter is timed, so every waiter on a is woken by a notify that wakes
\* all of them.
MCCalls == (w1 :> {"wait"} @@ w2 :> {"wait", "wait_for"} @@ w3 :> {"wait_for"}
               @@ n1 :> {"store_notify_all"} @@ n2 :> {"store_notify_one"})

\* Two untimed waiters and two notify_one notifiers on one address.
MCCallsOne == (w1 :> {"wait"} @@ w2 :> {"wait"}
               @@ n1 :> {"store_notify_one"} @@ n2 :> {"store_notify_one"})
MCAddrOne == (w1 :> a @@ w2 :> a @@ n1 :> a @@ n2 :> a)

\* One untimed waiter and one notifier.
MCCallsLone == (w1 :> {"wait"} @@ n1 :> {"store_notify_all"})
MCAddrLone == (w1 :> a @@ n1 :> a)

=============================================================================
