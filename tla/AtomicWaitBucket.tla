-------------------------- MODULE AtomicWaitBucket --------------------------
(***************************************************************************)
(* The fallback wait service of src/source/threads/atomic_wait.cpp (the    *)
(* branch compiled where no native futex exists): one atomic_wait_bucket,  *)
(* i.e. a mutex and a dlist of waiting_nodes, shared by every address that *)
(* hashes to it.  Addrs are such colliding addresses.                      *)
(*                                                                         *)
(* Threads call, on their address Addr[th], the operations in Calls[th]:   *)
(*   "wait"      atomic_wait_bucket::wait                                  *)
(*   "wait_for"  atomic_wait_bucket::wait_for                              *)
(*   "store_notify_one" / "store_notify_all"  the caller's pattern: store  *)
(*               a new value into the atomic, then call the bucket's       *)
(*               notify_one / notify_all.                                  *)
(* A waiter passes as 'old' the value it read before calling.              *)
(*                                                                         *)
(* Every region that holds m_lock is one action; a node's condition        *)
(* variable releases the lock while parked.  A thread's waiting_node is    *)
(* the node named by the thread itself (one node per thread at a time).    *)
(***************************************************************************)
EXTENDS Naturals, Sequences, FiniteSets

CONSTANTS Threads, Addrs, Nil, MaxStores, MaxCalls, Calls, Addr

VARIABLES
    val,        \* the atomics' values
    list,       \* m_nodes: [head, next, prev] (module DList)
    notified,   \* waiting_node::m_notified of each thread's node
    pc,         \* where each thread is
    op,         \* the operation each thread is executing
    old,        \* the 'old' argument of each waiter
    late,       \* system_clock::now() >= later, for a wait_for caller
    calls       \* calls made per thread

vars == <<val, list, notified, pc, op, old, late, calls>>

D == INSTANCE DList WITH Nodes <- Threads

Ops == {"wait", "wait_for", "store_notify_one", "store_notify_all"}

Pcs == {"idle", "check", "lock", "park", "notify"}

\* The threads whose node is linked into m_nodes: between push_front and
\* remove_node.
Parked == {th \in Threads : pc[th] = "park"}

\* comp(atom, old, order): the value still equals old.
Unchanged(th) == val[Addr[th]] = old[th]

Init ==
    /\ val = [a \in Addrs |-> 0]
    /\ list = D!EmptyList
    /\ notified = [th \in Threads |-> FALSE]
    /\ pc = [th \in Threads |-> "idle"]
    /\ op = [th \in Threads |-> "none"]
    /\ old = [th \in Threads |-> 0]
    /\ late = [th \in Threads |-> FALSE]
    /\ calls = [th \in Threads |-> 0]

Goto(th, p) == pc' = [pc EXCEPT ![th] = p]

\* Return from the call; its locals (old, the deadline) go out of scope.
Finish(th) ==
    /\ pc' = [pc EXCEPT ![th] = "idle"]
    /\ op' = [op EXCEPT ![th] = "none"]
    /\ old' = [old EXCEPT ![th] = 0]
    /\ late' = [late EXCEPT ![th] = FALSE]

-----------------------------------------------------------------------------
(* Calls                                                                   *)

\* A waiter reads the atomic and calls wait / wait_for with what it read;
\* wait_for computes 'later' = now + ms, which has not passed yet.
StartWait(th, m) ==
    /\ op' = [op EXCEPT ![th] = m]
    /\ old' = [old EXCEPT ![th] = val[Addr[th]]]
    /\ late' = [late EXCEPT ![th] = FALSE]
    /\ Goto(th, "check")
    /\ UNCHANGED <<val, list, notified>>

\* A notifier stores a new value into its atomic.
StoreValue(th, m) ==
    /\ val[Addr[th]] < MaxStores
    /\ val' = [val EXCEPT ![Addr[th]] = @ + 1]
    /\ op' = [op EXCEPT ![th] = m]
    /\ Goto(th, "notify")
    /\ UNCHANGED <<list, notified, old, late>>

StartCall(th) ==
    /\ pc[th] = "idle"
    /\ calls[th] < MaxCalls
    /\ calls' = [calls EXCEPT ![th] = @ + 1]
    /\ \E m \in Calls[th] :
          IF m \in {"wait", "wait_for"} THEN StartWait(th, m) ELSE StoreValue(th, m)

-----------------------------------------------------------------------------
(* wait and wait_for                                                       *)

\* The top of the loop, without the lock: return if the value changed.
\* wait_for then returns (ok or timeout) if its deadline has passed.
\* Mutant of Check: the comparison's result is used the wrong way round.
CheckInverted(th) ==
    /\ pc[th] = "check"
    /\ IF Unchanged(th) \/ (op[th] = "wait_for" /\ late[th])
       THEN Finish(th)
       ELSE Goto(th, "lock") /\ UNCHANGED <<op, old, late>>
    /\ UNCHANGED <<val, list, notified, calls>>

Check(th) ==
    /\ pc[th] = "check"
    /\ IF ~Unchanged(th) \/ (op[th] = "wait_for" /\ late[th])
       THEN Finish(th)
       ELSE Goto(th, "lock") /\ UNCHANGED <<op, old, late>>
    /\ UNCHANGED <<val, list, notified, calls>>

\* Mutant of LockAndPark: the value is not re-checked under the lock.
LockAndParkNoRecheck(th) ==
    /\ pc[th] = "lock"
    /\ list' = D!PushFront(D!FreshNode(list, th), th)
    /\ notified' = [notified EXCEPT ![th] = FALSE]
    /\ Goto(th, "park")
    /\ UNCHANGED <<val, op, old, late, calls>>

\* Under m_lock: re-check the value, then construct a node, push it to
\* the front of m_nodes and wait on its condition variable, which first
\* checks m_notified (false) and then releases the lock.
LockAndPark(th) ==
    /\ pc[th] = "lock"
    /\ IF ~Unchanged(th)
       THEN Finish(th) /\ UNCHANGED <<list, notified>>
       ELSE /\ list' = D!PushFront(D!FreshNode(list, th), th)
            /\ notified' = [notified EXCEPT ![th] = FALSE]
            /\ Goto(th, "park") /\ UNCHANGED <<op, old, late>>
    /\ UNCHANGED <<val, calls>>

\* The condition variable returns with the lock held: for wait once
\* m_notified is set, for wait_until also once the deadline passed.  The
\* node is removed and the lock released at the end of the iteration,
\* where the node object (a local of the loop body) is destroyed: its own
\* links cease to exist, shown as null.
\* (Spurious wake-ups re-check m_notified under the lock and park again,
\* changing nothing.)
Wake(th) ==
    /\ pc[th] = "park"
    /\ notified[th] \/ (op[th] = "wait_for" /\ late[th])
    /\ list' = D!FreshNode(D!RemoveNode(list, th), th)
    /\ Goto(th, "check")
    /\ UNCHANGED <<val, notified, op, old, late, calls>>

\* Time passes a wait_for caller's deadline.
Expire(th) ==
    /\ op[th] = "wait_for"
    /\ ~late[th]
    /\ late' = [late EXCEPT ![th] = TRUE]
    /\ UNCHANGED <<val, list, notified, pc, op, old, calls>>

-----------------------------------------------------------------------------
(* notify_one and notify_all                                              *)

\* The nodes of m_nodes in the order for_each visits them.
Waiting == D!Walk(list)

\* The nodes for_each reaches that wait on address a.
OnAddr(a) == {Waiting[i] : i \in {j \in DOMAIN Waiting : Addr[Waiting[j]] = a}}

\* The first node on address a in list order.
FirstOn(a) == Waiting[CHOOSE i \in DOMAIN Waiting :
                         Addr[Waiting[i]] = a
                         /\ \A j \in 1..(i - 1) : Addr[Waiting[j]] # a]

\* Under m_lock: set m_notified of the first node on the address and stop.
NotifyOne(th) ==
    /\ pc[th] = "notify"
    /\ op[th] = "store_notify_one"
    /\ notified' = IF OnAddr(Addr[th]) = {} THEN notified
                   ELSE [notified EXCEPT ![FirstOn(Addr[th])] = TRUE]
    /\ Finish(th)
    /\ UNCHANGED <<val, list, calls>>

\* Under m_lock: set m_notified of every node on the address.
NotifyAll(th) ==
    /\ pc[th] = "notify"
    /\ op[th] = "store_notify_all"
    /\ notified' = [n \in Threads |-> notified[n] \/ n \in OnAddr(Addr[th])]
    /\ Finish(th)
    /\ UNCHANGED <<val, list, calls>>

-----------------------------------------------------------------------------

Step(th) ==
    \/ Check(th)
    \/ LockAndPark(th)
    \/ Wake(th)
    \/ NotifyOne(th)
    \/ NotifyAll(th)

Next == \E th \in Threads : StartCall(th) \/ Step(th) \/ Expire(th)

\* A thread inside a call keeps running: its lock regions are short and
\* the lock is always released again; a notified node's thread is woken by
\* its condition variable; the clock eventually passes every deadline.
Fairness == \A th \in Threads : WF_vars(Step(th)) /\ WF_vars(Expire(th))

Spec == Init /\ [][Next]_vars /\ Fairness

-----------------------------------------------------------------------------
(* Properties                                                              *)

\* m_nodes, as push_front and remove_node leave it, is a well-formed doubly
\* linked list of exactly the nodes of the threads parked in wait or
\* wait_for, whatever the interleaving of waiters on colliding addresses.
ListWellFormed == D!IsListOf(list, Parked)

\* No lost wake-up: a thread parked in wait or wait_for while its value
\* differs from 'old' eventually returns, when every store is followed by
\* a notify on the same address.
WaiterReturns ==
    \A th \in Threads : (pc[th] = "park" /\ ~Unchanged(th)) ~> (pc[th] = "idle")

\* The wait contract: a caller is waiting from its call until it returns,
\* the notifiers' steps are stores (their notify steps do not show).
AW == INSTANCE AtomicWait WITH
        wstate <- [th \in Threads |->
                     IF pc[th] \in {"check", "lock", "park"} THEN "waiting" ELSE "idle"],
        wop <- [th \in Threads |-> IF op[th] \in {"wait", "wait_for"} THEN op[th] ELSE "none"],
        wold <- old,
        wlate <- late

\* The bucket implements the wait contract: wait and wait_for return only
\* once the atomic no longer holds 'old' or a wait_for deadline passed, and
\* a waiter that may return does, over any interleaving of waiters on
\* colliding addresses with stores and notifies.
WaitContract == AW!ASpec

\* The assertion in dlist::remove_node holds whenever a waiter removes its
\* node after its condition variable returned.
RemoveNodeAssertHolds ==
    [][\A n \in Threads :
         pc[n] = "park" /\ pc'[n] = "check" => D!RemoveNodeAsserts(list, n)]_vars

=============================================================================
