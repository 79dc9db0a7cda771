----------------------------- MODULE AtomicWait -----------------------------
(***************************************************************************)
(* What atomic_wait / atomic_wait_for / atomic_notify_* promise            *)
(* (src/include/concurrencpp/threads/atomic_wait.h), whatever serves them: *)
(* a call blocks while the atomic at its address still holds 'old'; it     *)
(* returns only once the value differs, or, for atomic_wait_for, once its  *)
(* deadline has passed; and a caller that may return eventually does.      *)
(* Notifications are not part of the contract: they are how a service     *)
(* meets its liveness half.  Stores only ever change a value.              *)
(***************************************************************************)
EXTENDS Naturals

CONSTANTS Threads,
          Addrs,
          Addr          \* Addr[th]: the atomic thread th waits on or stores to

VARIABLES val,          \* the atomics
          wstate,       \* "idle" or "waiting" (inside atomic_wait[_for])
          wop,          \* "wait", "wait_for", or "none"
          wold,         \* the 'old' argument of a waiting call
          wlate         \* the deadline of an atomic_wait_for call has passed

avars == <<val, wstate, wop, wold, wlate>>

AInit ==
    /\ val = [a \in Addrs |-> 0]
    /\ wstate = [th \in Threads |-> "idle"]
    /\ wop = [th \in Threads |-> "none"]
    /\ wold = [th \in Threads |-> 0]
    /\ wlate = [th \in Threads |-> FALSE]

\* atomic_wait(atom, old) / atomic_wait_for(atom, old, ms), 'old' being the
\* value the caller read.
Begin(th, m) ==
    /\ wstate[th] = "idle"
    /\ wstate' = [wstate EXCEPT ![th] = "waiting"]
    /\ wop' = [wop EXCEPT ![th] = m]
    /\ wold' = [wold EXCEPT ![th] = val[Addr[th]]]
    /\ UNCHANGED <<val, wlate>>

\* Some thread stores a new value.
Store(a) ==
    /\ val' = [val EXCEPT ![a] = @ + 1]
    /\ UNCHANGED <<wstate, wop, wold, wlate>>

\* The deadline of a waiting atomic_wait_for passes.
Expire(th) ==
    /\ wstate[th] = "waiting"
    /\ wop[th] = "wait_for"
    /\ ~wlate[th]
    /\ wlate' = [wlate EXCEPT ![th] = TRUE]
    /\ UNCHANGED <<val, wstate, wop, wold>>

\* The call returns: the value is no longer 'old', or the deadline passed.
Return(th) ==
    /\ wstate[th] = "waiting"
    /\ val[Addr[th]] # wold[th] \/ (wop[th] = "wait_for" /\ wlate[th])
    /\ wstate' = [wstate EXCEPT ![th] = "idle"]
    /\ wop' = [wop EXCEPT ![th] = "none"]
    /\ wold' = [wold EXCEPT ![th] = 0]
    /\ wlate' = [wlate EXCEPT ![th] = FALSE]
    /\ UNCHANGED val

ANext ==
    \/ \E th \in Threads : \E m \in {"wait", "wait_for"} : Begin(th, m)
    \/ \E a \in Addrs : Store(a)
    \/ \E th \in Threads : Expire(th) \/ Return(th)

\* A caller allowed to return does return.
ASpec == AInit /\ [][ANext]_avars /\ \A th \in Threads : WF_avars(Return(th))

=============================================================================
