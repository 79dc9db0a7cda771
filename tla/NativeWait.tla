------------------------------ MODULE NativeWait ------------------------------
(***************************************************************************)
(* The native wait service (src/include/concurrencpp/threads/atomic_wait.h *)
(* lines 44-102, src/source/threads/atomic_wait.cpp lines 6-67): the       *)
(* atomic_wait and atomic_wait_for loops over one atomic, on top of        *)
(* WaitOnAddress / WakeByAddress (Windows) or FUTEX_WAIT / FUTEX_WAKE      *)
(* (Linux).                                                                *)
(*                                                                         *)
(* Time is counted in milliseconds.  Each waiter keeps the time left to    *)
(* its deadline (deadline - now) and, while parked in the kernel, the time *)
(* left of the kernel's timeout.  A DWORD is Width bits wide; the Windows  *)
(* path converts the remaining milliseconds with static_cast<DWORD>, i.e.  *)
(* modulo 2^Width, and the all-ones DWORD is INFINITE.                     *)
(*                                                                         *)
(* The kernel call compares the atomic with 'old' and returns at once if   *)
(* they differ; otherwise it parks until woken, until its timeout, or      *)
(* spuriously.  Notifiers store a new value, then notify, as callers of    *)
(* atomic_notify_one / atomic_notify_all do.                               *)
(***************************************************************************)
EXTENDS Integers

CONSTANTS Threads,      \* waiting and notifying threads
          Calls,        \* Calls[th]: the operations thread th may call
          Timeouts,     \* the ms arguments passed to atomic_wait_for
          MaxStores,    \* stores into the atomic
          MaxCalls,     \* calls per thread
          Width,        \* bits of a DWORD
          Platform      \* "windows" or "linux"

VARIABLES
    val,        \* the atomic
    pc,         \* where each thread is
    op,         \* the operation it is executing
    old,        \* the 'old' argument of a waiter
    left,       \* deadline - now of a wait_for caller (never below 0)
    sleep,      \* the kernel timeout left while parked, or Infinite
    woken,      \* the kernel has been asked to wake the parked thread
    calls       \* calls made per thread

vars == <<val, pc, op, old, left, sleep, woken, calls>>

\* INFINITE: the largest DWORD.
Infinite == 2^Width - 1

\* The timeout handed to the kernel for 'ms' remaining milliseconds:
\* static_cast<DWORD>(ms.count()) on Windows, ms_to_time_spec on Linux.
KernelTimeout(ms) ==
    IF Platform = "windows" THEN ms % 2^Width ELSE ms

\* The kernel sleeps for ever on INFINITE (Windows only).
Forever(t) == Platform = "windows" /\ t = Infinite

Waiting == {th \in Threads : pc[th] = "parked"}

Init ==
    /\ val = 0
    /\ pc = [th \in Threads |-> "idle"]
    /\ op = [th \in Threads |-> "none"]
    /\ old = [th \in Threads |-> 0]
    /\ left = [th \in Threads |-> 0]
    /\ sleep = [th \in Threads |-> 0]
    /\ woken = [th \in Threads |-> FALSE]
    /\ calls = [th \in Threads |-> 0]

Goto(th, p) == pc' = [pc EXCEPT ![th] = p]

\* The call returns.
Finish(th) ==
    /\ Goto(th, "idle")
    /\ op' = [op EXCEPT ![th] = "none"]
    /\ left' = [left EXCEPT ![th] = 0]

-----------------------------------------------------------------------------
(* Calls                                                                   *)

\* A waiter reads the atomic and calls atomic_wait, or atomic_wait_for(ms),
\* which computes deadline = now + ms; a notifier stores a new value.
StartCall(th) ==
    /\ pc[th] = "idle"
    /\ calls[th] < MaxCalls
    /\ calls' = [calls EXCEPT ![th] = @ + 1]
    /\ \E m \in Calls[th] :
         /\ op' = [op EXCEPT ![th] = m]
         /\ CASE m = "wait" ->
                   /\ old' = [old EXCEPT ![th] = val]
                   /\ Goto(th, "load")
                   /\ UNCHANGED <<val, left>>
              [] m = "wait_for" ->
                   /\ \E ms \in Timeouts : left' = [left EXCEPT ![th] = ms]
                   /\ old' = [old EXCEPT ![th] = val]
                   /\ Goto(th, "load")
                   /\ UNCHANGED val
              [] OTHER ->
                   /\ val < MaxStores
                   /\ val' = val + 1
                   /\ Goto(th, "notify")
                   /\ UNCHANGED <<old, left>>
    /\ UNCHANGED <<sleep, woken>>

-----------------------------------------------------------------------------
(* atomic_wait and atomic_wait_for                                         *)

\* The top of the loop: return if the value changed; atomic_wait goes to
\* the kernel, atomic_wait_for first reads the clock.
Load(th) ==
    /\ pc[th] = "load"
    /\ IF val # old[th]
       THEN Finish(th)
       ELSE /\ Goto(th, IF op[th] = "wait" THEN "native" ELSE "clock")
            /\ UNCHANGED <<op, left>>
    /\ UNCHANGED <<val, old, sleep, woken, calls>>

\* now >= deadline: load once more and return ok or timeout; otherwise wait
\* in the kernel for the remaining time (deadline - now).
Clock(th) ==
    /\ pc[th] = "clock"
    /\ Goto(th, IF left[th] = 0 THEN "reload" ELSE "native")
    /\ UNCHANGED <<val, op, old, left, sleep, woken, calls>>

Reload(th) ==
    /\ pc[th] = "reload"
    /\ Finish(th)
    /\ UNCHANGED <<val, old, sleep, woken, calls>>

\* Mutant of Native: the kernel is handed a value other than 'old', so it
\* parks the thread whatever the atomic holds.
NativeNoCompare(th) ==
    /\ pc[th] = "native"
    /\ Goto(th, "parked")
    /\ sleep' = [sleep EXCEPT ![th] =
                   IF op[th] = "wait" THEN Infinite ELSE KernelTimeout(left[th])]
    /\ woken' = [woken EXCEPT ![th] = FALSE]
    /\ UNCHANGED <<val, op, old, left, calls>>

\* Mutant of Native: atomic_wait_for passes INFINITE instead of the time
\* left.
NativeNoTimeout(th) ==
    /\ pc[th] = "native"
    /\ IF val # old[th]
       THEN Goto(th, "load") /\ UNCHANGED <<sleep, woken>>
       ELSE /\ Goto(th, "parked")
            /\ sleep' = [sleep EXCEPT ![th] = Infinite]
            /\ woken' = [woken EXCEPT ![th] = FALSE]
    /\ UNCHANGED <<val, op, old, left, calls>>

\* atomic_wait_native / atomic_wait_for_native: the kernel returns at once
\* if the atomic no longer holds 'old'; otherwise it parks the thread, with
\* no timeout for atomic_wait.
Native(th) ==
    /\ pc[th] = "native"
    /\ IF val # old[th]
       THEN Goto(th, "load") /\ UNCHANGED <<sleep, woken>>
       ELSE /\ Goto(th, "parked")
            /\ sleep' = [sleep EXCEPT ![th] =
                           IF op[th] = "wait" THEN Infinite ELSE KernelTimeout(left[th])]
            /\ woken' = [woken EXCEPT ![th] = FALSE]
    /\ UNCHANGED <<val, op, old, left, calls>>

\* The kernel call returns: woken, or its timeout ran out.
Wake(th) ==
    /\ pc[th] = "parked"
    /\ woken[th] \/ (sleep[th] = 0 /\ ~Forever(sleep[th]))
    /\ Goto(th, "load")
    /\ UNCHANGED <<val, op, old, left, sleep, woken, calls>>

\* Both kernels may return spuriously.
SpuriousWake(th) ==
    /\ pc[th] = "parked"
    /\ Goto(th, "load")
    /\ UNCHANGED <<val, op, old, left, sleep, woken, calls>>

-----------------------------------------------------------------------------
(* atomic_notify_one and atomic_notify_all                                 *)

\* WakeByAddressSingle / FUTEX_WAKE 1: one parked thread not yet woken.
NotifyOne(th) ==
    /\ pc[th] = "notify"
    /\ op[th] = "store_notify_one"
    /\ IF \E w \in Waiting : ~woken[w]
       THEN \E w \in {x \in Waiting : ~woken[x]} : woken' = [woken EXCEPT ![w] = TRUE]
       ELSE UNCHANGED woken
    /\ Finish(th)
    /\ UNCHANGED <<val, old, sleep, calls>>

\* WakeByAddressAll / FUTEX_WAKE INT_MAX: every parked thread.
NotifyAll(th) ==
    /\ pc[th] = "notify"
    /\ op[th] = "store_notify_all"
    /\ woken' = [w \in Threads |-> woken[w] \/ w \in Waiting]
    /\ Finish(th)
    /\ UNCHANGED <<val, old, sleep, calls>>

\* A millisecond passes: deadlines and finite kernel timeouts come closer.
Tick ==
    /\ \E th \in Threads : left[th] > 0 \/ (pc[th] = "parked" /\ sleep[th] > 0 /\ ~Forever(sleep[th]))
    /\ left' = [th \in Threads |-> IF left[th] > 0 THEN left[th] - 1 ELSE 0]
    /\ sleep' = [th \in Threads |->
                   IF pc[th] = "parked" /\ sleep[th] > 0 /\ ~Forever(sleep[th])
                   THEN sleep[th] - 1 ELSE sleep[th]]
    /\ UNCHANGED <<val, pc, op, old, woken, calls>>

-----------------------------------------------------------------------------

Step(th) ==
    \/ Load(th)
    \/ Clock(th)
    \/ Reload(th)
    \/ Native(th)
    \/ Wake(th)
    \/ NotifyOne(th)
    \/ NotifyAll(th)

Next ==
    \/ \E th \in Threads : StartCall(th) \/ Step(th) \/ SpuriousWake(th)
    \/ Tick

\* A running thread keeps running and a thread the kernel must wake is
\* woken; time passes.  Threads need not make calls; spurious wake-ups need
\* not happen.
Fairness == (\A th \in Threads : WF_vars(Step(th))) /\ WF_vars(Tick)

Spec == Init /\ [][Next]_vars /\ Fairness

-----------------------------------------------------------------------------
(* Properties                                                              *)

\* atomic_wait_for returns: whatever the notifiers do, a call returns (ok
\* or timeout) once its deadline has passed, for every timeout argument.
WaitForReturns ==
    \A th \in Threads : (op[th] = "wait_for") ~> (pc[th] = "idle")

\* No lost wake-up: a waiter in atomic_wait or atomic_wait_for whose atomic
\* no longer holds 'old' returns, however its load, the store, the notify
\* and its kernel call interleave.
ChangedWaiterReturns ==
    \A th \in Threads :
        (op[th] \in {"wait", "wait_for"} /\ val # old[th]) ~> (pc[th] = "idle")

=============================================================================
