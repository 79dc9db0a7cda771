------------------------------ MODULE WhenResult ------------------------------
(***************************************************************************)
(* when_any and when_all (src/include/concurrencpp/results/when_result.h) *)
(* racing the producers of their results.                                  *)
(*                                                                         *)
(* One when_any call awaits the results Any = 1..NAny and one when_all     *)
(* call awaits All = NAny+1..NAny+NAll; each result has its own producer,  *)
(* which completes it at any moment.  Each result has one status word      *)
(* (result_state_base::m_pc_state): idle, consumer_set, producer_done.     *)
(* when_any shares a when_any_context whose status word m_status is        *)
(* k_processing, k_done_processing or the address of the claiming result; *)
(* here Processing, DoneProcessing or the member's index.                  *)
(*                                                                         *)
(* result_state_base and when_any_context are not under src/: their        *)
(* operations (when_any registration, await, try_rewind_consumer,          *)
(* complete_producer, try_resume, resume_inline, finish_processing) are    *)
(* modelled from the spec, section 4.3 and 4.4.  Every atomic read-modify- *)
(* write is one step; a load followed by a compare-exchange on the same    *)
(* word whose outcome the load decides is one step.                        *)
(***************************************************************************)
EXTENDS Integers

CONSTANTS NAny,         \* results given to when_any
          NAll          \* results given to when_all

VARIABLES
    rs,         \* m_pc_state of each result
    ppc,        \* each producer: running, resuming (its consumer), finished
    ctx,        \* when_any_context::m_status
    apc,        \* the when_any coroutine's place
    ai,         \* the scan index i of await_suspend (1-based)
    rj,         \* the index of await_resume's rewind loop
    winner,     \* completed_result_index returned by await_resume
    aresumes,   \* how often the when_any coroutine was continued (history)
    lpc,        \* the when_all coroutine's place
    li          \* the loop index of when_all_impl

vars == <<rs, ppc, ctx, apc, ai, rj, winner, aresumes, lpc, li>>

Any == 1..NAny
All == (NAny + 1)..(NAny + NAll)
Results == Any \cup All

\* The two sentinel values of when_any_context::m_status; any other value
\* is the claiming result.
Processing == -1
DoneProcessing == 0

\* No index yet (std::numeric_limits<size_t>::max()).
NoIndex == 0

\* await_suspend has made the when_any_context (k_processing); when_all_impl
\* starts its loop.  No producer has completed.
Init ==
    /\ rs = [r \in Results |-> "idle"]
    /\ ppc = [r \in Results |-> "running"]
    /\ ctx = Processing
    /\ apc = "check"
    /\ ai = 1
    /\ rj = 1
    /\ winner = NoIndex
    /\ aresumes = 0
    /\ lpc = "await"
    /\ li = NAny + 1

AnyVars == <<ctx, apc, ai, rj, winner, aresumes>>
AllVars == <<lpc, li>>

-----------------------------------------------------------------------------
(* Producers                                                               *)

\* complete_producer: exchange the status word to producer_done; if a
\* consumer was set, go on to resume it.
Complete(r) ==
    /\ ppc[r] = "running"
    /\ rs' = [rs EXCEPT ![r] = "producer_done"]
    /\ ppc' = [ppc EXCEPT ![r] = IF rs[r] = "consumer_set" THEN "resuming" ELSE "finished"]
    /\ UNCHANGED <<AnyVars, AllVars>>

\* coroutine_handle::resume() on the when_any coroutine.  Resuming it
\* while it is not suspended is a second, concurrent continuation.
ResumeCaller ==
    /\ aresumes' = aresumes + 1
    /\ IF apc = "suspended"
       THEN apc' = "rewind" /\ rj' = 1
       ELSE UNCHANGED <<apc, rj>>

\* Mutant of TryResume: the caller is resumed by every claim attempt that
\* finds no winner, suspended or not.
TryResumeAlways(r) ==
    /\ ctx' = IF ctx \in Any THEN ctx ELSE r
    /\ IF ctx \notin Any THEN ResumeCaller ELSE UNCHANGED <<apc, rj, aresumes>>
    /\ UNCHANGED <<ai, winner>>

\* Mutant of TryResume: the claim overwrites an earlier claim.
TryResumeOverwrite(r) ==
    /\ ctx' = r
    /\ IF ctx = DoneProcessing THEN ResumeCaller ELSE UNCHANGED <<apc, rj, aresumes>>
    /\ UNCHANGED <<ai, winner>>

\* when_any_context::try_resume: claim m_status for r unless a result has
\* already claimed it; if the caller had finished processing (suspended),
\* resume it.
TryResume(r) ==
    /\ ctx' = IF ctx \in Any THEN ctx ELSE r
    /\ IF ctx = DoneProcessing THEN ResumeCaller ELSE UNCHANGED <<apc, rj, aresumes>>
    /\ UNCHANGED <<ai, winner>>

\* The awaiting when_all coroutine is resumed inline and goes on with the
\* next result.
ResumeAwaiter(r) ==
    /\ lpc' = "await"
    /\ li' = li + 1

\* The producer resumes the consumer it found.
ProducerResume(r) ==
    /\ ppc[r] = "resuming"
    /\ ppc' = [ppc EXCEPT ![r] = "finished"]
    /\ IF r \in Any
       THEN TryResume(r) /\ UNCHANGED AllVars
       ELSE ResumeAwaiter(r) /\ UNCHANGED AnyVars
    /\ UNCHANGED rs

-----------------------------------------------------------------------------
(* when_any: when_any_awaitable::await_suspend and await_resume            *)

\* await_suspend returns false: the coroutine goes on on this thread.
Continue ==
    /\ aresumes' = aresumes + 1
    /\ apc' = "rewind"
    /\ rj' = 1

\* The loop head: past the last result, finish processing; otherwise stop
\* if any result has finished (any_result_finished), else register.
AnyCheck ==
    /\ apc = "check"
    /\ IF ai > NAny
       THEN apc' = "finish" /\ UNCHANGED <<aresumes, rj>>
       ELSE IF ctx # Processing
            THEN Continue
            ELSE apc' = "register" /\ UNCHANGED <<aresumes, rj>>
    /\ UNCHANGED <<rs, ctx, ai, winner>>

\* state_ref.when_any(m_promise): a finished result is reported as
\* producer_done; otherwise the context is set as its consumer (idle ->
\* consumer_set) and the scan goes on.
AnyRegister ==
    /\ apc = "register"
    /\ IF rs[ai] = "producer_done"
       THEN apc' = "inline" /\ UNCHANGED <<rs, ai>>
       ELSE /\ rs' = [rs EXCEPT ![ai] = "consumer_set"]
            /\ ai' = ai + 1
            /\ apc' = "check"
    /\ UNCHANGED <<ctx, rj, winner, aresumes>>

\* resume_inline: claim k_processing for the finished result (a concurrent
\* claim may have won) and do not suspend.
AnyResumeInline ==
    /\ apc = "inline"
    /\ ctx' = IF ctx = Processing THEN ai ELSE ctx
    /\ Continue
    /\ UNCHANGED <<rs, ai, winner>>

\* Mutant of AnyFinish: the coroutine suspends whatever the exchange found.
AnyFinishIgnoreClaim ==
    /\ apc = "finish"
    /\ ctx' = IF ctx = Processing THEN DoneProcessing ELSE ctx
    /\ apc' = "suspended"
    /\ UNCHANGED <<rs, ai, rj, winner, aresumes>>

\* finish_processing: k_processing -> k_done_processing and suspend; if a
\* result claimed the context meanwhile, do not suspend.
AnyFinish ==
    /\ apc = "finish"
    /\ IF ctx = Processing
       THEN ctx' = DoneProcessing /\ apc' = "suspended" /\ UNCHANGED <<aresumes, rj>>
       ELSE Continue /\ UNCHANGED ctx
    /\ UNCHANGED <<rs, ai, winner>>

\* Mutant of Rewind: await_resume only looks for the index.
RewindNone ==
    /\ apc = "rewind"
    /\ IF rj > NAny
       THEN apc' = "resume_on" /\ winner' = ctx /\ UNCHANGED rj
       ELSE rj' = rj + 1 /\ UNCHANGED <<apc, winner>>
    /\ UNCHANGED <<rs, ctx, ai, aresumes>>

\* await_resume: try_rewind_consumer on every result (a consumer_set
\* status goes back to idle; a result that completed meanwhile keeps
\* producer_done), and return the index of completed_result().
Rewind ==
    /\ apc = "rewind"
    /\ IF rj > NAny
       THEN apc' = "resume_on" /\ winner' = ctx /\ UNCHANGED <<rs, rj>>
       ELSE /\ rs' = [rs EXCEPT ![rj] = IF @ = "consumer_set" THEN "idle" ELSE @]
            /\ rj' = rj + 1
            /\ UNCHANGED <<apc, winner>>
    /\ UNCHANGED <<ctx, ai, aresumes>>

\* when_any_impl: co_await resume_on(resume_executor), co_return.
AnyResumeOn ==
    /\ apc = "resume_on"
    /\ apc' = "done"
    /\ UNCHANGED <<rs, ctx, ai, rj, winner, aresumes>>

AnyStep == AnyCheck \/ AnyRegister \/ AnyResumeInline \/ AnyFinish \/ Rewind \/ AnyResumeOn

-----------------------------------------------------------------------------
(* when_all: when_all_impl and when_all_awaitable                          *)

\* Mutant of AllAwait: the consumer is stored but the status word is not
\* set, so the producer never sees it.
AllAwaitUnpublished ==
    /\ lpc = "await"
    /\ IF li > NAny + NAll
       THEN lpc' = "resume_on" /\ UNCHANGED li
       ELSE IF rs[li] = "producer_done"
            THEN li' = li + 1 /\ UNCHANGED lpc
            ELSE lpc' = "suspended" /\ UNCHANGED li
    /\ UNCHANGED rs

\* Mutant of AllAwait: an idle result is taken as ready.
AllAwaitSkipIdle ==
    /\ lpc = "await"
    /\ IF li > NAny + NAll
       THEN lpc' = "resume_on" /\ UNCHANGED li
       ELSE li' = li + 1 /\ UNCHANGED lpc
    /\ UNCHANGED rs

\* One iteration of the loop: co_await when_all_awaitable{state}; await
\* returns false for a finished result, else sets the consumer (idle ->
\* consumer_set) and the coroutine suspends.  After the loop, resume_on.
AllAwait ==
    /\ lpc = "await"
    /\ IF li > NAny + NAll
       THEN lpc' = "resume_on" /\ UNCHANGED <<rs, li>>
       ELSE IF rs[li] = "producer_done"
            THEN li' = li + 1 /\ UNCHANGED <<rs, lpc>>
            ELSE /\ rs' = [rs EXCEPT ![li] = "consumer_set"]
                 /\ lpc' = "suspended"
                 /\ UNCHANGED li

\* co_await resume_on(resume_executor), co_return the collection.
AllResumeOn ==
    /\ lpc = "resume_on"
    /\ lpc' = "done"
    /\ UNCHANGED <<rs, li>>

AllStep == (AllAwait \/ AllResumeOn) /\ UNCHANGED <<ppc, AnyVars>>

-----------------------------------------------------------------------------

Next ==
    \/ \E r \in Results : Complete(r) \/ ProducerResume(r)
    \/ AnyStep /\ UNCHANGED <<ppc, AllVars>>
    \/ AllStep

\* A coroutine that runs goes on to its next suspension point, and a
\* producer that found a consumer resumes it.  A producer need never
\* complete.
Fairness ==
    /\ WF_vars(AnyStep /\ UNCHANGED <<ppc, AllVars>>)
    /\ WF_vars(AllStep)
    /\ \A r \in Results : WF_vars(ProducerResume(r))

Spec == Init /\ [][Next]_vars /\ Fairness

-----------------------------------------------------------------------------
(* Properties                                                              *)

\* The abstract race: a member is done once its status word is
\* producer_done, it is claimed once m_status holds it, and the caller has
\* returned once await_resume produced the index.
AnyOfSpec == INSTANCE AnyOf WITH Members <- Any, Nil <- NoIndex,
                 done <- {r \in Any : rs[r] = "producer_done"},
                 claimed <- IF ctx \in Any THEN ctx ELSE NoIndex,
                 returned <- apc \in {"resume_on", "done"},
                 result <- winner

\* when_any implements the any-of race: exactly one completed member is
\* claimed, the claim never changes, and await_resume returns its index,
\* whatever the order of the scan, the claims of producers completing
\* during it and finish_processing.
AnyOfContract == AnyOfSpec!ASpec

\* The when_any coroutine is continued at most once: it either does not
\* suspend (await_suspend returns false) or is resumed by one producer's
\* try_resume, never both and never twice.
AnyResumedOnce == aresumes <= 1

\* When when_any returns, no result still has the when_any_context as its
\* consumer: every registration was rewound, so a later co_await on a
\* losing result can register, and no late producer resumes the race.
RewoundAfterResume ==
    apc \in {"resume_on", "done"} => \A r \in Any : rs[r] # "consumer_set"

\* when_all resumes on the resume executor only after every result of the
\* collection has completed.
AllAfterAll ==
    lpc \in {"resume_on", "done"} => \A r \in All : rs[r] = "producer_done"

\* Once any member of when_any has completed, the when_any coroutine
\* eventually returns: no lost wake-up between the scan, the claims and
\* finish_processing.
AnyCompletes == (\E r \in Any : rs[r] = "producer_done") ~> (apc = "done")

\* Once every member of when_all has completed, the when_all coroutine
\* eventually returns.
AllCompletes == (\A r \in All : rs[r] = "producer_done") ~> (lpc = "done")

=============================================================================
