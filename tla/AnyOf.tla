-------------------------------- MODULE AnyOf --------------------------------
(***************************************************************************)
(* What when_any promises (spec section 4.4, "Any-of"), with no scan, no   *)
(* registration and no rewinding: members complete in any order; exactly  *)
(* one completed member is claimed, once and for good; the caller returns *)
(* with the claimed index, and only after the claim.                      *)
(***************************************************************************)
CONSTANTS Members,      \* the results given to when_any
          Nil           \* no member claimed yet

VARIABLES done,         \* the members whose producer has completed
          claimed,      \* the member whose completion resumes the caller
          returned,     \* the caller has the winning index
          result        \* the index the caller was given

avars == <<done, claimed, returned, result>>

AInit ==
    /\ done = {}
    /\ claimed = Nil
    /\ returned = FALSE
    /\ result = Nil

\* A producer completes its result.
Complete(r) ==
    /\ r \notin done
    /\ done' = done \cup {r}
    /\ UNCHANGED <<claimed, returned, result>>

\* The one atomic claim, by a member that has completed.
Claim(r) ==
    /\ claimed = Nil
    /\ r \in done
    /\ claimed' = r
    /\ UNCHANGED <<done, returned, result>>

\* The caller is given the claimed index.
Return ==
    /\ claimed # Nil
    /\ ~returned
    /\ returned' = TRUE
    /\ result' = claimed
    /\ UNCHANGED <<done, claimed>>

ANext == (\E r \in Members : Complete(r) \/ Claim(r)) \/ Return

ASpec == AInit /\ [][ANext]_avars

=============================================================================
