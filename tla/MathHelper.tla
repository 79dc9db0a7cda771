----------------------------- MODULE MathHelper -----------------------------
(***************************************************************************)
(* concurrencpp::details::math_helper (src/source/utils/math_helper.cpp)  *)
(* and the size of the fallback wait table, atomic_wait_table::            *)
(* calc_table_size (src/source/threads/atomic_wait.cpp), as operators.     *)
(* The loops become RECURSIVE operators with the loop variable as an       *)
(* argument.  All products stay far below 2^32 for the inputs the library  *)
(* passes (twice the hardware concurrency), so size_t arithmetic is        *)
(* ordinary arithmetic here.                                               *)
(*                                                                         *)
(* The specification enumerates the inputs 0..Bound one per state, so that *)
(* TLC checks the operators against a reference definition of primality   *)
(* at every input.                                                         *)
(***************************************************************************)
EXTENDS Naturals

CONSTANT Bound

VARIABLE n

\* Reference: n has no divisor between 2 and n - 1.
IsPrimeRef(k) == k > 1 /\ \A d \in 2..(k - 1) : k % d # 0

RECURSIVE IsPrimeLoop(_, _)

\* Mutant of IsPrimeLoop: the loop condition is i * i < n.
IsPrimeLoopStrict(k, i) ==
    IF i * i >= k THEN TRUE
    ELSE IF k % i = 0 \/ k % (i + 2) = 0 THEN FALSE
    ELSE IsPrimeLoop(k, i + 6)

\* for (i = 5; i * i <= n; i += 6): n has no divisor i or i + 2.
IsPrimeLoop(k, i) ==
    IF i * i > k THEN TRUE
    ELSE IF k % i = 0 \/ k % (i + 2) = 0 THEN FALSE
    ELSE IsPrimeLoop(k, i + 6)

\* Mutant of is_prime: the first boundary is n < 1.
IsPrimeFromOne(k) ==
    IF k < 1 THEN FALSE
    ELSE IF k <= 3 THEN TRUE
    ELSE IF k % 2 = 0 \/ k % 3 = 0 THEN FALSE
    ELSE IsPrimeLoop(k, 5)

is_prime(k) ==
    IF k <= 1 THEN FALSE
    ELSE IF k <= 3 THEN TRUE
    ELSE IF k % 2 = 0 \/ k % 3 = 0 THEN FALSE
    ELSE IsPrimeLoop(k, 5)

\* while (!is_prime(n)) n++;
RECURSIVE NextPrimeFrom(_)
NextPrimeFrom(k) == IF is_prime(k) THEN k ELSE NextPrimeFrom(k + 1)

\* Mutant of next_prime: the search starts after n.
NextPrimeAfter(k) == IF k <= 1 THEN 2 ELSE NextPrimeFrom(k + 1)

next_prime(k) == IF k <= 1 THEN 2 ELSE NextPrimeFrom(k)

\* hardware_concurrency() = hc; 0 means "not reported".
calc_table_size(hc) == IF hc = 0 THEN 37 ELSE next_prime(hc * 2)

-----------------------------------------------------------------------------
(* The inputs, one per state.                                              *)

Init == n = 0

Next == n < Bound /\ n' = n + 1

Spec == Init /\ [][Next]_n

-----------------------------------------------------------------------------
(* Properties                                                              *)

\* is_prime's 6k +/- 1 trial division agrees with the definition of a
\* prime, including at the boundaries 0..3 and at squares of primes.
IsPrimeCorrect == is_prime(n) = IsPrimeRef(n)

\* next_prime(n) is the least prime that is at least n (2 below 2).
NextPrimeLeast ==
    LET p == next_prime(n) IN
    /\ IsPrimeRef(p)
    /\ p >= n
    /\ \A m \in n..(p - 1) : ~IsPrimeRef(m)

=============================================================================
