------------------------------- MODULE Numbers -------------------------------
(***************************************************************************)
(* The arithmetic of the benchmark's tools: is_prime of                    *)
(* example/gen_numbers/main.c with its count of loop turns, and the        *)
(* positions output_percentile of example/client/main.c reads.             *)
(***************************************************************************)
EXTENDS Integers, FiniteSets

Fault_Tried(n) ==              \* up to n itself, not to its square root
    {i \in 5..(n - 1) : i % 6 = 5}

\* The values i of the loop takes, unless it returns early: those below the
\* whole part of the square root.
Tried(n) == {i \in 5..(n \div 5) : i % 6 = 5 /\ (i + 1) * (i + 1) <= n}

\* The loop returns at i.
Hit(n, i) == n % i = 0 \/ n % (i + 2) = 0

\* Not a number that needs the loop.
Skipped(n) == n <= 3 \/ n % 6 \notin {1, 5}

is_prime(n) ==
    IF n <= 3 THEN n > 1 ELSE ~Skipped(n) /\ \A i \in Tried(n) : ~Hit(n, i)

\* What is_prime adds to *cnt: one for each turn, the returning one included.
calc_cnt(n) ==
    IF Skipped(n) THEN 0
    ELSE LET tried == Tried(n)
         IN  Cardinality({i \in tried : \A j \in tried : j < i => ~Hit(n, j)})

-----------------------------------------------------------------------------
(* output_percentile: line i of parts, of an array with cnt elements.       *)

Fault_Position(i, cnt, parts) == \* multiplies first, and rounds up
    LET pos == (i * cnt + parts - 1) \div parts
    IN  IF pos >= cnt THEN cnt - 1 ELSE pos

Position(i, cnt, parts) ==
    LET pos == i * (cnt \div parts)
    IN  IF pos >= cnt THEN cnt - 1 ELSE pos

-----------------------------------------------------------------------------
(* Reference definitions.                                                   *)

Prime(n) == n > 1 /\ \A d \in 2..(n - 1) : n % d # 0

\* The composite numbers is_prime lets through: the trial stops one short of the
\* root, so the square of a prime p = 6k - 1, and p times its twin p + 2.
Misjudged(n) ==
    \E p \in 2..(n \div 2) :
        /\ p % 6 = 5
        /\ n \in {p * p, p * (p + 2)}
        /\ Prime(p)
        /\ n = p * p \/ Prime(p + 2)

=============================================================================
