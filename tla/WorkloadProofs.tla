--------------------------- MODULE WorkloadProofs ---------------------------
(***************************************************************************)
(* Proofs about the tools of the benchmark, for every range of numbers, in *)
(* three parts: which numbers the trial division of gen_numbers calls      *)
(* prime; what gen_numbers leaves in its two files; how far a line of the  *)
(* client's report may be from the percentile it names.  The last part     *)
(* puts the files and the report together into one inductive invariant.    *)
(***************************************************************************)
EXTENDS Workload, FiniteSetTheorems, SequenceTheorems, TLAPS

-----------------------------------------------------------------------------
(* The trial division.                                                      *)

\* Quotient and remainder of a division, as numbers of their own.
LEMMA DivMod ==
    ASSUME NEW n \in Nat, NEW d \in Nat \ {0}
    PROVE  \E q \in Nat : \E r \in 0..(d - 1) :
              n = d * q + r /\ n % d = r /\ n \div d = q
<1>1. PICK q \in Nat : q = n \div d
  OBVIOUS
<1>2. PICK r \in 0..(d - 1) : r = n % d
  OBVIOUS
<1>3. n % d = n - d * (n \div d)
  OBVIOUS
<1>4. r = n - d * q
  BY <1>1, <1>2, <1>3
<1>5. d * q \in Nat
  OBVIOUS
<1>6. n = d * q + r
  BY <1>4, <1>5
<1> QED BY <1>1, <1>2, <1>6

\* Only zero is made of a multiple of d and a remainder that cancel out.
LEMMA Unique ==
    ASSUME NEW d \in Nat \ {0}, NEW q \in Int, NEW r \in 0..(d - 1), d * q + r = 0
    PROVE  q = 0 /\ r = 0
<1>1. CASE q >= 1
  <2>1. d * q >= d
    BY <1>1
  <2> QED BY <2>1
<1>2. CASE q <= -1
  <2>1. d * q <= -d
    BY <1>2
  <2> QED BY <2>1
<1>3. CASE q = 0
  BY <1>3
<1> QED BY <1>1, <1>2, <1>3

\* A product divided by one of its factors leaves the other and no remainder.
LEMMA Multiple ==
    ASSUME NEW d \in Nat \ {0}, NEW e \in Nat
    PROVE  (d * e) % d = 0 /\ (d * e) \div d = e
<1> PICK n \in Nat : n = d * e
  OBVIOUS
<1>1. PICK q \in Nat, r \in 0..(d - 1) : n = d * q + r /\ n % d = r /\ n \div d = q
  BY DivMod
<1>3. d * q \in Nat /\ d * e \in Nat /\ d * (q - e) = d * q - d * e
  OBVIOUS
<1>4. d * (q - e) + r = 0
  BY <1>1, <1>3
<1>5. r = 0 /\ q - e = 0
  BY <1>4, Unique
<1> QED BY <1>1, <1>5

\* What the remainder operator says of divisibility, with the cofactor named.
LEMMA Divides ==
    ASSUME NEW n \in Nat, NEW d \in Nat \ {0}
    PROVE  n % d = 0 <=> \E e \in Nat : n = d * e
<1>1. ASSUME n % d = 0 PROVE \E e \in Nat : n = d * e
  <2>1. PICK q \in Nat, r \in 0..(d - 1) : n = d * q + r /\ n % d = r
    BY DivMod
  <2>2. n = d * q
    BY <1>1, <2>1
  <2> QED BY <2>2
<1> QED BY <1>1, Multiple

\* The least-number principle, from the well-founded order of finite sets: it is
\* what stands in for induction over the numbers below.
LEMMA LeastNat ==
    ASSUME NEW T, T \subseteq Nat, T # {}
    PROVE  \E x \in T : \A y \in T : x <= y
<1> DEFINE S == {0..x : x \in T}
<1>1. S \subseteq FiniteSubsetsOf(Nat)
  <2>1. ASSUME NEW x \in T PROVE 0..x \in SUBSET Nat /\ IsFiniteSet(0..x)
    BY FS_Interval
  <2> QED BY <2>1 DEF FiniteSubsetsOf
<1>2. S # {}
  OBVIOUS
<1> HIDE DEF S
<1>3. PICK I \in S : \A J \in S : ~ (<<J, I>> \in StrictSubsetOrdering(Nat))
  BY <1>1, <1>2, FS_StrictSubsetOrderingWellFounded, WFMin
<1>4. PICK x \in T : I = 0..x
  BY DEF S
<1>5. ASSUME NEW y \in T, y < x PROVE FALSE
  <2>1. 0..y \in S /\ 0..y \subseteq 0..x /\ 0..y # 0..x
    BY <1>5 DEF S
  <2>2. <<0..y, 0..x>> \in StrictSubsetOrdering(Nat)
    BY <1>1, <1>3, <1>4, <2>1 DEF StrictSubsetOrdering
  <2> QED BY <1>3, <1>4, <2>1, <2>2
<1> QED BY <1>5

\* A factor of a factor is a factor.
LEMMA FactorOfFactor ==
    ASSUME NEW n \in Nat, NEW d \in Nat \ {0}, NEW f \in Nat \ {0},
           n % d = 0, d % f = 0
    PROVE  n % f = 0
<1>1. PICK e \in Nat : n = d * e
  BY Divides
<1>2. PICK g \in Nat : d = f * g
  BY Divides
<1>3. g * e \in Nat /\ n = f * (g * e)
  BY <1>1, <1>2
<1> QED BY <1>3, Multiple

\* A number above 1 has a least factor above 1.
LEMMA LeastFactor ==
    ASSUME NEW n \in Nat, n > 1
    PROVE  \E d \in 2..n : n % d = 0 /\ \A f \in 2..(d - 1) : n % f # 0
<1> DEFINE T == {d \in 2..n : n % d = 0}
<1>1. n % n = 0
  <2>1. n = n * 1
    OBVIOUS
  <2> QED BY <2>1, Multiple
<1>2. n \in T
  BY <1>1
<1>3. PICK d \in T : \A y \in T : d <= y
  <2>1. T \subseteq Nat /\ T # {}
    BY <1>2
  <2> HIDE DEF T
  <2> QED BY <2>1, LeastNat
<1>5. d \in 2..n /\ n % d = 0
  BY <1>3
<1>4. ASSUME NEW f \in 2..(d - 1) PROVE n % f # 0
  <2>1. f \in 2..n
    BY <1>5
  <2>2. f \notin T
    <3> HIDE DEF T
    <3> QED BY <1>3, <1>5
  <2> QED BY <2>1, <2>2
<1> HIDE DEF T
<1> QED BY <1>4, <1>5

\* Euclid's lemma: a prime that divides a product divides one of the factors.
LEMMA Euclid ==
    ASSUME NEW p \in Nat, Prime(p), NEW a \in Nat, NEW b \in Nat, (a * b) % p = 0
    PROVE  a % p = 0 \/ b % p = 0
<1> DEFINE T == {x \in Nat \ {0} : (x * b) % p = 0}
<1>1. p > 1 /\ p \in Nat \ {0}
  BY DEF Prime
<1>2. p \in T /\ (p * b) % p = 0
  BY <1>1, Multiple
<1>3. PICK x \in T : \A y \in T : x <= y
  <2>1. T \subseteq Nat /\ T # {}
    BY <1>2
  <2> HIDE DEF T
  <2> QED BY <2>1, LeastNat
<1>3a. x \in Nat \ {0} /\ (x * b) % p = 0
  BY <1>3
<1>4. ASSUME NEW y \in Nat, (y * b) % p = 0 PROVE y % x = 0
  <2>1. PICK t \in Nat, r \in 0..(x - 1) : y = x * t + r /\ y % x = r
    BY <1>3a, DivMod
  <2>2. PICK u \in Nat : y * b = p * u
    <3>1. y * b \in Nat
      OBVIOUS
    <3> QED BY <1>1, <1>4, <3>1, Divides
  <2>3. PICK v \in Nat : x * b = p * v
    <3>1. x * b \in Nat
      BY <1>3a
    <3> QED BY <1>1, <1>3a, <3>1, Divides
  <2>4. r * b = p * (u - t * v)
    <3>1. y * b = (x * b) * t + r * b
      BY <2>1
    <3>2. r * b = p * u - (p * v) * t
      BY <2>2, <2>3, <3>1
    <3> QED BY <3>2
  <2>5. u - t * v \in Nat
    <3>1. u - t * v \in Int /\ r * b \in Nat
      OBVIOUS
    <3>2. CASE u - t * v < 0
      <4>1. p * (u - t * v) < 0
        BY <1>1, <3>1, <3>2
      <4> QED BY <2>4, <3>1, <4>1
    <3> QED BY <3>1, <3>2
  <2>6. (r * b) % p = 0
    BY <1>1, <2>4, <2>5, Multiple
  <2>7. r \notin T
    BY <1>3
  <2> QED BY <2>1, <2>6, <2>7
<1>5. p % x = 0 /\ x <= p
  <2>1. p % x = 0
    BY <1>2, <1>4
  <2> QED BY <1>2, <1>3, <2>1
<1>6. x = 1 \/ x = p
  <2>1. x \notin 2..(p - 1)
    BY <1>5 DEF Prime
  <2> QED BY <1>1, <1>3a, <1>5, <2>1
<1>7. CASE x = 1
  BY <1>3, <1>7
<1>8. CASE x = p
  BY <1>4, <1>8
<1> QED BY <1>6, <1>7, <1>8

\* The product of two primes has no factor below the smaller one.
LEMMA ProductOfPrimes ==
    ASSUME NEW p \in Nat, NEW q \in Nat, Prime(p), Prime(q), p <= q,
           NEW j \in 2..(p - 1)
    PROVE  (p * q) % j # 0
<1> SUFFICES ASSUME (p * q) % j = 0 PROVE FALSE
  OBVIOUS
<1>1. p \in Nat \ {0} /\ q \in Nat \ {0} /\ j \in Nat \ {0} /\ j < p
  BY DEF Prime
<1>2. PICK k \in Nat : p * q = j * k
  <2>1. p * q \in Nat
    OBVIOUS
  <2> QED BY <1>1, <2>1, Divides
<1>3. j % p = 0 \/ k % p = 0
  <2>1. (j * k) % p = 0
    <3>1. (p * q) % p = 0
      BY <1>1, Multiple
    <3> QED BY <1>2, <3>1
  <2> QED BY <1>1, <2>1, Euclid
<1>4. j % p # 0
  BY <1>1
<1>5. PICK m \in Nat : k = p * m
  BY <1>1, <1>3, <1>4, Divides
<1>6. p * q = p * (j * m)
  BY <1>2, <1>5
<1>7. q = j * m
  <2>1. j * m \in Nat
    OBVIOUS
  <2>2. (p * q) \div p = q /\ (p * (j * m)) \div p = j * m
    BY <1>1, <2>1, Multiple
  <2> QED BY <1>6, <2>2
<1>8. q % j = 0
  BY <1>1, <1>7, Multiple
<1>9. j \in 2..(q - 1)
  OBVIOUS
<1> QED BY <1>8, <1>9 DEF Prime

(* is_prime lets every prime through: the trial never finds a factor of one.  *)
THEOREM PrimesPass == ASSUME NEW n \in Nat, Prime(n) PROVE is_prime(n)
<1>1. CASE n <= 3
  BY <1>1 DEF is_prime, Prime
<1>2. CASE n > 3
  <2>1. n % 2 # 0 /\ n % 3 # 0
    BY <1>2 DEF Prime
  <2>2. ~Skipped(n)
    BY <1>2, <2>1 DEF Skipped
  <2>3. ASSUME NEW i \in Tried(n), Hit(n, i) PROVE FALSE
    <3>1. i \in Nat /\ i >= 5 /\ (i + 1) * (i + 1) <= n
      BY DEF Tried
    <3>2. 6 * (i + 1) <= (i + 1) * (i + 1)
      BY <3>1
    <3>3. i \in 2..(n - 1) /\ i + 2 \in 2..(n - 1)
      BY <3>1, <3>2
    <3> QED BY <2>3, <3>3 DEF Hit, Prime
  <2> QED BY <1>2, <2>2, <2>3 DEF is_prime
<1> QED BY <1>1, <1>2

\* The trial also lets the squares and twin products through: it ends before it
\* gets to their least factor.
LEMMA MisjudgedPass == ASSUME NEW n \in Nat, Misjudged(n) PROVE is_prime(n)
<1>1. PICK p \in 2..(n \div 2) : /\ p % 6 = 5
                                 /\ n \in {p * p, p * (p + 2)}
                                 /\ Prime(p)
                                 /\ n = p * p \/ Prime(p + 2)
  BY DEF Misjudged
<1>2. p \in Nat /\ p >= 5
  BY <1>1
<1>3. PICK q \in {p, p + 2} : n = p * q /\ Prime(q)
  BY <1>1, <1>2
<1>4. n > 3
  <2>1. p * q >= 5 * 5
    BY <1>2, <1>3
  <2> QED BY <1>3, <2>1
<1>5. n % 6 \in {1, 5}
  <2>1. PICK k \in Nat : p = 6 * k + 5
    <3>1. p = 6 * (p \div 6) + 5 /\ p \div 6 \in Nat
      BY <1>1, <1>2
    <3> QED BY <3>1
  <2>2. CASE q = p
    <3>1. n = 6 * (6 * (k * k) + 10 * k + 4) + 1
      BY <1>3, <2>1, <2>2
    <3> PICK m \in Nat : m = 6 * (k * k) + 10 * k + 4
      OBVIOUS
    <3> QED BY <3>1
  <2>3. CASE q = p + 2
    <3>1. n = 6 * (6 * (k * k) + 12 * k + 5) + 5
      BY <1>3, <2>1, <2>3
    <3> PICK m \in Nat : m = 6 * (k * k) + 12 * k + 5
      OBVIOUS
    <3> QED BY <3>1
  <2> QED BY <2>2, <2>3
<1>6. ASSUME NEW i \in Tried(n) PROVE ~Hit(n, i)
  <2>1. i \in Nat /\ i >= 5 /\ i % 6 = 5 /\ (i + 1) * (i + 1) <= n
    BY DEF Tried
  <2>2. i < p
    <3> SUFFICES ASSUME p <= i PROVE FALSE
      BY <1>2, <2>1
    <3>1. (p + 1) * (p + 1) <= (i + 1) * (i + 1)
      BY <1>2, <2>1
    <3>2. (p + 1) * (p + 1) = p * (p + 2) + 1
      BY <1>2
    <3>3. p * q <= p * (p + 2)
      BY <1>2, <1>3
    <3> QED BY <1>2, <1>3, <2>1, <3>1, <3>2, <3>3
  <2>3. i \in 2..(p - 1) /\ i + 2 \in 2..(p - 1)
    BY <1>1, <1>2, <2>1, <2>2
  <2>4. n % i # 0 /\ n % (i + 2) # 0
    <3>1. q \in Nat /\ p <= q /\ Prime(p) /\ Prime(q)
      BY <1>1, <1>2, <1>3
    <3>2. \A j \in 2..(p - 1) : (p * q) % j # 0
      BY <1>2, <3>1, ProductOfPrimes
    <3> QED BY <1>3, <2>3, <3>2
  <2> QED BY <2>4 DEF Hit
<1> QED BY <1>4, <1>5, <1>6 DEF is_prime, Skipped

\* And nothing else: a composite number that passes has a least factor 6k - 1,
\* the one number whose square the trial stops short of, and a cofactor of at
\* most two more.
LEMMA PassedOnly ==
    ASSUME NEW n \in Nat, is_prime(n), ~Prime(n)
    PROVE  Misjudged(n)
<1>1. n > 3
  <2>1. CASE n = 2
    BY <2>1 DEF Prime
  <2>2. CASE n = 3
    BY <2>2 DEF Prime
  <2>3. CASE n <= 1
    BY <2>3 DEF is_prime
  <2> QED BY <2>1, <2>2, <2>3
<1>2. n % 6 \in {1, 5} /\ \A i \in Tried(n) : ~Hit(n, i)
  BY <1>1 DEF is_prime, Skipped
<1>3. PICK d \in 2..n : n % d = 0 /\ \A f \in 2..(d - 1) : n % f # 0
  <2>1. n > 1
    BY <1>1
  <2> QED BY <2>1, LeastFactor
<1>3a. d \in Nat \ {0} /\ d >= 2
  OBVIOUS
<1>4. d < n
  <2>1. PICK f \in 2..(n - 1) : n % f = 0
    BY <1>1 DEF Prime
  <2>2. f \notin 2..(d - 1)
    BY <1>3, <2>1
  <2> QED BY <2>1, <2>2
<1>5. PICK e \in Nat : n = d * e
  BY <1>3, <1>3a, Divides
<1>6. e >= 2
  <2>1. CASE e = 0
    BY <1>1, <1>5, <2>1
  <2>2. CASE e = 1
    BY <1>4, <1>5, <2>2
  <2> QED BY <2>1, <2>2
<1>7. n % e = 0
  <2>1. n = e * d
    BY <1>5
  <2> QED BY <1>6, <2>1, Multiple
<1>8. d <= e
  <2>1. e \notin 2..(d - 1)
    BY <1>3, <1>7
  <2> QED BY <1>3a, <1>6, <2>1
<1>9. ASSUME NEW f \in Nat, f >= 2, n % f = 0 PROVE f % 6 \in {1, 5}
  <2>1. n % 2 # 0 /\ n % 3 # 0
    BY <1>2
  <2>2. f \in Nat \ {0} /\ 2 \in Nat \ {0} /\ 3 \in Nat \ {0}
    BY <1>9
  <2>3. f % 2 # 0
    BY <1>9, <2>1, <2>2, FactorOfFactor
  <2>4. f % 3 # 0
    BY <1>9, <2>1, <2>2, FactorOfFactor
  <2> QED BY <1>9, <2>3, <2>4
<1>10. d % 6 \in {1, 5} /\ e % 6 \in {1, 5} /\ d >= 5
  <2>1. d % 6 \in {1, 5} /\ e % 6 \in {1, 5}
    BY <1>3, <1>3a, <1>6, <1>7, <1>9
  <2> QED BY <1>3a, <2>1
<1>11. d * d <= n
  BY <1>5, <1>6, <1>8
<1>12. 5 * d <= d * d
  BY <1>10
<1>13. d % 6 = 5
  <2> SUFFICES ASSUME d % 6 = 1 PROVE FALSE
    BY <1>10
  <2>1. (d - 2) % 6 = 5 /\ d - 2 >= 5
    BY <1>10
  <2>2. ((d - 2) + 1) * ((d - 2) + 1) <= d * d
    BY <1>10
  <2>3. d - 2 <= n \div 5
    BY <1>10, <1>11, <1>12
  <2>4. d - 2 \in Tried(n)
    BY <1>11, <2>1, <2>2, <2>3 DEF Tried
  <2>5. Hit(n, d - 2)
    BY <1>3 DEF Hit
  <2> QED BY <1>2, <2>4, <2>5
<1>14. n < (d + 1) * (d + 1)
  <2> SUFFICES ASSUME (d + 1) * (d + 1) <= n PROVE FALSE
    OBVIOUS
  <2>1. d <= n \div 5
    BY <1>10, <1>11, <1>12
  <2>2. d \in Tried(n)
    BY <1>10, <1>13, <2>1 DEF Tried
  <2>3. Hit(n, d)
    BY <1>3 DEF Hit
  <2> QED BY <1>2, <2>2, <2>3
<1>15. e < d + 3
  <2> SUFFICES ASSUME d + 3 <= e PROVE FALSE
    BY <1>6
  <2>1. d * (d + 3) <= d * e
    OBVIOUS
  <2>2. d * (d + 3) = d * d + 3 * d /\ (d + 1) * (d + 1) = d * d + 2 * d + 1
    OBVIOUS
  <2> QED BY <1>5, <1>14, <2>1, <2>2
<1>16. e = d \/ e = d + 2
  <2>1. e # d + 1
    BY <1>10, <1>13
  <2> QED BY <1>8, <1>15, <2>1
\* A factor of a factor is no smaller than d.
<1>17. ASSUME NEW f \in Nat, f >= 2, NEW g \in Nat \ {0}, n % g = 0, g % f = 0
       PROVE  d <= f
  <2>1. n % f = 0
    <3>1. f \in Nat \ {0}
      BY <1>17
    <3> QED BY <1>17, <3>1, FactorOfFactor
  <2>2. f \notin 2..(d - 1)
    BY <1>3, <2>1
  <2> QED BY <1>3a, <1>17, <2>2
<1>18. Prime(d)
  <2>1. ASSUME NEW f \in 2..(d - 1), d % f = 0 PROVE FALSE
    <3>1. f \in Nat /\ f >= 2 /\ f < d
      BY <1>3a
    <3>2. d <= f
      BY <1>3, <1>3a, <1>17, <2>1, <3>1
    <3> QED BY <1>3a, <3>1, <3>2
  <2>2. d > 1
    BY <1>3a
  <2> QED BY <2>1, <2>2 DEF Prime
<1>19. e = d + 2 => Prime(d + 2)
  <2> SUFFICES ASSUME e = d + 2, NEW f \in 2..(e - 1), e % f = 0 PROVE FALSE
    <3>1. e > 1
      BY <1>6
    <3> QED BY <3>1 DEF Prime
  <2>0. f \in Nat \ {0} /\ f >= 2 /\ f <= e - 1 /\ e \in Nat \ {0}
    BY <1>6
  <2>1. d <= f
    BY <1>7, <1>17, <2>0
  <2>2. PICK g \in Nat : e = f * g
    BY <2>0, Divides
  <2>3. CASE g = 0
    BY <1>6, <2>2, <2>3
  <2>4. CASE g = 1
    BY <2>0, <2>2, <2>4
  <2>5. CASE g >= 2
    <3>1. f * 2 <= f * g
      BY <2>0, <2>5
    <3> QED BY <1>10, <2>0, <2>1, <2>2, <3>1
  <2> QED BY <2>3, <2>4, <2>5
<1>20. d \in 2..(n \div 2)
  <2>1. d * 2 <= d * e
    BY <1>6
  <2> QED BY <1>5, <2>1
<1>21. n \in {d * d, d * (d + 2)} /\ (n = d * d \/ Prime(d + 2))
  BY <1>5, <1>16, <1>19
<1> QED BY <1>13, <1>18, <1>20, <1>21 DEF Misjudged

(* What the trial division of gen_numbers tells, exactly, for every number:   *)
(* the primes, and the composites that Misjudged describes.                  *)
THEOREM PrimalityTest ==
    ASSUME NEW n \in Nat
    PROVE  is_prime(n) <=> Prime(n) \/ Misjudged(n)
BY PrimesPass, MisjudgedPass, PassedOnly

-----------------------------------------------------------------------------
(* The places of the report's lines.                                        *)

(* A report line reads inside the array, if there is an order at all.       *)
THEOREM PositionInside ==
    ASSUME NEW i \in Nat, NEW cnt \in Nat \ {0}, NEW parts \in Nat \ {0}
    PROVE  Position(i, cnt, parts) \in 0..(cnt - 1)
<1>1. cnt \div parts \in Nat
  OBVIOUS
<1>2. i * (cnt \div parts) \in Nat
  BY <1>1
<1> QED BY <1>2 DEF Position

(* No line reads beyond the place of the percentile it names: what is        *)
(* printed is never more than the true percentile.                           *)
THEOREM PositionNotBeyond ==
    ASSUME NEW i \in Nat, NEW cnt \in Nat \ {0}, NEW parts \in Nat \ {0}
    PROVE  Position(i, cnt, parts) * parts <= i * cnt
<1> DEFINE q == cnt \div parts
<1>1. q \in Nat /\ q * parts <= cnt
  OBVIOUS
<1>2. i * (q * parts) <= i * cnt
  BY <1>1
<1>3. (i * q) * parts <= i * cnt
  BY <1>1, <1>2
<1>4. CASE i * q >= cnt
  <2>1. (cnt - 1) * parts <= (i * q) * parts
    BY <1>1, <1>4
  <2> QED BY <1>1, <1>3, <1>4, <2>1 DEF Position
<1>5. CASE ~(i * q >= cnt)
  BY <1>3, <1>5 DEF Position
<1> QED BY <1>4, <1>5

-----------------------------------------------------------------------------
(* numbers.bin.                                                             *)

\* A count is a number of values.
LEMMA CountType == ASSUME NEW n \in Nat PROVE calc_cnt(n) \in Nat
<1>1. Tried(n) \subseteq 5..(n \div 5)
  BY DEF Tried
<1>2. IsFiniteSet(5..(n \div 5)) /\ n \div 5 \in Nat
  BY FS_Interval
<1>3. IsFiniteSet(Tried(n))
  BY <1>1, <1>2, FS_Subset
<1>4. CASE Skipped(n)
  BY <1>4 DEF calc_cnt
<1>5. CASE ~Skipped(n)
  <2> DEFINE T == {i \in Tried(n) : \A j \in Tried(n) : j < i => ~Hit(n, j)}
  <2>1. IsFiniteSet(T)
    BY <1>3, FS_Subset
  <2>2. Cardinality(T) \in Nat
    BY <2>1, FS_CardinalityType
  <2> QED BY <1>5, <2>2 DEF calc_cnt
<1> QED BY <1>4, <1>5

\* The first elements of an array up to the first one that is not accepted.
LEMMA Prefix ==
    ASSUME NEW m \in Nat, NEW K \in SUBSET (1..m), \A k \in K : \A j \in 1..k : j \in K
    PROVE  /\ K = 1..Cardinality(K)
           /\ Cardinality(K) \in 0..m
<1>1. CASE K = 1..m
  <2>1. Cardinality(1..m) = m
    BY FS_Interval
  <2> QED BY <1>1, <2>1
<1>2. CASE K # 1..m
  <2> DEFINE T == (1..m) \ K
  <2>1. T \subseteq Nat /\ T # {} /\ \A k \in K : k \in 1..m
    <3>1. \E j \in 1..m : j \notin K
      BY <1>2
    <3> QED BY <3>1
  <2>2. PICK t \in T : \A y \in T : t <= y
    <3> HIDE DEF T
    <3> QED BY <2>1, LeastNat
  <2>3. \A j \in 1..(t - 1) : j \in K
    <3> SUFFICES ASSUME NEW j \in 1..(t - 1), j \notin K PROVE FALSE
      OBVIOUS
    <3>1. j \in T
      BY <2>1, <2>2
    <3> QED BY <2>2, <3>1
  <2>4. \A k \in K : k < t
    <3> SUFFICES ASSUME NEW k \in K, t <= k PROVE FALSE
      BY <2>1
    <3>1. t \in 1..k
      BY <2>1
    <3> QED BY <3>1
  <2>2a. t \in 1..m /\ t \notin K
    OBVIOUS
  <2>5. K = 1..(t - 1)
    <3>1. \A k \in K : k \in 1..(t - 1)
      BY <2>1, <2>2a, <2>4
    <3> QED BY <2>3, <3>1
  <2>6. Cardinality(1..(t - 1)) = t - 1
    BY <2>1, FS_Interval
  <2> QED BY <2>1, <2>5, <2>6
<1> QED BY <1>1, <1>2

\* What the counts are, and what qsort makes of the numbers.
LEMMA CountFacts ==
    ASSUME NEW start \in Starts, NEW left \in [0..(Num - 1) -> Leftover]
    PROVE  LET D == start..(start + Num - 1)
               cnt == Counts(start, left)
           IN  /\ D \subseteq Nat /\ IsFiniteSet(D) /\ Num \in Nat \ {0}
               /\ cnt \in [D -> 0..(Uint64 - 1)]
               /\ (\A k \in DOMAIN left : left[k] = 0) => \A n \in D : cnt[n] = calc_cnt(n)
<1> DEFINE D == start..(start + Num - 1)
           cnt == Counts(start, left)
<1>1. /\ start \in Nat /\ Num \in Nat \ {0} /\ Uint64 \in Nat \ {0}
      /\ Leftover \subseteq 0..(Uint64 - 1)
  BY SizesAssumption
<1>2. D \subseteq Nat /\ IsFiniteSet(D)
  <2>1. start \in Int /\ start + Num - 1 \in Int
    BY <1>1
  <2>2. D \subseteq Nat
    BY <1>1
  <2>3. IsFiniteSet(D)
    BY <2>1, FS_Interval
  <2> QED BY <2>2, <2>3
<1>3. cnt = [n \in D |-> (left[n - start] + calc_cnt(n)) % Uint64]
  BY DEF Counts
<1>4. ASSUME NEW n \in D
      PROVE  /\ (left[n - start] + calc_cnt(n)) % Uint64 \in 0..(Uint64 - 1)
             /\ left[n - start] = 0 => (left[n - start] + calc_cnt(n)) % Uint64 = calc_cnt(n)
             /\ n - start \in 0..(Num - 1)
  <2>1. n - start \in 0..(Num - 1) /\ n \in Nat /\ n = start + (n - start)
    BY <1>1
  <2>2. PICK l \in Nat : l = left[n - start]
    <3>1. left[n - start] \in Leftover
      BY <2>1
    <3>2. left[n - start] \in 0..(Uint64 - 1)
      BY <1>1, <3>1
    <3> QED BY <1>1, <3>2
  <2>3. PICK c \in Nat : c = calc_cnt(n)
    BY <2>1, CountType
  <2>4. c < Uint64
    BY <2>1, <2>3, CountsAssumption
  <2>5. (l + c) % Uint64 \in 0..(Uint64 - 1) /\ c % Uint64 = c
    BY <1>1, <2>4
  <2> QED BY <2>1, <2>2, <2>3, <2>5
<1>5. cnt \in [D -> 0..(Uint64 - 1)]
  BY <1>3, <1>4
<1>6. (\A k \in DOMAIN left : left[k] = 0) => \A n \in D : cnt[n] = calc_cnt(n)
  BY <1>3, <1>4
<1> QED BY <1>1, <1>2, <1>5, <1>6

\* What prime_cal_cnt.txt says "yes" to: the primes, and two kinds of composites.
PrimesMarked == yes = {n \in looked_at : Prime(n) \/ Misjudged(n)}

\* The files gen_numbers leaves.
FilesOK ==
    /\ looked_at \subseteq Nat
    /\ zeroed \in BOOLEAN
    /\ yes \subseteq looked_at
    /\ numbers \in [exists : BOOLEAN, content : Seq(looked_at)]
    /\ PrimesMarked
    /\ CostlyNumbersOnly

\* The numbers gen_numbers accepts come first, and there is the file of them.
LEMMA AcceptedFirst ==
    ASSUME NEW D, NEW cnt \in [D -> 0..(Uint64 - 1)], NEW arr \in Descending(cnt),
           Num \in Nat \ {0}, Uint64 \in Nat \ {0}
    PROVE  LET c == Cardinality(Accepted(cnt, arr))
               content == SubSeq(arr, 1, c)
           IN  /\ arr \in Bijection(1..Num, D)
               /\ c \in 0..Num /\ Accepted(cnt, arr) = 1..c
               /\ content \in Seq(D) /\ Len(content) = c
               /\ \A k \in 1..c : content[k] = arr[k]
               /\ \A k \in 1..Num : /\ arr[k] \in D
                                    /\ cnt[arr[k]] <= cnt[arr[1]]
                                    /\ k \in 1..c <=> cnt[arr[k]] >= Accept(cnt[arr[1]])
<1> DEFINE K == Accepted(cnt, arr)
           c == Cardinality(K)
           content == SubSeq(arr, 1, c)
<1>1. /\ arr \in Bijection(1..Num, D) /\ arr \in [1..Num -> D]
      /\ \A i, j \in 1..Num : i < j => cnt[arr[i]] >= cnt[arr[j]]
  BY DEF Descending, Bijection, Injection
<1>2. K = {k \in 1..Num : \A j \in 1..k : cnt[arr[j]] >= Accept(cnt[arr[1]])}
  BY <1>1 DEF Accepted
<1>3. /\ K \in SUBSET (1..Num)
      /\ \A k \in K : \A j \in 1..k : j \in K
  BY <1>2
<1>4. K = 1..c /\ c \in 0..Num
  BY <1>3, Prefix
<1>5. arr \in Seq(D) /\ Len(arr) = Num
  BY <1>1, IsASeq, LenProperties
<1>6. content \in Seq(D) /\ Len(content) = c /\ \A k \in 1..c : content[k] = arr[k]
  BY <1>4, <1>5
<1>7. ASSUME NEW k \in 1..Num
      PROVE  arr[k] \in D /\ cnt[arr[k]] \in Nat /\ cnt[arr[k]] <= cnt[arr[1]]
  <2>1. arr[k] \in D /\ arr[1] \in D
    BY <1>1
  <2>2. cnt[arr[k]] \in 0..(Uint64 - 1) /\ cnt[arr[1]] \in 0..(Uint64 - 1)
    BY <2>1
  <2>3. CASE k = 1
    BY <2>1, <2>2, <2>3
  <2>4. CASE 1 < k
    <3>1. cnt[arr[1]] >= cnt[arr[k]]
      BY <1>1, <2>4
    <3> QED BY <2>1, <2>2, <3>1
  <2> QED BY <2>3, <2>4
<1>8. ASSUME NEW k \in 1..Num, cnt[arr[k]] >= Accept(cnt[arr[1]]) PROVE k \in K
  <2>1. ASSUME NEW j \in 1..k PROVE cnt[arr[j]] >= Accept(cnt[arr[1]])
    <3>1. j \in 1..Num
      OBVIOUS
    <3>2. cnt[arr[j]] >= cnt[arr[k]]
      BY <1>1, <1>7, <3>1
    <3>3. Accept(cnt[arr[1]]) \in Int
      BY <1>7, SizesAssumption DEF Accept
    <3> QED BY <1>7, <1>8, <3>1, <3>2, <3>3
  <2> QED BY <1>2, <2>1
<1>9. \A k \in K : cnt[arr[k]] >= Accept(cnt[arr[1]])
  BY <1>2
<1> QED BY <1>1, <1>4, <1>6, <1>7, <1>8, <1>9

\* What numbers.bin holds when the counts were right.
LEMMA CostlyOnly ==
    ASSUME NEW D, D \subseteq Nat, NEW cnt \in [D -> 0..(Uint64 - 1)],
           NEW arr \in Descending(cnt), Num \in Nat \ {0},
           \A n \in D : cnt[n] = calc_cnt(n)
    PROVE  LET c == Cardinality(Accepted(cnt, arr))
               content == SubSeq(arr, 1, c)
               max == CHOOSE m \in {calc_cnt(n) : n \in D} :
                          \A n \in D : calc_cnt(n) <= m
               costly == {n \in D : calc_cnt(n) + Margin >= max}
           IN  IF max < Margin THEN content = <<>>
               ELSE /\ {content[k] : k \in DOMAIN content} = costly
                    /\ Len(content) = Cardinality(costly)
<1> DEFINE c == Cardinality(Accepted(cnt, arr))
           content == SubSeq(arr, 1, c)
           IsMax(m) == m \in {calc_cnt(n) : n \in D} /\ \A n \in D : calc_cnt(n) <= m
           max == CHOOSE m \in {calc_cnt(n) : n \in D} : \A n \in D : calc_cnt(n) <= m
           costly == {n \in D : calc_cnt(n) + Margin >= max}
<1>1. Uint64 \in Nat \ {0} /\ Margin \in 0..(Uint64 - 1)
  BY SizesAssumption
<1>2. /\ arr \in Bijection(1..Num, D)
      /\ c \in 0..Num
      /\ content \in Seq(D) /\ Len(content) = c
      /\ \A k \in 1..c : content[k] = arr[k]
      /\ \A k \in 1..Num : /\ arr[k] \in D
                           /\ cnt[arr[k]] <= cnt[arr[1]]
                           /\ k \in 1..c <=> cnt[arr[k]] >= Accept(cnt[arr[1]])
  BY <1>1, AcceptedFirst
<1> HIDE DEF content, c
<1>3. /\ \A n \in D : \E k \in 1..Num : arr[k] = n
      /\ \A j, k \in 1..Num : arr[j] = arr[k] => j = k
  BY <1>2 DEF Bijection, Injection, Surjection, IsInjective
<1>4. PICK M \in 0..(Uint64 - 1) : M = cnt[arr[1]]
  <2>1. arr[1] \in D
    BY <1>2
  <2> QED BY <2>1
<1>5. \A n \in D : calc_cnt(n) \in 0..(Uint64 - 1) /\ calc_cnt(n) <= M
  <2> SUFFICES ASSUME NEW n \in D PROVE cnt[n] \in 0..(Uint64 - 1) /\ cnt[n] <= M
    OBVIOUS
  <2>1. PICK k \in 1..Num : arr[k] = n
    BY <1>3
  <2> QED BY <1>2, <1>4, <2>1
<1>6. max = M
  <2>1. IsMax(M)
    <3>1. arr[1] \in D /\ M = calc_cnt(arr[1])
      <4>1. 1 \in 1..Num
        OBVIOUS
      <4>2. arr[1] \in D
        BY <1>2, <4>1
      <4> QED BY <1>4, <4>2
    <3> QED BY <1>5, <3>1
  <2>2. ASSUME NEW m, IsMax(m) PROVE m = M
    <3>1. PICK n \in D : m = calc_cnt(n)
      BY <2>2
    <3>2. M <= m
      BY <2>1, <2>2
    <3> QED BY <1>5, <3>1, <3>2
  <2> QED BY <2>1, <2>2
<1> HIDE DEF max
<1>6a. costly = {n \in D : calc_cnt(n) + Margin >= M}
  BY <1>6
<1> HIDE DEF costly
<1>7. ASSUME M < Margin PROVE content = <<>>
  <2>1. Accept(M) = M - Margin + Uint64
    <3>1. M - Margin + Uint64 \in 0..(Uint64 - 1)
      BY <1>1, <1>7
    <3>2. (M - Margin) % Uint64 = M - Margin + Uint64
      BY <1>1, <1>7, <3>1
    <3> QED BY <3>2 DEF Accept
  <2>2. M < Accept(M)
    BY <1>1, <2>1
  <2>3. 1 \in 1..Num
    OBVIOUS
  <2>4. 1 \notin 1..c
    <3>1. ~(M >= Accept(M))
      BY <1>1, <2>1, <2>2
    <3> QED BY <1>2, <1>4, <2>3, <3>1
  <2>5. c = 0
    BY <1>2, <2>4
  <2>6. content = <<>>
    BY <1>2, <2>5, EmptySeq
  <2> QED BY <2>6
<1>8. ASSUME Margin <= M
      PROVE  /\ {content[k] : k \in DOMAIN content} = costly
             /\ Len(content) = Cardinality(costly)
  <2>1. Accept(M) = M - Margin
    <3>1. M - Margin \in 0..(Uint64 - 1)
      BY <1>1, <1>8
    <3>2. (M - Margin) % Uint64 = M - Margin
      BY <1>1, <3>1
    <3> QED BY <3>2 DEF Accept
  <2>3. \A k \in 1..Num : k \in 1..c <=> arr[k] \in costly
    <3> SUFFICES ASSUME NEW k \in 1..Num
                 PROVE  k \in 1..c <=> arr[k] \in costly
      OBVIOUS
    <3>1. PICK n \in D : n = arr[k]
      BY <1>2
    <3>2. k \in 1..c <=> calc_cnt(n) >= M - Margin
      BY <1>2, <1>4, <2>1, <3>1
    <3>3. calc_cnt(n) \in 0..(Uint64 - 1)
      BY <1>5
    <3> QED BY <1>1, <1>6a, <3>1, <3>2, <3>3
  <2>4. 1..c \subseteq 1..Num
    BY <1>2
  <2>5. {content[k] : k \in 1..c} = costly
    <3>1. ASSUME NEW k \in 1..c PROVE content[k] \in costly
      BY <1>2, <2>3, <2>4
    <3>2. ASSUME NEW n \in costly PROVE \E k \in 1..c : content[k] = n
      <4>1. PICK k \in 1..Num : arr[k] = n
        BY <1>3, <1>6a
      <4> QED BY <1>2, <2>3, <4>1
    <3> QED BY <3>1, <3>2
  <2>6. DOMAIN content = 1..c
    BY <1>2, LenProperties
  <2>7. Cardinality(costly) = c
    <3> DEFINE f == [k \in 1..c |-> arr[k]]
    <3>1. f \in [1..c -> costly]
      BY <2>3, <2>4
    <3>2. \A j, k \in 1..c : f[j] = f[k] => j = k
      BY <1>3, <2>4
    <3>3. \A n \in costly : \E k \in 1..c : f[k] = n
      <4> SUFFICES ASSUME NEW n \in costly PROVE \E k \in 1..c : f[k] = n
        OBVIOUS
      <4>1. PICK k \in 1..Num : arr[k] = n
        BY <1>3, <1>6a
      <4> QED BY <2>3, <4>1
    <3>4. ExistsBijection(1..c, costly)
      <4>1. f \in Bijection(1..c, costly)
        <5> HIDE DEF f
        <5> QED BY <3>1, <3>2, <3>3 DEF Bijection, Injection, Surjection, IsInjective
      <4> QED BY <4>1 DEF ExistsBijection
    <3>5. IsFiniteSet(1..c) /\ Cardinality(1..c) = c
      BY <1>2, FS_Interval
    <3> QED BY <1>2, <3>4, <3>5, FS_Bijection
  <2> QED BY <1>2, <2>5, <2>6, <2>7
<1>9. IF max < Margin THEN content = <<>>
      ELSE /\ {content[k] : k \in DOMAIN content} = costly
           /\ Len(content) = Cardinality(costly)
  BY <1>1, <1>6, <1>7, <1>8
<1> QED BY <1>9 DEF content, c, max, costly

\* gen_numbers leaves both files right.
LEMMA GenNumbersFiles ==
    ASSUME NEW start \in Starts, NEW left \in [0..(Num - 1) -> Leftover],
           GenNumbers(start, left)
    PROVE  FilesOK'
<1> DEFINE D == start..(start + Num - 1)
<1> PICK cnt \in {Counts(start, left)} : TRUE
  OBVIOUS
<1>1. /\ D \subseteq Nat /\ IsFiniteSet(D) /\ Num \in Nat \ {0}
      /\ cnt \in [D -> 0..(Uint64 - 1)]
      /\ (\A k \in DOMAIN left : left[k] = 0) => \A n \in D : cnt[n] = calc_cnt(n)
  BY CountFacts
<1>2. /\ looked_at' = D
      /\ zeroed' = \A k \in DOMAIN left : left[k] = 0
      /\ yes' = {n \in D : is_prime(n)}
      /\ \E arr \in Descending(cnt) :
            numbers' = File(SubSeq(arr, 1, Cardinality(Accepted(cnt, arr))))
  BY <1>1 DEF GenNumbers
<1> HIDE DEF D
<1>3. PICK arr \in Descending(cnt) :
          numbers' = File(SubSeq(arr, 1, Cardinality(Accepted(cnt, arr))))
  BY <1>2
<1> DEFINE content == SubSeq(arr, 1, Cardinality(Accepted(cnt, arr)))
<1>4. content \in Seq(D)
  <2>1. Uint64 \in Nat \ {0}
    BY SizesAssumption
  <2> QED BY <1>1, <2>1, AcceptedFirst
<1>5. numbers' = [exists |-> TRUE, content |-> content]
  BY <1>3 DEF File
<1>6. PrimesMarked'
  <2>1. \A n \in D : is_prime(n) <=> Prime(n) \/ Misjudged(n)
    BY <1>1, PrimalityTest
  <2> QED BY <1>2, <2>1 DEF PrimesMarked
<1>7. CostlyNumbersOnly'
  <2>1. CASE zeroed'
    <3>1. \A n \in D : cnt[n] = calc_cnt(n)
      BY <1>1, <1>2, <2>1
    <3> DEFINE max == CHOOSE m \in {calc_cnt(n) : n \in D} :
                          \A n \in D : calc_cnt(n) <= m
               costly == {n \in D : calc_cnt(n) + Margin >= max}
    <3>2. IF max < Margin THEN content = <<>>
          ELSE /\ {content[k] : k \in DOMAIN content} = costly
               /\ Len(content) = Cardinality(costly)
      BY <1>1, <3>1, CostlyOnly
    <3> HIDE DEF content
    <3>3. numbers'.content = content
      BY <1>5
    <3> QED BY <1>2, <3>2, <3>3, Zenon DEF CostlyNumbersOnly
  <2>2. CASE ~zeroed'
    BY <2>2 DEF CostlyNumbersOnly
  <2> QED BY <2>1, <2>2
<1> HIDE DEF content
<1> QED BY <1>1, <1>2, <1>4, <1>5, <1>6, <1>7 DEF FilesOK

-----------------------------------------------------------------------------
(* The report.                                                              *)

\* A line is right enough if as many delays are on either side of what it
\* prints as are on either side of its place in the sorted array.
LEMMA LineClose ==
    ASSUME NEW cnt \in Nat \ {0}, NEW line \in 0..Parts, Parts \in Nat \ {0},
           NEW above \in Nat, NEW below \in Nat,
           above >= cnt - Position(line, cnt, Parts),
           below >= Position(line, cnt, Parts) + 1
    PROVE  /\ above * Parts >= (Parts - line) * cnt
           /\ (below + line) * Parts > line * cnt
           /\ cnt % Parts = 0 => below * Parts >= line * cnt
<1> PICK pos \in 0..(cnt - 1) : pos = Position(line, cnt, Parts)
  BY PositionInside
<1>1. pos * Parts <= line * cnt
  BY PositionNotBeyond
<1>2. above * Parts >= (Parts - line) * cnt
  <2>1. above * Parts >= (cnt - pos) * Parts
    OBVIOUS
  <2>2. (cnt - pos) * Parts = cnt * Parts - pos * Parts
    OBVIOUS
  <2>3. (Parts - line) * cnt = cnt * Parts - line * cnt
    OBVIOUS
  <2> QED BY <1>1, <2>1, <2>2, <2>3
<1>3. PICK q \in Nat, r \in 0..(Parts - 1) :
          cnt = Parts * q + r /\ cnt % Parts = r /\ cnt \div Parts = q
  BY DivMod
<1>4. below * Parts >= (pos + 1) * Parts
  OBVIOUS
<1>5. (below + line) * Parts = below * Parts + line * Parts /\ below * Parts \in Nat
      /\ line * Parts \in Nat /\ line * cnt \in Nat
  OBVIOUS
<1>6. CASE pos = line * q
  <2>1. (pos + 1) * Parts = line * (Parts * q) + Parts
    BY <1>6
  <2>2. line * cnt = line * (Parts * q) + line * r
    BY <1>3
  <2>3. line * r <= line * Parts
    BY <1>3
  <2>4. r = 0 => line * r = 0
    OBVIOUS
  <2>5. line * (Parts * q) \in Nat /\ line * r \in Nat
    OBVIOUS
  <2> QED BY <1>2, <1>3, <1>4, <1>5, <2>1, <2>2, <2>3, <2>4, <2>5
<1>7. CASE pos = cnt - 1
  <2>1. (pos + 1) * Parts = cnt * Parts
    BY <1>7
  <2>2. cnt * Parts >= line * cnt
    OBVIOUS
  <2>3. line = 0 => line * cnt = 0
    OBVIOUS
  <2>4. cnt * Parts >= Parts
    OBVIOUS
  <2>5. line > 0 => line * Parts > 0
    OBVIOUS
  <2> QED BY <1>2, <1>4, <1>5, <2>1, <2>2, <2>3, <2>4, <2>5
<1>8. pos = line * q \/ pos = cnt - 1
  BY <1>3 DEF Position
<1> QED BY <1>6, <1>7, <1>8

\* Some element of a part of an array is the largest of that part.
LEMMA Largest ==
    ASSUME NEW cnt \in Nat, NEW e \in [1..cnt -> Nat], NEW S \in SUBSET (1..cnt), S # {}
    PROVE  \E k \in S : \A j \in S : e[j] <= e[k]
<1> DEFINE over(k) == {j \in S : e[j] > e[k]}
           F == {over(k) : k \in S}
<1>1. F \subseteq FiniteSubsetsOf(1..cnt)
  <2>1. IsFiniteSet(1..cnt)
    <3>1. 1 \in Int /\ cnt \in Int
      OBVIOUS
    <3> QED BY <3>1, FS_Interval
  <2>2. ASSUME NEW k \in S PROVE over(k) \in SUBSET (1..cnt) /\ IsFiniteSet(over(k))
    <3>1. over(k) \in SUBSET (1..cnt)
      OBVIOUS
    <3> HIDE DEF over
    <3> QED BY <2>1, <3>1, FS_Subset
  <2> HIDE DEF over
  <2> QED BY <2>2 DEF FiniteSubsetsOf
<1>2. F # {}
  OBVIOUS
<1>3. PICK I \in F : \A J \in F : ~ (<<J, I>> \in StrictSubsetOrdering(1..cnt))
  <2> HIDE DEF F
  <2> QED BY <1>1, <1>2, FS_StrictSubsetOrderingWellFounded, WFMin
<1>4. PICK k \in S : I = over(k)
  OBVIOUS
<1>5. ASSUME NEW j \in S, ~(e[j] <= e[k]) PROVE FALSE
  <2>1. e[j] \in Nat /\ e[k] \in Nat /\ \A i \in S : e[i] \in Nat
    OBVIOUS
  <2>2. j \in over(k) /\ j \notin over(j) /\ over(j) \subseteq over(k)
    <3>1. e[j] > e[k] /\ ~(e[j] > e[j])
      BY <1>5, <2>1
    <3>2. ASSUME NEW i \in over(j) PROVE i \in over(k)
      <4>1. i \in S /\ e[i] > e[j]
        OBVIOUS
      <4>2. e[i] > e[k]
        <5>1. e[i] \in Nat
          BY <2>1, <4>1
        <5> QED BY <2>1, <3>1, <4>1, <5>1
      <4> QED BY <4>1, <4>2
    <3>3. j \in over(k) /\ j \notin over(j)
      BY <3>1
    <3> HIDE DEF over
    <3> QED BY <3>2, <3>3
  <2>3. over(j) \in F /\ over(j) # over(k)
    BY <2>2
  <2>4. over(j) \in SUBSET (1..cnt) /\ over(k) \in SUBSET (1..cnt)
    OBVIOUS
  <2> HIDE DEF F
  <2> HIDE DEF over
  <2>5. <<over(j), over(k)>> \in StrictSubsetOrdering(1..cnt)
    BY <2>2, <2>3, <2>4 DEF StrictSubsetOrdering
  <2> QED BY <1>3, <1>4, <2>3, <2>5
<1> QED BY <1>5

\* What qsort leaves at a place has as many delays at most as large as the
\* place has up to it, and as many at least as large as the place has from it on.
LEMMA SortedPlace ==
    ASSUME NEW cnt \in Nat \ {0}, NEW e \in [1..cnt -> Nat], NEW at \in 1..cnt
    PROVE  LET v == Sorted(e)[at]
               above == Cardinality({k \in 1..cnt : e[k] >= v})
               below == Cardinality({k \in 1..cnt : e[k] <= v})
           IN  /\ v \in Range(e)
               /\ above \in Nat /\ above >= cnt - at + 1
               /\ below \in Nat /\ below >= at
<1> DEFINE upto(v) == Cardinality({k \in 1..cnt : e[k] <= v})
           T == {v \in Range(e) : at <= upto(v)}
           Least(v) == v \in Range(e) /\ at <= upto(v)
                       /\ \A w \in Range(e) : at <= upto(w) => v <= w
<1>1. Range(e) = {e[k] : k \in 1..cnt} /\ Range(e) \subseteq Nat
  BY DEF Range
<1>2. IsFiniteSet(1..cnt) /\ Cardinality(1..cnt) = cnt
  <2>1. 1 \in Int /\ cnt \in Int
    OBVIOUS
  <2> QED BY <2>1, FS_Interval
<1>3. ASSUME NEW S \in SUBSET (1..cnt) PROVE IsFiniteSet(S) /\ Cardinality(S) \in Nat
  BY <1>2, FS_Subset, FS_CardinalityType
<1>4. \A v : upto(v) \in Nat
  <2> SUFFICES ASSUME NEW v PROVE upto(v) \in Nat
    OBVIOUS
  <2>1. {k \in 1..cnt : e[k] <= v} \in SUBSET (1..cnt)
    OBVIOUS
  <2> QED BY <1>3, <2>1
<1>5. T # {}
  <2>1. 1..cnt \in SUBSET (1..cnt) /\ 1..cnt # {}
    OBVIOUS
  <2>2. PICK m \in 1..cnt : \A j \in 1..cnt : e[j] <= e[m]
    BY <2>1, Largest
  <2>3. {k \in 1..cnt : e[k] <= e[m]} = 1..cnt
    BY <2>2
  <2>4. upto(e[m]) = cnt
    BY <1>2, <2>3
  <2> HIDE DEF upto
  <2> QED BY <1>1, <2>4
<1>6. PICK x \in T : \A y \in T : x <= y
  <2>1. T \subseteq Nat
    BY <1>1
  <2> HIDE DEF T
  <2> QED BY <1>5, <2>1, LeastNat
<1>7. PICK v \in Range(e) : v = Sorted(e)[at] /\ Least(v)
  <2>1. Least(x)
    <3> HIDE DEF upto
    <3> QED BY <1>6
  <2>2. Sorted(e)[at] = CHOOSE v \in Range(e) :
                            /\ at <= upto(v)
                            /\ \A w \in Range(e) : at <= upto(w) => v <= w
    BY DEF Sorted
  <2> HIDE DEF upto
  <2> QED BY <2>1, <2>2
<1>8. v \in Nat /\ \A k \in 1..cnt : e[k] \in Nat /\ e[k] \in Range(e)
  BY <1>1
<1> DEFINE L == {k \in 1..cnt : e[k] < v}
           A == {k \in 1..cnt : e[k] >= v}
<1>9. L \in SUBSET (1..cnt) /\ A = (1..cnt) \ L
  BY <1>8
<1>10. Cardinality(L) \in Nat /\ Cardinality(L) < at
  <2>1. Cardinality(L) \in Nat
    BY <1>3, <1>9
  <2>2. CASE L = {}
    <3>1. Cardinality(L) = 0
      BY <2>2, FS_EmptySet, Zenon
    <3> QED BY <3>1
  <2>3. CASE L # {}
    <3> HIDE DEF L
    <3>1. PICK m \in L : \A j \in L : e[j] <= e[m]
      BY <1>9, <2>3, Largest
    <3>2. m \in 1..cnt /\ e[m] < v
      BY DEF L
    <3>3. L = {k \in 1..cnt : e[k] <= e[m]}
      BY <1>8, <1>9, <3>1, <3>2 DEF L
    <3>4. Cardinality(L) = upto(e[m])
      BY <3>3
    <3> HIDE DEF upto
    <3> QED BY <1>4, <1>7, <1>8, <2>1, <3>2, <3>4
  <2> QED BY <2>1, <2>2, <2>3
<1>11. Cardinality(A) = cnt - Cardinality(L)
  <2>1. (1..cnt) \cap L = L
    BY <1>9
  <2> HIDE DEF L, A
  <2> QED BY <1>2, <1>3, <1>9, <2>1, FS_Difference
<1>12. /\ Cardinality(A) \in Nat /\ Cardinality(A) >= cnt - at + 1
       /\ upto(v) \in Nat /\ upto(v) >= at
  <2>1. A \in SUBSET (1..cnt)
    BY <1>9
  <2>2. Cardinality(A) \in Nat
    BY <1>3, <2>1
  <2>3. upto(v) \in Nat /\ upto(v) >= at
    BY <1>4, <1>7
  <2> HIDE DEF A, L, upto
  <2> QED BY <1>10, <1>11, <2>2, <2>3
<1> QED BY <1>7, <1>12

\* The report of the last run, as far as there is one.
ReportOK ==
    /\ elapsed \in Seq(Delays \cup {0})
    /\ printed \in Seq(Delays \cup {0})
    /\ PercentilesClose

\* What dump_orders prints is close to the percentiles of what it has measured.
LEMMA ReportStep ==
    ASSUME max_idx(args) \in Nat \ {0},
           NEW answered \in SUBSET (0..(max_idx(args) - 1)),
           NEW delay \in [answered -> Delays],
           ClientReport(answered, delay)
    PROVE  ReportOK'
<1> DEFINE W == Delays \cup {0}
           e == Elapsed(answered, delay)
<1>1. PICK cnt \in Nat \ {0} : cnt = max_idx(args)
  OBVIOUS
<1>2. Parts \in Nat \ {0} /\ W \subseteq Nat /\ Delays \subseteq W /\ 0 \in W
  BY SizesAssumption
<1>3. elapsed' = e /\ printed' = Lines(Sorted(e))
  BY DEF ClientReport
<1>4. e \in [1..cnt -> W]
  BY <1>1, <1>2 DEF Elapsed
<1> HIDE DEF W, e
<1>5. e \in [1..cnt -> Nat] /\ e \in Seq(W) /\ Len(e) = cnt /\ Range(e) \subseteq W
  <2>1. e \in [1..cnt -> Nat]
    BY <1>2, <1>4
  <2>2. e \in Seq(W)
    BY <1>4, IsASeq
  <2>3. Len(e) = cnt
    BY <1>4, <2>2, LenProperties
  <2> QED BY <1>4, <2>1, <2>2, <2>3 DEF Range
<1>6. PICK sorted \in Seq(W) : sorted = Sorted(e) /\ Len(sorted) = cnt
  <2>1. DOMAIN Sorted(e) = 1..cnt /\ Sorted(e) = [i \in 1..cnt |-> Sorted(e)[i]]
    <3> DEFINE nth(i) == CHOOSE v \in Range(e) :
                   /\ i <= Cardinality({k \in DOMAIN e : e[k] <= v})
                   /\ \A w \in Range(e) :
                          i <= Cardinality({k \in DOMAIN e : e[k] <= w}) => v <= w
    <3>1. Sorted(e) = [i \in DOMAIN e |-> nth(i)]
      BY DEF Sorted
    <3>2. DOMAIN e = 1..cnt
      BY <1>4
    <3> HIDE DEF nth
    <3> QED BY <3>1, <3>2
  <2>2. \A i \in 1..cnt : Sorted(e)[i] \in W
    BY <1>5, SortedPlace
  <2>3. Sorted(e) \in [1..cnt -> W]
    BY <2>1, <2>2
  <2>4. Sorted(e) \in Seq(W)
    BY <2>3, IsASeq
  <2>5. Len(Sorted(e)) = cnt
    BY <2>1, <2>4, LenProperties
  <2> QED BY <2>4, <2>5
<1>7. /\ DOMAIN printed' = 1..(Parts + 1)
      /\ printed' = [i \in 1..(Parts + 1) |-> sorted[Position(i - 1, cnt, Parts) + 1]]
  BY <1>3, <1>6 DEF Lines
<1>8. ASSUME NEW i \in 1..(Parts + 1)
      PROVE  LET AtLeast == Cardinality({k \in 1..cnt : e[k] >= printed'[i]})
                 AtMost == Cardinality({k \in 1..cnt : e[k] <= printed'[i]})
             IN  /\ printed'[i] \in W
                 /\ AtLeast * Parts >= (Parts - (i - 1)) * cnt
                 /\ (AtMost + (i - 1)) * Parts > (i - 1) * cnt
                 /\ cnt % Parts = 0 => AtMost * Parts >= (i - 1) * cnt
  <2>1. PICK line \in 0..Parts : line = i - 1
    BY <1>2
  <2>2. PICK pos \in 0..(cnt - 1) : pos = Position(line, cnt, Parts)
    <3>1. line \in Nat
      BY <1>2
    <3> QED BY <1>2, <3>1, PositionInside
  <2>3. PICK v \in Range(e) : v = printed'[i] /\ v = Sorted(e)[pos + 1]
    <3>1. pos + 1 \in 1..cnt
      OBVIOUS
    <3>2. Sorted(e)[pos + 1] \in Range(e)
      BY <1>5, <3>1, SortedPlace
    <3> QED BY <1>6, <1>7, <2>1, <2>2, <3>2
  <2> DEFINE above == Cardinality({k \in 1..cnt : e[k] >= v})
             below == Cardinality({k \in 1..cnt : e[k] <= v})
  <2>4. /\ above \in Nat /\ above >= cnt - (pos + 1) + 1
        /\ below \in Nat /\ below >= pos + 1
    <3>1. PICK at \in 1..cnt : at = pos + 1
      OBVIOUS
    <3>2. /\ above \in Nat /\ above >= cnt - at + 1
          /\ below \in Nat /\ below >= at
      <4>1. v = Sorted(e)[at]
        BY <2>3, <3>1
      <4> DEFINE u == Sorted(e)[at]
                 U == {k \in 1..cnt : e[k] >= u}
                 L == {k \in 1..cnt : e[k] <= u}
      <4>2. /\ Cardinality(U) \in Nat /\ Cardinality(U) >= cnt - at + 1
            /\ Cardinality(L) \in Nat /\ Cardinality(L) >= at
        BY <1>5, SortedPlace
      <4>3. above = Cardinality(U) /\ below = Cardinality(L)
        BY <4>1
      <4> HIDE DEF above, below, U, L
      <4> QED BY <4>2, <4>3
    <3> QED BY <3>1, <3>2
  <2> HIDE DEF above, below
  <2>5. above >= cnt - Position(line, cnt, Parts) /\ below >= Position(line, cnt, Parts) + 1
    BY <2>2, <2>4
  <2>6. /\ above * Parts >= (Parts - line) * cnt
        /\ (below + line) * Parts > line * cnt
        /\ cnt % Parts = 0 => below * Parts >= line * cnt
    BY <1>2, <2>4, <2>5, LineClose
  <2> QED BY <1>5, <2>1, <2>3, <2>6 DEF above, below
<1>9. printed' \in Seq(W)
  <2>1. printed' \in [1..(Parts + 1) -> W]
    BY <1>7, <1>8
  <2>2. Parts + 1 \in Nat
    BY <1>2
  <2> QED BY <2>1, <2>2, IsASeq
<1>10. PercentilesClose'
  BY <1>3, <1>5, <1>7, <1>8, Zenon DEF PercentilesClose
<1> QED BY <1>3, <1>5, <1>9, <1>10 DEF ReportOK, W

-----------------------------------------------------------------------------
(* The invariant: the files are right, and so is the report.                *)

RunOK ==
    /\ has_orders \in BOOLEAN
    /\ ended \in {"none", "ok", "failed", "trapped"}
    /\ client \in {"none", "running"}
    /\ args \in [round : 0..(Uint32 - 1), order_per_round : 0..(Uint32 - 1)]

IInv == FilesOK /\ RunOK /\ ReportOK

\* Before the first program has run, there is nothing wrong with its files.
LEMMA InvInit == Init => IInv
<1> SUFFICES ASSUME Init PROVE IInv
  OBVIOUS
<1>1. Uint32 \in Nat \ {0}
  BY SizesAssumption
<1>2. FilesOK
  <2>1. <<>> \in Seq(looked_at)
    BY EmptySeq
  <2> QED BY <2>1 DEF Init, FilesOK, NoFile, PrimesMarked, CostlyNumbersOnly
<1>3. RunOK
  <2>1. args \in [round : 0..(Uint32 - 1), order_per_round : 0..(Uint32 - 1)]
    BY <1>1 DEF Init, NoArgs
  <2>2. has_orders = FALSE /\ ended = "none" /\ client = "none"
    BY DEF Init
  <2> QED BY <2>1, <2>2 DEF RunOK
<1>4. ReportOK
  <2>1. <<>> \in Seq(Delays \cup {0}) /\ DOMAIN <<>> = {}
    BY EmptySeq
  <2> QED BY <2>1 DEF Init, ReportOK, PercentilesClose
<1> QED BY <1>2, <1>3, <1>4 DEF IInv

\* Each program leaves the files and the report it does not write as they are.
LEMMA InvKept ==
    /\ FilesOK /\ UNCHANGED genVars => FilesOK'
    /\ ReportOK /\ UNCHANGED <<elapsed, printed>> => ReportOK'
<1>1. ASSUME FilesOK, UNCHANGED genVars PROVE FilesOK'
  <2>1. looked_at' = looked_at /\ zeroed' = zeroed /\ yes' = yes /\ numbers' = numbers
    BY <1>1 DEF genVars
  <2>2. PrimesMarked'
    BY <1>1, <2>1 DEF FilesOK, PrimesMarked
  <2>3. CostlyNumbersOnly'
    BY <1>1, <2>1, Zenon DEF FilesOK, CostlyNumbersOnly
  <2> QED BY <1>1, <2>1, <2>2, <2>3 DEF FilesOK
<1>2. ASSUME ReportOK, UNCHANGED <<elapsed, printed>> PROVE ReportOK'
  <2>1. elapsed' = elapsed /\ printed' = printed
    BY <1>2
  <2>2. PercentilesClose'
    BY <1>2, <2>1, Zenon DEF ReportOK, PercentilesClose
  <2> QED BY <1>2, <2>1, <2>2 DEF ReportOK
<1> QED BY <1>1, <1>2

\* max_idx is a count.
LEMMA MaxIdxType == RunOK => max_idx(args) \in Nat
<1> SUFFICES ASSUME RunOK PROVE max_idx(args) \in Nat
  OBVIOUS
<1>1. Uint32 \in Nat \ {0}
  BY SizesAssumption
<1>2. args.round \in Nat /\ args.order_per_round \in Nat
  BY <1>1 DEF RunOK
<1>3. args.round * args.order_per_round \in Nat
  BY <1>2
<1> QED BY <1>1, <1>3 DEF max_idx

\* Each program keeps the invariant.
LEMMA InvStep == IInv /\ [Next]_vars => IInv'
<1> SUFFICES ASSUME IInv, [Next]_vars PROVE IInv'
  OBVIOUS
<1>1. FilesOK /\ RunOK /\ ReportOK
  BY DEF IInv
<1>2. NoArgs \in [round : 0..(Uint32 - 1), order_per_round : 0..(Uint32 - 1)]
  <2>1. Uint32 \in Nat \ {0}
    BY SizesAssumption
  <2> QED BY <2>1 DEF NoArgs
<1>3. ASSUME NEW start \in Starts, NEW left \in [0..(Num - 1) -> Leftover],
             GenNumbers(start, left)
      PROVE  IInv'
  <2>1. ended' = "ok" /\ UNCHANGED <<has_orders, client, args, elapsed, printed>>
    BY <1>3 DEF GenNumbers, clientVars
  <2>2. FilesOK'
    BY <1>3, GenNumbersFiles
  <2>3. RunOK'
    BY <1>1, <2>1 DEF RunOK
  <2> QED BY <1>1, <2>1, <2>2, <2>3, InvKept DEF IInv
<1>4. CASE GenOrders \/ GenOrdersNoNumbers \/ GenOrdersEmpty \/ GenOrdersWithNumber
  <2>1. /\ UNCHANGED genVars /\ UNCHANGED <<client, args, elapsed, printed>>
        /\ ended' \in {"ok", "failed", "trapped"}
        /\ has_orders' \in {TRUE, has_orders}
    BY <1>4 DEF GenOrders, GenOrdersNoNumbers, GenOrdersEmpty, GenOrdersWithNumber,
                clientVars
  <2>2. RunOK'
    BY <1>1, <2>1 DEF RunOK
  <2> QED BY <1>1, <2>1, <2>2, InvKept DEF IInv
<1>5. ASSUME NEW a \in [round : Rounds, order_per_round : PerRound], ClientStart(a)
      PROVE  IInv'
  <2>1. UNCHANGED genVars /\ UNCHANGED has_orders
    BY <1>5 DEF ClientStart
  <2>2. a \in [round : 0..(Uint32 - 1), order_per_round : 0..(Uint32 - 1)]
    <3>1. Rounds \subseteq 0..(Uint32 - 1) /\ PerRound \subseteq 0..(Uint32 - 1)
      BY SizesAssumption
    <3> QED BY <3>1
  <2>3. CASE /\ client' = "running" /\ args' = a
             /\ elapsed' = <<>> /\ printed' = <<>> /\ UNCHANGED ended
    <3>1. RunOK'
      BY <1>1, <2>1, <2>2, <2>3 DEF RunOK
    <3>2. ReportOK'
      <4>1. <<>> \in Seq(Delays \cup {0}) /\ DOMAIN <<>> = {}
        BY EmptySeq
      <4> QED BY <2>3, <4>1 DEF ReportOK, PercentilesClose
    <3> QED BY <1>1, <2>1, <3>1, <3>2, InvKept DEF IInv
  <2>4. CASE ended' = "failed" /\ UNCHANGED clientVars
    <3>1. UNCHANGED <<client, args, elapsed, printed>>
      BY <2>4 DEF clientVars
    <3>2. RunOK'
      BY <1>1, <2>1, <2>4, <3>1 DEF RunOK
    <3> QED BY <1>1, <2>1, <3>1, <3>2, InvKept DEF IInv
  <2> QED BY <1>5, <2>3, <2>4 DEF ClientStart
<1>6. ASSUME max_idx(args) > 0,
             NEW answered \in SUBSET (0..(max_idx(args) - 1)),
             NEW delay \in [answered -> Delays], ClientReport(answered, delay)
      PROVE  IInv'
  <2>1. /\ UNCHANGED genVars /\ UNCHANGED has_orders
        /\ client' = "none" /\ args' = NoArgs /\ ended' = "ok"
    BY <1>6 DEF ClientReport
  <2>2. max_idx(args) \in Nat \ {0}
    BY <1>1, <1>6, MaxIdxType
  <2>3. ReportOK'
    BY <1>6, <2>2, ReportStep
  <2>4. RunOK'
    BY <1>1, <1>2, <2>1 DEF RunOK
  <2> QED BY <1>1, <2>1, <2>3, <2>4, InvKept DEF IInv
<1>7. CASE ClientReportNothing
  <2>1. /\ UNCHANGED genVars /\ UNCHANGED <<has_orders, elapsed, printed>>
        /\ client' = "none" /\ args' = NoArgs /\ ended' \in {"ok", "trapped"}
    BY <1>7 DEF ClientReportNothing, genVars
  <2>2. RunOK'
    BY <1>1, <1>2, <2>1 DEF RunOK
  <2> QED BY <1>1, <2>1, <2>2, InvKept DEF IInv
<1>8. CASE UNCHANGED vars
  <2>1. UNCHANGED genVars /\ UNCHANGED <<has_orders, ended, client, args, elapsed, printed>>
    BY <1>8 DEF vars, genVars
  <2>2. RunOK'
    BY <1>1, <2>1 DEF RunOK
  <2> QED BY <1>1, <2>1, <2>2, InvKept DEF IInv
<1> QED BY <1>3, <1>4, <1>5, <1>6, <1>7, <1>8 DEF Next

(* The invariant holds of every sequence of program runs: what gen_numbers    *)
(* and the client have left is right whatever was run in between.            *)
THEOREM InvAlways == Spec => []IInv
BY InvInit, InvStep, PTL DEF Spec

(* The files, the arguments and the report stay what the programs take them  *)
(* for, whatever order they are run in.                                      *)
THEOREM WorkloadTypeCorrect == Spec => []TypeOK
<1>1. IInv => TypeOK
  BY DEF IInv, FilesOK, RunOK, ReportOK, TypeOK
<1> QED BY <1>1, InvAlways, PTL

(* prime_cal_cnt.txt always says "yes" to every prime that was looked at:    *)
(* what is_prime (gen_numbers/main.c) does wrong never loses one.            *)
THEOREM PrimesKeptAlways == Spec => []PrimesKept
<1>1. IInv => PrimesKept
  BY DEF IInv, FilesOK, PrimesMarked, PrimesKept
<1> QED BY <1>1, InvAlways, PTL

(* And it says "yes" to the squares of primes 6k - 1 and the products of     *)
(* such a prime with its twin, and to no other composite: the files is_prime *)
(* leaves are wrong at exactly these numbers.                                *)
THEOREM PrimesMarkedAlways == Spec => []PrimesMarked
<1>1. IInv => PrimesMarked
  BY DEF IInv, FilesOK
<1> QED BY <1>1, InvAlways, PTL

(* From zeroed memory, numbers.bin holds the numbers within Margin of the    *)
(* largest count and no other, or nothing if the subtraction wraps.          *)
THEOREM CostlyNumbersAlways == Spec => []CostlyNumbersOnly
<1>1. IInv => CostlyNumbersOnly
  BY DEF IInv, FilesOK
<1> QED BY <1>1, InvAlways, PTL

(* The lines of the client's report are as close to the percentiles they     *)
(* name as PercentilesClose says, for every number of orders and of lines.   *)
THEOREM PercentilesAlwaysClose == Spec => []PercentilesClose
<1>1. IInv => PercentilesClose
  BY DEF IInv, ReportOK
<1> QED BY <1>1, InvAlways, PTL

=============================================================================
