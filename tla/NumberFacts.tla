----------------------------- MODULE NumberFacts -----------------------------
(***************************************************************************)
(* Facts about numbers that the proofs share: division with remainder, for *)
(* wrapping sequence numbers and clocks; the least element of a set of     *)
(* naturals, and from it induction and recursion over an interval, stated  *)
(* with sets and functions where the library has operators.                *)
(***************************************************************************)
EXTENDS Integers, WellFoundedInduction, TLAPS

\* A remainder is smaller than its modulus.
LEMMA ModRange ==
    ASSUME NEW a \in Int, NEW m \in Nat, m > 0
    PROVE  a % m \in 0 .. m - 1
OBVIOUS

\* Division with remainder.
LEMMA ModDecompose ==
    ASSUME NEW a \in Int, NEW m \in Nat, m > 0
    PROVE  \E q \in Int : a = q * m + (a % m)
<1>1. a = m * (a \div m) + (a % m)
  OBVIOUS
<1>2. a \div m \in Int
  OBVIOUS
<1>3. m * (a \div m) = (a \div m) * m
  BY <1>2
<1> QED BY <1>1, <1>2, <1>3

\* The remainder is unique.
LEMMA ModUnique ==
    ASSUME NEW m \in Nat, m > 0, NEW q \in Int, NEW r \in 0 .. m - 1
    PROVE  (q * m + r) % m = r
OBVIOUS

\* Adding a multiple of the modulus does not change the remainder.
LEMMA ModShift ==
    ASSUME NEW m \in Nat, m > 0, NEW q \in Int, NEW a \in Int
    PROVE  (q * m + a) % m = a % m
<1>1. PICK p \in Int : a = p * m + (a % m)
  BY ModDecompose
<1>2. a % m \in 0 .. m - 1
  BY ModRange
<1>3. q * m + a = (q + p) * m + (a % m)
  BY <1>1, <1>2
<1>4. q + p \in Int
  OBVIOUS
<1>5. ((q + p) * m + (a % m)) % m = a % m
  BY <1>2, <1>4, ModUnique
<1> QED BY <1>3, <1>5

\* A remainder may be taken before a subtraction.
LEMMA ModMinus ==
    ASSUME NEW a \in Int, NEW b \in Int, NEW m \in Nat, m > 0
    PROVE  /\ ((a % m) - b) % m = (a - b) % m
           /\ (a - (b % m)) % m = (a - b) % m
<1>1. PICK q \in Int : a = q * m + (a % m)
  BY ModDecompose
<1>2. PICK p \in Int : b = p * m + (b % m)
  BY ModDecompose
<1>3. a % m \in Int /\ b % m \in Int
  BY ModRange
<1>4. (a - b) % m = ((a % m) - b) % m
  <2>1. a - b = q * m + ((a % m) - b)
    BY <1>1, <1>3
  <2>2. (q * m + ((a % m) - b)) % m = ((a % m) - b) % m
    <3> DEFINE x == (a % m) - b
    <3>1. x \in Int
      BY <1>3
    <3> HIDE DEF x
    <3>2. (q * m + x) % m = x % m
      BY <3>1, ModShift
    <3> QED BY <3>2 DEF x
  <2> QED BY <2>1, <2>2
<1>5. (a - (b % m)) % m = (a - b) % m
  <2>1. a - (b % m) = p * m + (a - b)
    BY <1>2, <1>3
  <2>2. (p * m + (a - b)) % m = (a - b) % m
    <3> DEFINE x == a - b
    <3>1. x \in Int
      OBVIOUS
    <3> HIDE DEF x
    <3>2. (p * m + x) % m = x % m
      BY <3>1, ModShift
    <3> QED BY <3>2 DEF x
  <2> QED BY <2>1, <2>2
<1> QED BY <1>4, <1>5

\* A number in range is its own remainder.
LEMMA ModSmall ==
    ASSUME NEW m \in Nat, m > 0, NEW r \in 0 .. m - 1
    PROVE  r % m = r
<1>1. (0 * m + r) % m = r
  BY ModUnique
<1> QED BY <1>1

\* The natural numbers are well ordered.
LEMMA LeastNumber ==
    ASSUME NEW S \in SUBSET Nat, S # {}
    PROVE  \E n \in S : \A m \in S : n <= m
<1> DEFINE R == OpToRel(<, Nat)
<1>1. IsWellFoundedOn(R, Nat)
  BY NatLessThanWellFounded
<1>2. \A x, y \in Nat : x < y => <<x, y>> \in R
  BY DEF OpToRel
<1> HIDE DEF R
<1>3. PICK n \in S : \A m \in S : ~(<<m, n>> \in R)
  BY <1>1, WFMin
<1>4. ASSUME NEW m \in S PROVE n <= m
  <2>1. m \in Nat /\ n \in Nat
    OBVIOUS
  <2>2. ~(m < n)
    BY <1>2, <1>3, <2>1
  <2> QED BY <2>1, <2>2
<1> QED BY <1>4

\* Induction over an interval, of a set that holds the numbers of which the fact is true.
LEMMA IntervalInduction ==
    ASSUME NEW n \in Nat, NEW S, 0 \in S, \A k \in 1..n : k - 1 \in S => k \in S
    PROVE  0..n \subseteq S
<1> DEFINE bad == {k \in Nat : k <= n /\ k \notin S}
<1>1. bad \in SUBSET Nat
  OBVIOUS
<1>2. CASE bad # {}
  <2> HIDE DEF bad
  <2>1. PICK m \in bad : \A k \in bad : m <= k
    BY <1>1, <1>2, LeastNumber
  <2>2. m \in Nat /\ m <= n /\ m \notin S
    BY <2>1 DEF bad
  <2>3. m # 0
    BY <2>2
  <2>4. m - 1 \in Nat /\ m - 1 <= n /\ ~(m <= m - 1) /\ m \in 1..n
    BY <2>2, <2>3
  <2>5. m - 1 \notin bad
    BY <2>1, <2>4
  <2>6. m - 1 \in S
    BY <2>4, <2>5 DEF bad
  <2> QED BY <2>2, <2>4, <2>6
<1>3. CASE bad = {}
  BY <1>3
<1> QED BY <1>2, <1>3

\* What a function that is defined by recursion over an interval must satisfy.
Recursion(f, n, base, step) ==
    f[0] = base /\ \A k \in 1..n : f[k] = step[<<k, f[k - 1]>>]

\* A function defined by recursion over an interval exists, and has the type its step keeps.
LEMMA RecursionExists ==
    ASSUME NEW n \in Nat, NEW A, NEW base \in A, NEW step \in [(1..n) \X A -> A]
    PROVE  \E f \in [0..n -> A] : Recursion(f, n, base, step)
<1> DEFINE S == {k \in Nat : k <= n => \E f \in [0..k -> A] : Recursion(f, k, base, step)}
<1>1. 0 \in S
  <2> DEFINE f == [k \in 0..0 |-> base]
  <2>1. f \in [0..0 -> A] /\ Recursion(f, 0, base, step)
    BY DEF Recursion
  <2> QED BY <2>1
<1>2. ASSUME NEW k \in 1..n, k - 1 \in S PROVE k \in S
  <2>1. k - 1 <= n /\ k \in Nat /\ k - 1 \in Nat
    OBVIOUS
  <2>2. PICK f \in [0..(k - 1) -> A] : Recursion(f, k - 1, base, step)
    BY <1>2, <2>1
  <2> DEFINE g == [i \in 0..k |-> IF i = k THEN step[<<k, f[k - 1]>>] ELSE f[i]]
  <2>3. f[k - 1] \in A
    OBVIOUS
  <2>4. step[<<k, f[k - 1]>>] \in A
    BY <2>3
  <2>5. \A i \in 0..k : g[i] = IF i = k THEN step[<<k, f[k - 1]>>] ELSE f[i]
    OBVIOUS
  <2>6. g \in [0..k -> A]
    BY <2>4
  <2> HIDE DEF g
  <2>7. g[0] = base
    BY <2>2, <2>5 DEF Recursion
  <2>8. ASSUME NEW i \in 1..k PROVE g[i] = step[<<i, g[i - 1]>>]
    <3>1. g[i - 1] = f[i - 1]
      BY <2>5
    <3>2. CASE i = k
      BY <2>5, <3>1, <3>2
    <3>3. CASE i # k
      <4>1. i \in 1..(k - 1) /\ i \in 0..k
        BY <3>3
      <4>2. g[i] = f[i]
        BY <2>5, <3>3, <4>1
      <4> QED BY <2>2, <3>1, <4>1, <4>2 DEF Recursion
    <3> QED BY <3>2, <3>3
  <2>9. Recursion(g, k, base, step)
    BY <2>7, <2>8 DEF Recursion
  <2> QED BY <2>1, <2>6, <2>9
<1> HIDE DEF S
<1>3. 0..n \subseteq S
  BY <1>1, <1>2, IntervalInduction
<1>4. n \in S
  BY <1>3
<1> QED BY <1>4 DEF S

\* Of a set of naturals with two weights one comes first, in the order of the first weight,
\* then of the second, then of the numbers.
LEMMA FirstOf ==
    ASSUME NEW S \in SUBSET Nat, S # {}, NEW f \in [S -> Nat], NEW g \in [S -> Nat]
    PROVE  \E n \in S : \A m \in S \ {n} :
              \/ f[n] < f[m]
              \/ f[n] = f[m] /\ (g[n] < g[m] \/ (g[n] = g[m] /\ n < m))
<1> DEFINE F == {f[n] : n \in S}
<1>1. F \in SUBSET Nat /\ F # {}
  OBVIOUS
<1>2. PICK x \in F : \A y \in F : x <= y
  BY <1>1, LeastNumber
<1> DEFINE T == {n \in S : f[n] = x}
           G == {g[n] : n \in T}
<1>3. G \in SUBSET Nat /\ G # {}
  BY <1>2
<1>4. PICK y \in G : \A z \in G : y <= z
  BY <1>3, LeastNumber
<1> DEFINE U == {n \in T : g[n] = y}
<1>5. U \in SUBSET Nat /\ U # {}
  BY <1>4
<1>6. PICK n \in U : \A m \in U : n <= m
  BY <1>5, LeastNumber
<1>7. n \in S /\ f[n] = x /\ g[n] = y /\ n \in Nat
  BY <1>6
<1>8. ASSUME NEW m \in S \ {n}
      PROVE  \/ f[n] < f[m]
             \/ f[n] = f[m] /\ (g[n] < g[m] \/ (g[n] = g[m] /\ n < m))
  <2>1. x <= f[m]
    BY <1>2
  <2>2. f[m] \in Nat /\ g[m] \in Nat /\ m \in Nat /\ x \in Nat /\ y \in Nat
    BY <1>1, <1>2, <1>3, <1>4
  <2>3. f[m] = x => y <= g[m]
    BY <1>4
  <2>4. f[m] = x /\ g[m] = y => n <= m
    BY <1>6
  <2>5. n # m
    OBVIOUS
  <2> QED BY <1>7, <2>1, <2>2, <2>3, <2>4, <2>5
<1> QED BY <1>7, <1>8
=============================================================================
