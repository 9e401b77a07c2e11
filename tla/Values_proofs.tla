---------------------------- MODULE Values_proofs ----------------------------
(****************************************************************************)
(* Proofs about the operators of Channels and SensorReports: the machine's   *)
(* integers, the layout and order of channels, the decoding of a value, and  *)
(* what the drivers make of a report.  The induction over data that they     *)
(* need is by the least counterexample: the natural numbers are well-        *)
(* founded, a fact about sets.                                               *)
(****************************************************************************)
EXTENDS SensorReports, WellFoundedInduction, FiniteSetTheorems, SequenceTheorems, TLAPS

-----------------------------------------------------------------------------
\* Induction and recursion.

LEMMA Least ==
    ASSUME NEW T \in SUBSET Nat, T # {}
    PROVE  \E n \in T : \A m \in T : n <= m
<1> DEFINE R == {ss \in Nat \X Nat : ss[1] < ss[2]}
<1>1. IsWellFoundedOn(R, Nat)  BY NatLessThanWellFounded DEF OpToRel
<1>2. \A m, n \in Nat : <<m, n>> \in R <=> m < n
  OBVIOUS
<1> HIDE DEF R
<1>3. PICK n \in T : \A m \in T : ~ (<<m, n>> \in R)  BY <1>1, WFMin
<1>4. ASSUME NEW m \in T  PROVE  n <= m
  <2>1. ~ (m < n)  BY <1>2, <1>3
  <2> QED  BY <2>1
<1> QED  BY <1>4

\* A set of numbers that has 0 and with each number the next one has all.
LEMMA Induction ==
    ASSUME NEW G \in SUBSET Nat, 0 \in G, \A k \in G : k + 1 \in G
    PROVE  G = Nat
<1> SUFFICES ASSUME Nat \ G # {}  PROVE  FALSE
  OBVIOUS
<1>1. PICK n \in Nat \ G : \A m \in Nat \ G : n <= m
  <2>1. Nat \ G \in SUBSET Nat
    OBVIOUS
  <2> QED  BY <2>1, Least
<1>2. n - 1 \in Nat
  BY <1>1
<1>3. n - 1 \in G
  BY <1>1, <1>2
<1>4. (n - 1) + 1 = n
  BY <1>1
<1> QED  BY <1>1, <1>3, <1>4

\* f is what recursion from b by step makes of 0..n, and of all numbers.
Recurs(f, n, S, b, step) ==
    /\ f \in [0..n -> S]
    /\ f[0] = b
    /\ \A i \in 1..n : f[i] = step[<<i, f[i - 1]>>]

RecursOverNat(f, S, b, step) ==
    /\ f \in [Nat -> S]
    /\ f[0] = b
    /\ \A i \in Nat \ {0} : f[i] = step[<<i, f[i - 1]>>]

LEMMA Recursion ==
    ASSUME NEW n \in Nat, NEW S, NEW b \in S, NEW step,
           \A i \in 1..n, v \in S : step[<<i, v>>] \in S
    PROVE  \E f : Recurs(f, n, S, b, step)
<1> DEFINE G == {k \in Nat : k <= n => \E f : Recurs(f, k, S, b, step)}
<1>1. 0 \in G
  <2>1. Recurs([i \in 0..0 |-> b], 0, S, b, step)
    BY DEF Recurs
  <2> QED  BY <2>1
<1>2. ASSUME NEW k \in G  PROVE  k + 1 \in G
  <2> SUFFICES ASSUME k + 1 <= n  PROVE  \E f : Recurs(f, k + 1, S, b, step)
    BY <1>2
  <2>1. PICK f : Recurs(f, k, S, b, step)
    BY <1>2
  <2> DEFINE g == [i \in 0..(k + 1) |->
                      IF i <= k THEN f[i] ELSE step[<<k + 1, f[k]>>]]
  <2>2. f[k] \in S /\ k + 1 \in 1..n
    BY <2>1 DEF Recurs
  <2>3. step[<<k + 1, f[k]>>] \in S
    BY <2>2
  <2>4. g \in [0..(k + 1) -> S]
    BY <2>1, <2>3 DEF Recurs
  <2>5. g[0] = b
    BY <2>1 DEF Recurs
  <2>6. ASSUME NEW i \in 1..(k + 1)  PROVE  g[i] = step[<<i, g[i - 1]>>]
    <3>1. CASE i <= k
      <4>1. g[i] = f[i] /\ g[i - 1] = f[i - 1]
        BY <3>1
      <4> QED  BY <2>1, <3>1, <4>1 DEF Recurs
    <3>2. CASE i = k + 1
      <4>1. g[i] = step[<<k + 1, f[k]>>] /\ g[i - 1] = f[k]
        BY <3>2
      <4> QED  BY <3>2, <4>1
    <3> QED  BY <3>1, <3>2
  <2> HIDE DEF g
  <2>7. Recurs(g, k + 1, S, b, step)
    BY <2>4, <2>5, <2>6 DEF Recurs
  <2> QED  BY <2>7
<1>3. G = Nat
  <2> HIDE DEF G
  <2>1. G \subseteq Nat  BY DEF G
  <2> QED  BY <1>1, <1>2, <2>1, Induction
<1> QED  BY <1>3

\* There is one only.
LEMMA RecursionUnique ==
    ASSUME NEW n \in Nat, NEW S, NEW b, NEW step, NEW f, NEW g, NEW m \in Nat, n <= m,
           Recurs(f, n, S, b, step), Recurs(g, m, S, b, step)
    PROVE  \A k \in 0..n : f[k] = g[k]
<1> DEFINE G == {k \in Nat : k <= n => f[k] = g[k]}
<1>1. 0 \in G
  BY DEF Recurs
<1>2. ASSUME NEW k \in G  PROVE  k + 1 \in G
  <2> SUFFICES ASSUME k + 1 <= n  PROVE  f[k + 1] = g[k + 1]
    OBVIOUS
  <2>1. k + 1 \in 1..n /\ k + 1 \in 1..m /\ (k + 1) - 1 = k
    OBVIOUS
  <2>2. f[k + 1] = step[<<k + 1, f[k]>>] /\ g[k + 1] = step[<<k + 1, g[k]>>]
    BY <2>1 DEF Recurs
  <2> QED  BY <2>2
<1>3. G = Nat
  <2> HIDE DEF G
  <2>1. G \subseteq Nat  BY DEF G
  <2> QED  BY <1>1, <1>2, <2>1, Induction
<1> QED  BY <1>3

LEMMA RecursionOverNat ==
    ASSUME NEW S, NEW b \in S, NEW step \in [Nat \X S -> S]
    PROVE  \E f : RecursOverNat(f, S, b, step)
<1> DEFINE F == [n \in Nat |-> CHOOSE f : Recurs(f, n, S, b, step)]
           g == [n \in Nat |-> F[n][n]]
<1>1. ASSUME NEW n \in Nat  PROVE  \E f : Recurs(f, n, S, b, step)
  <2>1. \A i \in 1..n, v \in S : step[<<i, v>>] \in S
    OBVIOUS
  <2> QED  BY <2>1, Recursion
<1>2. ASSUME NEW n \in Nat  PROVE  Recurs(F[n], n, S, b, step)
  <2>1. F[n] = CHOOSE f : Recurs(f, n, S, b, step)
    OBVIOUS
  <2> HIDE DEF F
  <2> QED  BY <1>1, <2>1
<1> HIDE DEF F
<1>3. ASSUME NEW n \in Nat  PROVE  F[n + 1][n] = F[n][n]
  <2>1. n + 1 \in Nat /\ n <= n + 1 /\ n \in 0..n
    OBVIOUS
  <2>2. Recurs(F[n], n, S, b, step) /\ Recurs(F[n + 1], n + 1, S, b, step)
    BY <1>2, <2>1
  <2> QED  BY <2>1, <2>2, RecursionUnique
<1>4. g \in [Nat -> S] /\ g[0] = b
  BY <1>2 DEF Recurs
<1>5. ASSUME NEW i \in Nat \ {0}  PROVE  g[i] = step[<<i, g[i - 1]>>]
  <2>1. i - 1 \in Nat /\ (i - 1) + 1 = i /\ i \in 1..i
    OBVIOUS
  <2>2. F[i][i] = step[<<i, F[i][i - 1]>>]
    BY <1>2, <2>1 DEF Recurs
  <2>3. F[i][i - 1] = F[i - 1][i - 1]
    <3>1. F[(i - 1) + 1][i - 1] = F[i - 1][i - 1]
      BY <1>3, <2>1
    <3> QED  BY <2>1, <3>1
  <2> QED  BY <2>1, <2>2, <2>3
<1> HIDE DEF g
<1> QED  BY <1>4, <1>5 DEF RecursOverNat

-----------------------------------------------------------------------------
\* Powers of two.

LEMMA Pow2Def ==
    /\ Pow2 \in [Nat -> Nat]
    /\ Pow2[0] = 1
    /\ \A n \in Nat : Pow2[n + 1] = 2 * Pow2[n]
<1> DEFINE step == [p \in Nat \X Nat |-> 2 * p[2]]
<1>1. step \in [Nat \X Nat -> Nat]
  OBVIOUS
<1>2. \A i, v \in Nat : step[<<i, v>>] = 2 * v
  OBVIOUS
<1> HIDE DEF step
<1>3. PICK f : RecursOverNat(f, Nat, 1, step)
  <2>1. 1 \in Nat
    OBVIOUS
  <2> QED  BY <1>1, <2>1, RecursionOverNat
<1>4. ASSUME NEW i \in Nat  PROVE  f[i] = IF i = 0 THEN 1 ELSE 2 * f[i - 1]
  <2>1. CASE i = 0
    BY <1>3, <2>1 DEF RecursOverNat
  <2>2. CASE i # 0
    <3>1. i - 1 \in Nat /\ i \in Nat \ {0} /\ f[i - 1] \in Nat
      BY <1>3, <2>2 DEF RecursOverNat
    <3>2. f[i] = step[<<i, f[i - 1]>>]
      BY <1>3, <3>1 DEF RecursOverNat
    <3> QED  BY <1>2, <2>2, <3>1, <3>2
  <2> QED  BY <2>1, <2>2
<1>5. f = [i \in Nat |-> IF i = 0 THEN 1 ELSE 2 * f[i - 1]]
  <2>1. f = [i \in Nat |-> f[i]]
    BY <1>3 DEF RecursOverNat
  <2> QED  BY <1>4, <2>1
<1>6. Pow2 = [i \in Nat |-> IF i = 0 THEN 1 ELSE 2 * Pow2[i - 1]]
  <2>1. \E h : h = [i \in Nat |-> IF i = 0 THEN 1 ELSE 2 * h[i - 1]]
    BY <1>5
  <2> QED  BY <2>1, Zenon DEF Pow2
<1>7. Pow2[0] = 1
  BY <1>6
<1>8. \A n \in Nat : Pow2[n + 1] = 2 * Pow2[n]
  <2> TAKE n \in Nat
  <2>1. n + 1 \in Nat /\ n + 1 # 0 /\ (n + 1) - 1 = n
    OBVIOUS
  <2> QED  BY <1>6, <2>1
<1>9. \A n \in Nat : Pow2[n] \in Nat
  <2> DEFINE G == {n \in Nat : Pow2[n] \in Nat}
  <2>1. 0 \in G
    BY <1>7
  <2>2. \A k \in G : k + 1 \in G
    BY <1>8
  <2>3. G = Nat
    <3> HIDE DEF G
    <3>1. G \subseteq Nat  BY DEF G
    <3> QED  BY <2>1, <2>2, <3>1, Induction
  <2> QED  BY <2>3
<1>10. Pow2 \in [Nat -> Nat]
  <2>1. DOMAIN Pow2 = Nat /\ Pow2 = [i \in Nat |-> Pow2[i]]
    BY <1>6
  <2> QED  BY <1>9, <2>1
<1> QED  BY <1>7, <1>8, <1>10

LEMMA Pow2Positive == \A n \in Nat : Pow2[n] \in Nat \ {0}
<1> DEFINE G == {n \in Nat : Pow2[n] # 0}
<1>1. 0 \in G
  BY Pow2Def
<1>2. \A k \in G : k + 1 \in G
  BY Pow2Def
<1>3. G = Nat
  <2> HIDE DEF G
  <2>1. G \subseteq Nat  BY DEF G
  <2> QED  BY <1>1, <1>2, <2>1, Induction
<1> QED  BY <1>3, Pow2Def

LEMMA Pow2Sum == \A m, n \in Nat : Pow2[m + n] = Pow2[m] * Pow2[n]
<1> SUFFICES ASSUME NEW m \in Nat  PROVE  \A n \in Nat : Pow2[m + n] = Pow2[m] * Pow2[n]
  OBVIOUS
<1> DEFINE G == {n \in Nat : Pow2[m + n] = Pow2[m] * Pow2[n]}
<1>1. 0 \in G
  BY Pow2Def
<1>2. ASSUME NEW k \in G  PROVE  k + 1 \in G
  <2>1. Pow2[(m + k) + 1] = 2 * Pow2[m + k] /\ Pow2[k + 1] = 2 * Pow2[k]
    BY Pow2Def
  <2>2. Pow2[m] \in Nat /\ Pow2[k] \in Nat
    BY Pow2Def
  <2>3. 2 * (Pow2[m] * Pow2[k]) = Pow2[m] * (2 * Pow2[k])
    BY <2>2
  <2>4. (m + k) + 1 = m + (k + 1)
    OBVIOUS
  <2> QED  BY <2>1, <2>3, <2>4
<1>3. G = Nat
  <2> HIDE DEF G
  <2>1. G \subseteq Nat  BY DEF G
  <2> QED  BY <1>1, <1>2, <2>1, Induction
<1> QED  BY <1>3

LEMMA Pow2Grows == \A m, n \in Nat : m <= n => Pow2[m] <= Pow2[n]
<1> SUFFICES ASSUME NEW m \in Nat, NEW n \in Nat, m <= n  PROVE  Pow2[m] <= Pow2[n]
  OBVIOUS
<1>1. n - m \in Nat /\ n = m + (n - m)
  OBVIOUS
<1>2. Pow2[n] = Pow2[m] * Pow2[n - m]
  BY <1>1, Pow2Sum
<1> DEFINE a == Pow2[m]  b == Pow2[n - m]
<1>3. a \in Nat \ {0} /\ b \in Nat \ {0}
  BY <1>1, Pow2Positive
<1> HIDE DEF a, b
<1>4. a <= a * b
  BY <1>3
<1> QED  BY <1>2, <1>4 DEF a, b

-----------------------------------------------------------------------------
\* Division.

LEMMA DivMod ==
    ASSUME NEW v \in Int, NEW d \in Nat \ {0}
    PROVE  /\ v \div d \in Int /\ v % d \in 0..(d - 1) /\ v % d \in Nat
           /\ v = d * (v \div d) + (v % d)
<1>1. v = d * (v \div d) + (v % d)
  OBVIOUS
<1>2. v % d \in 0..(d - 1)
  OBVIOUS
<1>3. v \div d \in Int
  OBVIOUS
<1> QED  BY <1>1, <1>2, <1>3

LEMMA DivUnique ==
    ASSUME NEW v \in Int, NEW d \in Nat \ {0}, NEW q \in Int, NEW r \in 0..(d - 1),
           v = d * q + r
    PROVE  v \div d = q /\ v % d = r
<1> DEFINE p == v \div d  s == v % d
<1>1. p \in Int /\ s \in 0..(d - 1) /\ v = d * p + s
  BY DivMod
<1> HIDE DEF p, s
<1>2. d * (p - q) = r - s
  BY <1>1
<1>3. CASE p - q >= 1
  <2>1. d * (p - q) >= d
    BY <1>1, <1>3
  <2> QED  BY <1>1, <1>2, <2>1
<1>4. CASE p - q <= -1
  <2>1. d * (q - p) >= d
    BY <1>1, <1>4
  <2>2. d * (q - p) = -(d * (p - q))
    BY <1>1
  <2> QED  BY <1>1, <1>2, <2>1, <2>2
<1>5. CASE p = q
  BY <1>1, <1>2, <1>5 DEF p, s
<1> QED  BY <1>1, <1>3, <1>4, <1>5

LEMMA ModSmall ==
    ASSUME NEW d \in Nat \ {0}, NEW v \in 0..(d - 1)
    PROVE  v % d = v /\ v \div d = 0
<1>1. v = d * 0 + v
  OBVIOUS
<1> QED  BY <1>1, DivUnique

LEMMA ModPlus ==
    ASSUME NEW v \in Int, NEW d \in Nat \ {0}, NEW k \in Int
    PROVE  (v + d * k) % d = v % d /\ (v + d * k) \div d = (v \div d) + k
<1> DEFINE p == v \div d  s == v % d
<1>1. p \in Int /\ s \in 0..(d - 1) /\ v = d * p + s
  BY DivMod
<1> HIDE DEF p, s
<1>2. d * (p + k) = d * p + d * k
  BY <1>1
<1>3. v + d * k = d * (p + k) + s /\ v + d * k \in Int /\ p + k \in Int
  BY <1>1, <1>2
<1>4. (v + d * k) \div d = p + k /\ (v + d * k) % d = s
  BY <1>1, <1>3, DivUnique
<1> QED  BY <1>4 DEF p, s

\* Modulo a product, and division by one.
LEMMA ModProduct ==
    ASSUME NEW v \in Int, NEW a \in Nat \ {0}, NEW b \in Nat \ {0}
    PROVE  /\ (v % (a * b)) % a = v % a
           /\ (v % (a * b)) \div a = (v \div a) % b
           /\ v % (a * b) = a * ((v \div a) % b) + (v % a)
           /\ v \div (a * b) = (v \div a) \div b
<1> DEFINE q == v \div a  r == v % a  p == q \div b  s == q % b
<1>1. a * b \in Nat \ {0}
  OBVIOUS
<1>2. q \in Int /\ r \in 0..(a - 1) /\ v = a * q + r
  BY DivMod
<1>3. p \in Int /\ s \in 0..(b - 1) /\ q = b * p + s
  <2> HIDE DEF q
  <2> QED  BY <1>2, DivMod
<1> HIDE DEF q, r, p, s
<1>4. a * (b * p + s) = (a * b) * p + a * s
  BY <1>2, <1>3
<1>5. v = (a * b) * p + (a * s + r)
  BY <1>2, <1>3, <1>4
<1>6. a * s + r \in 0..(a * b - 1)
  <2>1. a * s <= a * (b - 1) /\ 0 <= a * s
    BY <1>3
  <2>2. a * (b - 1) = a * b - a
    OBVIOUS
  <2> QED  BY <1>2, <1>3, <2>1, <2>2
<1>7. v \div (a * b) = p /\ v % (a * b) = a * s + r
  <2> DEFINE d == a * b  t == a * s + r
  <2>1. d \in Nat \ {0} /\ t \in 0..(d - 1) /\ v = d * p + t
    BY <1>1, <1>5, <1>6
  <2> HIDE DEF d, t
  <2>2. v \div d = p /\ v % d = t
    BY <1>3, <2>1, DivUnique
  <2> QED  BY <2>2 DEF d, t
<1>8. (a * s + r) \div a = s /\ (a * s + r) % a = r
  <2>1. a * s + r \in Int /\ s \in Int
    BY <1>2, <1>3
  <2> DEFINE t == a * s + r
  <2>2. t \in Int /\ t = a * s + r
    BY <2>1
  <2> HIDE DEF t
  <2>3. t \div a = s /\ t % a = r
    BY <1>2, <2>1, <2>2, DivUnique
  <2> QED  BY <2>3 DEF t
<1> QED  BY <1>1, <1>7, <1>8 DEF q, r, p, s

\* Scaling both.
LEMMA ModScaled ==
    ASSUME NEW v \in Int, NEW d \in Nat \ {0}, NEW c \in Nat \ {0}
    PROVE  /\ (v * c) % (d * c) = (v % d) * c
           /\ (v * c) \div c = v
<1> DEFINE q == v \div d  r == v % d  e == d * c  t == r * c  w == v * c
<1>1. q \in Int /\ r \in 0..(d - 1) /\ v = d * q + r
  BY DivMod
<1> HIDE DEF q, r
<1>2. w = e * q + t /\ w \in Int
  BY <1>1
<1>3. e \in Nat \ {0}
  OBVIOUS
<1>4. t \in 0..(e - 1)
  <2>1. (d - 1) * c = d * c - c
    OBVIOUS
  <2>2. r * c <= (d - 1) * c /\ 0 <= r * c
    BY <1>1
  <2> QED  BY <1>1, <2>1, <2>2
<1>5. w = c * v + 0
  OBVIOUS
<1> HIDE DEF e, t, w
<1>6. w % e = t
  BY <1>1, <1>2, <1>3, <1>4, DivUnique
<1>7. w \div c = v
  <2>1. 0 \in 0..(c - 1)
    OBVIOUS
  <2> QED  BY <1>2, <1>5, <2>1, DivUnique
<1> QED  BY <1>2, <1>3, <1>6, <1>7 DEF e, t, w, r

-----------------------------------------------------------------------------
\* The machine's integers.

LEMMA Widths == ByteBits \in Nat \ {0} /\ WordBits \in Nat \ {0} /\ Byte \in Nat \ {0}
  BY ByteBitsAssumption, Pow2Positive DEF WordBits, Byte

LEMMA UnsignedType ==
    ASSUME NEW v \in Int, NEW n \in Nat
    PROVE  Unsigned(v, n) \in 0..(Pow2[n] - 1)
<1>1. Pow2[n] \in Nat \ {0}
  BY Pow2Positive
<1> QED  BY <1>1, DivMod DEF Unsigned

LEMMA UnsignedFits ==
    ASSUME NEW n \in Nat, NEW v \in 0..(Pow2[n] - 1)
    PROVE  Unsigned(v, n) = v
<1>1. Pow2[n] \in Nat \ {0}
  BY Pow2Positive
<1> QED  BY <1>1, ModSmall DEF Unsigned

\* Fewer bits of some bits.
LEMMA UnsignedUnsigned ==
    ASSUME NEW v \in Int, NEW n \in Nat, NEW m \in 0..n
    PROVE  Unsigned(Unsigned(v, n), m) = Unsigned(v, m)
<1>1. Pow2[m] \in Nat \ {0} /\ Pow2[n - m] \in Nat \ {0}
  BY Pow2Positive
<1>2. Pow2[n] = Pow2[m] * Pow2[n - m]
  <2>1. m \in Nat /\ n - m \in Nat /\ m + (n - m) = n
    OBVIOUS
  <2> QED  BY <2>1, Pow2Sum
<1> DEFINE a == Pow2[m]  b == Pow2[n - m]
<1>3. (v % (a * b)) % a = v % a
  <2>1. a \in Nat \ {0} /\ b \in Nat \ {0}
    BY <1>1
  <2> HIDE DEF a, b
  <2> QED  BY <2>1, ModProduct
<1> QED  BY <1>2, <1>3 DEF Unsigned

\* The signed number differs by a multiple of 2^n, so that the bits are the same.
LEMMA SignedBits ==
    ASSUME NEW v \in Int, NEW n \in Nat \ {0}
    PROVE  /\ Signed(v, n) \in Int
           /\ \E k \in Int : Signed(v, n) = v + Pow2[n] * k
           /\ \A m \in 0..n : Unsigned(Signed(v, n), m) = Unsigned(v, m)
<1> DEFINE d == Pow2[n]  q == v \div d  r == v % d
<1>1. d \in Nat \ {0}
  BY Pow2Positive
<1> HIDE DEF d
<1>2. q \in Int /\ r \in 0..(d - 1) /\ v = d * q + r
  BY <1>1, DivMod
<1>3. Signed(v, n) = r \/ Signed(v, n) = r - d
  BY DEF Signed, Unsigned, d
<1> HIDE DEF q, r
<1>4. \E k \in Int : Signed(v, n) = v + d * k
  <2>1. CASE Signed(v, n) = r
    <3>1. r = v + d * (-q) /\ -q \in Int
      BY <1>1, <1>2
    <3> QED  BY <2>1, <3>1
  <2>2. CASE Signed(v, n) = r - d
    <3>1. d * (-q - 1) = -(d * q) - d
      BY <1>1, <1>2
    <3>2. r - d = v + d * (-q - 1) /\ -q - 1 \in Int
      BY <1>1, <1>2, <3>1
    <3> QED  BY <2>2, <3>2
  <2> QED  BY <1>3, <2>1, <2>2
<1>5. ASSUME NEW m \in 0..n  PROVE  Unsigned(Signed(v, n), m) = Unsigned(v, m)
  <2>1. PICK k \in Int : Signed(v, n) = v + d * k
    BY <1>4
  <2> DEFINE a == Pow2[m]  b == Pow2[n - m]
  <2>2. a \in Nat \ {0} /\ b \in Nat \ {0}
    BY Pow2Positive
  <2>3. d = a * b
    <3>1. m \in Nat /\ n - m \in Nat /\ m + (n - m) = n
      OBVIOUS
    <3> QED  BY <3>1, Pow2Sum DEF d
  <2> HIDE DEF a, b
  <2>4. d * k = a * (b * k) /\ b * k \in Int
    BY <2>2, <2>3
  <2>5. (v + a * (b * k)) % a = v % a
    BY <2>2, <2>4, ModPlus
  <2> QED  BY <2>1, <2>4, <2>5 DEF Unsigned, a
<1>6. Signed(v, n) \in Int
  BY <1>1, <1>2, <1>3
<1> QED  BY <1>4, <1>5, <1>6 DEF d

\* Only the bits count.
LEMMA SignedOfBits ==
    ASSUME NEW v \in Int, NEW w \in Int, NEW n \in Nat \ {0}, Unsigned(v, n) = Unsigned(w, n)
    PROVE  Signed(v, n) = Signed(w, n)
  BY DEF Signed

-----------------------------------------------------------------------------
\* Functions defined by recursion.

\* Such a function, whatever else solves its equation, keeps to the set.
LEMMA RecursFrom ==
    ASSUME NEW n \in Nat, NEW S, NEW b \in S, NEW step,
           \A i \in 1..n, v \in S : step[<<i, v>>] \in S,
           NEW low, low = [i \in 0..n |-> low[i]], low[0] = b,
           \A i \in 1..n : low[i - 1] \in S => low[i] = step[<<i, low[i - 1]>>]
    PROVE  Recurs(low, n, S, b, step)
<1> DEFINE G == {k \in Nat : k <= n => low[k] \in S}
<1>1. 0 \in G
  OBVIOUS
<1>2. ASSUME NEW k \in G  PROVE  k + 1 \in G
  <2> SUFFICES ASSUME k + 1 <= n  PROVE  low[k + 1] \in S
    OBVIOUS
  <2>1. k + 1 \in 1..n /\ (k + 1) - 1 = k /\ low[k] \in S
    OBVIOUS
  <2>2. low[k + 1] = step[<<k + 1, low[k]>>]
    BY <2>1
  <2> QED  BY <2>1, <2>2
<1>3. G = Nat
  <2> HIDE DEF G
  <2>1. G \subseteq Nat  BY DEF G
  <2> QED  BY <1>1, <1>2, <2>1, Induction
<1>4. \A k \in 0..n : low[k] \in S
  <2> TAKE k \in 0..n
  <2>1. k \in G
    BY <1>3
  <2> QED  BY <2>1
<1>5. low \in [0..n -> S]
  BY <1>4
<1>6. \A i \in 1..n : low[i - 1] \in S
  BY <1>4
<1> QED  BY <1>5, <1>6 DEF Recurs

\* What the body of a definition by recursion gives.
LEMMA RecursEquation ==
    ASSUME NEW n \in Nat, NEW S, NEW b, NEW step, NEW f, Recurs(f, n, S, b, step)
    PROVE  /\ f = [i \in 0..n |-> IF i = 0 THEN b ELSE step[<<i, f[i - 1]>>]]
           /\ \A i \in 1..n : f[i - 1] \in S
<1>1. f = [i \in 0..n |-> f[i]]
  BY DEF Recurs
<1>2. \A i \in 0..n : f[i] = IF i = 0 THEN b ELSE step[<<i, f[i - 1]>>]
  <2> TAKE i \in 0..n
  <2>1. i # 0 => i \in 1..n
    OBVIOUS
  <2> QED  BY <2>1 DEF Recurs
<1>3. \A i \in 1..n : f[i - 1] \in S
  <2> TAKE i \in 1..n
  <2>1. i - 1 \in 0..n
    OBVIOUS
  <2> QED  BY <2>1 DEF Recurs
<1> QED  BY <1>1, <1>2, <1>3

-----------------------------------------------------------------------------
\* Numbers and their bytes.

Low(data, at, n) ==
    CHOOSE low : low = [k \in 0..n |->
                           IF k = 0 THEN 0
                           ELSE low[k - 1] + data[at + k] * Pow2[(k - 1) * ByteBits]]

NumberStep(data, at, n) ==
    [p \in (1..n) \X Int |-> p[2] + data[at + p[1]] * Pow2[(p[1] - 1) * ByteBits]]

\* n bytes of data from the offset at on.
HasBytes(data, at, n) == \A i \in 1..n : data[at + i] \in 0..(Byte - 1)

LEMMA LowRecurs ==
    ASSUME NEW data, NEW at \in Nat, NEW n \in Nat, HasBytes(data, at, n), NEW k \in 0..n
    PROVE  Recurs(Low(data, at, k), k, Int, 0, NumberStep(data, at, n))
<1> DEFINE step == NumberStep(data, at, n)
           low  == Low(data, at, k)
           body(h) == [i \in 0..k |->
                          IF i = 0 THEN 0
                          ELSE h[i - 1] + data[at + i] * Pow2[(i - 1) * ByteBits]]
<1>1. \A i \in 1..n : data[at + i] * Pow2[(i - 1) * ByteBits] \in Int
  <2> TAKE i \in 1..n
  <2>1. (i - 1) * ByteBits \in Nat
    BY Widths
  <2>2. data[at + i] \in Int /\ Pow2[(i - 1) * ByteBits] \in Int
    BY <2>1, Widths, Pow2Positive DEF HasBytes
  <2> QED  BY <2>2
<1>2. \A i \in 1..n, v \in Int :
         step[<<i, v>>] = v + data[at + i] * Pow2[(i - 1) * ByteBits]
  BY DEF NumberStep
<1> HIDE DEF step
<1>3. \A i \in 1..k, v \in Int : step[<<i, v>>] \in Int
  <2> TAKE i \in 1..k, v \in Int
  <2> DEFINE d == data[at + i] * Pow2[(i - 1) * ByteBits]
  <2>1. i \in 1..n
    OBVIOUS
  <2>2. d \in Int /\ step[<<i, v>>] = v + d
    BY <1>1, <1>2, <2>1
  <2> HIDE DEF d
  <2> QED  BY <2>2
<1>4. \E h : h = body(h)
  <2>1. k \in Nat /\ 0 \in Int
    OBVIOUS
  <2>2. \E f : Recurs(f, k, Int, 0, step)
    BY <1>3, <2>1, Recursion
  <2>3. PICK f : Recurs(f, k, Int, 0, step)
    BY <2>2
  <2>4. /\ f = [i \in 0..k |-> IF i = 0 THEN 0 ELSE step[<<i, f[i - 1]>>]]
        /\ \A i \in 1..k : f[i - 1] \in Int
    BY <2>3, RecursEquation
  <2>5. \A i \in 0..k : f[i] = IF i = 0 THEN 0
                               ELSE f[i - 1] + data[at + i] * Pow2[(i - 1) * ByteBits]
    <3> TAKE i \in 0..k
    <3>1. CASE i = 0
      BY <2>4, <3>1
    <3>2. CASE i # 0
      <4>1. i \in 1..k /\ i \in 1..n
        BY <3>2
      <4>2. f[i] = step[<<i, f[i - 1]>>]
        BY <2>3, <4>1 DEF Recurs
      <4> QED  BY <1>2, <2>4, <3>2, <4>1, <4>2
    <3> QED  BY <3>1, <3>2
  <2>6. f = [i \in 0..k |-> f[i]]
    BY <2>3 DEF Recurs
  <2>7. f = body(f)
    BY <2>5, <2>6
  <2> QED  BY <2>7
<1>5. low = body(low)
  <2>1. low = CHOOSE h : h = body(h)
    BY DEF Low
  <2> HIDE DEF body, low
  <2> QED  BY <1>4, <2>1
<1> HIDE DEF low
<1>6. low = [i \in 0..k |-> low[i]] /\ low[0] = 0
  BY <1>5
<1>7. ASSUME NEW i \in 1..k, low[i - 1] \in Int
      PROVE  low[i] = step[<<i, low[i - 1]>>]
  <2>1. low[i] = low[i - 1] + data[at + i] * Pow2[(i - 1) * ByteBits]
    BY <1>5
  <2> QED  BY <1>2, <1>7, <2>1
<1>8. Recurs(low, k, Int, 0, step)
  <2>1. \A i \in 1..k : low[i - 1] \in Int => low[i] = step[<<i, low[i - 1]>>]
    BY <1>7
  <2>2. k \in Nat /\ 0 \in Int
    OBVIOUS
  <2> QED  BY <1>3, <1>6, <2>1, <2>2, RecursFrom
<1> QED  BY <1>8 DEF low, step

LEMMA NumberDef ==
    ASSUME NEW data, NEW at \in Nat, NEW n \in Nat, HasBytes(data, at, n)
    PROVE  /\ \A k \in 0..n : Number(data, at, k) \in Int
           /\ Number(data, at, 0) = 0
           /\ \A k \in 1..n : Number(data, at, k) = Number(data, at, k - 1)
                                 + data[at + k] * Pow2[(k - 1) * ByteBits]
<1> DEFINE step == NumberStep(data, at, n)
<1>1. \A k \in 0..n : Number(data, at, k) = Low(data, at, k)[k]
  BY Zenon DEF Number, Low
<1>2. \A k \in 0..n : Recurs(Low(data, at, k), k, Int, 0, step)
  BY LowRecurs
<1>3. \A k \in 0..n : Low(data, at, k)[k] \in Int /\ Low(data, at, k)[0] = 0
  <2> TAKE k \in 0..n
  <2>1. Recurs(Low(data, at, k), k, Int, 0, step)
    BY <1>2
  <2> QED  BY <2>1 DEF Recurs
<1>4. ASSUME NEW k \in 1..n
      PROVE  Low(data, at, k)[k] = Low(data, at, k - 1)[k - 1]
                                     + data[at + k] * Pow2[(k - 1) * ByteBits]
  <2> DEFINE f == Low(data, at, k)  g == Low(data, at, k - 1)
  <2>1. k \in 0..n /\ k - 1 \in 0..n /\ k \in 1..k
    OBVIOUS
  <2>2. Recurs(f, k, Int, 0, step) /\ Recurs(g, k - 1, Int, 0, step)
    BY <1>2, <2>1
  <2>3. g[k - 1] = f[k - 1]
    <3>1. k \in Nat /\ k - 1 \in Nat /\ k - 1 <= k /\ k - 1 \in 0..(k - 1)
      OBVIOUS
    <3> HIDE DEF f, g, step
    <3> QED  BY <2>2, <3>1, RecursionUnique
  <2>4. f[k] = step[<<k, f[k - 1]>>] /\ f[k - 1] \in Int
    <3> HIDE DEF f, step
    <3> QED  BY <2>1, <2>2 DEF Recurs
  <2>5. step[<<k, f[k - 1]>>] = f[k - 1] + data[at + k] * Pow2[(k - 1) * ByteBits]
    <3> HIDE DEF f
    <3> QED  BY <2>4 DEF NumberStep
  <2> QED  BY <2>3, <2>4, <2>5
<1>5. 0 \in 0..n /\ \A k \in 1..n : k \in 0..n /\ k - 1 \in 0..n
  OBVIOUS
<1> QED  BY <1>1, <1>3, <1>4, <1>5

LEMMA NumberNext ==
    ASSUME NEW data, NEW at \in Nat, NEW n \in Nat, HasBytes(data, at, n)
    PROVE  \A k \in Nat : k + 1 <= n =>
              Number(data, at, k + 1)
                 = Number(data, at, k) + data[at + (k + 1)] * Pow2[k * ByteBits]
<1>1. \A i \in 1..n, j \in Nat : j = i - 1 =>
         Number(data, at, i) = Number(data, at, j) + data[at + i] * Pow2[j * ByteBits]
  <2> TAKE i \in 1..n, j \in Nat
  <2> HAVE j = i - 1
  <2>1. Number(data, at, i)
           = Number(data, at, i - 1) + data[at + i] * Pow2[(i - 1) * ByteBits]
    BY NumberDef
  <2> QED  BY <2>1, Zenon
<1>2. \A k \in Nat : k + 1 <= n => k + 1 \in 1..n /\ k = (k + 1) - 1
  OBVIOUS
<1> QED  BY <1>1, <1>2

LEMMA BytePowers ==
    /\ \A k \in Nat : /\ k * ByteBits \in Nat
                      /\ Pow2[k * ByteBits] \in Nat \ {0}
                      /\ Pow2[(k + 1) * ByteBits] = Pow2[k * ByteBits] * Byte
    /\ \A k \in Nat : \A m \in 0..k :
          Pow2[k * ByteBits] = Pow2[m * ByteBits] * Pow2[(k - m) * ByteBits]
<1>1. \A k \in Nat : k * ByteBits \in Nat
  BY Widths
<1>2. ASSUME NEW k \in Nat, NEW m \in 0..k
      PROVE  Pow2[k * ByteBits] = Pow2[m * ByteBits] * Pow2[(k - m) * ByteBits]
  <2> DEFINE a == m * ByteBits  b == (k - m) * ByteBits  c == k * ByteBits
  <2>1. m \in Nat /\ k - m \in Nat
    OBVIOUS
  <2>2. a \in Nat /\ b \in Nat
    BY <1>1, <2>1
  <2>3. c = a + b
    <3>1. \A x, y, z \in Int : x * z = y * z + (x - y) * z
      OBVIOUS
    <3> QED  BY <2>1, <3>1, Widths
  <2> HIDE DEF a, b, c
  <2>4. Pow2[c] = Pow2[a] * Pow2[b]
    BY <2>2, <2>3, Pow2Sum
  <2> QED  BY <2>4 DEF a, b, c
<1>3. ASSUME NEW k \in Nat
      PROVE  Pow2[(k + 1) * ByteBits] = Pow2[k * ByteBits] * Byte
  <2>1. k + 1 \in Nat /\ k \in 0..(k + 1) /\ (k + 1) - k = 1 /\ 1 * ByteBits = ByteBits
    BY Widths
  <2>2. Pow2[(k + 1) * ByteBits] = Pow2[k * ByteBits] * Pow2[((k + 1) - k) * ByteBits]
    BY <1>2, <2>1
  <2> QED  BY <2>1, <2>2 DEF Byte
<1> QED  BY <1>1, <1>2, <1>3, Pow2Positive

LEMMA NumberRange ==
    ASSUME NEW data, NEW at \in Nat, NEW n \in Nat, HasBytes(data, at, n)
    PROVE  \A k \in 0..n : Number(data, at, k) \in 0..(Pow2[k * ByteBits] - 1)
<1> DEFINE num(k) == Number(data, at, k)
           G == {k \in Nat : k <= n => num(k) \in 0..(Pow2[k * ByteBits] - 1)}
<1>1. 0 \in G
  <2>1. 0 * ByteBits = 0 /\ Pow2[0] = 1
    BY Widths, Pow2Def
  <2> QED  BY <2>1, NumberDef
<1>2. ASSUME NEW k \in G  PROVE  k + 1 \in G
  <2> SUFFICES ASSUME k + 1 <= n  PROVE  num(k + 1) \in 0..(Pow2[(k + 1) * ByteBits] - 1)
    OBVIOUS
  <2> DEFINE d == data[at + (k + 1)]  p == Pow2[k * ByteBits]  x == num(k)
  <2>1. k \in Nat /\ k + 1 \in 1..n /\ (k + 1) - 1 = k
    OBVIOUS
  <2>2. num(k + 1) = x + d * p
    BY <2>1, NumberNext
  <2>3. d \in 0..(Byte - 1)
    BY <2>1 DEF HasBytes
  <2>4. x \in 0..(p - 1)
    BY <2>1
  <2>5. p \in Nat \ {0} /\ Pow2[(k + 1) * ByteBits] = p * Byte
    BY <2>1, BytePowers
  <2> HIDE DEF num, d, p, x
  <2>6. d * p <= (Byte - 1) * p /\ 0 <= d * p /\ (Byte - 1) * p = p * Byte - p
        /\ d * p \in Int
    BY <2>3, <2>5, Widths
  <2> QED  BY <2>2, <2>4, <2>5, <2>6, Widths
<1>3. G = Nat
  <2> HIDE DEF G
  <2>1. G \subseteq Nat  BY DEF G
  <2> QED  BY <1>1, <1>2, <2>1, Induction
<1> QED
  <2> TAKE k \in 0..n
  <2>1. k \in G
    BY <1>3
  <2> QED  BY <2>1

\* The low bytes are the number modulo their power.
LEMMA NumberMod ==
    ASSUME NEW data, NEW at \in Nat, NEW n \in Nat, HasBytes(data, at, n), NEW m \in 0..n
    PROVE  Number(data, at, n) % Pow2[m * ByteBits] = Number(data, at, m)
<1> DEFINE num(k) == Number(data, at, k)  q == Pow2[m * ByteBits]
           G == {j \in Nat : m + j <= n => num(m + j) % q = num(m)}
<1>1. q \in Nat \ {0} /\ m \in Nat /\ n - m \in Nat
  BY BytePowers
<1>2. 0 \in G
  <2>1. num(m) \in 0..(q - 1)
    BY NumberRange
  <2>2. num(m) % q = num(m)
    <3> HIDE DEF num, q
    <3> QED  BY <1>1, <2>1, ModSmall
  <2>3. m + 0 = m
    BY <1>1
  <2> QED  BY <2>2, <2>3
<1>3. ASSUME NEW j \in G  PROVE  j + 1 \in G
  <2> SUFFICES ASSUME m + (j + 1) <= n  PROVE  num(m + (j + 1)) % q = num(m)
    OBVIOUS
  <2> DEFINE k == m + j  d == data[at + (k + 1)]  p == Pow2[k * ByteBits]
             r == Pow2[j * ByteBits]
  <2>1. /\ j \in Nat /\ k \in Nat /\ k \in 0..n /\ k + 1 \in 1..n /\ (k + 1) - 1 = k
        /\ k + 1 = m + (j + 1) /\ m \in 0..k /\ k - m = j
    BY <1>1
  <2>2. num(k + 1) = num(k) + d * p
    <3> HIDE DEF k
    <3> QED  BY <2>1, NumberNext
  <2>3. d \in 0..(Byte - 1)
    BY <2>1 DEF HasBytes
  <2>4. r \in Nat \ {0} /\ p = q * r
    <3> HIDE DEF k
    <3>1. Pow2[k * ByteBits] = Pow2[m * ByteBits] * Pow2[(k - m) * ByteBits]
      BY <2>1, BytePowers
    <3> QED  BY <2>1, <3>1, BytePowers
  <2>5. num(k) \in Int /\ num(k) % q = num(m)
    <3>1. num(k) % q = num(m)
      BY <2>1
    <3>2. \A i \in 0..n : num(i) \in Int
      BY NumberDef
    <3> HIDE DEF num, k
    <3> QED  BY <2>1, <3>1, <3>2
  <2> HIDE DEF k, d, p, q, r, num
  <2>6. d * p = q * (d * r) /\ d * r \in Int /\ d \in Int
    BY <1>1, <2>3, <2>4, Widths
  <2>7. (num(k) + q * (d * r)) % q = num(k) % q
    BY <1>1, <2>5, <2>6, ModPlus
  <2> QED  BY <2>1, <2>2, <2>5, <2>6, <2>7
<1>4. G = Nat
  <2> HIDE DEF G
  <2>1. G \subseteq Nat  BY DEF G
  <2> QED  BY <1>2, <1>3, <2>1, Induction
<1>5. n - m \in G /\ m + (n - m) = n
  <2> HIDE DEF G
  <2> QED  BY <1>1, <1>4
<1> QED  BY <1>5

\* The same bytes make the same number.
SameBytes(other, from, data, at, n) == \A i \in 1..n : other[from + i] = data[at + i]

LEMMA NumberSame ==
    ASSUME NEW data, NEW at \in Nat, NEW other, NEW from \in Nat, NEW n \in Nat,
           HasBytes(data, at, n), SameBytes(other, from, data, at, n)
    PROVE  HasBytes(other, from, n) /\ Number(other, from, n) = Number(data, at, n)
<1> DEFINE G == {k \in Nat : k <= n => Number(other, from, k) = Number(data, at, k)}
<1>1. HasBytes(other, from, n) /\ \A i \in 1..n : other[from + i] = data[at + i]
  BY DEF HasBytes, SameBytes
<1>2. 0 \in G
  BY <1>1, NumberDef
<1>3. ASSUME NEW k \in G  PROVE  k + 1 \in G
  <2> SUFFICES ASSUME k + 1 <= n
               PROVE  Number(other, from, k + 1) = Number(data, at, k + 1)
    OBVIOUS
  <2>1. k + 1 \in 1..n /\ (k + 1) - 1 = k
    OBVIOUS
  <2>2. Number(other, from, k + 1)
           = Number(other, from, k) + other[from + (k + 1)] * Pow2[k * ByteBits]
    BY <1>1, <2>1, NumberNext
  <2>3. Number(data, at, k + 1)
           = Number(data, at, k) + data[at + (k + 1)] * Pow2[k * ByteBits]
    BY <2>1, NumberNext
  <2> QED  BY <1>1, <2>1, <2>2, <2>3
<1>4. G = Nat
  <2> HIDE DEF G
  <2>1. G \subseteq Nat  BY DEF G
  <2> QED  BY <1>2, <1>3, <2>1, Induction
<1> QED  BY <1>1, <1>4

LEMMA FunctionSeq ==
    ASSUME NEW S, NEW n \in Nat, NEW f \in [1..n -> S]
    PROVE  f \in Seq(S) /\ Len(f) = n
<1>1. f \in Seq(S)
  BY SeqDef
<1>2. Len(f) \in Nat /\ DOMAIN f = 1..Len(f)
  BY <1>1
<1>3. 1..n = 1..Len(f)
  BY <1>2
<1> QED  BY <1>1, <1>2, <1>3

\* A number's bytes make the number, less the bits that have no place.
LEMMA NumberOfBytes ==
    ASSUME NEW v \in Int, NEW n \in Nat
    PROVE  /\ ToBytes(v, n) \in Seq(0..(Byte - 1)) /\ Len(ToBytes(v, n)) = n
           /\ HasBytes(ToBytes(v, n), 0, n)
           /\ Number(ToBytes(v, n), 0, n) = Unsigned(v, n * ByteBits)
<1> DEFINE u == Unsigned(v, n * ByteBits)  tb == ToBytes(v, n)
           num(k) == Number(tb, 0, k)
           G == {k \in Nat : k <= n => num(k) = u % Pow2[k * ByteBits]}
<1>1. n * ByteBits \in Nat /\ Byte \in Nat \ {0}
  BY BytePowers, Widths
<1>2. u \in 0..(Pow2[n * ByteBits] - 1) /\ u \in Int
  <2>1. Pow2[n * ByteBits] \in Nat
    BY BytePowers
  <2>2. u \in 0..(Pow2[n * ByteBits] - 1)
    BY <1>1, UnsignedType
  <2> QED  BY <2>1, <2>2
<1>3. ASSUME NEW i \in 1..n
      PROVE  tb[i] \in 0..(Byte - 1) /\ tb[i] = (u \div Pow2[(i - 1) * ByteBits]) % Byte
  <2> DEFINE p == Pow2[(i - 1) * ByteBits]
  <2>1. p \in Nat \ {0}
    <3>1. i - 1 \in Nat
      OBVIOUS
    <3> QED  BY <3>1, BytePowers
  <2>2. tb[i] = (u \div p) % Byte
    BY DEF ToBytes
  <2> HIDE DEF p, u, tb
  <2>3. u \div p \in Int
    BY <1>2, <2>1, DivMod
  <2>4. (u \div p) % Byte \in 0..(Byte - 1)
    BY <1>1, <2>3, DivMod
  <2> QED  BY <2>2, <2>4 DEF p
<1>4. tb \in Seq(0..(Byte - 1)) /\ Len(tb) = n
  <2>1. tb = [i \in 1..n |-> tb[i]]
    BY DEF ToBytes
  <2>2. tb \in [1..n -> 0..(Byte - 1)]
    <3> HIDE DEF tb, u
    <3> QED  BY <1>3, <2>1
  <2>3. n \in Nat
    OBVIOUS
  <2> HIDE DEF tb
  <2> QED  BY <2>2, <2>3, FunctionSeq
<1>5. HasBytes(tb, 0, n)
  <2>1. \A i \in 1..n : 0 + i = i
    OBVIOUS
  <2> HIDE DEF tb
  <2> QED  BY <1>3, <2>1 DEF HasBytes
<1> HIDE DEF u, tb
<1>6. 0 \in G
  <2>1. Pow2[0 * ByteBits] = 1
    <3>1. 0 * ByteBits = 0
      BY Widths
    <3> QED  BY <3>1, Pow2Def
  <2>2. u % 1 = 0
    BY <1>2
  <2> QED  BY <1>5, <2>1, <2>2, NumberDef
<1>7. ASSUME NEW k \in G  PROVE  k + 1 \in G
  <2> SUFFICES ASSUME k + 1 <= n  PROVE  num(k + 1) = u % Pow2[(k + 1) * ByteBits]
    OBVIOUS
  <2> DEFINE p == Pow2[k * ByteBits]
  <2>1. k \in Nat /\ k + 1 \in 1..n /\ (k + 1) - 1 = k /\ 0 + (k + 1) = k + 1
    OBVIOUS
  <2>2. num(k + 1) = num(k) + tb[k + 1] * p
    BY <1>5, <2>1, NumberNext
  <2>3. tb[k + 1] = (u \div p) % Byte /\ tb[k + 1] \in Int
    BY <1>3, <2>1, Widths
  <2>4. num(k) = u % p
    BY <2>1
  <2>5. p \in Nat \ {0} /\ Pow2[(k + 1) * ByteBits] = p * Byte
    BY <2>1, BytePowers
  <2> HIDE DEF p, num
  <2>6. u % (p * Byte) = p * ((u \div p) % Byte) + (u % p)
    <3> DEFINE b == Byte
    <3>1. u \in Int /\ p \in Nat \ {0} /\ b \in Nat \ {0}
      BY <1>1, <1>2, <2>5
    <3> HIDE DEF b, G
    <3>2. u % (p * b) = p * ((u \div p) % b) + (u % p)
      BY <3>1, ModProduct
    <3> QED  BY <3>2 DEF b
  <2>7. u % p \in Int
    BY <1>2, <2>5, DivMod
  <2>8. p * tb[k + 1] = tb[k + 1] * p /\ p * tb[k + 1] \in Int
    BY <2>3, <2>5
  <2> QED  BY <2>2, <2>3, <2>4, <2>5, <2>6, <2>7, <2>8
<1>8. G = Nat
  <2> HIDE DEF G
  <2>1. G \subseteq Nat  BY DEF G
  <2> QED  BY <1>6, <1>7, <2>1, Induction
<1>9. num(n) = u
  <2>1. n \in G
    BY <1>8
  <2>2. num(n) = u % Pow2[n * ByteBits] /\ Pow2[n * ByteBits] \in Nat \ {0}
    BY <2>1, BytePowers
  <2>3. u % Pow2[n * ByteBits] = u
    BY <1>2, <2>2, ModSmall
  <2> QED  BY <2>2, <2>3
<1> QED  BY <1>4, <1>5, <1>9 DEF u, tb

-----------------------------------------------------------------------------
\* Shifts and decoding.

LEMMA SignedSmall ==
    ASSUME NEW n \in Nat \ {0}, NEW v \in Int, -(Pow2[n - 1]) <= v, v < Pow2[n - 1]
    PROVE  Signed(v, n) = v
<1> DEFINE h == Pow2[n - 1]  d == Pow2[n]
<1>1. h \in Nat \ {0} /\ d = 2 * h
  <2>1. n - 1 \in Nat /\ (n - 1) + 1 = n
    OBVIOUS
  <2>2. Pow2[(n - 1) + 1] = 2 * Pow2[n - 1]
    BY <2>1, Pow2Def
  <2> QED  BY <2>1, <2>2, Pow2Positive
<1>2. Signed(v, n) = IF v % d < h THEN v % d ELSE (v % d) - d
  BY DEF Signed, Unsigned
<1>3. -h <= v /\ v < h
  OBVIOUS
<1> HIDE DEF h, d
<1>4. CASE v >= 0
  <2>1. v \in 0..(d - 1) /\ d \in Nat \ {0}
    BY <1>1, <1>3, <1>4
  <2>2. v % d = v
    BY <2>1, ModSmall
  <2> QED  BY <1>1, <1>2, <1>3, <2>2
<1>5. CASE v < 0
  <2>1. v + d \in 0..(d - 1) /\ d \in Nat \ {0} /\ v = d * (-1) + (v + d) /\ -1 \in Int
    BY <1>1, <1>3, <1>5
  <2>2. v % d = v + d
    BY <2>1, DivUnique
  <2> QED  BY <1>1, <1>2, <1>3, <2>2
<1> QED  BY <1>4, <1>5

LEMMA SignedScaled ==
    ASSUME NEW v \in Int, NEW n \in Nat \ {0}, NEW c \in Nat
    PROVE  Signed(v * Pow2[c], n + c) = Signed(v, n) * Pow2[c]
<1> DEFINE h == Pow2[n - 1]  d == Pow2[n]  s == Pow2[c]  u == v % d
<1>1. h \in Nat \ {0} /\ d \in Nat \ {0} /\ s \in Nat \ {0}
  <2>1. n - 1 \in Nat
    OBVIOUS
  <2> QED  BY <2>1, Pow2Positive
<1>2. Pow2[n + c] = d * s /\ Pow2[(n + c) - 1] = h * s
  <2>1. n - 1 \in Nat /\ (n + c) - 1 = (n - 1) + c
    OBVIOUS
  <2> QED  BY <2>1, Pow2Sum
<1>3. Signed(v, n) = IF u < h THEN u ELSE u - d
  BY DEF Signed, Unsigned
<1>4. Signed(v * s, n + c) = IF (v * s) % (d * s) < h * s
                             THEN (v * s) % (d * s) ELSE ((v * s) % (d * s)) - d * s
  BY <1>2 DEF Signed, Unsigned
<1>5. u \in Int
  <2> HIDE DEF d
  <2> QED  BY <1>1, DivMod
<1>6. (v * s) % (d * s) = u * s
  <2> HIDE DEF d, s
  <2>1. (v * s) % (d * s) = (v % d) * s
    BY <1>1, ModScaled, Zenon
  <2> QED  BY <2>1
<1> HIDE DEF h, d, s, u
<1>7. u * s < h * s <=> u < h
  BY <1>1, <1>5
<1>8. u * s - d * s = (u - d) * s
  BY <1>1, <1>5
<1>9. Signed(v * s, n + c) = Signed(v, n) * s
  BY <1>3, <1>4, <1>6, <1>7, <1>8
<1> QED  BY <1>9 DEF s

LEMMA CountSmall == \A n \in 0..(WordBits - 1) : Count(n) = n
  BY Widths, ModSmall DEF Count

\* Whatever a word and a type are, the result is a number.
LEMMA DecodeType ==
    ASSUME NEW word \in Int, NEW info, info.bits \in Nat, info.shift \in Int
    PROVE  DecodeSigned(word, info) \in Int /\ DecodeUnsigned(word, info) \in Int
<1>1. \A v \in Int : Signed(v, WordBits) \in Int
  BY Widths, SignedBits
<1>2. \A n \in Int : Pow2[Count(n)] \in Nat \ {0}
  BY Widths, DivMod, Pow2Positive DEF Count
<1>3. \A v, n \in Int : ShiftRight(v, n) \in Int
  BY <1>2, DivMod DEF ShiftRight
<1>4. \A v, n \in Int : ShiftLeft(v, n) \in Int
  <2> TAKE v, n \in Int
  <2>1. v * Pow2[Count(n)] \in Int
    BY <1>2
  <2> QED  BY <1>1, <2>1 DEF ShiftLeft
<1>5. \A v \in Int : Unsigned(v, info.bits) \in Int
  <2> TAKE v \in Int
  <2>1. Pow2[info.bits] \in Nat
    BY Pow2Positive
  <2> QED  BY <2>1, UnsignedType
<1>6. DecodeSigned(word, info) \in Int
  <2> DEFINE w == Signed(word, WordBits)
  <2>1. ShiftRight(w, info.shift) \in Int
    <3>1. w \in Int
      BY <1>1
    <3> HIDE DEF w
    <3> QED  BY <1>3, <3>1
  <2>2. WordBits - info.bits \in Int
    BY Widths
  <2> QED  BY <1>3, <1>4, <1>5, <2>1, <2>2 DEF DecodeSigned
<1>7. DecodeUnsigned(word, info) \in Int
  BY <1>1, <1>3, <1>5 DEF DecodeUnsigned
<1> QED  BY <1>6, <1>7

\* The bits used, taken out of a word and read as a signed number.
THEOREM DecodeSignedRight ==
    ASSUME NEW word \in 0..(Pow2[WordBits] - 1), NEW info,
           info.bits \in Nat \ {0}, info.shift \in Nat, info.bits + info.shift <= WordBits
    PROVE  DecodeSigned(word, info) = Signed(word \div Pow2[info.shift], info.bits)
<1> DEFINE W == WordBits  n == info.bits  s == info.shift
           p == Pow2[s]  x == word \div p  shifted == ShiftRight(Signed(word, W), s)
<1>1. W \in Nat \ {0} /\ n \in Nat \ {0} /\ s \in 0..(W - 1) /\ n <= W - s /\ W - s \in Nat
      /\ word \in Int
  BY Widths
<1>2. p \in Nat \ {0} /\ Pow2[W] = p * Pow2[W - s] /\ x \in Int
  <2>1. p \in Nat \ {0}
    BY Pow2Positive
  <2>2. s + (W - s) = W /\ s \in Nat /\ W - s \in Nat
    BY <1>1
  <2>3. Pow2[s + (W - s)] = Pow2[s] * Pow2[W - s]
    BY <2>2, Pow2Sum
  <2>4. x \in Int
    <3> HIDE DEF p
    <3> QED  BY <1>1, <2>1, DivMod
  <2> QED  BY <2>1, <2>2, <2>3, <2>4
<1>3. \E k \in Int : shifted = x + Pow2[n] * k
  <2>1. PICK k \in Int : Signed(word, W) = word + Pow2[W] * k
    BY <1>1, SignedBits
  <2> DEFINE q == Pow2[W - s]  r == Pow2[n]  t == Pow2[(W - s) - n]
  <2>2. q \in Nat \ {0} /\ r \in Nat \ {0} /\ t \in Nat \ {0} /\ q = r * t
    <3>1. (W - s) - n \in Nat /\ n \in Nat /\ n + ((W - s) - n) = W - s
      BY <1>1
    <3>2. Pow2[n + ((W - s) - n)] = r * t
      BY <3>1, Pow2Sum
    <3> QED  BY <1>1, <3>1, <3>2, Pow2Positive
  <2>3. shifted = Signed(word, W) \div p
    BY <1>1, CountSmall DEF ShiftRight
  <2> HIDE DEF p, q, r, t, shifted
  <2>4. Pow2[W] * k = p * (q * k) /\ q * k \in Int
    BY <1>2, <2>2 DEF q
  <2>5. (word + p * (q * k)) \div p = x + q * k
    BY <1>1, <1>2, <2>4, ModPlus
  <2>6. q * k = r * (t * k) /\ t * k \in Int
    BY <2>2
  <2>7. shifted = x + r * (t * k)
    BY <2>1, <2>3, <2>4, <2>5, <2>6
  <2> QED  BY <2>6, <2>7 DEF r
<1>4. shifted \in Int /\ Unsigned(shifted, n) = Unsigned(x, n)
  <2>1. PICK k \in Int : shifted = x + Pow2[n] * k
    BY <1>3
  <2> DEFINE r == Pow2[n]
  <2>2. r \in Nat \ {0}
    BY <1>1, Pow2Positive
  <2> HIDE DEF x, r, shifted
  <2>3. (x + r * k) % r = x % r
    BY <1>2, <2>2, ModPlus, Zenon
  <2>4. x + r * k \in Int
    BY <1>2, <2>2
  <2> QED  BY <2>1, <2>3, <2>4 DEF r, Unsigned
<1>5. CASE n < W
  <2> DEFINE u == Unsigned(x, n)  spare == W - n  c == Pow2[spare]
  <2>1. DecodeSigned(word, info) = ShiftRight(ShiftLeft(u, spare), spare)
    BY <1>4, <1>5 DEF DecodeSigned
  <2>2. spare \in 0..(W - 1) /\ spare \in Nat /\ n + spare = W /\ Count(spare) = spare
    BY <1>1, <1>5, CountSmall
  <2>3. u \in Int /\ c \in Nat \ {0}
    <3>1. u \in 0..(Pow2[n] - 1)
      BY <1>1, <1>2, UnsignedType
    <3>2. Pow2[n] \in Nat
      BY <1>1, Pow2Positive
    <3>3. c \in Nat \ {0}
      BY <2>2, Pow2Positive
    <3> QED  BY <3>1, <3>2, <3>3
  <2>4. ShiftLeft(u, spare) = Signed(u, n) * c
    <3>1. ShiftLeft(u, spare) = Signed(u * c, n + spare)
      BY <2>2 DEF ShiftLeft
    <3> HIDE DEF u, spare
    <3> QED  BY <1>1, <2>2, <2>3, <3>1, SignedScaled
  <2>5. Signed(u, n) = Signed(x, n) /\ Signed(u, n) \in Int
    <3>1. Unsigned(u, n) = Unsigned(x, n)
      <4>1. n \in 0..n
        BY <1>1
      <4> QED  BY <1>1, <1>2, <4>1, UnsignedUnsigned
    <3> HIDE DEF u, x
    <3> QED  BY <1>1, <1>2, <2>3, <3>1, SignedOfBits, SignedBits
  <2>6. ShiftRight(Signed(u, n) * c, spare) = (Signed(u, n) * c) \div c
    BY <2>2 DEF ShiftRight
  <2>7. (Signed(u, n) * c) \div c = Signed(u, n)
    <3> DEFINE v == Signed(u, n)
    <3>1. v \in Int
      BY <2>5
    <3> HIDE DEF v, c
    <3>2. (v * c) \div c = v
      BY <2>3, <3>1, ModScaled
    <3> QED  BY <3>2 DEF v
  <2> QED  BY <2>1, <2>4, <2>5, <2>6, <2>7
<1>6. CASE n = W
  <2>1. s = 0 /\ Pow2[0] = 1
    BY <1>1, <1>6, Pow2Def
  <2>2. x = word
    BY <1>1, <2>1
  <2> DEFINE z == W - n
  <2>3. z = 0 /\ Count(0) = 0
    <3>1. 0 \in 0..(W - 1)
      BY <1>1
    <3> QED  BY <1>1, <1>6, <3>1, CountSmall
  <2>4. DecodeSigned(word, info) = ShiftRight(ShiftLeft(shifted, z), z)
    BY <1>6 DEF DecodeSigned
  <2>5. ShiftLeft(shifted, 0) = Signed(shifted, W)
    <3>1. shifted * 1 = shifted
      BY <1>4
    <3> QED  BY <2>1, <2>3, <3>1 DEF ShiftLeft
  <2>6. Signed(shifted, W) = Signed(word, W) /\ Signed(word, W) \in Int
    <3> HIDE DEF shifted
    <3> QED  BY <1>1, <1>4, <1>6, <2>2, SignedOfBits, SignedBits
  <2>7. ShiftRight(Signed(word, W), 0) = Signed(word, W)
    BY <2>1, <2>3, <2>6 DEF ShiftRight
  <2> QED  BY <1>6, <2>2, <2>3, <2>4, <2>5, <2>6, <2>7
<1> QED  BY <1>1, <1>5, <1>6

\* Fewer bits than a word's, read as an unsigned number.
LEMMA DecodeUnsignedRight ==
    ASSUME NEW word \in Nat, NEW info, info.bits \in 0..(WordBits - 1),
           info.shift \in 0..(WordBits - 1)
    PROVE  DecodeUnsigned(word, info) = Unsigned(word \div Pow2[info.shift], info.bits)
<1> DEFINE n == info.bits  p == Pow2[info.shift]  x == word \div p  u == Unsigned(x, n)
<1>1. WordBits \in Nat \ {0} /\ WordBits - 1 \in Nat /\ n \in Nat /\ n <= WordBits - 1
  BY Widths
<1>2. p \in Nat \ {0}
  BY <1>1, Pow2Positive
<1>3. x \in Int
  <2> HIDE DEF p
  <2> QED  BY <1>2, DivMod
<1>4. u \in 0..(Pow2[n] - 1) /\ Pow2[n] <= Pow2[WordBits - 1] /\ Pow2[n] \in Nat
      /\ Pow2[WordBits - 1] \in Nat
  <2> HIDE DEF x
  <2> QED  BY <1>1, <1>3, UnsignedType, Pow2Grows, Pow2Positive
<1>5. DecodeUnsigned(word, info) = Signed(u, WordBits)
  BY <1>1, CountSmall DEF DecodeUnsigned, ShiftRight
<1>6. Signed(u, WordBits) = u
  <2> HIDE DEF u
  <2>1. u \in Int /\ -(Pow2[WordBits - 1]) <= u /\ u < Pow2[WordBits - 1]
    BY <1>4
  <2> QED  BY <1>1, <2>1, SignedSmall
<1> QED  BY <1>5, <1>6

-----------------------------------------------------------------------------
\* Sequences put one behind the other.

\* What is there after each of them.
Flattens(upto, seqs, S) ==
    /\ upto \in [0..Len(seqs) -> Seq(S)]
    /\ upto[0] = <<>>
    /\ \A i \in 1..Len(seqs) : upto[i] = upto[i - 1] \o seqs[i]

LEMMA FlattenUpto ==
    ASSUME NEW S, NEW seqs \in Seq(Seq(S))
    PROVE  \E upto : Flattens(upto, seqs, S) /\ FlattenSeq(seqs) = upto[Len(seqs)]
<1> DEFINE n == Len(seqs)  T == Seq(S)
           step == [p \in (1..n) \X T |-> p[2] \o seqs[p[1]]]
           body(h) == [i \in 1..n |-> IF i = 1 THEN seqs[i] ELSE h[i - 1] \o seqs[i]]
<1>1. n \in Nat /\ <<>> \in T /\ \A i \in 1..n : seqs[i] \in T
  BY EmptySeq
<1>2. \A i \in 1..n, v \in T : step[<<i, v>>] = v \o seqs[i] /\ v \o seqs[i] \in T
  <2> TAKE i \in 1..n, v \in T
  <2>1. step[<<i, v>>] = v \o seqs[i]
    OBVIOUS
  <2>2. v \o seqs[i] \in T
    BY <1>1, ConcatProperties
  <2> QED  BY <2>1, <2>2
<1> HIDE DEF step, T
<1>3. PICK f : Recurs(f, n, T, <<>>, step)
  <2>1. \A i \in 1..n, v \in T : step[<<i, v>>] \in T
    BY <1>2
  <2>2. \E f : Recurs(f, n, T, <<>>, step)
    <3> HIDE DEF n
    <3> QED  BY <1>1, <2>1, Recursion
  <2> QED  BY <2>2
<1>4. f \in [0..n -> T] /\ f[0] = <<>> /\ \A i \in 1..n : f[i] = f[i - 1] \o seqs[i]
  <2>1. \A i \in 1..n : f[i - 1] \in T
    <3> HIDE DEF n
    <3> QED  BY <1>1, <1>3, RecursEquation
  <2>2. \A i \in 1..n : f[i] = step[<<i, f[i - 1]>>]
    BY <1>3 DEF Recurs
  <2> QED  BY <1>2, <1>3, <2>1, <2>2 DEF Recurs
<1>5. Flattens(f, seqs, S)
  BY <1>4 DEF Flattens, T
<1>6. CASE n = 0
  <2>1. FlattenSeq(seqs) = seqs
    BY <1>6 DEF FlattenSeq
  <2>2. seqs = <<>>
    BY <1>6, EmptySeq
  <2> QED  BY <1>4, <1>5, <1>6, <2>1, <2>2
<1>7. CASE n # 0
  <2>1. n >= 1 /\ 1 \in 1..n /\ n \in 1..n
    BY <1>1, <1>7
  <2>2. f[1] = seqs[1]
    <3>0. f[1] = f[1 - 1] \o seqs[1]
      BY <1>4, <2>1, Zenon
    <3>1. f[1] = f[0] \o seqs[1]
      <4>1. 1 - 1 = 0
        OBVIOUS
      <4> QED  BY <3>0, <4>1
    <3>2. seqs[1] \in Seq(S)
      BY <1>1, <2>1 DEF T
    <3>3. <<>> \o seqs[1] = seqs[1]
      BY <3>2, ConcatEmptySeq
    <3> QED  BY <1>4, <3>1, <3>3
  <2> DEFINE h == [i \in 1..n |-> f[i]]
  <2>3. h = body(h)
    <3>1. ASSUME NEW i \in 1..n
          PROVE  h[i] = IF i = 1 THEN seqs[i] ELSE h[i - 1] \o seqs[i]
      <4>1. CASE i = 1
        BY <2>2, <4>1
      <4>2. CASE i # 1
        <5>1. i - 1 \in 1..n
          BY <4>2
        <5> QED  BY <1>4, <4>2, <5>1
      <4> QED  BY <4>1, <4>2
    <3> QED  BY <3>1
  <2> DEFINE g == CHOOSE flatten : flatten = body(flatten)
  <2>4. g = body(g)
    <3>1. \E flatten : flatten = body(flatten)
      BY <2>3
    <3> HIDE DEF body
    <3> QED  BY <3>1
  <2>5. FlattenSeq(seqs) = g[n]
    BY <1>7, Zenon DEF FlattenSeq
  <2> HIDE DEF g
  <2>6. /\ g[1] = seqs[1]
        /\ \A k \in Nat : k >= 1 /\ k + 1 <= n => g[k + 1] = g[k] \o seqs[k + 1]
    <3>1. g[1] = seqs[1]
      BY <2>1, <2>4
    <3>2. ASSUME NEW k \in Nat, k >= 1, k + 1 <= n  PROVE  g[k + 1] = g[k] \o seqs[k + 1]
      <4>1. k + 1 \in 1..n /\ k + 1 # 1 /\ (k + 1) - 1 = k
        BY <3>2
      <4>2. g[k + 1] = g[(k + 1) - 1] \o seqs[k + 1]
        BY <2>4, <4>1
      <4> QED  BY <4>1, <4>2
    <3> QED  BY <3>1, <3>2
  <2> DEFINE G == {k \in Nat : k + 1 <= n => g[k + 1] = f[k + 1]}
  <2>7. 0 \in G
    BY <2>2, <2>6
  <2>8. ASSUME NEW k \in G  PROVE  k + 1 \in G
    <3> SUFFICES ASSUME (k + 1) + 1 <= n  PROVE  g[(k + 1) + 1] = f[(k + 1) + 1]
      OBVIOUS
    <3>1. k \in Nat /\ k + 1 >= 1 /\ k + 1 \in Nat /\ g[k + 1] = f[k + 1] /\ (k + 1) + 1 \in 1..n
          /\ ((k + 1) + 1) - 1 = k + 1
      OBVIOUS
    <3>2. g[(k + 1) + 1] = g[k + 1] \o seqs[(k + 1) + 1]
      BY <2>6, <3>1
    <3>3. f[(k + 1) + 1] = f[k + 1] \o seqs[(k + 1) + 1]
      BY <1>4, <3>1
    <3> QED  BY <3>1, <3>2, <3>3
  <2>9. G = Nat
    <3> HIDE DEF G
    <3>1. G \subseteq Nat  BY DEF G
    <3> QED  BY <2>7, <2>8, <3>1, Induction
  <2>10. g[n] = f[n]
    <3>1. n - 1 \in Nat /\ (n - 1) + 1 = n /\ n <= n
      BY <1>1, <2>1
    <3>2. n - 1 \in G
      <4> HIDE DEF G
      <4> QED  BY <2>9, <3>1
    <3>3. (n - 1) + 1 <= n => g[(n - 1) + 1] = f[(n - 1) + 1]
      BY <3>2
    <3> QED  BY <3>1, <3>3
  <2> QED  BY <1>5, <2>5, <2>10
<1> QED  BY <1>6, <1>7

LEMMA FlattenNext ==
    ASSUME NEW S, NEW seqs \in Seq(Seq(S)), NEW upto, Flattens(upto, seqs, S),
           NEW i \in 1..Len(seqs)
    PROVE  /\ upto[i] \in Seq(S) /\ upto[i - 1] \in Seq(S) /\ seqs[i] \in Seq(S)
           /\ upto[i] = upto[i - 1] \o seqs[i]
<1>1. i \in 0..Len(seqs) /\ i - 1 \in 0..Len(seqs) /\ Len(seqs) \in Nat
  OBVIOUS
<1>2. upto \in [0..Len(seqs) -> Seq(S)]
  BY Zenon DEF Flattens
<1>3. upto[i] \in Seq(S) /\ upto[i - 1] \in Seq(S)
  BY <1>1, <1>2, Zenon
<1>4. seqs[i] \in Seq(S)
  OBVIOUS
<1>5. upto[i] = upto[i - 1] \o seqs[i]
  BY Zenon DEF Flattens
<1> QED  BY <1>3, <1>4, <1>5

LEMMA Behind ==
    ASSUME NEW S, NEW a \in Seq(S), NEW b \in Seq(S)
    PROVE  /\ a \o b \in Seq(S) /\ Len(a) \in Nat /\ Len(b) \in Nat
           /\ Len(a \o b) = Len(a) + Len(b)
           /\ \A p \in 1..Len(a) : (a \o b)[p] = a[p]
           /\ \A j \in 1..Len(b) : (a \o b)[Len(a) + j] = b[j]
<1>1. Len(a) \in Nat /\ Len(b) \in Nat
  OBVIOUS
<1>2. /\ a \o b \in Seq(S) /\ Len(a \o b) = Len(a) + Len(b)
      /\ \A p \in 1..(Len(a) + Len(b)) :
            (a \o b)[p] = IF p <= Len(a) THEN a[p] ELSE b[p - Len(a)]
  BY ConcatProperties
<1>3. \A p \in 1..Len(a) : (a \o b)[p] = a[p]
  BY <1>1, <1>2
<1>4. ASSUME NEW j \in 1..Len(b)  PROVE  (a \o b)[Len(a) + j] = b[j]
  <2>1. Len(a) + j \in 1..(Len(a) + Len(b)) /\ ~(Len(a) + j <= Len(a))
        /\ (Len(a) + j) - Len(a) = j
    BY <1>1
  <2> QED  BY <1>2, <2>1
<1> QED  BY <1>1, <1>2, <1>3, <1>4

\* What is there stays.
Begins(a, b) == Len(a) <= Len(b) /\ \A p \in 1..Len(a) : b[p] = a[p]

LEMMA FlattenStays ==
    ASSUME NEW S, NEW seqs \in Seq(Seq(S)), NEW upto, Flattens(upto, seqs, S),
           NEW i \in 0..Len(seqs), NEW m \in 0..Len(seqs), i <= m
    PROVE  /\ upto[i] \in Seq(S) /\ upto[m] \in Seq(S)
           /\ Begins(upto[i], upto[m])
<1> DEFINE n == Len(seqs)
           G == {j \in Nat : i + j <= n => Begins(upto[i], upto[i + j])}
<1>1. \A k \in 0..n : upto[k] \in Seq(S)
  <2>1. upto \in [0..n -> Seq(S)]
    BY Zenon DEF Flattens
  <2> QED  BY <2>1, Zenon
<1>2. 0 \in G
  <2>1. i + 0 = i
    OBVIOUS
  <2>2. \A a \in Seq(S) : Begins(a, a)
    BY DEF Begins
  <2>3. Begins(upto[i], upto[i])
    BY <1>1, <2>2, Zenon
  <2> QED  BY <2>1, <2>3
<1>3. ASSUME NEW j \in G  PROVE  j + 1 \in G
  <2> SUFFICES ASSUME i + (j + 1) <= n  PROVE  Begins(upto[i], upto[i + (j + 1)])
    OBVIOUS
  <2> DEFINE k == i + (j + 1)
  <2>1. j \in Nat /\ k \in 1..n /\ k - 1 = i + j /\ i + j <= n
    OBVIOUS
  <2>2. Begins(upto[i], upto[k - 1])
    <3>1. Begins(upto[i], upto[i + j])
      BY <2>1
    <3> HIDE DEF k
    <3> QED  BY <2>1, <3>1
  <2> HIDE DEF k
  <2>3. upto[k - 1] \in Seq(S) /\ seqs[k] \in Seq(S) /\ upto[k] = upto[k - 1] \o seqs[k]
    BY <2>1, FlattenNext, Zenon
  <2>4. ASSUME NEW a \in Seq(S), NEW b \in Seq(S), NEW c \in Seq(S), Begins(a, b)
        PROVE  Begins(a, b \o c)
    <3>1. /\ Len(b) \in Nat /\ Len(c) \in Nat /\ Len(b \o c) = Len(b) + Len(c)
          /\ \A p \in 1..Len(b) : (b \o c)[p] = b[p]
      BY Behind, Zenon
    <3> QED  BY <2>4, <3>1 DEF Begins
  <2>5. Begins(upto[i], upto[k - 1] \o seqs[k])
    BY <1>1, <2>2, <2>3, <2>4, Zenon
  <2> QED  BY <2>3, <2>5 DEF k
<1>4. G = Nat
  <2> HIDE DEF G
  <2>1. G \subseteq Nat  BY DEF G
  <2> QED  BY <1>2, <1>3, <2>1, Induction
<1>5. m - i \in G /\ i + (m - i) = m /\ m <= n
  <2> HIDE DEF G
  <2> QED  BY <1>4
<1>6. Begins(upto[i], upto[m])
  BY <1>5
<1> QED  BY <1>1, <1>6

\* Each sequence is found behind those before it.
LiesAt(part, at, all) ==
    /\ at + Len(part) <= Len(all)
    /\ \A j \in 1..Len(part) : all[at + j] = part[j]

LEMMA FlattenPart ==
    ASSUME NEW S, NEW seqs \in Seq(Seq(S)), NEW upto, Flattens(upto, seqs, S),
           NEW i \in 1..Len(seqs), NEW m \in 0..Len(seqs), i <= m
    PROVE  LiesAt(seqs[i], Len(upto[i - 1]), upto[m])
<1> DEFINE a == upto[i - 1]  b == seqs[i]  c == upto[m]
<1>1. a \in Seq(S) /\ b \in Seq(S) /\ upto[i] = a \o b
  BY FlattenNext, Zenon
<1>2. i \in 0..Len(seqs)
  OBVIOUS
<1>3. Begins(upto[i], c)
  BY <1>2, FlattenStays, Zenon
<1> HIDE DEF a, b, c
<1>4. /\ Len(a) \in Nat /\ Len(b) \in Nat /\ Len(a \o b) = Len(a) + Len(b)
      /\ \A j \in 1..Len(b) : (a \o b)[Len(a) + j] = b[j]
  <2>1. a \in Seq(S) /\ b \in Seq(S)
    BY <1>1
  <2> QED  BY <2>1, Behind
<1>5. Begins(a \o b, c)
  BY <1>1, <1>3
<1>6. ASSUME NEW j \in 1..Len(b)  PROVE  c[Len(a) + j] = b[j]
  <2>1. Len(a) + j \in 1..Len(a \o b)
    BY <1>4
  <2> QED  BY <1>4, <1>5, <2>1 DEF Begins
<1>7. Len(a) + Len(b) <= Len(c)
  BY <1>4, <1>5 DEF Begins
<1>8. LiesAt(b, Len(a), c)
  BY <1>6, <1>7 DEF LiesAt
<1> QED  BY <1>8 DEF a, b, c

\* Sequences of one length.
LEMMA FlattenEven ==
    ASSUME NEW S, NEW seqs \in Seq(Seq(S)), NEW upto, Flattens(upto, seqs, S),
           NEW l \in Nat, \A i \in 1..Len(seqs) : Len(seqs[i]) = l
    PROVE  \A k \in 0..Len(seqs) : Len(upto[k]) = k * l
<1> DEFINE n == Len(seqs)  G == {k \in Nat : k <= n => Len(upto[k]) = k * l}
<1>1. 0 \in G
  <2>1. upto[0] = <<>>
    BY Zenon DEF Flattens
  <2> QED  BY <2>1, EmptySeq
<1>2. ASSUME NEW k \in G  PROVE  k + 1 \in G
  <2> SUFFICES ASSUME k + 1 <= n  PROVE  Len(upto[k + 1]) = (k + 1) * l
    OBVIOUS
  <2>1. k \in Nat /\ k + 1 \in 1..n /\ (k + 1) - 1 = k /\ Len(upto[k]) = k * l
    OBVIOUS
  <2> DEFINE a == upto[(k + 1) - 1]  b == seqs[k + 1]
  <2>2. a \in Seq(S) /\ b \in Seq(S) /\ upto[k + 1] = a \o b
    BY <2>1, FlattenNext, Zenon
  <2>3. Len(a) = k * l
    <3> HIDE DEF G
    <3> QED  BY <2>1
  <2>4. Len(b) = l
    BY <2>1
  <2> HIDE DEF a, b
  <2>5. Len(a \o b) = Len(a) + Len(b)
    BY <2>2, Behind, Zenon
  <2>6. (k + 1) * l = k * l + l
    BY <2>1
  <2> QED  BY <2>2, <2>3, <2>4, <2>5, <2>6
<1>3. G = Nat
  <2> HIDE DEF G
  <2>1. G \subseteq Nat  BY DEF G
  <2> QED  BY <1>1, <1>2, <2>1, Induction
<1> QED  BY <1>3

-----------------------------------------------------------------------------
\* The layout of a scan.

\* A value goes to the next multiple of its size.
LEMMA LocationIs ==
    ASSUME NEW b \in Nat, NEW size \in Nat \ {0}
    PROVE  /\ Location(b, size) \in Nat
           /\ b <= Location(b, size) /\ Location(b, size) < b + size
           /\ Location(b, size) % size = 0
           /\ Location(b, size) = b + ((size - b) % size)
<1> DEFINE r == b % size  q == b \div size
<1>1. r \in 0..(size - 1) /\ q \in Int /\ b = size * q + r
  BY DivMod
<1>2. Location(b, size) = IF r = 0 THEN b ELSE b - r + size
  BY DEF Location
<1> HIDE DEF r, q
<1>3. CASE r = 0
  <2>1. size - b = size * (1 - q) + 0 /\ 1 - q \in Int /\ 0 \in 0..(size - 1)
    BY <1>1, <1>3
  <2>2. (size - b) % size = 0
    BY <2>1, DivUnique
  <2>3. b % size = 0
    BY <1>3 DEF r
  <2> QED  BY <1>2, <1>3, <2>2, <2>3
<1>4. CASE r # 0
  <2>1. size - b = size * (-q) + (size - r) /\ -q \in Int /\ size - r \in 0..(size - 1)
    BY <1>1, <1>4
  <2>2. (size - b) % size = size - r
    BY <2>1, DivUnique
  <2>3. (b - r) + size = size * (q + 1) + 0 /\ q + 1 \in Int /\ 0 \in 0..(size - 1)
        /\ (b - r) + size \in Int
    BY <1>1
  <2>4. ((b - r) + size) % size = 0
    BY <2>3, DivUnique
  <2> QED  BY <1>1, <1>2, <1>4, <2>2, <2>4
<1> QED  BY <1>3, <1>4

HaveBytes(channels) ==
    Len(channels) \in Nat /\ \A i \in 1..Len(channels) : channels[i].bytes \in Nat \ {0}

\* Each value goes behind the one before it.
LEMMA EndsDef ==
    ASSUME NEW channels, HaveBytes(channels)
    PROVE  /\ Ends(channels) \in [0..Len(channels) -> Nat]
           /\ Ends(channels)[0] = 0
           /\ \A i \in 1..Len(channels) :
                 Ends(channels)[i] = Location(Ends(channels)[i - 1], channels[i].bytes)
                                        + channels[i].bytes
<1> DEFINE n == Len(channels)
           step == [p \in (1..n) \X Nat |->
                       Location(p[2], channels[p[1]].bytes) + channels[p[1]].bytes]
           body(h) == [i \in 0..n |->
                          IF i = 0 THEN 0
                          ELSE Location(h[i - 1], channels[i].bytes) + channels[i].bytes]
           g == CHOOSE end : end = body(end)
<1>1. n \in Nat /\ 0 \in Nat /\ \A i \in 1..n : channels[i].bytes \in Nat \ {0}
  BY DEF HaveBytes
<1>2. \A i \in 1..n, v \in Nat :
         step[<<i, v>>] = Location(v, channels[i].bytes) + channels[i].bytes
  OBVIOUS
<1>3. \A i \in 1..n, v \in Nat : step[<<i, v>>] \in Nat
  <2> TAKE i \in 1..n, v \in Nat
  <2>1. Location(v, channels[i].bytes) \in Nat
    BY <1>1, LocationIs
  <2> HIDE DEF step
  <2> QED  BY <1>1, <1>2, <2>1
<1> HIDE DEF step
<1>4. PICK f : Recurs(f, n, Nat, 0, step)
  <2> HIDE DEF n
  <2> QED  BY <1>1, <1>3, Recursion
<1>5. /\ f = [i \in 0..n |-> IF i = 0 THEN 0 ELSE step[<<i, f[i - 1]>>]]
      /\ \A i \in 1..n : f[i - 1] \in Nat
  <2> HIDE DEF n
  <2> QED  BY <1>1, <1>4, RecursEquation
<1>6. f = body(f)
  <2>1. \A i \in 1..n : step[<<i, f[i - 1]>>]
                           = Location(f[i - 1], channels[i].bytes) + channels[i].bytes
    BY <1>2, <1>5
  <2>2. \A i \in 0..n : i # 0 => i \in 1..n
    BY <1>1
  <2>3. \A i \in 0..n : f[i] = IF i = 0 THEN 0
                               ELSE Location(f[i - 1], channels[i].bytes) + channels[i].bytes
    BY <1>5, <2>1, <2>2
  <2>4. f = [i \in 0..n |-> f[i]]
    BY <1>4 DEF Recurs
  <2> QED  BY <2>3, <2>4
<1>7. g = body(g)
  <2>1. \E end : end = body(end)
    BY <1>6
  <2> HIDE DEF body
  <2> QED  BY <2>1
<1>8. Ends(channels) = g
  BY Zenon DEF Ends
<1> HIDE DEF g
<1>9. g = [i \in 0..n |-> g[i]] /\ g[0] = 0
  BY <1>1, <1>7
<1>10. \A i \in 1..n : g[i] = Location(g[i - 1], channels[i].bytes) + channels[i].bytes
  <2> TAKE i \in 1..n
  <2>1. i \in 0..n /\ i # 0
    BY <1>1
  <2> QED  BY <1>7, <2>1
<1>11. Recurs(g, n, Nat, 0, step)
  <2>1. \A i \in 1..n : g[i - 1] \in Nat => g[i] = step[<<i, g[i - 1]>>]
    BY <1>2, <1>10
  <2> HIDE DEF n
  <2> QED  BY <1>1, <1>3, <1>9, <2>1, RecursFrom
<1>12. g \in [0..n -> Nat]
  BY <1>11 DEF Recurs
<1> QED  BY <1>8, <1>9, <1>10, <1>12

LEMMA EndsNext ==
    ASSUME NEW channels, HaveBytes(channels)
    PROVE  \A k \in Nat : k + 1 <= Len(channels) =>
              /\ Ends(channels)[k] \in Nat /\ Ends(channels)[k + 1] \in Nat
              /\ Ends(channels)[k + 1] = Location(Ends(channels)[k], channels[k + 1].bytes)
                                            + channels[k + 1].bytes
              /\ Ends(channels)[k] + 1 <= Ends(channels)[k + 1]
<1> DEFINE end == Ends(channels)  n == Len(channels)
<1>1. /\ end \in [0..n -> Nat] /\ n \in Nat
      /\ \A i \in 1..n :
            end[i] = Location(end[i - 1], channels[i].bytes) + channels[i].bytes
  BY EndsDef DEF HaveBytes
<1>2. \A i \in 1..n : channels[i].bytes \in Nat \ {0}
  BY DEF HaveBytes
<1> HIDE DEF end, n
<1>3. \A i \in 1..n, j \in Nat : j = i - 1 =>
         end[i] = Location(end[j], channels[i].bytes) + channels[i].bytes
  <2> TAKE i \in 1..n, j \in Nat
  <2> HAVE j = i - 1
  <2>1. end[i] = Location(end[i - 1], channels[i].bytes) + channels[i].bytes
    BY <1>1
  <2> QED  BY <2>1, Zenon
<1>4. ASSUME NEW k \in Nat, k + 1 <= n
      PROVE  /\ end[k] \in Nat /\ end[k + 1] \in Nat
             /\ end[k + 1] = Location(end[k], channels[k + 1].bytes) + channels[k + 1].bytes
             /\ end[k] + 1 <= end[k + 1]
  <2>1. k + 1 \in 1..n /\ k = (k + 1) - 1 /\ k \in 0..n /\ k + 1 \in 0..n
    BY <1>1, <1>4
  <2>2. end[k + 1] = Location(end[k], channels[k + 1].bytes) + channels[k + 1].bytes
    BY <1>3, <2>1
  <2>3. end[k] \in Nat /\ end[k + 1] \in Nat /\ channels[k + 1].bytes \in Nat \ {0}
    BY <1>1, <1>2, <2>1
  <2>4. Location(end[k], channels[k + 1].bytes) \in Nat
        /\ end[k] <= Location(end[k], channels[k + 1].bytes)
    BY <2>3, LocationIs
  <2> QED  BY <2>2, <2>3, <2>4
<1> QED  BY <1>4 DEF end, n

\* The values do not overlap, and there is a byte for each at least.
LEMMA EndsGrow ==
    ASSUME NEW channels, HaveBytes(channels),
           NEW i \in 0..Len(channels), NEW m \in 0..Len(channels), i <= m
    PROVE  /\ Ends(channels)[i] \in Nat /\ Ends(channels)[m] \in Nat
           /\ Ends(channels)[i] + (m - i) <= Ends(channels)[m]
<1> DEFINE end == Ends(channels)  n == Len(channels)
           G == {j \in Nat : i + j <= n => end[i] + j <= end[i + j]}
<1>1. n \in Nat /\ \A k \in 0..n : end[k] \in Nat
  BY EndsDef DEF HaveBytes
<1>2. 0 \in G
  <2>1. i + 0 = i /\ end[i] + 0 = end[i] /\ end[i] \in Nat
    BY <1>1
  <2> QED  BY <2>1
<1>3. ASSUME NEW j \in G  PROVE  j + 1 \in G
  <2> SUFFICES ASSUME i + (j + 1) <= n  PROVE  end[i] + (j + 1) <= end[i + (j + 1)]
    OBVIOUS
  <2> DEFINE k == i + j
  <2>1. j \in Nat /\ i \in 0..n /\ k \in Nat /\ k \in 0..n /\ k + 1 <= n /\ k + 1 = i + (j + 1)
        /\ end[i] + j <= end[k]
    BY <1>1
  <2> HIDE DEF k, G
  <2>2. end[k] \in Nat /\ end[k + 1] \in Nat /\ end[k] + 1 <= end[k + 1]
    BY <2>1, EndsNext
  <2>3. end[i] \in Nat
    BY <1>1
  <2> HIDE DEF end
  <2> QED  BY <2>1, <2>2, <2>3
<1>4. G = Nat
  <2> HIDE DEF G
  <2>1. G \subseteq Nat  BY DEF G
  <2> QED  BY <1>2, <1>3, <2>1, Induction
<1>5. m - i \in G /\ i + (m - i) = m /\ m <= n
  <2> HIDE DEF G
  <2> QED  BY <1>4
<1> QED  BY <1>1, <1>5

\* Where the values of a scan lie: in order, each at a multiple of its size and
\* behind the ones before it, the last at the scan's end.
THEOREM LayoutHolds ==
    ASSUME NEW channels, HaveBytes(channels), NEW i \in 1..Len(channels)
    PROVE  /\ LocationOf(channels, i) \in Nat
           /\ LocationOf(channels, i) % channels[i].bytes = 0
           /\ LocationOf(channels, i) + channels[i].bytes <= ScanSize(channels)
           /\ \A j \in 1..Len(channels) : j < i =>
                 LocationOf(channels, j) + channels[j].bytes <= LocationOf(channels, i)
<1> DEFINE end == Ends(channels)  n == Len(channels)  size == channels[i].bytes
<1>1. /\ end \in [0..n -> Nat] /\ n \in Nat /\ size \in Nat \ {0}
      /\ end[i] = Location(end[i - 1], size) + size
  BY EndsDef DEF HaveBytes
<1>2. i - 1 \in 0..n /\ i \in 0..n /\ n \in 0..n /\ i <= n /\ n - i \in Nat
  BY <1>1
<1>3. /\ Location(end[i - 1], size) \in Nat
      /\ end[i - 1] <= Location(end[i - 1], size)
      /\ Location(end[i - 1], size) % size = 0
  <2>1. end[i - 1] \in Nat
    BY <1>1, <1>2
  <2> HIDE DEF end, size
  <2> QED  BY <1>1, <2>1, LocationIs
<1>4. LocationOf(channels, i) = Location(end[i - 1], size)
  <2>1. LocationOf(channels, i) = end[i] - size
    BY DEF LocationOf
  <2> HIDE DEF end, size
  <2> QED  BY <1>1, <1>3, <2>1
<1>5. end[i] <= end[n]
  <2>1. end[i] \in Nat /\ end[n] \in Nat /\ end[i] + (n - i) <= end[n]
    BY <1>2, EndsGrow
  <2> HIDE DEF end, n
  <2> QED  BY <1>2, <2>1
<1>6. ASSUME NEW j \in 1..n, j < i
      PROVE  LocationOf(channels, j) + channels[j].bytes <= LocationOf(channels, i)
  <2>1. j \in 0..n /\ j <= i - 1 /\ (i - 1) - j \in Nat
    BY <1>1, <1>6
  <2>2. end[j] \in Nat /\ end[i - 1] \in Nat /\ end[j] + ((i - 1) - j) <= end[i - 1]
    BY <1>2, <2>1, EndsGrow
  <2>3. end[j] <= end[i - 1]
    <3> HIDE DEF end
    <3> QED  BY <2>1, <2>2
  <2>4. channels[j].bytes \in Nat
    BY DEF HaveBytes
  <2>5. LocationOf(channels, j) + channels[j].bytes = end[j]
    <3>1. LocationOf(channels, j) = end[j] - channels[j].bytes
      BY DEF LocationOf
    <3> HIDE DEF end
    <3> QED  BY <2>2, <2>4, <3>1
  <2> HIDE DEF end
  <2> QED  BY <1>3, <1>4, <2>2, <2>3, <2>5
<1>7. ScanSize(channels) = end[n]
  BY DEF ScanSize
<1> HIDE DEF end, n, size
<1> QED  BY <1>1, <1>3, <1>4, <1>5, <1>6, <1>7 DEF n, size

LEMMA ScanSizeType ==
    ASSUME NEW channels, HaveBytes(channels)
    PROVE  ScanSize(channels) \in Nat /\ ScanSize(channels) >= Len(channels)
<1>1. Len(channels) \in Nat /\ 0 \in 0..Len(channels) /\ Len(channels) \in 0..Len(channels)
  BY DEF HaveBytes
<1>2. /\ Ends(channels)[0] \in Nat /\ Ends(channels)[Len(channels)] \in Nat
      /\ Ends(channels)[0] + (Len(channels) - 0) <= Ends(channels)[Len(channels)]
  BY <1>1, EndsGrow
<1> QED  BY <1>1, <1>2 DEF ScanSize

\* Words lie one behind the other.
LEMMA EndsWords ==
    ASSUME NEW channels, HaveBytes(channels),
           \A i \in 1..Len(channels) : channels[i].bytes = 4
    PROVE  \A i \in 0..Len(channels) : Ends(channels)[i] = 4 * i
<1> DEFINE end == Ends(channels)  n == Len(channels)
           G == {k \in Nat : k <= n => end[k] = 4 * k}
<1>1. 0 \in G
  <2>1. end[0] = 0
    BY EndsDef
  <2> QED  BY <2>1
<1>2. ASSUME NEW k \in G  PROVE  k + 1 \in G
  <2> SUFFICES ASSUME k + 1 <= n  PROVE  end[k + 1] = 4 * (k + 1)
    OBVIOUS
  <2>1. k \in Nat /\ k <= n /\ end[k] = 4 * k /\ n \in Nat
    BY DEF HaveBytes
  <2>2. channels[k + 1].bytes = 4
    BY <2>1
  <2>3. end[k + 1] = Location(end[k], channels[k + 1].bytes) + channels[k + 1].bytes
    <3> HIDE DEF G
    <3> QED  BY <2>1, EndsNext
  <2> HIDE DEF end
  <2>4. Location(4 * k, 4) = 4 * k
    <3>1. 4 * k = 4 * k + 0 /\ 4 * k \in Int /\ 4 \in Nat \ {0} /\ 0 \in 0..(4 - 1) /\ k \in Int
      BY <2>1
    <3>2. (4 * k) % 4 = 0
      BY <3>1, DivUnique
    <3> QED  BY <3>2 DEF Location
  <2> QED  BY <2>1, <2>2, <2>3, <2>4
<1>3. G = Nat
  <2> HIDE DEF G
  <2>1. G \subseteq Nat  BY DEF G
  <2> QED  BY <1>1, <1>2, <2>1, Induction
<1> QED  BY <1>3

-----------------------------------------------------------------------------
\* The order of the channels.

Rising(channels) ==
    \A i, j \in 1..Len(channels) : i < j => channels[i].index < channels[j].index
Falling(channels) ==
    \A i, j \in 1..Len(channels) : i < j => channels[j].index < channels[i].index

\* Sorting leaves the channels of a directory in order as they are ...
LEMMA SortRising ==
    ASSUME NEW S, NEW channels \in Seq(S), \A i \in 1..Len(channels) : channels[i].index \in Int,
           Rising(channels)
    PROVE  SortedByIndex(channels) = channels
<1> DEFINE n == Len(channels)  D == DOMAIN channels
           rank(c) == Cardinality({j \in D : channels[j].index < c.index})
           all == {channels[j] : j \in D}
<1>1. n \in Nat /\ D = 1..n /\ channels = [i \in 1..n |-> channels[i]]
  OBVIOUS
<1>2. ASSUME NEW i \in 1..n  PROVE  rank(channels[i]) = i - 1
  <2>1. {j \in D : channels[j].index < channels[i].index} = 1..(i - 1)
    <3>1. \A j \in 1..n : channels[j].index < channels[i].index <=> j < i
      BY <1>1 DEF Rising
    <3> QED  BY <1>1, <3>1
  <2>2. Cardinality(1..(i - 1)) = i - 1
    BY <1>1, FS_Interval
  <2> QED  BY <2>1, <2>2
<1>3. ASSUME NEW i \in 1..n
      PROVE  (CHOOSE c \in all : rank(c) = i - 1) = channels[i]
  <2>1. channels[i] \in all /\ rank(channels[i]) = i - 1
    BY <1>1, <1>2
  <2>2. ASSUME NEW c \in all, rank(c) = i - 1  PROVE  c = channels[i]
    <3>1. PICK j \in 1..n : c = channels[j]
      BY <1>1
    <3>2. rank(c) = j - 1
      BY <1>2, <3>1
    <3>3. j = i
      BY <1>1, <2>2, <3>2
    <3> QED  BY <3>1, <3>3
  <2> HIDE DEF rank, all
  <2> QED  BY <2>1, <2>2
<1>4. SortedByIndex(channels) = [i \in D |-> CHOOSE c \in all : rank(c) = i - 1]
  BY DEF SortedByIndex
<1> HIDE DEF rank, all
<1> QED  BY <1>1, <1>3, <1>4

\* ... and turns those of one in the opposite order round.
LEMMA SortFalling ==
    ASSUME NEW S, NEW channels \in Seq(S), \A i \in 1..Len(channels) : channels[i].index \in Int,
           Falling(channels)
    PROVE  /\ SortedByIndex(channels) \in Seq(S)
           /\ Len(SortedByIndex(channels)) = Len(channels)
           /\ \A i \in 1..Len(channels) :
                 SortedByIndex(channels)[i] = channels[Len(channels) + 1 - i]
<1> DEFINE n == Len(channels)  D == DOMAIN channels
           rank(c) == Cardinality({j \in D : channels[j].index < c.index})
           all == {channels[j] : j \in D}
<1>1. n \in Nat /\ D = 1..n /\ \A i \in 1..n : channels[i] \in S
  OBVIOUS
<1>2. ASSUME NEW i \in 1..n  PROVE  rank(channels[i]) = n - i
  <2>1. {j \in D : channels[j].index < channels[i].index} = (i + 1)..n
    <3>1. \A j \in 1..n : channels[j].index < channels[i].index <=> i < j
      BY <1>1 DEF Falling
    <3> QED  BY <1>1, <3>1
  <2>2. Cardinality((i + 1)..n) = n - i
    <3>1. i + 1 \in Int /\ n \in Int
      BY <1>1
    <3>2. Cardinality((i + 1)..n) = IF i + 1 > n THEN 0 ELSE n - (i + 1) + 1
      BY <3>1, FS_Interval
    <3> QED  BY <1>1, <3>2
  <2> QED  BY <2>1, <2>2
<1>3. ASSUME NEW i \in 1..n
      PROVE  (CHOOSE c \in all : rank(c) = i - 1) = channels[n + 1 - i]
  <2>0. n + 1 - i \in 1..n
    BY <1>1
  <2>1. channels[n + 1 - i] \in all /\ rank(channels[n + 1 - i]) = i - 1
    <3>1. rank(channels[n + 1 - i]) = n - (n + 1 - i)
      <4> HIDE DEF rank
      <4> QED  BY <1>2, <2>0
    <3>2. n - (n + 1 - i) = i - 1
      BY <1>1
    <3>3. channels[n + 1 - i] \in all
      BY <1>1, <2>0
    <3> QED  BY <3>1, <3>2, <3>3
  <2>2. ASSUME NEW c \in all, rank(c) = i - 1  PROVE  c = channels[n + 1 - i]
    <3>1. PICK j \in 1..n : c = channels[j]
      BY <1>1
    <3>2. rank(c) = n - j
      BY <1>2, <3>1
    <3>3. j = n + 1 - i
      BY <1>1, <2>2, <3>2
    <3> QED  BY <3>1, <3>3
  <2> HIDE DEF rank, all
  <2> QED  BY <2>1, <2>2
<1>4. SortedByIndex(channels) = [i \in D |-> CHOOSE c \in all : rank(c) = i - 1]
  BY DEF SortedByIndex
<1> HIDE DEF rank, all
<1>5. SortedByIndex(channels) = [i \in 1..n |-> channels[n + 1 - i]]
  BY <1>1, <1>3, <1>4
<1>6. [i \in 1..n |-> channels[n + 1 - i]] \in [1..n -> S]
  <2>1. \A i \in 1..n : n + 1 - i \in 1..n
    BY <1>1
  <2> QED  BY <1>1, <2>1
<1>7. SortedByIndex(channels) \in Seq(S) /\ Len(SortedByIndex(channels)) = n
  <2> HIDE DEF n
  <2> QED  BY <1>1, <1>5, <1>6, FunctionSeq
<1> QED  BY <1>5, <1>7

-----------------------------------------------------------------------------
\* The drivers' tables.

FirstUsage(driver) ==
    CASE driver = "accel_3d"    -> ACCEL_X_AXIS
      [] driver = "gyro_3d"     -> ANGL_VELOCITY_X_AXIS
      [] driver = "magn_3d"     -> ORIENT_MAGN_FLUX_X
      [] driver = "als"         -> LIGHT_ILLUM
      [] driver = "incli_3d"    -> ORIENT_TILT_X
      [] driver = "custom"      -> CUSTOM_VALUE_1
      [] driver = "generic"     -> GENERIC_DATAFIELD_KEY
      [] driver = "orientation" -> QUATERNION

ChannelCount(driver) ==
    CASE driver \in {"accel_3d", "gyro_3d", "magn_3d", "incli_3d"} -> 3
      [] driver = "custom"                                         -> 7
      [] OTHER                                                     -> 1

\* A driver's usages are consecutive.
LEMMA Addresses ==
    ASSUME NEW driver \in Drivers
    PROVE  /\ ChannelCount(driver) \in Nat \ {0}
           /\ FirstUsage(driver) \in Nat \ {0}
           /\ AddressesOf(driver)
                 = [i \in 1..ChannelCount(driver) |-> FirstUsage(driver) + i - 1]
<1>1. ChannelCount(driver) \in Nat \ {0}
  BY DEF Drivers, ChannelCount
<1>2. FirstUsage(driver) \in Nat \ {0}
  BY DEF Drivers, FirstUsage, ACCEL_X_AXIS, ANGL_VELOCITY_X_AXIS, ORIENT_MAGN_FLUX_X,
     ORIENT_TILT_X, CUSTOM_VALUE_1, LIGHT_ILLUM, GENERIC_DATAFIELD_KEY, QUATERNION
<1> DEFINE first == FirstUsage(driver)
           row   == [i \in 1..ChannelCount(driver) |-> first + i - 1]
<1> SUFFICES AddressesOf(driver) = row
  BY <1>1, <1>2
<1>3. CASE driver \in {"accel_3d", "gyro_3d", "magn_3d", "incli_3d"}
  <2>1. AddressesOf(driver) = <<first, first + 1, first + 2>>
    BY <1>3 DEF AddressesOf, FirstUsage, AccelAddresses, GyroAddresses, MagnAddresses,
       InclAddresses, Three
  <2>2. row = [i \in 1..3 |-> first + i - 1]
    BY <1>3 DEF ChannelCount
  <2> HIDE DEF row, first
  <2>3. first \in Nat
    BY <1>2 DEF first
  <2>4. \A i \in 1..3 : first + i - 1 = <<first, first + 1, first + 2>>[i]
    BY <2>3
  <2>5. [i \in 1..3 |-> first + i - 1] = <<first, first + 1, first + 2>>
    BY <2>4
  <2> QED  BY <2>1, <2>2, <2>5
<1>4. CASE driver = "custom"
  <2>1. AddressesOf(driver) = [i \in 1..7 |-> first + i - 1]
    BY <1>4 DEF AddressesOf, FirstUsage, CustomAddresses
  <2>2. ChannelCount(driver) = 7
    BY <1>4 DEF ChannelCount
  <2> HIDE DEF first
  <2> QED  BY <2>1, <2>2
<1>5. CASE driver \in {"als", "generic", "orientation"}
  <2>1. AddressesOf(driver) = <<first>>
    BY <1>5 DEF AddressesOf, FirstUsage
  <2>2. row = [i \in 1..1 |-> first + i - 1]
    BY <1>5 DEF ChannelCount
  <2> HIDE DEF row, first
  <2>3. first \in Nat
    BY <1>2 DEF first
  <2>4. [i \in 1..1 |-> first + i - 1] = <<first>>
    BY <2>3
  <2> QED  BY <2>1, <2>2, <2>4
<1> QED  BY <1>3, <1>4, <1>5 DEF Drivers

\* The drivers' copies of the functions do the same.
LEMMA Parses ==
    ASSUME NEW driver \in Drivers, NEW fields
    PROVE  ParseReport(driver, fields)
              = ParseFields(fields, AddressesOf(driver),
                            ScanTypes(FieldSizes(fields, AddressesOf(driver))))
  BY DEF Drivers, ParseReport, AddressesOf, AccelParse, GyroParse, MagnParse, AlsParse,
     InclParse, CustomParse, GenericParse, OrientParse, AccelAdjust, GyroAdjust,
     MagnAdjust, AlsAdjust, InclAdjust, CustomAdjust, GenericAdjust, OrientAdjust

LEMMA Pushes ==
    ASSUME NEW driver \in Drivers, NEW vals
    PROVE  ProcEvent(driver, vals, TRUE) = <<vals>>
  BY DEF Drivers, ProcEvent, AccelEvent, GyroEvent, MagnEvent, AlsEvent, InclEvent,
     CustomEvent, GenericEvent, OrientEvent, PushVals

\* A word goes to the channel that has its usage, if there is one.
LEMMA Captures ==
    ASSUME NEW driver \in Drivers, NEW vals \in [1..ChannelCount(driver) -> Int],
           NEW usage \in Nat, NEW word \in Int
    PROVE  CaptureSample(driver, vals, usage, word)
              = [c \in 1..ChannelCount(driver) |->
                    IF usage = FirstUsage(driver) + c - 1 THEN word ELSE vals[c]]
<1> DEFINE n == ChannelCount(driver)  first == FirstUsage(driver)
           new == [c \in 1..n |-> IF usage = first + c - 1 THEN word ELSE vals[c]]
           after == CaptureSample(driver, vals, usage, word)
<1> SUFFICES after = new
  OBVIOUS
<1>1. n \in Nat \ {0} /\ first \in Nat
  BY Addresses
<1>2. vals \in Seq(Int) /\ Len(vals) = n
  <2>1. n \in Nat /\ vals \in [1..n -> Int]
    BY <1>1
  <2> HIDE DEF n
  <2> QED  BY <2>1, FunctionSeq
<1> HIDE DEF n, first, after
<1>3. CaptureAt(vals, usage - first, word) = new
  <2>1. CASE usage - first \in 0..(n - 1)
    <3>1. CaptureAt(vals, usage - first, word) = [vals EXCEPT ![usage - first + 1] = word]
      BY <1>2, <2>1 DEF CaptureAt
    <3>2. \A c \in 1..n : usage = first + c - 1 <=> c = usage - first + 1
      BY <1>1
    <3> QED  BY <1>1, <3>1, <3>2 DEF n
  <2>2. CASE usage - first \notin 0..(n - 1)
    <3>1. CaptureAt(vals, usage - first, word) = vals
      BY <1>2, <2>2 DEF CaptureAt
    <3>2. \A c \in 1..n : usage # first + c - 1
      BY <1>1, <2>2
    <3> QED  BY <1>1, <3>1, <3>2 DEF n
  <2> QED  BY <2>1, <2>2
<1>4. CASE driver \in {"accel_3d", "gyro_3d", "magn_3d", "custom"}
  <2>1. after = CaptureAt(vals, usage - first, word)
    BY <1>4 DEF after, first, FirstUsage, CaptureSample, AccelCapture, GyroCapture,
       MagnCapture, CustomCapture
  <2> QED  BY <1>3, <2>1
<1>5. CASE driver \in {"als", "generic", "orientation"}
  <2>1. n = 1 /\ DOMAIN vals = 1..1
    BY <1>5 DEF n, ChannelCount
  <2>2. after = IF usage = first THEN [c \in 1..1 |-> word] ELSE vals
    <3>1. CASE driver \in {"als", "generic"}
      BY <3>1 DEF after, first, FirstUsage, CaptureSample, AlsCapture, GenericCapture
    <3>2. CASE driver = "orientation"
      <4>1. usage = first => usage - QUATERNION + 1 = 1
        BY <1>1, <3>2 DEF first, FirstUsage, QUATERNION
      <4>2. [vals EXCEPT ![1] = word] = [c \in 1..1 |-> word]
        <5>1. vals = [c \in 1..1 |-> vals[c]]
          BY <2>1
        <5>2. [vals EXCEPT ![1] = word] = [c \in 1..1 |-> IF c = 1 THEN word ELSE vals[c]]
          BY <5>1
        <5>3. \A c \in 1..1 : c = 1
          OBVIOUS
        <5> QED  BY <5>2, <5>3
      <4>3. after = IF usage = first
                    THEN [vals EXCEPT ![usage - QUATERNION + 1] = word] ELSE vals
        BY <3>2 DEF after, first, FirstUsage, CaptureSample, OrientCapture
      <4> QED  BY <4>1, <4>2, <4>3
    <3> QED  BY <1>5, <3>1, <3>2
  <2>3. \A c \in 1..1 : first + c - 1 = first
    BY <1>1
  <2>4. new = IF usage = first THEN [c \in 1..1 |-> word] ELSE vals
    BY <1>1, <2>1, <2>3
  <2> QED  BY <2>2, <2>4
<1>6. CASE driver = "incli_3d"
  <2>1. n = 3 /\ first = ORIENT_TILT_X /\ DOMAIN vals = 1..3
    BY <1>6 DEF n, first, ChannelCount, FirstUsage
  <2>2. after = CASE usage = ORIENT_TILT_X     -> [vals EXCEPT ![1] = word]
                  [] usage = ORIENT_TILT_X + 1 -> [vals EXCEPT ![2] = word]
                  [] usage = ORIENT_TILT_X + 2 -> [vals EXCEPT ![3] = word]
                  [] OTHER                     -> vals
    BY <1>6 DEF after, CaptureSample, InclCapture
  <2>3. CASE usage = ORIENT_TILT_X
    <3>1. after = [vals EXCEPT ![1] = word]
      BY <2>2, <2>3
    <3>2. \A c \in 1..3 : usage = first + c - 1 <=> c = 1
      BY <2>1, <2>3 DEF ORIENT_TILT_X
    <3> QED  BY <2>1, <3>1, <3>2
  <2>4. CASE usage = ORIENT_TILT_X + 1
    <3>1. after = [vals EXCEPT ![2] = word]
      BY <2>2, <2>4 DEF ORIENT_TILT_X
    <3>2. \A c \in 1..3 : usage = first + c - 1 <=> c = 2
      BY <2>1, <2>4 DEF ORIENT_TILT_X
    <3> QED  BY <2>1, <3>1, <3>2
  <2>5. CASE usage = ORIENT_TILT_X + 2
    <3>1. after = [vals EXCEPT ![3] = word]
      BY <2>2, <2>5 DEF ORIENT_TILT_X
    <3>2. \A c \in 1..3 : usage = first + c - 1 <=> c = 3
      BY <2>1, <2>5 DEF ORIENT_TILT_X
    <3> QED  BY <2>1, <3>1, <3>2
  <2>6. CASE usage \notin {ORIENT_TILT_X, ORIENT_TILT_X + 1, ORIENT_TILT_X + 2}
    <3>1. after = vals
      BY <2>2, <2>6
    <3>2. \A c \in 1..3 : usage # first + c - 1
      BY <2>1, <2>6 DEF ORIENT_TILT_X
    <3> QED  BY <2>1, <3>1, <3>2
  <2> QED  BY <2>3, <2>4, <2>5, <2>6
<1> QED  BY <1>4, <1>5, <1>6 DEF Drivers

-----------------------------------------------------------------------------
\* A report's fields.

FieldsOK(fields) ==
    /\ fields \in Seq([usage : Nat, size : Nat \ {0}])
    /\ \A i, j \in 1..Len(fields) : fields[i].usage = fields[j].usage => i = j

LEMMA FieldTypes ==
    ASSUME NEW fields, FieldsOK(fields)
    PROVE  /\ Len(fields) \in Nat /\ DOMAIN fields = 1..Len(fields)
           /\ \A k \in 1..Len(fields) :
                 fields[k].usage \in Nat /\ fields[k].size \in Nat \ {0}
<1>1. fields \in Seq([usage : Nat, size : Nat \ {0}])
  BY DEF FieldsOK
<1>2. Len(fields) \in Nat /\ DOMAIN fields = 1..Len(fields)
  <2>1. \A S : \A f \in Seq(S) : Len(f) \in Nat /\ DOMAIN f = 1..Len(f)
    OBVIOUS
  <2> QED  BY <1>1, <2>1, Zenon
<1>3. \A k \in 1..Len(fields) : fields[k] \in [usage : Nat, size : Nat \ {0}]
  <2>1. \A S : \A f \in Seq(S) : \A k \in 1..Len(f) : f[k] \in S
    OBVIOUS
  <2> QED  BY <1>1, <2>1, Zenon
<1> QED  BY <1>2, <1>3

LEMMA Attribute ==
    ASSUME NEW fields, FieldsOK(fields), NEW usage
    PROVE  /\ \A k \in 1..Len(fields) :
                 fields[k].usage = usage => AttributeInfo(fields, usage) = fields[k]
           /\ AttributeInfo(fields, usage) # NoField =>
                 \E k \in 1..Len(fields) : fields[k].usage = usage
<1> DEFINE having == {fields[i] : i \in {j \in DOMAIN fields : fields[j].usage = usage}}
<1>1. AttributeInfo(fields, usage)
         = IF having = {} THEN NoField ELSE CHOOSE f \in having : TRUE
  BY DEF AttributeInfo
<1>2. DOMAIN fields = 1..Len(fields)
  BY FieldTypes
<1>3. ASSUME NEW k \in 1..Len(fields), fields[k].usage = usage
      PROVE  AttributeInfo(fields, usage) = fields[k]
  <2>1. having = {fields[k]}
    BY <1>2, <1>3 DEF FieldsOK
  <2> HIDE DEF having
  <2> QED  BY <1>1, <2>1
<1>4. having # {} => \E k \in 1..Len(fields) : fields[k].usage = usage
  BY <1>2
<1> HIDE DEF having
<1> QED  BY <1>1, <1>3, <1>4

\* The types of a driver's channels are those of their fields.
LEMMA ChannelTypes ==
    ASSUME NEW driver \in Drivers, NEW fields, FieldsOK(fields)
    PROVE  /\ ParseReport(driver, fields).ret \in {0, -1}
           /\ DOMAIN ParseReport(driver, fields).types = 1..ChannelCount(driver)
           /\ ParseReport(driver, fields).ret = 0 =>
                 \A c \in 1..ChannelCount(driver) :
                    \E k \in 1..Len(fields) :
                       /\ fields[k].usage = FirstUsage(driver) + c - 1
                       /\ ParseReport(driver, fields).types[c] = ScanType(fields[k].size)
<1> DEFINE usages == AddressesOf(driver)  n == ChannelCount(driver)
           present(i) == AttributeInfo(fields, usages[i]) # NoField
           types == ScanTypes(FieldSizes(fields, usages))
<1>1. usages = [i \in 1..n |-> FirstUsage(driver) + i - 1]
  BY Addresses
<1>2. ParseReport(driver, fields) = ParseFields(fields, usages, types)
  BY Parses
<1> HIDE DEF usages, n
<1>3. DOMAIN usages = 1..n
  BY <1>1
<1>4. DOMAIN types = 1..n
      /\ \A c \in 1..n : types[c] = ScanType(AttributeInfo(fields, usages[c]).size)
  BY <1>3 DEF ScanTypes, FieldSizes
<1> HIDE DEF types
<1>5. ParseReport(driver, fields)
         = [ret |-> IF \A i \in 1..n : present(i) THEN 0 ELSE -1, types |-> types]
  BY <1>2, <1>3 DEF ParseFields
<1> HIDE DEF present
<1>6. ASSUME ParseReport(driver, fields).ret = 0, NEW c \in 1..n
      PROVE  \E k \in 1..Len(fields) : /\ fields[k].usage = FirstUsage(driver) + c - 1
                                       /\ types[c] = ScanType(fields[k].size)
  <2>1. present(c)
    BY <1>5, <1>6
  <2>2. PICK k \in 1..Len(fields) : fields[k].usage = usages[c]
    BY <2>1, Attribute DEF present
  <2>3. AttributeInfo(fields, usages[c]) = fields[k]
    BY <2>2, Attribute
  <2> QED  BY <1>1, <1>4, <2>2, <2>3
<1> QED  BY <1>4, <1>5, <1>6 DEF n

\* What the walk leaves in the driver's array: each channel's word of the report.
HasWords(words, driver, fields, raw) ==
    /\ words \in [1..ChannelCount(driver) -> Int]
    /\ \A k \in 1..Len(fields), c \in 1..ChannelCount(driver) :
          fields[k].usage = FirstUsage(driver) + c - 1 =>
             words[c] = Number(raw, FieldAt(fields, k), 4)

LEMMA Walk ==
    ASSUME NEW driver \in Drivers, NEW fields, FieldsOK(fields), NEW raw,
           \A k \in 1..Len(fields) : Number(raw, FieldAt(fields, k), 4) \in Int,
           NEW vals \in [1..ChannelCount(driver) -> Int]
    PROVE  HasWords(RawEvent(driver, fields, raw, vals, TRUE)[1], driver, fields, raw)
<1> SUFFICES LET r == RawEvent(driver, fields, raw, vals, TRUE)[1]
             IN  /\ r \in [1..ChannelCount(driver) -> Int]
                 /\ \A k \in 1..Len(fields), c \in 1..ChannelCount(driver) :
                       fields[k].usage = FirstUsage(driver) + c - 1 =>
                          r[c] = Number(raw, FieldAt(fields, k), 4)
  BY DEF HasWords
<1> DEFINE n == ChannelCount(driver)  N == Len(fields)
           word(k) == Number(raw, FieldAt(fields, k), 4)
           its(c, k) == fields[k].usage = FirstUsage(driver) + c - 1
           row(i) == [c \in 1..n |-> IF \E k \in 1..i : its(c, k)
                                     THEN word(CHOOSE k \in 1..i : its(c, k)) ELSE vals[c]]
           body(a) == [i \in 0..N |->
                          IF i = 0 THEN vals
                          ELSE CaptureSample(driver, a[i - 1], fields[i].usage, word(i))]
           g == CHOOSE after : after = body(after)
<1>1. N \in Nat /\ (\A k \in 1..N : fields[k].usage \in Nat /\ word(k) \in Int)
  BY FieldTypes
<1>2. \A c \in 1..n : \A j, k \in 1..N : its(c, j) /\ its(c, k) => j = k
  BY DEF FieldsOK
<1>3. RawEvent(driver, fields, raw, vals, TRUE) = <<g[N]>>
  <2>1. RawEvent(driver, fields, raw, vals, TRUE) = ProcEvent(driver, g[N], TRUE)
    BY Zenon DEF RawEvent
  <2> HIDE DEF g
  <2> QED  BY <2>1, Pushes
<1>4. ASSUME NEW i \in 0..N  PROVE  row(i) \in [1..n -> Int]
  <2>1. ASSUME NEW c \in 1..n, \E k \in 1..i : its(c, k)
        PROVE  word(CHOOSE k \in 1..i : its(c, k)) \in Int
    <3> HIDE DEF its, word
    <3>1. (CHOOSE k \in 1..i : its(c, k)) \in 1..i
      BY <2>1
    <3> QED  BY <1>1, <3>1
  <2> HIDE DEF its, word
  <2> QED  BY <2>1
<1>5. row(0) = vals
  <2> HIDE DEF its, word
  <2>1. \A c \in 1..n : ~ \E k \in 1..0 : its(c, k)
    OBVIOUS
  <2> QED  BY <2>1
<1>6. ASSUME NEW i \in Nat, i + 1 <= N
      PROVE  CaptureSample(driver, row(i), fields[i + 1].usage, word(i + 1)) = row(i + 1)
  <2>1. i \in 0..N /\ i + 1 \in 1..N
    BY <1>1, <1>6
  <2>2. CaptureSample(driver, row(i), fields[i + 1].usage, word(i + 1))
           = [c \in 1..n |-> IF its(c, i + 1) THEN word(i + 1) ELSE row(i)[c]]
    <3>1. row(i) \in [1..n -> Int] /\ fields[i + 1].usage \in Nat /\ word(i + 1) \in Int
      BY <1>1, <1>4, <2>1
    <3> DEFINE v == row(i)  u == fields[i + 1].usage  w == word(i + 1)
    <3>2. v \in [1..n -> Int] /\ u \in Nat /\ w \in Int
      BY <3>1
    <3> HIDE DEF v, u, w
    <3>3. CaptureSample(driver, v, u, w)
             = [c \in 1..n |-> IF u = FirstUsage(driver) + c - 1 THEN w ELSE v[c]]
      BY <3>2, Captures
    <3> HIDE DEF row, word
    <3> QED  BY <3>3 DEF v, u, w
  <2>3. ASSUME NEW c \in 1..n, its(c, i + 1)  PROVE  row(i + 1)[c] = word(i + 1)
    <3>1. (CHOOSE k \in 1..(i + 1) : its(c, k)) = i + 1
      <4>1. i + 1 \in 1..(i + 1)
        OBVIOUS
      <4>2. \A k \in 1..(i + 1) : its(c, k) => k = i + 1
        BY <1>1, <1>2, <1>6, <2>1, <2>3
      <4> HIDE DEF its
      <4> QED  BY <2>3, <4>1, <4>2
    <3>2. \E k \in 1..(i + 1) : its(c, k)
      BY <2>1, <2>3
    <3> HIDE DEF its, word
    <3> QED  BY <3>1, <3>2
  <2>4. ASSUME NEW c \in 1..n, ~its(c, i + 1)  PROVE  row(i + 1)[c] = row(i)[c]
    <3> HIDE DEF its, word
    <3>1. \A k \in 1..(i + 1) : k \in 1..i \/ k = i + 1
      OBVIOUS
    <3>2. \A k \in 1..i : k \in 1..(i + 1)
      OBVIOUS
    <3>3. CASE \E k \in 1..i : its(c, k)
      <4>1. PICK k \in 1..i : its(c, k)
        BY <3>3
      <4>2. \A j \in 1..(i + 1) : its(c, j) => j = k
        <5>1. \A j \in 1..(i + 1) : j \in 1..N
          BY <1>1, <1>6
        <5> QED  BY <1>2, <3>2, <4>1, <5>1
      <4>3. (CHOOSE j \in 1..(i + 1) : its(c, j)) = k /\ (CHOOSE j \in 1..i : its(c, j)) = k
        BY <3>2, <4>1, <4>2
      <4> QED  BY <3>2, <3>3, <4>1, <4>3
    <3>4. CASE ~ \E k \in 1..i : its(c, k)
      BY <2>4, <3>1, <3>4
    <3> QED  BY <3>3, <3>4
  <2>5. row(i + 1) = [c \in 1..n |-> row(i + 1)[c]]
    OBVIOUS
  <2> HIDE DEF row, its, word
  <2> QED  BY <2>2, <2>3, <2>4, <2>5
<1> HIDE DEF row, word
<1>7. \E after : after = body(after)
  <2> DEFINE h == [i \in 0..N |-> row(i)]
  <2>1. ASSUME NEW i \in 0..N, i # 0
        PROVE  h[i] = CaptureSample(driver, h[i - 1], fields[i].usage, word(i))
    <3> DEFINE j == i - 1
    <3>1. j \in Nat /\ j + 1 <= N /\ i = j + 1 /\ j \in 0..N
      BY <1>1, <2>1
    <3>2. CaptureSample(driver, row(j), fields[j + 1].usage, word(j + 1)) = row(j + 1)
      BY <1>6, <3>1
    <3> HIDE DEF j
    <3>3. CaptureSample(driver, row(j), fields[i].usage, word(i)) = row(i)
      BY <3>1, <3>2
    <3> QED  BY <3>1, <3>3 DEF j
  <2>2. h[0] = vals
    BY <1>1, <1>5
  <2>3. h = body(h)
    <3> HIDE DEF h
    <3>1. h = [i \in 0..N |-> h[i]]
      BY DEF h
    <3> QED  BY <2>1, <2>2, <3>1
  <2> QED  BY <2>3
<1>8. g = body(g)
  <2> HIDE DEF body
  <2> QED  BY <1>7
<1> HIDE DEF g
<1>9. g[0] = vals
  BY <1>1, <1>8
<1>10. ASSUME NEW i \in Nat, i + 1 <= N
       PROVE  g[i + 1] = CaptureSample(driver, g[i], fields[i + 1].usage, word(i + 1))
  <2>1. i + 1 \in 0..N /\ i + 1 # 0 /\ (i + 1) - 1 = i
    BY <1>1, <1>10
  <2>2. g[i + 1] = CaptureSample(driver, g[(i + 1) - 1], fields[i + 1].usage, word(i + 1))
    BY <1>8, <2>1
  <2> QED  BY <2>1, <2>2
<1> DEFINE G == {i \in Nat : i <= N => g[i] = row(i)}
<1>11. 0 \in G
  BY <1>5, <1>9
<1>12. ASSUME NEW i \in G  PROVE  i + 1 \in G
  <2> SUFFICES ASSUME i + 1 <= N  PROVE  g[i + 1] = row(i + 1)
    OBVIOUS
  <2>1. i \in Nat /\ g[i] = row(i)
    BY <1>1
  <2> QED  BY <1>6, <1>10, <2>1
<1>13. G = Nat
  <2> HIDE DEF G
  <2>1. G \subseteq Nat  BY DEF G
  <2> QED  BY <1>11, <1>12, <2>1, Induction
<1>14. g[N] = row(N) /\ row(N) \in [1..n -> Int]
  BY <1>1, <1>4, <1>13
<1>15. ASSUME NEW k \in 1..N, NEW c \in 1..n, its(c, k)  PROVE  row(N)[c] = word(k)
  <2> HIDE DEF its
  <2>1. (CHOOSE j \in 1..N : its(c, j)) = k
    BY <1>2, <1>15
  <2>2. row(N)[c] = IF \E j \in 1..N : its(c, j)
                    THEN word(CHOOSE j \in 1..N : its(c, j)) ELSE vals[c]
    BY DEF row
  <2> QED  BY <1>15, <2>1, <2>2
<1>16. RawEvent(driver, fields, raw, vals, TRUE)[1] = row(N)
  <2>1. \A v : <<v>>[1] = v
    OBVIOUS
  <2>2. RawEvent(driver, fields, raw, vals, TRUE)[1] = <<g[N]>>[1]
    BY <1>3, Zenon
  <2>3. <<g[N]>>[1] = g[N]
    BY <2>1, Zenon
  <2> QED  BY <1>14, <2>2, <2>3, Zenon
<1> QED  BY <1>14, <1>15, <1>16 DEF word

\* Where the walk finds a field: behind those before it.
LEMMA FieldPlaces ==
    ASSUME NEW fields, FieldsOK(fields), NEW len,
           \A i \in 0..Len(fields) : len[i] \in Nat,
           len[0] = 0,
           \A i \in Nat : i + 1 <= Len(fields) => len[i + 1] = len[i] + fields[i + 1].size
    PROVE  \A i \in Nat : i + 1 <= Len(fields) => FieldAt(fields, i + 1) = len[i]
<1> DEFINE N == Len(fields)
           body(a) == [k \in 1..N |-> IF k = 1 THEN 0 ELSE a[k - 1] + fields[k - 1].size]
           g == CHOOSE at : at = body(at)
<1>1. N \in Nat
  BY FieldTypes
<1>2. \E at : at = body(at)
  <2> DEFINE h == [k \in 1..N |-> len[k - 1]]
  <2>1. ASSUME NEW k \in 1..N, k # 1  PROVE  h[k] = h[k - 1] + fields[k - 1].size
    <3> DEFINE j == k - 1  i == k - 2
    <3>1. i \in Nat /\ i + 1 = j /\ j + 1 = k /\ j \in 1..N /\ k - 1 = j /\ j - 1 = i
          /\ i + 1 <= N
      BY <1>1, <2>1
    <3>2. h[k] = len[j] /\ h[j] = len[i]
      BY <3>1
    <3>3. len[i + 1] = len[i] + fields[i + 1].size
      BY <3>1
    <3> HIDE DEF h, i, j
    <3>4. h[k] = h[j] + fields[j].size
      BY <3>1, <3>2, <3>3
    <3> QED  BY <3>4 DEF j
  <2>2. 1 \in 1..N => h[1] = 0
    <3>1. 1 - 1 = 0
      OBVIOUS
    <3> QED  BY <3>1
  <2>3. h = body(h)
    <3>1. h = [k \in 1..N |-> h[k]]
      OBVIOUS
    <3> HIDE DEF h
    <3> QED  BY <2>1, <2>2, <3>1
  <2> QED  BY <2>3
<1>3. g = body(g)
  <2> HIDE DEF body
  <2> QED  BY <1>2
<1>4. \A i \in Nat : FieldAt(fields, i) = g[i]
  BY Zenon DEF FieldAt
<1> HIDE DEF g
<1> DEFINE G == {i \in Nat : i + 1 <= N => g[i + 1] = len[i]}
<1>5. 0 \in G
  <2>1. 1 <= N => g[1] = 0
    BY <1>1, <1>3
  <2>2. 0 + 1 = 1
    OBVIOUS
  <2> QED  BY <2>1, <2>2
<1>6. ASSUME NEW i \in G  PROVE  i + 1 \in G
  <2> SUFFICES ASSUME (i + 1) + 1 <= N  PROVE  g[(i + 1) + 1] = len[i + 1]
    OBVIOUS
  <2>1. /\ i \in Nat /\ i + 1 <= N /\ (i + 1) + 1 \in 1..N /\ (i + 1) + 1 # 1
        /\ ((i + 1) + 1) - 1 = i + 1 /\ g[i + 1] = len[i]
    BY <1>1
  <2>2. g[(i + 1) + 1] = g[((i + 1) + 1) - 1] + fields[((i + 1) + 1) - 1].size
    BY <1>3, <2>1
  <2>3. len[i + 1] = len[i] + fields[i + 1].size
    BY <2>1
  <2> HIDE DEF G, body
  <2> QED  BY <2>1, <2>2, <2>3
<1>7. G = Nat
  <2> HIDE DEF G
  <2>1. G \subseteq Nat  BY DEF G
  <2> QED  BY <1>5, <1>6, <2>1, Induction
<1>8. ASSUME NEW i \in Nat, i + 1 <= N  PROVE  FieldAt(fields, i + 1) = len[i]
  <2>1. g[i + 1] = len[i]
    BY <1>7, <1>8
  <2>2. i + 1 \in Nat
    OBVIOUS
  <2> HIDE DEF G
  <2> QED  BY <1>4, <2>1, <2>2
<1> QED  BY <1>8

\* The word that the walk reads at a field: its low bytes are the field's.
LEMMA FieldWord ==
    ASSUME NEW fields, FieldsOK(fields), NEW value \in [Nat -> Int],
           NEW k \in 1..Len(fields)
    PROVE  LET word == Number(RawData(fields, value), FieldAt(fields, k), 4)
               bits == fields[k].size * ByteBits
           IN  /\ word \in 0..(Pow2[4 * ByteBits] - 1)
               /\ fields[k].size <= 4 =>
                     word % Pow2[bits] = Unsigned(value[fields[k].usage], bits)
<1> DEFINE N == Len(fields)  B == 0..(Byte - 1)
           seqs == [i \in DOMAIN fields |->
                       ToBytes(value[fields[i].usage], fields[i].size)]
           raw == RawData(fields, value)
           size == fields[k].size
<1>1. N \in Nat /\ DOMAIN fields = 1..N
      /\ \A i \in 1..N : fields[i].usage \in Nat /\ fields[i].size \in Nat \ {0}
  BY FieldTypes
<1>2. \A i \in 1..N : /\ seqs[i] = ToBytes(value[fields[i].usage], fields[i].size)
                      /\ seqs[i] \in Seq(B) /\ Len(seqs[i]) = fields[i].size
  <2> TAKE i \in 1..N
  <2>1. value[fields[i].usage] \in Int /\ fields[i].size \in Nat
    BY <1>1
  <2>2. seqs[i] = ToBytes(value[fields[i].usage], fields[i].size)
    BY <1>1
  <2> HIDE DEF seqs
  <2> QED  BY <2>1, <2>2, NumberOfBytes
<1>3. seqs \in Seq(Seq(B)) /\ Len(seqs) = N
  <2>1. seqs = [i \in 1..N |-> seqs[i]]
    BY <1>1
  <2> HIDE DEF seqs, B, N
  <2>2. seqs \in [1..N -> Seq(B)]
    BY <1>2, <2>1
  <2> QED  BY <1>1, <2>2, FunctionSeq
<1>4. raw = FlattenSeq(seqs) \o Beyond
  BY DEF RawData
<1> HIDE DEF seqs, B, raw
<1>5. PICK upto : Flattens(upto, seqs, B) /\ FlattenSeq(seqs) = upto[N]
  <2>1. \E upto : Flattens(upto, seqs, B) /\ FlattenSeq(seqs) = upto[Len(seqs)]
    BY <1>3, FlattenUpto
  <2> QED  BY <1>3, <2>1
<1> DEFINE len == [i \in 0..N |-> Len(upto[i])]
<1>6. \A i \in 0..N : upto[i] \in Seq(B)
  <2>1. upto \in [0..N -> Seq(B)]
    BY <1>3, <1>5, Zenon DEF Flattens
  <2> QED  BY <2>1, Zenon
<1>7. FieldAt(fields, k) = Len(upto[k - 1])
  <2>1. \A i \in 0..N : len[i] \in Nat
    <3> TAKE i \in 0..N
    <3>1. upto[i] \in Seq(B)
      BY <1>6
    <3>2. Len(upto[i]) \in Nat
      BY <3>1
    <3> QED  BY <3>2
  <2>2. len[0] = 0
    <3>1. upto[0] = <<>>
      BY <1>5, Zenon DEF Flattens
    <3> QED  BY <1>1, <3>1, EmptySeq
  <2>3. ASSUME NEW i \in Nat, i + 1 <= N
        PROVE  len[i + 1] = len[i] + fields[i + 1].size
    <3>0. i + 1 \in 1..N /\ i \in 0..N /\ i + 1 \in 0..N /\ (i + 1) - 1 = i
      BY <1>1, <2>3
    <3>1. /\ i + 1 \in 1..Len(seqs)
          /\ i + 1 \in 1..N /\ i \in 0..N /\ i + 1 \in 0..N /\ (i + 1) - 1 = i
      BY <1>3, <3>0, Zenon
    <3> DEFINE a == upto[(i + 1) - 1]  b == seqs[i + 1]
    <3>2. a \in Seq(B) /\ b \in Seq(B) /\ upto[i + 1] = a \o b
      BY <1>3, <1>5, <3>1, FlattenNext, Zenon
    <3>3. a = upto[i]
      BY <3>1
    <3> HIDE DEF a, b
    <3>4. Len(a \o b) = Len(a) + Len(b)
      BY <3>2, Behind
    <3>5. Len(b) = fields[i + 1].size
      BY <1>2, <3>1 DEF b
    <3> QED  BY <3>1, <3>2, <3>3, <3>4, <3>5
  <2> HIDE DEF len
  <2>4. \A i \in Nat : i + 1 <= N => FieldAt(fields, i + 1) = len[i]
    BY <2>1, <2>2, <2>3, FieldPlaces
  <2>5. k - 1 \in Nat /\ (k - 1) + 1 = k /\ k - 1 \in 0..N /\ k <= N
    BY <1>1
  <2>6. FieldAt(fields, (k - 1) + 1) = len[k - 1]
    BY <2>4, <2>5
  <2>7. len[k - 1] = Len(upto[k - 1])
    BY <2>5 DEF len
  <2> QED  BY <2>5, <2>6, <2>7
<1> DEFINE at == Len(upto[k - 1])  all == upto[N]
<1>8. all \in Seq(B) /\ upto[k - 1] \in Seq(B)
  <2>1. k - 1 \in 0..N /\ N \in 0..N
    BY <1>1
  <2> QED  BY <1>6, <2>1
<1>9. /\ at + size <= Len(all)
      /\ \A j \in 1..size : all[at + j] = seqs[k][j]
  <2>1. k \in 1..Len(seqs) /\ N \in 0..Len(seqs) /\ k <= N
    BY <1>1, <1>3
  <2>2. LiesAt(seqs[k], Len(upto[k - 1]), upto[N])
    BY <1>3, <1>5, <2>1, FlattenPart, Zenon
  <2>3. Len(seqs[k]) = size
    BY <1>2
  <2> QED  BY <2>2, <2>3 DEF LiesAt
<1>10. at \in Nat /\ size \in Nat \ {0}
  BY <1>1, <1>8
<1> HIDE DEF at, all, size
<1>11. /\ raw \in Seq(B) /\ Len(all) \in Nat /\ Len(raw) = Len(all) + 3
       /\ \A p \in 1..Len(all) : raw[p] = all[p]
  <2>1. Beyond \in Seq(B) /\ Len(Beyond) = 3
    <3>1. Beyond \in [1..3 -> B]
      BY Widths DEF Beyond, B
    <3> QED  BY <3>1, FunctionSeq
  <2>2. raw = all \o Beyond
    BY <1>4, <1>5 DEF all
  <2>3. /\ all \o Beyond \in Seq(B) /\ Len(all) \in Nat
        /\ Len(all \o Beyond) = Len(all) + Len(Beyond)
        /\ \A p \in 1..Len(all) : (all \o Beyond)[p] = all[p]
    BY <1>8, <2>1, Behind
  <2> QED  BY <2>1, <2>2, <2>3
<1>12. HasBytes(raw, at, 4)
  <2> SUFFICES ASSUME NEW i \in 1..4  PROVE  raw[at + i] \in B
    BY DEF HasBytes, B
  <2>1. at + i \in 1..Len(raw)
    BY <1>9, <1>10, <1>11
  <2> QED  BY <1>11, <2>1
<1>13. Number(raw, at, 4) \in 0..(Pow2[4 * ByteBits] - 1)
  <2>1. 4 \in 0..4 /\ 4 \in Nat
    OBVIOUS
  <2> QED  BY <1>10, <1>12, <2>1, NumberRange
<1>14. ASSUME size <= 4
       PROVE  Number(raw, at, 4) % Pow2[size * ByteBits]
                 = Unsigned(value[fields[k].usage], size * ByteBits)
  <2>1. Number(raw, at, 4) % Pow2[size * ByteBits] = Number(raw, at, size)
    <3>1. size \in 0..4 /\ 4 \in Nat
      BY <1>10, <1>14
    <3> QED  BY <1>10, <1>12, <3>1, NumberMod
  <2> DEFINE tb == seqs[k]
  <2>2. /\ HasBytes(tb, 0, size)
        /\ Number(tb, 0, size) = Unsigned(value[fields[k].usage], size * ByteBits)
    <3>1. tb = ToBytes(value[fields[k].usage], size)
      BY <1>2 DEF size
    <3>2. value[fields[k].usage] \in Int /\ size \in Nat
      BY <1>1, <1>10
    <3> QED  BY <3>1, <3>2, NumberOfBytes
  <2>3. \A i \in 1..size : raw[at + i] = tb[0 + i]
    <3> TAKE i \in 1..size
    <3>1. at + i \in 1..Len(all) /\ 0 + i = i
      BY <1>9, <1>10, <1>11
    <3>2. raw[at + i] = all[at + i]
      BY <1>11, <3>1
    <3>3. all[at + i] = tb[i]
      BY <1>9
    <3> QED  BY <3>1, <3>2, <3>3
  <2> HIDE DEF tb
  <2>4. 0 \in Nat /\ size \in Nat
    BY <1>10
  <2>5. Number(raw, at, size) = Number(tb, 0, size)
    <3>1. SameBytes(raw, at, tb, 0, size)
      BY <2>3 DEF SameBytes
    <3> QED  BY <1>10, <2>2, <2>4, <3>1, NumberSame
  <2> QED  BY <2>1, <2>2, <2>5
<1>15. Number(RawData(fields, value), FieldAt(fields, k), 4) = Number(raw, at, 4)
  BY <1>7 DEF raw, at
<1> QED  BY <1>13, <1>14, <1>15 DEF size

-----------------------------------------------------------------------------
\* The drivers' channels.

LEMMA Triple ==
    ASSUME NEW t
    PROVE  /\ XYZ(t)[1] = <<"in", t, "x">> /\ XYZ(t)[2] = <<"in", t, "y">>
           /\ XYZ(t)[3] = <<"in", t, "z">>
           /\ XYZ(t) = [i \in 1..3 |-> XYZ(t)[i]]
  BY DEF XYZ

LEMMA CustomRow ==
    /\ DOMAIN CustomChannels = 1..7 /\ Len(CustomChannels) = 7
    /\ CustomChannels[1] = <<"in", "accel", "x">>
    /\ CustomChannels[2] = <<"in", "accel", "y">>
    /\ CustomChannels[3] = <<"in", "accel", "z">>
    /\ CustomChannels[4] = <<"in", "voltage", "x">>
    /\ CustomChannels[5] = <<"in", "voltage", "y">>
    /\ CustomChannels[6] = <<"in", "voltage", "z">>
    /\ CustomChannels[7] = <<"in", "illuminance", "both">>
<1> DEFINE a == XYZ("accel")  v == XYZ("voltage")  l == <<<<"in", "illuminance", "both">>>>
           S == {a[1], a[2], a[3], v[1], v[2], v[3], l[1]}
<1>1. a \in Seq(S) /\ v \in Seq(S) /\ l \in Seq(S) /\ Len(a) = 3 /\ Len(v) = 3 /\ Len(l) = 1
  BY DEF XYZ
<1>2. l[1] = <<"in", "illuminance", "both">>
  OBVIOUS
<1> HIDE DEF a, v, l, S
<1> DEFINE b == a \o v
<1>3. /\ b \in Seq(S) /\ Len(b) = 6
      /\ b[1] = a[1] /\ b[2] = a[2] /\ b[3] = a[3]
      /\ b[4] = v[1] /\ b[5] = v[2] /\ b[6] = v[3]
  <2>1. /\ b \in Seq(S) /\ Len(b) = Len(a) + Len(v)
        /\ \A i \in 1..(Len(a) + Len(v)) : b[i] = IF i <= Len(a) THEN a[i] ELSE v[i - Len(a)]
    BY <1>1, ConcatProperties
  <2> HIDE DEF b
  <2> QED  BY <1>1, <2>1
<1> HIDE DEF b
<1> DEFINE w == b \o l
<1>4. /\ w \in Seq(S) /\ Len(w) = 7
      /\ \A i \in 1..6 : w[i] = b[i]
      /\ w[7] = l[1]
  <2>1. /\ w \in Seq(S) /\ Len(w) = Len(b) + Len(l)
        /\ \A i \in 1..(Len(b) + Len(l)) : w[i] = IF i <= Len(b) THEN b[i] ELSE l[i - Len(b)]
    BY <1>1, <1>3, ConcatProperties
  <2> HIDE DEF w
  <2> QED  BY <1>1, <1>3, <2>1
<1>5. CustomChannels = w
  BY DEF CustomChannels, w, b, a, v, l
<1>6. DOMAIN w = 1..7
  <2> HIDE DEF w
  <2> QED  BY <1>4
<1> HIDE DEF w
<1>7. /\ w[1] = a[1] /\ w[2] = a[2] /\ w[3] = a[3] /\ w[4] = v[1] /\ w[5] = v[2]
      /\ w[6] = v[3] /\ w[7] = l[1]
  BY <1>3, <1>4
<1>8. /\ a[1] = <<"in", "accel", "x">> /\ a[2] = <<"in", "accel", "y">>
      /\ a[3] = <<"in", "accel", "z">> /\ v[1] = <<"in", "voltage", "x">>
      /\ v[2] = <<"in", "voltage", "y">> /\ v[3] = <<"in", "voltage", "z">>
  BY DEF a, v, XYZ
<1> QED  BY <1>2, <1>4, <1>5, <1>6, <1>7, <1>8

\* Names have three parts, the first of them "in" ...
LEMMA ChannelNames ==
    ASSUME NEW driver \in Drivers
    PROVE  /\ DOMAIN ChannelsOf(driver) = 1..ChannelCount(driver)
           /\ Len(ChannelsOf(driver)) = ChannelCount(driver)
           /\ \A i \in 1..ChannelCount(driver) :
                 \E t, x : ChannelsOf(driver)[i] = <<"in", t, x>>
<1> DEFINE row == ChannelsOf(driver)  n == ChannelCount(driver)
<1> SUFFICES DOMAIN row = 1..n /\ Len(row) = n
             /\ \A i \in 1..n : \E t, x : row[i] = <<"in", t, x>>
  OBVIOUS
<1>1. CASE \E t : row = XYZ(t) /\ n = 3
  <2>1. PICK t : row = XYZ(t) /\ n = 3
    BY <1>1
  <2>2. Len(XYZ(t)) = 3
    BY DEF XYZ
  <2> HIDE DEF row, n
  <2>3. /\ row[1] = <<"in", t, "x">> /\ row[2] = <<"in", t, "y">> /\ row[3] = <<"in", t, "z">>
        /\ DOMAIN row = 1..3
    BY <2>1, Triple
  <2>4. ASSUME NEW i \in 1..3  PROVE  \E u, x : row[i] = <<"in", u, x>>
    <3>1. i = 1 \/ i = 2 \/ i = 3
      OBVIOUS
    <3> QED  BY <2>3, <3>1
  <2> QED  BY <2>1, <2>2, <2>3, <2>4
<1>2. CASE \E t, x : row = <<<<"in", t, x>>>> /\ n = 1
  <2>1. PICK t, x : row = <<<<"in", t, x>>>> /\ n = 1
    BY <1>2
  <2> HIDE DEF row, n
  <2>2. row[1] = <<"in", t, x>> /\ DOMAIN row = 1..1 /\ Len(row) = 1
    BY <2>1
  <2> QED  BY <2>1, <2>2
<1>3. CASE row = CustomChannels /\ n = 7
  <2> HIDE DEF row, n
  <2>1. ASSUME NEW i \in 1..7  PROVE  \E t, x : CustomChannels[i] = <<"in", t, x>>
    <3>1. i = 1 \/ i = 2 \/ i = 3 \/ i = 4 \/ i = 5 \/ i = 6 \/ i = 7
      OBVIOUS
    <3> QED  BY <3>1, CustomRow
  <2> QED  BY <1>3, <2>1, CustomRow
<1>4. CASE driver \in {"accel_3d", "gyro_3d", "magn_3d", "incli_3d"}
  <2>1. \E t \in {"accel", "anglvel", "magn", "incli"} : row = XYZ(t) /\ n = 3
    BY <1>4 DEF ChannelsOf, ChannelCount, AccelChannels, GyroChannels, MagnChannels,
       InclChannels
  <2> QED  BY <1>1, <2>1
<1>5. CASE driver \in {"als", "generic", "orientation"}
  <2>1. \E t \in {"intensity", "current", "voltage"}, x \in {"both", "z", "none"} :
           row = <<<<"in", t, x>>>> /\ n = 1
    BY <1>5 DEF ChannelsOf, ChannelCount, AlsChannels, GenericChannels, OrientChannels
  <2> QED  BY <1>2, <2>1
<1>6. CASE driver = "custom"
  BY <1>3, <1>6 DEF ChannelsOf, ChannelCount
<1> QED  BY <1>4, <1>5, <1>6 DEF Drivers

\* ... and tell the channels apart.
LEMMA NamesApart ==
    ASSUME NEW driver \in Drivers,
           NEW i \in 1..ChannelCount(driver), NEW j \in 1..ChannelCount(driver),
           ChannelsOf(driver)[i] = ChannelsOf(driver)[j]
    PROVE  i = j
<1> DEFINE row == ChannelsOf(driver)  n == ChannelCount(driver)
<1>1. \A t, u, x, y : <<"in", t, x>> = <<"in", u, y>> => t = u /\ x = y
  OBVIOUS
<1>2. CASE \E t : row = XYZ(t) /\ n = 3
  <2>1. PICK t : row = XYZ(t) /\ n = 3
    BY <1>2
  <2>2. row[i] = row[j] /\ i \in 1..3 /\ j \in 1..3
    BY <2>1
  <2> HIDE DEF row, n
  <2>3. row[1] = <<"in", t, "x">> /\ row[2] = <<"in", t, "y">> /\ row[3] = <<"in", t, "z">>
    BY <2>1, Triple
  <2>4. (i = 1 \/ i = 2 \/ i = 3) /\ (j = 1 \/ j = 2 \/ j = 3)
    BY <2>2
  <2>5. row[1] # row[2] /\ row[2] # row[3] /\ row[1] # row[3]
    BY <1>1, <2>3
  <2> QED  BY <2>2, <2>4, <2>5
<1>3. CASE n = 1
  BY <1>3
<1>4. CASE row = CustomChannels /\ n = 7
  <2>1. row[i] = row[j] /\ i \in 1..7 /\ j \in 1..7
    BY <1>4
  <2> HIDE DEF row, n
  <2> DEFINE two == [k \in 1..7 |-> IF k <= 3 THEN "accel" ELSE IF k <= 6 THEN "voltage"
                                    ELSE "illuminance"]
             three == [k \in 1..7 |-> IF k \in {1, 4} THEN "x" ELSE IF k \in {2, 5} THEN "y"
                                      ELSE IF k \in {3, 6} THEN "z" ELSE "both"]
  <2>2. \A k \in 1..7 : row[k] = <<"in", two[k], three[k]>>
    <3> TAKE k \in 1..7
    <3>1. k = 1 \/ k = 2 \/ k = 3 \/ k = 4 \/ k = 5 \/ k = 6 \/ k = 7
      OBVIOUS
    <3> QED  BY <1>4, <3>1, CustomRow
  <2>3. two[i] = two[j] /\ three[i] = three[j]
    <3>1. <<"in", two[i], three[i]>> = <<"in", two[j], three[j]>>
      BY <2>1, <2>2
    <3> HIDE DEF two, three
    <3> QED  BY <1>1, <3>1
  <2>4. \A k, l \in 1..7 : two[k] = two[l] /\ three[k] = three[l] => k = l
    OBVIOUS
  <2> HIDE DEF two, three
  <2> QED  BY <2>1, <2>3, <2>4
<1>5. CASE driver \in {"accel_3d", "gyro_3d", "magn_3d", "incli_3d"}
  <2>1. \E t \in {"accel", "anglvel", "magn", "incli"} : row = XYZ(t) /\ n = 3
    BY <1>5 DEF ChannelsOf, ChannelCount, AccelChannels, GyroChannels, MagnChannels,
       InclChannels
  <2> QED  BY <1>2, <2>1
<1>6. CASE driver \in {"als", "generic", "orientation"}
  BY <1>3, <1>6 DEF ChannelCount
<1>7. CASE driver = "custom"
  BY <1>4, <1>7 DEF ChannelsOf, ChannelCount
<1> QED  BY <1>5, <1>6, <1>7 DEF Drivers

\* A driver offers all three axes of acceleration, as its first channels, or none.
LEMMA AxesOf ==
    ASSUME NEW driver \in Drivers
    PROVE  \/ /\ ChannelCount(driver) >= 3
              /\ \A a \in 1..3 : ChannelsOf(driver)[a] = XYZ("accel")[a]
           \/ \A i \in 1..ChannelCount(driver), a \in 1..3 :
                 ChannelsOf(driver)[i] # XYZ("accel")[a]
<1>1. \A t, u, x, y : <<"in", t, x>> = <<"in", u, y>> => t = u /\ x = y
  OBVIOUS
<1>2. ASSUME NEW a \in 1..3
      PROVE  \E x : XYZ("accel")[a] = <<"in", "accel", x>>
  <2>1. a = 1 \/ a = 2 \/ a = 3
    OBVIOUS
  <2> QED  BY <2>1, Triple
<1>3. CASE driver = "accel_3d"
  BY <1>3 DEF ChannelsOf, AccelChannels, ChannelCount
<1>4. CASE driver = "custom"
  <2>1. ChannelCount(driver) = 7 /\ ChannelsOf(driver) = CustomChannels
    BY <1>4 DEF ChannelsOf, ChannelCount
  <2>2. ASSUME NEW a \in 1..3  PROVE  CustomChannels[a] = XYZ("accel")[a]
    <3>1. a = 1 \/ a = 2 \/ a = 3
      OBVIOUS
    <3> QED  BY <3>1, CustomRow, Triple
  <2> QED  BY <2>1, <2>2
<1>5. CASE driver \in {"gyro_3d", "magn_3d", "incli_3d"}
  <2>1. PICK t \in {"anglvel", "magn", "incli"} :
           ChannelsOf(driver) = XYZ(t) /\ ChannelCount(driver) = 3
    BY <1>5 DEF ChannelsOf, ChannelCount, GyroChannels, MagnChannels, InclChannels
  <2>2. ASSUME NEW i \in 1..3  PROVE  \E x : ChannelsOf(driver)[i] = <<"in", t, x>>
    <3>1. i = 1 \/ i = 2 \/ i = 3
      OBVIOUS
    <3> QED  BY <2>1, <3>1, Triple
  <2>3. t # "accel"
    OBVIOUS
  <2> QED  BY <1>1, <1>2, <2>1, <2>2, <2>3
<1>6. CASE driver \in {"als", "generic", "orientation"}
  <2>1. PICK t \in {"intensity", "current", "voltage"}, x \in {"both", "z", "none"} :
           ChannelsOf(driver) = <<<<"in", t, x>>>> /\ ChannelCount(driver) = 1
    BY <1>6 DEF ChannelsOf, ChannelCount, AlsChannels, GenericChannels, OrientChannels
  <2>2. ChannelsOf(driver)[1] = <<"in", t, x>>
    BY <2>1
  <2>3. t # "accel"
    OBVIOUS
  <2>4. \A i \in 1..1 : i = 1
    OBVIOUS
  <2> QED  BY <1>1, <1>2, <2>1, <2>2, <2>3, <2>4
<1> QED  BY <1>3, <1>4, <1>5, <1>6 DEF Drivers
=============================================================================
