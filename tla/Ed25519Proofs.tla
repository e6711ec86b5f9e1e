--------------------------- MODULE Ed25519Proofs ----------------------------
(***************************************************************************)
(* What the browser signs verifies, for every field and curve that satisfy *)
(* CurveAssumption and every scalar and hash.  The proof goes from the     *)
(* arithmetic of remainders to powers and inverses, to the law of the      *)
(* curve (it has no exception and stays on the curve), to the multiples of *)
(* the base point, to the two formulas of the code, its loop, the bytes of *)
(* a point and the signer.                                                 *)
(*                                                                         *)
(* Four definitions are recursive functions on the naturals: the loops of  *)
(* modPow and scalarMult, and the references Power and Times.  Induction   *)
(* is over a set of naturals (NatSet, from the well-founded order), and of *)
(* each a function that satisfies the equations is built, so that the one  *)
(* chosen does too.                                                        *)
(***************************************************************************)
EXTENDS Ed25519, WellFoundedInduction, TLAPS
-----------------------------------------------------------------------------
(* Induction and recursion over the naturals.                              *)

\* Induction: a set of naturals with 0 and, with each, the next has all of them.
LEMMA NatSet ==
  ASSUME NEW T \in SUBSET Nat, 0 \in T, \A n \in T : n + 1 \in T
  PROVE  T = Nat
<1> DEFINE R == OpToRel(<, Nat)
           V == Nat \ T
<1>1. IsWellFoundedOn(R, Nat)
  BY NatLessThanWellFounded
<1>2. SUFFICES ASSUME V # {} PROVE FALSE
  OBVIOUS
<1>3. V \subseteq Nat
  OBVIOUS
<1>4. \E x \in V : \A y \in V : ~ (<<y, x>> \in R)
  <2> HIDE DEF V, R
  <2> QED BY <1>1, <1>2, <1>3, WFMin
<1>5. PICK x \in V : \A y \in V : ~ (<<y, x>> \in R)
  BY <1>4
<1>6. x \in Nat /\ x # 0 /\ x - 1 \in Nat /\ x - 1 \notin V
  <2>1. x \in Nat /\ x # 0 /\ x - 1 \in Nat
    OBVIOUS
  <2>2. <<x - 1, x>> \in R
    BY <2>1 DEF OpToRel
  <2> QED BY <2>1, <2>2, <1>5
<1>7. x - 1 \in T
  BY <1>6
<1>8. (x - 1) + 1 \in T
  BY <1>7
<1> QED BY <1>8, <1>6

\* g holds the first n rounds of f from first on.
Runs(n, St, first, f, g) ==
  /\ g \in [0..n -> St] /\ g[0] = first
  /\ \A i \in 0..n : i < n => g[i + 1] = f[g[i]]

\* Two runs of the same function agree as far as both go.
LEMMA RunsAgree ==
  ASSUME NEW St, NEW first \in St, NEW f \in [St -> St],
         NEW n \in Nat, NEW m \in Nat, NEW g, NEW h,
         Runs(n, St, first, f, g), Runs(m, St, first, f, h),
         NEW k \in Nat, k <= n, k <= m
  PROVE  g[k] = h[k]
<1> DEFINE T == {i \in Nat : i <= n /\ i <= m => g[i] = h[i]}
<1>1. 0 \in T
  BY DEF Runs
<1>2. ASSUME NEW i \in T PROVE i + 1 \in T
  <2>1. SUFFICES ASSUME i + 1 <= n, i + 1 <= m PROVE g[i + 1] = h[i + 1]
    OBVIOUS
  <2>2. i \in 0..n /\ i < n /\ i \in 0..m /\ i < m
    BY <2>1
  <2>3. g[i] = h[i]
    BY <2>2
  <2> QED BY <2>2, <2>3 DEF Runs
<1>3. T = Nat
  <2> HIDE DEF T
  <2>1. T \in SUBSET Nat
    BY DEF T
  <2> QED BY <1>1, <1>2, <2>1, NatSet
<1> QED BY <1>3

\* There are runs of any length.
LEMMA RunsExist ==
  ASSUME NEW St, NEW first \in St, NEW f \in [St -> St], NEW k \in Nat
  PROVE  \E g : Runs(k, St, first, f, g)
<1> DEFINE T == {n \in Nat : \E g : Runs(n, St, first, f, g)}
<1>1. 0 \in T
  <2>1. Runs(0, St, first, f, [i \in 0..0 |-> first])
    BY DEF Runs
  <2> QED BY <2>1
<1>2. ASSUME NEW n \in T PROVE n + 1 \in T
  <2>1. PICK g : Runs(n, St, first, f, g)
    OBVIOUS
  <2> DEFINE h == [i \in 0..(n + 1) |-> IF i <= n THEN g[i] ELSE f[g[n]]]
  <2>2. h \in [0..(n + 1) -> St] /\ h[0] = first
    BY <2>1 DEF Runs
  <2>3. ASSUME NEW i \in 0..(n + 1), i < n + 1 PROVE h[i + 1] = f[h[i]]
    <3>1. CASE i < n
      BY <2>1, <2>3, <3>1 DEF Runs
    <3>2. CASE i = n
      BY <2>1, <2>3, <3>2 DEF Runs
    <3> QED BY <2>3, <3>1, <3>2
  <2>4. Runs(n + 1, St, first, f, h)
    BY <2>2, <2>3 DEF Runs
  <2> QED BY <2>4
<1>3. T = Nat
  <2> HIDE DEF T
  <2>1. T \in SUBSET Nat
    BY DEF T
  <2> QED BY <1>1, <1>2, <2>1, NatSet
<1> QED BY <1>3

\* There is one run of all lengths.
LEMMA Iteration ==
  ASSUME NEW St, NEW first \in St, NEW f \in [St -> St]
  PROVE  \E g \in [Nat -> St] :
            g[0] = first /\ \A n \in Nat : g[n + 1] = f[g[n]]
<1> DEFINE r == [n \in Nat |-> CHOOSE g : Runs(n, St, first, f, g)]
           s == [n \in Nat |-> r[n][n]]
<1>1. ASSUME NEW n \in Nat PROVE Runs(n, St, first, f, r[n])
  BY RunsExist
<1> HIDE DEF r
<1>2. ASSUME NEW n \in Nat PROVE s[n] = r[n][n] /\ r[n][n] \in St
  BY <1>1 DEF Runs
<1>3. s \in [Nat -> St]
  BY <1>2
<1>4. s[0] = first
  BY <1>1 DEF Runs
<1>5. ASSUME NEW n \in Nat PROVE s[n + 1] = f[s[n]]
  <2>1. r[n + 1][n + 1] = f[r[n + 1][n]]
    BY <1>1, n + 1 \in Nat, n \in 0..(n + 1), n < n + 1 DEF Runs
  <2>2. r[n + 1][n] = r[n][n]
    <3>1. n + 1 \in Nat /\ n <= n /\ n <= n + 1
      OBVIOUS
    <3>2. Runs(n, St, first, f, r[n]) /\ Runs(n + 1, St, first, f, r[n + 1])
      BY <1>1, <3>1
    <3> QED BY <3>1, <3>2, RunsAgree
  <2> QED BY <2>1, <2>2
<1> HIDE DEF s
<1> QED BY <1>3, <1>4, <1>5
-----------------------------------------------------------------------------
(* The recursive definitions compute what their equations say.             *)

\* g holds the first n sums of a by the law of the curve.
SumsTo(n, a, g) == g = [i \in 0..n |-> IF i = 0 THEN <<0, 1>> ELSE Sum(g[i - 1], a)]

LEMMA SumsAgree ==
  ASSUME NEW a, NEW n \in Nat, NEW m \in Nat, NEW g, NEW h,
         SumsTo(n, a, g), SumsTo(m, a, h), NEW k \in Nat, k <= n, k <= m
  PROVE  g[k] = h[k]
<1> DEFINE T == {i \in Nat : i <= n /\ i <= m => g[i] = h[i]}
<1>1. ASSUME NEW i \in 0..n PROVE g[i] = IF i = 0 THEN <<0, 1>> ELSE Sum(g[i - 1], a)
  BY DEF SumsTo
<1>2. ASSUME NEW i \in 0..m PROVE h[i] = IF i = 0 THEN <<0, 1>> ELSE Sum(h[i - 1], a)
  BY DEF SumsTo
<1>3. 0 \in T
  BY <1>1, <1>2
<1>4. ASSUME NEW i \in T PROVE i + 1 \in T
  <2>1. SUFFICES ASSUME i + 1 <= n, i + 1 <= m PROVE g[i + 1] = h[i + 1]
    OBVIOUS
  <2>2. i + 1 \in 0..n /\ i + 1 \in 0..m /\ i + 1 # 0 /\ (i + 1) - 1 = i
    BY <2>1
  <2>3. g[i] = h[i]
    BY <2>1
  <2> QED BY <2>2, <2>3, <1>1, <1>2
<1>5. T = Nat
  <2> HIDE DEF T
  <2>1. T \in SUBSET Nat
    BY DEF T
  <2> QED BY <1>3, <1>4, <2>1, NatSet
<1> QED BY <1>5

LEMMA SumsExist ==
  ASSUME NEW a, NEW k \in Nat
  PROVE  \E g : SumsTo(k, a, g)
<1> DEFINE T == {n \in Nat : \E g : SumsTo(n, a, g)}
<1>1. 0 \in T
  <2>1. SumsTo(0, a, [i \in 0..0 |-> <<0, 1>>])
    BY DEF SumsTo
  <2> QED BY <2>1
<1>2. ASSUME NEW n \in T PROVE n + 1 \in T
  <2>1. PICK g : SumsTo(n, a, g)
    OBVIOUS
  <2>2. ASSUME NEW i \in 0..n PROVE g[i] = IF i = 0 THEN <<0, 1>> ELSE Sum(g[i - 1], a)
    BY <2>1 DEF SumsTo
  <2> DEFINE h == [i \in 0..(n + 1) |-> IF i <= n THEN g[i] ELSE Sum(g[n], a)]
  <2>3. ASSUME NEW i \in 0..(n + 1)
        PROVE  h[i] = IF i = 0 THEN <<0, 1>> ELSE Sum(h[i - 1], a)
    <3>1. CASE i = 0
      BY <2>2, <3>1
    <3>2. CASE i # 0 /\ i <= n
      <4>1. i \in 0..n /\ i - 1 \in 0..(n + 1) /\ i - 1 <= n
        BY <3>2
      <4>2. h[i] = g[i] /\ h[i - 1] = g[i - 1]
        BY <4>1
      <4> QED BY <4>1, <4>2, <3>2, <2>2
    <3>3. CASE i = n + 1
      <4>1. h[i] = Sum(g[n], a) /\ h[i - 1] = g[n]
        BY <3>3
      <4> QED BY <4>1, <3>3
    <3> QED BY <3>1, <3>2, <3>3
  <2>4. h = [i \in 0..(n + 1) |-> h[i]]
    OBVIOUS
  <2> HIDE DEF h
  <2>5. SumsTo(n + 1, a, h)
    BY <2>3, <2>4 DEF SumsTo
  <2> QED BY <2>5
<1>3. T = Nat
  <2> HIDE DEF T
  <2>1. T \in SUBSET Nat
    BY DEF T
  <2> QED BY <1>1, <1>2, <2>1, NatSet
<1> QED BY <1>3

\* Times is what its equations say: the neutral point, and one more of a.
LEMMA TimesDef ==
  ASSUME NEW a
  PROVE  /\ Times(0, a) = <<0, 1>>
         /\ \A n \in Nat : Times(n + 1, a) = Sum(Times(n, a), a)
<1> DEFINE r == [n \in Nat |-> CHOOSE g : SumsTo(n, a, g)]
           s == [n \in Nat |-> r[n][n]]
           t == CHOOSE times : times = [i \in Nat |-> IF i = 0 THEN <<0, 1>>
                                                      ELSE Sum(times[i - 1], a)]
<1>1. ASSUME NEW n \in Nat PROVE SumsTo(n, a, r[n])
  BY SumsExist
<1> HIDE DEF r
<1>2. ASSUME NEW n \in Nat, NEW i \in 0..n
      PROVE  r[n][i] = IF i = 0 THEN <<0, 1>> ELSE Sum(r[n][i - 1], a)
  BY <1>1 DEF SumsTo
<1>3. ASSUME NEW i \in Nat
      PROVE  s[i] = IF i = 0 THEN <<0, 1>> ELSE Sum(s[i - 1], a)
  <2>1. CASE i = 0
    BY <1>2, <2>1
  <2>2. CASE i # 0
    <3>1. i - 1 \in Nat /\ i - 1 <= i /\ i \in 0..i
      BY <2>2
    <3>2. r[i][i - 1] = r[i - 1][i - 1]
      <4>1. PICK j \in Nat : j = i - 1
        BY <3>1
      <4>2. SumsTo(i, a, r[i]) /\ SumsTo(j, a, r[j])
        BY <1>1
      <4>3. j <= i /\ j <= j
        BY <3>1, <4>1
      <4>4. r[i][j] = r[j][j]
        BY <4>2, <4>3, SumsAgree
      <4> QED BY <4>1, <4>4
    <3>3. s[i] = r[i][i] /\ s[i - 1] = r[i - 1][i - 1]
      BY <3>1
    <3> QED BY <3>1, <3>2, <3>3, <2>2, <1>2
  <2> QED BY <2>1, <2>2
<1>4. s = [i \in Nat |-> s[i]]
  OBVIOUS
<1> HIDE DEF s
<1>5. s = [i \in Nat |-> IF i = 0 THEN <<0, 1>> ELSE Sum(s[i - 1], a)]
  BY <1>3, <1>4
<1>6. t = [i \in Nat |-> IF i = 0 THEN <<0, 1>> ELSE Sum(t[i - 1], a)]
  BY <1>5
<1>7. ASSUME NEW n PROVE Times(n, a) = t[n]
  BY DEF Times
<1> HIDE DEF t
<1>8. Times(0, a) = <<0, 1>>
  BY <1>6, <1>7
<1>9. ASSUME NEW n \in Nat PROVE Times(n + 1, a) = Sum(Times(n, a), a)
  <2>1. n + 1 \in Nat /\ n + 1 # 0 /\ (n + 1) - 1 = n
    OBVIOUS
  <2>2. t[n + 1] = Sum(t[(n + 1) - 1], a)
    BY <2>1, <1>6
  <2> QED BY <2>1, <2>2, <1>7
<1> QED BY <1>8, <1>9
-----------------------------------------------------------------------------
(* The field: numbers that leave the same remainder.                       *)

Cong(u, v) == mod(u, P) = mod(v, P)

\* A number and its remainder differ by a multiple of P.
LEMMA RemainderOf ==
  ASSUME CurveAssumption, NEW u \in Int
  PROVE  /\ mod(u, P) \in Field
         /\ \E q \in Int : u = q * P + mod(u, P)
<1>1. P \in Nat /\ P > 0
  BY DEF CurveAssumption
<1>2. u % P \in 0..(P - 1)
  BY <1>1
<1>3. u = (u \div P) * P + (u % P) /\ u \div P \in Int
  BY <1>1
<1> QED BY <1>2, <1>3 DEF mod, Field

\* The only multiple less than p from 0 is 0.
LEMMA SmallMultiple ==
  ASSUME NEW p \in Nat, NEW q \in Int, p > 0, q * p < p, q * p > -p
  PROVE  q = 0
<1>1. CASE q >= 1
  <2>1. q * p >= 1 * p
    BY <1>1
  <2> QED BY <2>1
<1>2. CASE q <= -1
  <2>1. q * p <= (-1) * p
    BY <1>2
  <2> QED BY <2>1
<1> QED BY <1>1, <1>2

\* Two numbers leave the same remainder when they differ by a multiple of P.
LEMMA CongIff ==
  ASSUME CurveAssumption, NEW u \in Int, NEW v \in Int
  PROVE  Cong(u, v) <=> \E q \in Int : u = v + q * P
<1>1. P \in Nat /\ P > 0
  BY DEF CurveAssumption
<1>2. PICK i \in Int : u = i * P + mod(u, P)
  BY RemainderOf
<1>3. PICK j \in Int : v = j * P + mod(v, P)
  BY RemainderOf
<1>4. mod(u, P) \in 0..(P - 1) /\ mod(v, P) \in 0..(P - 1)
  BY RemainderOf DEF Field
<1>5. ASSUME Cong(u, v) PROVE \E q \in Int : u = v + q * P
  <2>1. u = v + (i - j) * P
    BY <1>1, <1>2, <1>3, <1>4, <1>5 DEF Cong
  <2> QED BY <2>1
<1>6. ASSUME NEW q \in Int, u = v + q * P PROVE Cong(u, v)
  <2> DEFINE k == i - j - q
  <2>1. k * P = i * P - j * P - q * P
    BY <1>1
  <2>2. k * P = mod(v, P) - mod(u, P)
    <3>1. i * P \in Int /\ j * P \in Int /\ q * P \in Int
      BY <1>1
    <3> QED BY <2>1, <3>1, <1>2, <1>3, <1>4, <1>6
  <2>3. k \in Int
    OBVIOUS
  <2> HIDE DEF k
  <2>4. k = 0
    BY <1>1, <1>4, <2>2, <2>3, SmallMultiple
  <2> QED BY <2>2, <2>4, <1>1, <1>4 DEF Cong
<1> QED BY <1>5, <1>6

LEMMA CongSame == ASSUME NEW u, NEW v, u = v PROVE Cong(u, v)
BY DEF Cong

LEMMA CongBack == ASSUME NEW u, NEW v, Cong(u, v) PROVE Cong(v, u)
BY DEF Cong

LEMMA CongTrans == ASSUME NEW u, NEW v, NEW w, Cong(u, v), Cong(v, w) PROVE Cong(u, w)
BY DEF Cong

\* Sums, differences and products may be taken of any representative.
LEMMA CongAdd ==
  ASSUME CurveAssumption, NEW a \in Int, NEW b \in Int, NEW u \in Int, NEW v \in Int,
         Cong(a, u), Cong(b, v)
  PROVE  Cong(a + b, u + v) /\ Cong(a - b, u - v)
<1>1. P \in Int
  BY DEF CurveAssumption
<1>2. PICK i \in Int : a = u + i * P
  BY CongIff
<1>3. PICK j \in Int : b = v + j * P
  BY CongIff
<1>4. a + b = (u + v) + (i + j) * P /\ a - b = (u - v) + (i - j) * P
  BY <1>1, <1>2, <1>3
<1>5. \E q \in Int : a + b = (u + v) + q * P
  BY <1>4
<1>6. \E q \in Int : a - b = (u - v) + q * P
  BY <1>4
<1> QED BY <1>5, <1>6, CongIff

LEMMA CongMul ==
  ASSUME CurveAssumption, NEW a \in Int, NEW b \in Int, NEW u \in Int, NEW v \in Int,
         Cong(a, u), Cong(b, v)
  PROVE  Cong(a * b, u * v)
<1>1. P \in Int
  BY DEF CurveAssumption
<1>2. PICK i \in Int : a = u + i * P
  BY CongIff
<1>3. PICK j \in Int : b = v + j * P
  BY CongIff
<1> DEFINE q == u * j + i * v + i * P * j
<1>4. a * b = u * v + q * P
  BY <1>1, <1>2, <1>3
<1>5. q \in Int
  BY <1>1
<1> HIDE DEF q
<1>6. a * b \in Int /\ u * v \in Int
  OBVIOUS
<1> QED BY <1>4, <1>5, <1>6, CongIff

\* A number and its remainder leave the same one.
LEMMA CongMod ==
  ASSUME CurveAssumption, NEW u \in Int
  PROVE  Cong(mod(u, P), u) /\ mod(u, P) \in Field /\ mod(u, P) \in Int
<1>1. P \in Nat
  BY DEF CurveAssumption
<1>2. PICK i \in Int : u = i * P + mod(u, P)
  BY RemainderOf
<1>3. mod(u, P) \in Field /\ mod(u, P) \in Int
  BY <1>1, RemainderOf DEF Field
<1>4. i * P \in Int /\ (-i) * P = -(i * P) /\ -i \in Int
  BY <1>1
<1>5. mod(u, P) = u + (-i) * P
  BY <1>2, <1>3, <1>4
<1> QED BY <1>3, <1>4, <1>5, CongIff

LEMMA FieldFact ==
  ASSUME CurveAssumption, NEW u \in Field
  PROVE  u \in Int /\ mod(u, P) = u
<1>1. P \in Nat /\ P > 0
  BY DEF CurveAssumption
<1> QED BY <1>1 DEF Field, mod

\* The field has each remainder once.
LEMMA CongField ==
  ASSUME CurveAssumption, NEW u \in Field, NEW v \in Field, Cong(u, v)
  PROVE  u = v
BY FieldFact DEF Cong

LEMMA ZeroOne ==
  ASSUME CurveAssumption
  PROVE  0 \in Field /\ 1 \in Field /\ 2 \in Field /\ ~ Cong(1, 0) /\ ~ Cong(2, 0)
<1>1. 0 \in Field /\ 1 \in Field /\ 2 \in Field
  BY DEF CurveAssumption, Field
<1> QED BY <1>1, CongField
-----------------------------------------------------------------------------
(* Powers.                                                                 *)

\* Power is what its equations say: 1, and one more factor u.
LEMMA PowerDef ==
  ASSUME CurveAssumption, NEW u \in Int
  PROVE  /\ Power(u, 0) = 1
         /\ \A n \in Nat : Power(u, n + 1) = mod(Power(u, n) * u, P) /\ Power(u, n) \in Field
<1> DEFINE f == [x \in Field |-> mod(x * u, P)]
           t == CHOOSE power : power = [i \in Nat |-> IF i = 0 THEN 1
                                                      ELSE mod(power[i - 1] * u, P)]
<1>1. 1 \in Field
  BY ZeroOne
<1>2. ASSUME NEW x \in Field PROVE mod(x * u, P) \in Field
  <2>1. x * u \in Int
    BY FieldFact
  <2> QED BY <2>1, CongMod
<1>3. f \in [Field -> Field]
  BY <1>2
<1>4. PICK g \in [Nat -> Field] : g[0] = 1 /\ \A n \in Nat : g[n + 1] = f[g[n]]
  <2> HIDE DEF f, t
  <2>1. PICK first \in Field : first = 1
    BY <1>1
  <2>2. \E g \in [Nat -> Field] : g[0] = first /\ \A n \in Nat : g[n + 1] = f[g[n]]
    BY <1>3, Iteration
  <2> QED BY <2>1, <2>2
<1>5. ASSUME NEW i \in Nat PROVE g[i] = IF i = 0 THEN 1 ELSE mod(g[i - 1] * u, P)
  <2>1. CASE i = 0
    BY <1>4, <2>1
  <2>2. CASE i # 0
    <3>1. PICK j \in Nat : i = j + 1 /\ j = i - 1
      BY <2>2
    <3>2. g[j] \in Field
      BY <1>4
    <3> QED BY <1>4, <2>2, <3>1, <3>2
  <2> QED BY <2>1, <2>2
<1>6. g = [i \in Nat |-> g[i]]
  BY <1>4
<1>7. g = [i \in Nat |-> IF i = 0 THEN 1 ELSE mod(g[i - 1] * u, P)]
  BY <1>5, <1>6
<1>8. t = [i \in Nat |-> IF i = 0 THEN 1 ELSE mod(t[i - 1] * u, P)]
  BY <1>7
<1>9. ASSUME NEW n PROVE Power(u, n) = t[n]
  BY DEF Power
<1> HIDE DEF t, f
<1>10. t[0] = 1
  BY <1>8
<1>11. ASSUME NEW n \in Nat PROVE t[n + 1] = mod(t[n] * u, P)
  <2>1. n + 1 \in Nat /\ n + 1 # 0 /\ (n + 1) - 1 = n
    OBVIOUS
  <2>2. t[n + 1] = mod(t[(n + 1) - 1] * u, P)
    BY <1>8, <2>1
  <2> QED BY <2>1, <2>2
<1> DEFINE T == {i \in Nat : t[i] \in Field}
<1>12. 0 \in T
  BY <1>1, <1>10
<1>13. ASSUME NEW i \in T PROVE i + 1 \in T
  BY <1>2, <1>11
<1>14. T = Nat
  <2> HIDE DEF T
  <2>1. T \in SUBSET Nat
    BY DEF T
  <2> QED BY <1>12, <1>13, <2>1, NatSet
<1> QED BY <1>9, <1>10, <1>11, <1>14

\* The power to a sum is the product of the powers.
LEMMA PowerPlus ==
  ASSUME CurveAssumption, NEW u \in Int, NEW m \in Nat, NEW n \in Nat
  PROVE  mod(Power(u, m) * Power(u, n), P) = Power(u, m + n)
<1> DEFINE T == {i \in Nat : Cong(Power(u, m) * Power(u, i), Power(u, m + i))}
<1>1. ASSUME NEW i \in Nat PROVE Power(u, i) \in Field /\ Power(u, i) \in Int
  BY PowerDef, FieldFact
<1>2. 0 \in T
  <2>1. PICK p \in Int : p = Power(u, m)
    BY <1>1
  <2>2. p * 1 = p /\ m + 0 = m
    OBVIOUS
  <2> QED BY <2>1, <2>2, PowerDef, CongSame
<1>3. ASSUME NEW i \in T PROVE i + 1 \in T
  <2>1. PICK p \in Int, q \in Int, r \in Int :
           p = Power(u, m) /\ q = Power(u, i) /\ r = Power(u, m + i)
    BY <1>1
  <2>2. PICK pq \in Int, qu \in Int, ru \in Int : pq = p * q /\ qu = q * u /\ ru = r * u
    OBVIOUS
  <2>3. Power(u, i + 1) = mod(qu, P)
    BY <2>1, <2>2, PowerDef
  <2>4. Power(u, (m + i) + 1) = mod(ru, P)
    BY <2>1, <2>2, PowerDef
  <2>5. PICK a \in Int, b \in Int : a = mod(qu, P) /\ b = mod(ru, P) /\ Cong(a, qu) /\ Cong(b, ru)
    BY CongMod
  <2>6. Cong(p * a, p * qu)
    BY <2>5, CongSame, CongMul
  <2>7. Cong(pq * u, r * u)
    <3>1. Cong(pq, r)
      BY <2>1, <2>2
    <3> QED BY <3>1, CongSame, CongMul
  <2>8. p * qu = pq * u
    BY <2>2
  <2>9. Cong(p * a, b)
    BY <2>2, <2>5, <2>6, <2>7, <2>8, CongBack, CongTrans
  <2>10. (m + i) + 1 = m + (i + 1)
    OBVIOUS
  <2> QED BY <2>1, <2>3, <2>4, <2>5, <2>9, <2>10
<1>4. T = Nat
  <2> HIDE DEF T
  <2>1. T \in SUBSET Nat
    BY DEF T
  <2> QED BY <1>2, <1>3, <2>1, NatSet
<1>5. Cong(Power(u, m) * Power(u, n), Power(u, m + n))
  BY <1>4
<1> QED BY <1>1, <1>5, FieldFact DEF Cong

\* A round leaves less, until nothing is left.
LEMMA Halving == ASSUME NEW n \in Nat PROVE n \div 2 = 0 \/ n \div 2 + 1 <= n
OBVIOUS

\* What is left of s is nothing after s rounds that halve it.
LEMMA LoopEnds ==
  ASSUME NEW s \in Nat, NEW t, t[0][1] = s,
         \A i \in Nat : t[i][1] \in Nat /\ t[i + 1][1] = t[i][1] \div 2
  PROVE  t[s][1] = 0
<1> DEFINE T == {i \in Nat : t[i][1] \in Nat /\ (t[i][1] = 0 \/ t[i][1] + i <= s)}
<1>1. 0 \in T
  OBVIOUS
<1>2. ASSUME NEW i \in T PROVE i + 1 \in T
  <2>1. PICK n \in Nat, h \in Nat : n = t[i][1] /\ h = n \div 2 /\ t[i + 1][1] = h
    OBVIOUS
  <2>2. n = 0 \/ n + i <= s
    BY <2>1
  <2>3. h = 0 \/ h + 1 <= n
    <3>1. n \div 2 = 0 \/ n \div 2 + 1 <= n
      BY Halving
    <3> QED BY <2>1, <3>1
  <2>4. h = 0 \/ h + (i + 1) <= s
    BY <2>1, <2>2, <2>3
  <2> QED BY <2>1, <2>4
<1>3. T = Nat
  <2> HIDE DEF T
  <2>1. T \in SUBSET Nat
    BY DEF T
  <2> QED BY <1>1, <1>2, <2>1, NatSet
<1>4. s \in T
  BY <1>3
<1>5. PICK n \in Nat : n = t[s][1] /\ (n = 0 \/ n + s <= s)
  BY <1>4
<1> QED BY <1>5

\* What holds of modPow's loop for an exponent e: the base and the result are powers of u,
\* and what is left of e, times the one, makes the other up to e.
PowInv(u, e, b) ==
  \E i, j \in Nat : /\ b[1] \in Nat /\ j + b[1] * i = e
                    /\ b[2] = Power(u, i) /\ b[3] = Power(u, j)

\* A round keeps the invariant and drops a bit.
LEMMA PowRoundKeeps ==
  ASSUME CurveAssumption, NEW u \in Int, NEW e \in Nat, NEW b, PowInv(u, e, b)
  PROVE  PowInv(u, e, powRound(b, P)) /\ b[1] \in Nat /\ powRound(b, P)[1] = b[1] \div 2
<1>1. PICK i \in Nat, j \in Nat : /\ b[1] \in Nat /\ j + b[1] * i = e
                                  /\ b[2] = Power(u, i) /\ b[3] = Power(u, j)
  BY DEF PowInv
<1>2. PICK n \in Nat, h \in Nat : n = b[1] /\ h = n \div 2 /\ h = b[1] \div 2
  BY <1>1
<1>3. PICK r : r = powRound(b, P)
  OBVIOUS
<1>4. r = <<h, mod(b[2] * b[2], P), IF n % 2 = 1 THEN mod(b[3] * b[2], P) ELSE b[3]>>
  BY <1>2, <1>3 DEF powRound
<1>5. r[2] = Power(u, i + i) /\ i + i \in Nat
  BY <1>1, <1>4, PowerPlus
<1>6. CASE n % 2 = 1
  <2>1. n = h + h + 1
    BY <1>2, <1>6
  <2>2. r[3] = Power(u, j + i) /\ j + i \in Nat
    BY <1>1, <1>4, <1>6, PowerPlus
  <2>3. (j + i) + h * (i + i) = e
    <3>1. j + (h + h + 1) * i = e
      BY <1>1, <1>2, <2>1
    <3> QED BY <3>1
  <2> QED BY <1>1, <1>2, <1>3, <1>4, <1>5, <2>2, <2>3 DEF PowInv
<1>7. CASE n % 2 # 1
  <2>1. n = h + h
    BY <1>2, <1>7
  <2>2. r[3] = Power(u, j)
    BY <1>1, <1>4, <1>7
  <2>3. j + h * (i + i) = e
    <3>1. j + (h + h) * i = e
      BY <1>1, <1>2, <2>1
    <3> QED BY <3>1
  <2> QED BY <1>1, <1>2, <1>3, <1>4, <1>5, <2>2, <2>3 DEF PowInv
<1> QED BY <1>6, <1>7

\* The loop's recursive function is what its equations say, and keeps its invariant.
LEMMA PowLoopDef ==
  ASSUME CurveAssumption, NEW u \in Int, NEW e \in Nat, NEW t,
         t = CHOOSE loop : loop = [i \in Nat |-> IF i = 0 THEN <<e, mod(u, P), 1>>
                                                 ELSE powRound(loop[i - 1], P)]
  PROVE  /\ t[0] = <<e, mod(u, P), 1>>
         /\ \A i \in Nat : t[i + 1] = powRound(t[i], P) /\ PowInv(u, e, t[i])
<1> DEFINE first == <<e, mod(u, P), 1>>
           St == {b \in Nat \X Field \X Field : PowInv(u, e, b)}
           f == [b \in St |-> powRound(b, P)]
<1>1. first \in St
  <2>1. Power(u, 0) = 1 /\ Power(u, 0 + 1) = mod(1 * u, P) /\ 1 * u = u /\ 0 + 1 = 1
    BY PowerDef
  <2>2. mod(u, P) \in Field /\ 1 \in Field
    BY CongMod, ZeroOne
  <2>3. 0 + e * 1 = e
    OBVIOUS
  <2> QED BY <2>1, <2>2, <2>3 DEF PowInv
<1>2. ASSUME NEW b \in St PROVE powRound(b, P) \in St
  <2>1. PowInv(u, e, powRound(b, P))
    BY PowRoundKeeps
  <2>2. PICK r : r = powRound(b, P)
    OBVIOUS
  <2>3. r[1] \in Nat /\ r[2] \in Field /\ r[3] \in Field
    BY <2>1, <2>2, PowerDef DEF PowInv
  <2>4. r = <<r[1], r[2], r[3]>>
    BY <2>2 DEF powRound
  <2>5. r \in Nat \X Field \X Field
    BY <2>3, <2>4
  <2> QED BY <2>1, <2>2, <2>5
<1>3. f \in [St -> St]
  BY <1>2
<1>4. PICK g \in [Nat -> St] : g[0] = first /\ \A n \in Nat : g[n + 1] = f[g[n]]
  <2> HIDE DEF first, St, f
  <2> QED BY <1>1, <1>3, Iteration
<1>5. ASSUME NEW i \in Nat PROVE g[i] = IF i = 0 THEN first ELSE powRound(g[i - 1], P)
  <2>1. CASE i = 0
    BY <1>4, <2>1
  <2>2. CASE i # 0
    <3>1. PICK j \in Nat : i = j + 1 /\ j = i - 1
      BY <2>2
    <3>2. g[j] \in St
      BY <1>4
    <3> QED BY <1>4, <2>2, <3>1, <3>2
  <2> QED BY <2>1, <2>2
<1>6. g = [i \in Nat |-> g[i]]
  BY <1>4
<1> HIDE DEF first, St, f
<1>7. g = [i \in Nat |-> IF i = 0 THEN first ELSE powRound(g[i - 1], P)]
  BY <1>5, <1>6
<1>8. t = [i \in Nat |-> IF i = 0 THEN first ELSE powRound(t[i - 1], P)]
  BY <1>7 DEF first
<1>9. t[0] = first
  BY <1>8
<1>10. ASSUME NEW i \in Nat PROVE t[i + 1] = powRound(t[i], P)
  <2>1. i + 1 \in Nat /\ i + 1 # 0 /\ (i + 1) - 1 = i
    OBVIOUS
  <2>2. t[i + 1] = powRound(t[(i + 1) - 1], P)
    BY <1>8, <2>1
  <2> QED BY <2>1, <2>2
<1> DEFINE T == {i \in Nat : PowInv(u, e, t[i])}
<1>11. 0 \in T
  BY <1>1, <1>9 DEF St
<1>12. ASSUME NEW i \in T PROVE i + 1 \in T
  <2>1. PICK b : b = t[i] /\ PowInv(u, e, b)
    OBVIOUS
  <2>2. PowInv(u, e, powRound(b, P))
    BY <2>1, PowRoundKeeps
  <2>3. i \in Nat /\ i + 1 \in Nat
    OBVIOUS
  <2>4. t[i + 1] = powRound(b, P)
    BY <1>10, <2>1, <2>3
  <2>5. PowInv(u, e, t[i + 1])
    BY <2>2, <2>4
  <2> QED BY <2>3, <2>5
<1>13. T = Nat
  <2> HIDE DEF T
  <2>1. T \in SUBSET Nat
    BY DEF T
  <2> QED BY <1>11, <1>12, <2>1, NatSet
<1> QED BY <1>9, <1>10, <1>13 DEF first

\* modPow of crypto.ts computes powers: of any base, for any exponent.
THEOREM ModPowPowers ==
  ASSUME CurveAssumption, NEW u \in Int, NEW e \in Nat
  PROVE  modPow(u, e, P) = Power(u, e)
<1> DEFINE t == CHOOSE loop : loop = [i \in Nat |-> IF i = 0 THEN <<e, mod(u, P), 1>>
                                                    ELSE powRound(loop[i - 1], P)]
           last == CHOOSE i \in 0..e : t[i][1] = 0
<1>1. modPow(u, e, P) = t[last][3]
  BY DEF modPow
<1> HIDE DEF t
<1>2. t[0] = <<e, mod(u, P), 1>>
  BY PowLoopDef DEF t
<1>3. \A i \in Nat : t[i + 1] = powRound(t[i], P) /\ PowInv(u, e, t[i])
  BY PowLoopDef DEF t
<1>4. \A i \in Nat : t[i][1] \in Nat /\ t[i + 1][1] = t[i][1] \div 2
  BY <1>3, PowRoundKeeps
<1>5. t[e][1] = 0
  BY <1>2, <1>4, LoopEnds
<1>6. last \in 0..e /\ t[last][1] = 0
  BY <1>5
<1> HIDE DEF last
<1>7. PowInv(u, e, t[last])
  BY <1>3, <1>6
<1>8. PICK i \in Nat, j \in Nat : j + t[last][1] * i = e /\ t[last][3] = Power(u, j)
  BY <1>7 DEF PowInv
<1>9. j + 0 * i = j
  OBVIOUS
<1>10. j = e
  BY <1>6, <1>8, <1>9
<1> QED BY <1>1, <1>8, <1>10
-----------------------------------------------------------------------------
(* Division.                                                               *)

\* modInverse inverts.
LEMMA InverseFact ==
  ASSUME CurveAssumption, NEW u \in Field \ {0}
  PROVE  modInverse(u, P) \in Field /\ mod(u * modInverse(u, P), P) = 1
<1>1. PICK n \in Nat : n = P - 2 /\ n + 1 = P - 1
  BY DEF CurveAssumption
<1>2. PICK m \in Int : m = u
  BY FieldFact
<1>3. modInverse(u, P) = Power(m, n) /\ Power(m, n) \in Field
  BY <1>1, <1>2, ModPowPowers, PowerDef DEF modInverse
<1>4. PICK i \in Int : i = Power(m, n)
  BY <1>3, FieldFact
<1>5. Power(m, n + 1) = mod(i * m, P)
  BY <1>4, PowerDef
<1>6. Power(m, n + 1) = 1
  BY <1>1, <1>2 DEF CurveAssumption
<1>7. i * m = u * modInverse(u, P)
  BY <1>2, <1>3, <1>4
<1> QED BY <1>3, <1>5, <1>6, <1>7

\* d is a number, negative as in the code.
LEMMA DInt == ASSUME CurveAssumption PROVE D \in Int
<1>1. P \in Nat /\ P > 2 /\ P - 2 \in Nat /\ N \in Int /\ M \in Int
  BY DEF CurveAssumption
<1>2. modInverse(M, P) \in Field
  BY <1>1, ModPowPowers, PowerDef DEF modInverse
<1>3. PICK i \in Int : i = modInverse(M, P)
  BY <1>2, FieldFact
<1>4. N * i \in Int
  BY <1>1
<1>5. (N * i) % P \in Int
  BY <1>1, <1>4
<1> QED BY <1>3, <1>5 DEF D

\* What is not 0 has an inverse.
LEMMA CongInverse ==
  ASSUME CurveAssumption, NEW u \in Int, ~ Cong(u, 0)
  PROVE  \E i \in Int : Cong(u * i, 1)
<1>1. PICK m \in Field : m = mod(u, P) /\ Cong(m, u) /\ m \in Int
  BY CongMod
<1>2. m # 0
  BY <1>1, CongBack
<1>3. modInverse(m, P) \in Field /\ mod(m * modInverse(m, P), P) = 1
  BY <1>1, <1>2, InverseFact
<1>4. PICK i \in Int : i = modInverse(m, P)
  BY <1>3, FieldFact
<1>5. Cong(m * i, 1)
  BY <1>3, <1>4, ZeroOne, FieldFact DEF Cong
<1>6. Cong(m * i, u * i)
  BY <1>1, CongSame, CongMul
<1>7. Cong(u * i, 1)
  BY <1>5, <1>6, CongBack, CongTrans
<1> QED BY <1>7

\* No product of what is not 0 is 0, whatever the representatives.
LEMMA CongZero ==
  ASSUME CurveAssumption, NEW u \in Int, NEW v \in Int, ~ Cong(u, 0), ~ Cong(v, 0)
  PROVE  ~ Cong(u * v, 0)
<1>1. SUFFICES ASSUME Cong(u * v, 0) PROVE FALSE
  OBVIOUS
<1>2. PICK i \in Int : Cong(u * i, 1)
  BY CongInverse
<1>3. PICK o \in Int, z \in Int, p \in Int, q \in Int :
        o = 1 /\ z = 0 /\ p = u * v /\ q = u * i
  OBVIOUS
<1>4. Cong(p * i, z * i)
  <2>1. Cong(p, z) /\ Cong(i, i)
    BY <1>1, <1>3, CongSame
  <2> QED BY <2>1, CongMul
<1>5. Cong(q * v, o * v)
  <2>1. Cong(q, o) /\ Cong(v, v)
    BY <1>2, <1>3, CongSame
  <2> QED BY <2>1, CongMul
<1>6. p * i = q * v /\ z * i = 0 /\ o * v = v
  BY <1>3
<1>7. Cong(v, 0)
  BY <1>4, <1>5, <1>6, CongBack, CongTrans
<1> QED BY <1>7

\* A factor that is not 0 may be dropped.
LEMMA CongCancel ==
  ASSUME CurveAssumption, NEW u \in Int, NEW v \in Int, NEW w \in Int,
         ~ Cong(w, 0), Cong(u * w, v * w)
  PROVE  Cong(u, v)
<1>1. PICK p \in Int, q \in Int, r \in Int : p = u * w /\ q = v * w /\ r = u - v
  OBVIOUS
<1>2. Cong(p - q, q - q)
  BY <1>1, CongSame, CongAdd
<1>3. p - q = r * w /\ q - q = 0
  BY <1>1
<1>4. Cong(r, 0)
  BY <1>2, <1>3, CongZero
<1>5. PICK z \in Int : z = 0 /\ Cong(r, z)
  BY <1>4
<1>6. Cong(r + v, z + v)
  BY <1>5, CongSame, CongAdd
<1>7. r + v = u /\ z + v = v
  BY <1>1, <1>5
<1> QED BY <1>6, <1>7

\* d is no square: what is d times a square and a square is 0.
LEMMA NonSquare ==
  ASSUME CurveAssumption, NEW d \in Int, d = D, NEW u \in Int, NEW v \in Int,
         Cong(u * u, d * (v * v))
  PROVE  Cong(v, 0)
<1>1. SUFFICES ASSUME ~ Cong(v, 0) PROVE FALSE
  OBVIOUS
<1>2. PICK i \in Int : Cong(v * i, 1)
  BY <1>1, CongInverse
<1>3. PICK t \in Int, s \in Int, q \in Int, o \in Int, w \in Int, r \in Int :
        t = u * i /\ s = u * u /\ q = i * i /\ o = v * i /\ w = v * v /\ r = d * w
  OBVIOUS
<1>4. Cong(s * q, r * q)
  <2>1. Cong(s, r) /\ Cong(q, q)
    BY <1>3, CongSame
  <2> QED BY <2>1, CongMul
<1>5. s * q = t * t /\ r * q = d * (o * o)
  BY <1>3
<1>6. Cong(d * (o * o), d)
  <2>1. PICK l \in Int : l = 1 /\ Cong(o, l)
    BY <1>2, <1>3
  <2>2. Cong(o * o, l * l)
    BY <2>1, CongMul
  <2>3. o * o \in Int /\ l * l \in Int
    OBVIOUS
  <2>4. Cong(d * (o * o), d * (l * l))
    BY <2>2, <2>3, CongSame, CongMul
  <2>5. d * (l * l) = d
    BY <2>1
  <2> QED BY <2>4, <2>5
<1>7. Cong(t * t, d)
  BY <1>4, <1>5, <1>6, CongTrans
<1>8. PICK m \in Field : m \in Int /\ Cong(m, t)
  BY CongMod
<1>9. Cong(m * m, d)
  BY <1>7, <1>8, CongMul, CongTrans
<1>10. mod(m * m - D, P) = 0
  <2>1. PICK n \in Int, z \in Int : n = m * m /\ z = 0
    BY <1>8
  <2>2. Cong(n, d) /\ Cong(d, d)
    BY <1>9, <2>1, CongSame
  <2>3. Cong(n - d, d - d)
    BY <2>2, CongAdd
  <2>4. Cong(n - d, z)
    BY <2>1, <2>3
  <2> QED BY <2>1, <2>4, ZeroOne, FieldFact DEF Cong
<1> QED BY <1>8, <1>10 DEF CurveAssumption
-----------------------------------------------------------------------------
(* The law of the curve has no exception, and stays on the curve.          *)

\* The neutral point of the law.
Neutral == <<0, 1>>

LEMMA CurveFact ==
  ASSUME CurveAssumption, NEW a \in Curve
  PROVE  /\ a = <<a[1], a[2]>> /\ a[1] \in Field /\ a[2] \in Field
         /\ a[1] \in Int /\ a[2] \in Int
<1>1. a \in Field \X Field
  BY DEF Curve
<1>2. a = <<a[1], a[2]>> /\ a[1] \in Field /\ a[2] \in Field
  BY <1>1
<1> QED BY <1>2, FieldFact

\* A product computed in two steps, as the equation of the curve and the term of its
\* law are.
LEMMA CongNested ==
  ASSUME CurveAssumption, NEW u \in Int, NEW v \in Int, NEW w \in Int
  PROVE  Cong(mod(u, P) * v * w, u * (v * w)) /\ mod(u, P) * v * w \in Int
<1>1. PICK m \in Int : m = mod(u, P) /\ Cong(m, u)
  BY CongMod
<1>2. PICK t \in Int : t = v * w
  OBVIOUS
<1>3. Cong(m * t, u * t)
  BY <1>1, CongSame, CongMul
<1>4. m * v * w = m * t /\ m * v * w \in Int
  BY <1>2
<1> QED BY <1>1, <1>2, <1>3, <1>4

\* The points of the curve, with s and c the square of x * y.
LEMMA CurveEquation ==
  ASSUME CurveAssumption, NEW x \in Int, NEW y \in Int, NEW d \in Int, d = D,
         NEW e \in Int, e = y * y - x * x, NEW c \in Int, c = d * ((x * y) * (x * y))
  PROVE  /\ <<x, y>> \in Curve => Cong(e, 1 + c)
         /\ x \in Field /\ y \in Field /\ Cong(e, 1 + c) => <<x, y>> \in Curve
<1>1. d * x * x \in Int
  OBVIOUS
<1>2. PICK n \in Int : n = mod(d * x * x, P) * y * y /\ Cong(n, (d * x * x) * (y * y))
  BY <1>1, CongNested
<1>3. (d * x * x) * (y * y) = c
  OBVIOUS
<1>4. PICK o \in Int : o = 1
  OBVIOUS
<1>5. Cong(o + n, o + c) /\ Cong(o + c, o + n)
  BY <1>2, <1>3, CongSame, CongAdd, CongBack
<1>6. <<x, y>> \in Curve => Cong(e, o + n)
  BY <1>2, <1>4 DEF Curve, Cong
<1>7. x \in Field /\ y \in Field /\ Cong(e, o + n) => <<x, y>> \in Curve
  <2>1. SUFFICES ASSUME x \in Field, y \in Field, Cong(e, o + n) PROVE <<x, y>> \in Curve
    OBVIOUS
  <2>2. <<x, y>> \in Field \X Field
    BY <2>1
  <2>3. mod(y * y - x * x, P) = mod(1 + mod(d * x * x, P) * y * y, P)
    BY <2>1, <1>2, <1>4 DEF Cong
  <2> QED BY <2>2, <2>3 DEF Curve
<1>8. <<x, y>> \in Curve => Cong(e, o + c)
  BY <1>5, <1>6, CongTrans
<1>9. x \in Field /\ y \in Field /\ Cong(e, o + c) => <<x, y>> \in Curve
  BY <1>5, <1>7, CongTrans
<1> QED BY <1>4, <1>8, <1>9

\* The term of the law is d times the products of the coordinates.
LEMMA CrossFact ==
  ASSUME CurveAssumption, NEW d \in Int, d = D,
         NEW x1 \in Int, NEW y1 \in Int, NEW x2 \in Int, NEW y2 \in Int
  PROVE  /\ Cross(<<x1, y1>>, <<x2, y2>>) \in Int
         /\ Cong(Cross(<<x1, y1>>, <<x2, y2>>), d * ((x1 * y1) * (x2 * y2)))
<1>1. d * x1 * x2 \in Int
  OBVIOUS
<1>2. PICK n \in Int : n = mod(d * x1 * x2, P) * y1 * y2 /\ Cong(n, (d * x1 * x2) * (y1 * y2))
  BY <1>1, CongNested
<1>3. (d * x1 * x2) * (y1 * y2) = d * ((x1 * y1) * (x2 * y2))
  OBVIOUS
<1>4. Cross(<<x1, y1>>, <<x2, y2>>) = mod(n, P)
  BY <1>2 DEF Cross
<1>5. Cong(mod(n, P), n) /\ mod(n, P) \in Int
  BY CongMod
<1> QED BY <1>2, <1>3, <1>4, <1>5, CongTrans

\* One half of completeness: were the square of the term k equal to 1, then for each root
\* j of -1 the square of y1 + k*j*x1 would be d times that of x1*y1*(y2 + j*x2).
LEMMA HalfException ==
  ASSUME CurveAssumption, NEW d \in Int, d = D,
         NEW x1 \in Int, NEW y1 \in Int, NEW x2 \in Int, NEW y2 \in Int,
         <<x1, y1>> \in Curve, <<x2, y2>> \in Curve,
         NEW k \in Int, k = d * ((x1 * y1) * (x2 * y2)), Cong(k * k, 1),
         NEW j \in Int, Cong(j * j, -1)
  PROVE  Cong((x1 * y1) * (y2 + j * x2), 0)
<1>1. PICK a \in Int, b \in Int : a = x1 * y1 /\ b = x2 * y2
  OBVIOUS
<1>2. PICK e1 \in Int, e2 \in Int : e1 = y1 * y1 - x1 * x1 /\ e2 = y2 * y2 - x2 * x2
  OBVIOUS
<1>3. PICK f \in Int, g \in Int : f = d * (a * a) /\ g = d * (b * b)
  OBVIOUS
<1>4. PICK o \in Int : o = 1
  OBVIOUS
<1>5. Cong(e1, o + f) /\ Cong(e2, o + g)
  BY <1>1, <1>2, <1>3, <1>4, CurveEquation
<1>6. PICK u \in Int, v \in Int : u = y1 + k * (j * x1) /\ v = a * (y2 + j * x2)
  OBVIOUS
<1>7. PICK s \in Int, i \in Int, p \in Int, q \in Int, t \in Int :
        s = k * k /\ i = j * j /\ p = x1 * x1 /\ q = x2 * x2 /\ t = 2 * (k * (j * a))
  OBVIOUS
<1>8. u * u = (e1 + p + (s * i) * p) + t
  BY <1>1, <1>2, <1>6, <1>7
<1>9. d * (v * v) = f * (e2 + q + i * q) + t
  <2>1. v * v = (a * a) * (y2 * y2 + i * q + 2 * (j * b))
    BY <1>1, <1>6, <1>7
  <2>2. d * (v * v) = f * (y2 * y2 + i * q + 2 * (j * b))
    BY <2>1, <1>3
  <2>3. y2 * y2 = e2 + q
    BY <1>2, <1>7
  <2>4. f * (2 * (j * b)) = t
    <3>1. k = d * (a * b)
      BY <1>1
    <3> QED BY <3>1, <1>3, <1>7
  <2> QED BY <2>2, <2>3, <2>4
<1>10. Cong(s, 1) /\ Cong(i, -1)
  BY <1>7
<1>11. PICK n \in Int : n = -1 /\ Cong(s, o) /\ Cong(i, n)
  BY <1>4, <1>10
<1>12. Cong(e1 + p + (s * i) * p, e1)
  <2>1. Cong(s * i, o * n)
    BY <1>11, CongMul
  <2>2. PICK r \in Int : r = s * i /\ Cong(r, n)
    BY <1>4, <2>1
  <2>3. Cong(r * p, n * p)
    BY <2>2, CongSame, CongMul
  <2>4. PICK w \in Int, z \in Int, h \in Int : w = r * p /\ z = n * p /\ h = e1 + p
    OBVIOUS
  <2>5. Cong(h + w, h + z)
    BY <2>3, <2>4, CongSame, CongAdd
  <2>6. h + z = e1 /\ h + w = e1 + p + (s * i) * p
    BY <1>11, <2>2, <2>4
  <2> QED BY <2>5, <2>6
<1>13. Cong(f * (e2 + q + i * q), e1)
  <2>1. Cong(i * q, n * q)
    BY <1>11, CongSame, CongMul
  <2>2. PICK w \in Int, z \in Int : w = i * q /\ z = n * q /\ Cong(w, z)
    BY <2>1
  <2>3. Cong(q, q)
    BY CongSame
  <2>4. Cong(e2 + q, (o + g) + q)
    <3>1. o + g \in Int
      OBVIOUS
    <3> QED BY <3>1, <1>5, <2>3, CongAdd
  <2>5. PICK h \in Int, l \in Int : h = e2 + q /\ l = (o + g) + q /\ Cong(h, l)
    BY <2>4
  <2>6. Cong(h + w, l + z)
    BY <2>2, <2>5, CongAdd
  <2>7. h + w = e2 + q + i * q /\ l + z = o + g
    BY <1>11, <2>2, <2>5
  <2>8. PICK r \in Int, m \in Int : r = e2 + q + i * q /\ m = o + g /\ Cong(r, m)
    BY <2>6, <2>7
  <2>9. Cong(f * r, f * m)
    BY <2>8, CongSame, CongMul
  <2>10. f * m = f + s
    <3>1. k = d * (a * b)
      BY <1>1
    <3>2. s = f * g
      BY <3>1, <1>3, <1>7
    <3> QED BY <3>2, <2>8, <1>4
  <2>11. Cong(f + s, f + o)
    BY <1>11, CongSame, CongAdd
  <2>12. Cong(f + o, e1)
    <3>1. f + o = o + f
      OBVIOUS
    <3> QED BY <3>1, <1>5, CongBack
  <2> QED BY <2>8, <2>9, <2>10, <2>11, <2>12, CongTrans
<1>14. Cong(u * u, d * (v * v))
  <2>1. PICK w \in Int, z \in Int : w = e1 + p + (s * i) * p /\ z = f * (e2 + q + i * q)
    OBVIOUS
  <2>2. Cong(w, z)
    BY <2>1, <1>12, <1>13, CongBack, CongTrans
  <2>3. Cong(w + t, z + t)
    BY <2>2, CongSame, CongAdd
  <2> QED BY <2>1, <2>3, <1>8, <1>9
<1>15. Cong(v, 0)
  BY <1>14, NonSquare
<1> QED BY <1>1, <1>6, <1>15

\* The root of -1 that CurveAssumption names.
LEMMA MinusOneSquare == ASSUME CurveAssumption PROVE \E i \in Int : Cong(i * i, -1)
<1>1. PICK i \in Int : mod(i * i + 1, P) = 0
  BY FieldFact DEF CurveAssumption
<1>2. PICK r \in Int, o \in Int, z \in Int : r = i * i + 1 /\ o = 1 /\ z = 0
  OBVIOUS
<1>3. Cong(r, z)
  BY <1>1, <1>2, ZeroOne, FieldFact DEF Cong
<1>4. Cong(r - o, z - o)
  BY <1>3, CongSame, CongAdd
<1>5. r - o = i * i /\ z - o = -1
  BY <1>2
<1>6. Cong(i * i, -1)
  BY <1>4, <1>5
<1> QED BY <1>6

\* The square of the term of the law is never 1: on the two roots of -1, y2 + i*x2 and
\* y2 - i*x2 would both be 0, and then the term itself.
LEMMA NoException ==
  ASSUME CurveAssumption, NEW d \in Int, d = D,
         NEW x1 \in Int, NEW y1 \in Int, NEW x2 \in Int, NEW y2 \in Int,
         <<x1, y1>> \in Curve, <<x2, y2>> \in Curve,
         NEW k \in Int, k = d * ((x1 * y1) * (x2 * y2))
  PROVE  ~ Cong(k * k, 1)
<1>1. SUFFICES ASSUME Cong(k * k, 1) PROVE FALSE
  OBVIOUS
<1>2. PICK i \in Int : Cong(i * i, -1)
  BY MinusOneSquare
<1>3. Cong(i * i, -1)
  BY <1>2
<1>4. PICK j \in Int : j = -i
  OBVIOUS
<1>5. Cong(j * j, -1)
  <2>1. j * j = i * i
    BY <1>4
  <2> QED BY <2>1, <1>3
<1>6. PICK a \in Int, v \in Int, w \in Int :
        a = x1 * y1 /\ v = (x1 * y1) * (y2 + i * x2) /\ w = (x1 * y1) * (y2 + j * x2)
  OBVIOUS
<1>7. Cong(v, 0)
  BY <1>1, <1>3, <1>6, HalfException
<1>8. Cong(w, 0)
  BY <1>1, <1>5, <1>6, HalfException
<1>9. PICK z \in Int, two \in Int, r \in Int : z = 0 /\ two = 2 /\ r = a * y2
  OBVIOUS
<1>10. Cong(r, 0)
  <2>1. Cong(v + w, z + z)
    BY <1>7, <1>8, <1>9, CongAdd
  <2>2. v + w = two * r /\ z + z = 0
    <3>1. v = a * y2 + a * (i * x2) /\ w = a * y2 - a * (i * x2)
      BY <1>4, <1>6
    <3> QED BY <3>1, <1>9
  <2>3. Cong(two * r, 0)
    BY <2>1, <2>2
  <2>4. ~ Cong(two, 0)
    BY <1>9, ZeroOne
  <2> QED BY <2>3, <2>4, CongZero
<1>11. Cong(k, z)
  <2>1. PICK q \in Int : q = d * x2
    OBVIOUS
  <2>2. Cong(q * r, q * z)
    BY <1>9, <1>10, CongSame, CongMul
  <2>3. q * r = k /\ q * z = z
    BY <1>6, <1>9, <2>1
  <2> QED BY <2>2, <2>3
<1>12. Cong(k * k, z * z) /\ z * z = 0
  BY <1>9, <1>11, CongMul
<1>13. Cong(1, 0)
  BY <1>1, <1>12, CongBack, CongTrans
<1> QED BY <1>13, ZeroOne

\* A term whose square is not 1 leaves both denominators of the law invertible.
LEMMA Denominators ==
  ASSUME CurveAssumption, NEW k \in Int, NEW n \in Int, Cong(k, n), ~ Cong(n * n, 1)
  PROVE  ~ Cong(1 + k, 0) /\ ~ Cong(1 - k, 0)
<1>1. PICK o \in Int, z \in Int, m \in Int : o = 1 /\ z = 0 /\ m = -1
  OBVIOUS
<1>2. ASSUME Cong(1 + k, 0) PROVE FALSE
  <2>1. PICK r \in Int : r = 1 + k /\ Cong(r, z)
    BY <1>1, <1>2
  <2>2. Cong(k, m)
    <3>1. Cong(o, o)
      BY CongSame
    <3>2. Cong(r - o, z - o)
      BY <2>1, <3>1, CongAdd
    <3>3. r - o = k /\ z - o = m
      BY <1>1, <2>1
    <3> QED BY <3>2, <3>3
  <2>3. Cong(n, m)
    BY <2>2, CongBack, CongTrans
  <2>4. Cong(n * n, m * m) /\ m * m = 1
    BY <1>1, <2>3, CongMul
  <2> QED BY <2>4
<1>3. ASSUME Cong(1 - k, 0) PROVE FALSE
  <2>1. PICK r \in Int : r = 1 - k /\ Cong(r, z)
    BY <1>1, <1>3
  <2>2. Cong(k, o)
    <3>1. Cong(o, o)
      BY CongSame
    <3>2. Cong(o - r, o - z)
      BY <2>1, <3>1, CongAdd
    <3>3. o - r = k /\ o - z = o
      BY <1>1, <2>1
    <3> QED BY <3>2, <3>3
  <2>3. Cong(n, o)
    BY <2>2, CongBack, CongTrans
  <2>4. Cong(n * n, o * o) /\ o * o = 1
    BY <1>1, <2>3, CongMul
  <2> QED BY <2>4
<1> QED BY <1>2, <1>3

\* What makes the sum of two points a point: in numbers, with s and t the numerators.
LEMMA NumeratorsFit ==
  ASSUME CurveAssumption, NEW d \in Int, d = D,
         NEW x1 \in Int, NEW y1 \in Int, NEW x2 \in Int, NEW y2 \in Int,
         <<x1, y1>> \in Curve, <<x2, y2>> \in Curve,
         NEW k \in Int, k = d * ((x1 * y1) * (x2 * y2)),
         NEW s \in Int, s = x1 * y2 + y1 * x2, NEW t \in Int, t = y1 * y2 + x1 * x2
  PROVE  Cong((t * t) * ((1 + k) * (1 + k)) - (s * s) * ((1 - k) * (1 - k)),
              (1 - k * k) * (1 - k * k) + d * ((s * t) * (s * t)))
<1>1. PICK a \in Int, b \in Int : a = x1 * y1 /\ b = x2 * y2
  OBVIOUS
<1>2. PICK e1 \in Int, e2 \in Int, h1 \in Int, h2 \in Int :
        /\ e1 = y1 * y1 - x1 * x1 /\ e2 = y2 * y2 - x2 * x2
        /\ h1 = y1 * y1 + x1 * x1 /\ h2 = y2 * y2 + x2 * x2
  OBVIOUS
<1>3. PICK u \in Int, v \in Int, q \in Int : u = d * (a * a) /\ v = d * (b * b) /\ q = k * k
  OBVIOUS
<1>4. q = u * v /\ k = d * (a * b)
  <2>1. k = d * (a * b)
    BY <1>1
  <2> QED BY <2>1, <1>3
<1>5. t * t - s * s = e1 * e2
  BY <1>2
<1>6. t * t + s * s = h1 * h2 + 4 * (a * b)
  BY <1>1, <1>2
<1>7. s * t = a * h2 + b * h1
  BY <1>1, <1>2
<1>8. h1 * h1 = e1 * e1 + 4 * (a * a) /\ h2 * h2 = e2 * e2 + 4 * (b * b)
  BY <1>1, <1>2
<1>9. PICK ss \in Int, tt \in Int, hh \in Int, ab \in Int :
        ss = s * s /\ tt = t * t /\ hh = h1 * h2 /\ ab = a * b
  OBVIOUS
<1>10. tt * ((1 + k) * (1 + k)) - ss * ((1 - k) * (1 - k))
          = (1 + q) * (tt - ss) + 2 * k * (tt + ss)
  BY <1>3
<1>11. (1 + q) * (tt - ss) + 2 * k * (tt + ss)
          = (1 + q) * (e1 * e2) + 2 * k * hh + 8 * (k * ab)
  <2>1. tt - ss = e1 * e2 /\ tt + ss = hh + 4 * ab
    BY <1>5, <1>6, <1>9
  <2>2. 2 * k * (hh + 4 * ab) = 2 * k * hh + 8 * (k * ab)
    OBVIOUS
  <2> QED BY <2>1, <2>2
<1>12. d * ((s * t) * (s * t))
          = u * (e2 * e2) + v * (e1 * e1) + 8 * (k * ab) + 2 * k * hh
  <2>1. (s * t) * (s * t) = (a * a) * (h2 * h2) + (b * b) * (h1 * h1) + 2 * (ab * hh)
    <3>1. (a * h2 + b * h1) * (a * h2 + b * h1)
            = (a * a) * (h2 * h2) + (b * b) * (h1 * h1) + 2 * ((a * b) * (h1 * h2))
      OBVIOUS
    <3> QED BY <3>1, <1>7, <1>9
  <2>2. d * ((s * t) * (s * t)) = u * (h2 * h2) + v * (h1 * h1) + 2 * ((d * ab) * hh)
    BY <2>1, <1>3
  <2>3. d * ab = k
    BY <1>4, <1>9
  <2>4. u * (h2 * h2) = u * (e2 * e2) + 4 * (k * ab)
    <3>1. u * (4 * (b * b)) = 4 * ((d * ab) * ab)
      BY <1>3, <1>9
    <3>2. u * (e2 * e2 + 4 * (b * b)) = u * (e2 * e2) + u * (4 * (b * b))
      OBVIOUS
    <3> QED BY <3>1, <3>2, <2>3, <1>8
  <2>5. v * (h1 * h1) = v * (e1 * e1) + 4 * (k * ab)
    <3>1. v * (4 * (a * a)) = 4 * ((d * ab) * ab)
      BY <1>3, <1>9
    <3>2. v * (e1 * e1 + 4 * (a * a)) = v * (e1 * e1) + v * (4 * (a * a))
      OBVIOUS
    <3> QED BY <3>1, <3>2, <2>3, <1>8
  <2>6. PICK i \in Int, j \in Int, p \in Int, r \in Int :
          i = u * (e2 * e2) /\ j = v * (e1 * e1) /\ p = k * ab /\ r = k * hh
    OBVIOUS
  <2>7. d * ((s * t) * (s * t)) = (i + 4 * p) + (j + 4 * p) + 2 * r
    BY <2>2, <2>3, <2>4, <2>5, <2>6
  <2>8. 2 * k * hh = 2 * r
    BY <2>6
  <2> QED BY <2>6, <2>7, <2>8
<1>13. PICK m1 \in Int, m2 \in Int : m1 = 1 + u /\ m2 = 1 + v
  OBVIOUS
<1>14. Cong(e1, m1) /\ Cong(e2, m2)
  BY <1>1, <1>2, <1>3, <1>13, CurveEquation
<1>15. PICK c1 \in Int, c2 \in Int, c3 \in Int, n1 \in Int, n2 \in Int, n3 \in Int, r \in Int :
         /\ c1 = e1 * e2 /\ c2 = e2 * e2 /\ c3 = e1 * e1
         /\ n1 = m1 * m2 /\ n2 = m2 * m2 /\ n3 = m1 * m1 /\ r = 1 + q
  OBVIOUS
<1>16. Cong(c1, n1) /\ Cong(c2, n2) /\ Cong(c3, n3)
  BY <1>14, <1>15, CongMul
<1>17. Cong(r * c1, r * n1) /\ Cong(u * c2, u * n2) /\ Cong(v * c3, v * n3)
  BY <1>16, CongSame, CongMul
<1>18. PICK g1 \in Int, g2 \in Int, g3 \in Int, l1 \in Int, l2 \in Int, l3 \in Int :
         /\ g1 = r * c1 /\ g2 = u * c2 /\ g3 = v * c3
         /\ l1 = r * n1 /\ l2 = u * n2 /\ l3 = v * n3
  OBVIOUS
<1>19. Cong((g1 - g2) - g3, (l1 - l2) - l3)
  <2>1. Cong(g1 - g2, l1 - l2) /\ g1 - g2 \in Int /\ l1 - l2 \in Int
    BY <1>17, <1>18, CongAdd
  <2> QED BY <2>1, <1>17, <1>18, CongAdd
<1>20. (l1 - l2) - l3 = (1 - q) * (1 - q)
  <2>1. l1 = (1 + u * v) * ((1 + u) * (1 + v)) /\ l2 = u * ((1 + v) * (1 + v))
        /\ l3 = v * ((1 + u) * (1 + u))
    BY <1>4, <1>13, <1>15, <1>18
  <2>2. (1 + u * v) * ((1 + u) * (1 + v)) - u * ((1 + v) * (1 + v)) - v * ((1 + u) * (1 + u))
          = (1 - u * v) * (1 - u * v)
    OBVIOUS
  <2> QED BY <2>1, <2>2, <1>4
<1>21. PICK w \in Int, f \in Int, g \in Int, z \in Int :
         /\ w = d * ((s * t) * (s * t)) /\ f = (g1 - g2) - g3 /\ g = (1 - q) * (1 - q)
         /\ z = tt * ((1 + k) * (1 + k)) - ss * ((1 - k) * (1 - k))
  OBVIOUS
<1>22. Cong(f + w, g + w)
  <2>1. Cong(f, g)
    BY <1>19, <1>20, <1>21
  <2>2. Cong(w, w)
    BY CongSame
  <2> QED BY <2>1, <2>2, CongAdd
<1>23. z = f + w
  <2>1. z = g1 + 2 * k * hh + 8 * (k * ab)
    BY <1>10, <1>11, <1>15, <1>18, <1>21
  <2>2. w = g2 + g3 + 8 * (k * ab) + 2 * k * hh
    BY <1>12, <1>15, <1>18, <1>21
  <2>3. PICK i \in Int, j \in Int : i = 2 * k * hh /\ j = 8 * (k * ab)
    OBVIOUS
  <2> QED BY <2>1, <2>2, <2>3, <1>21
<1>24. Cong(z, g + w)
  BY <1>22, <1>23
<1> QED BY <1>3, <1>9, <1>21, <1>24

\* A point over its denominators p and m is on the curve when its numerators fit.
LEMMA OverDenominators ==
  ASSUME CurveAssumption, NEW d \in Int, NEW x \in Int, NEW y \in Int,
         NEW p \in Int, NEW m \in Int, NEW s \in Int, NEW t \in Int,
         Cong(x * p, s), Cong(y * m, t), ~ Cong(p, 0), ~ Cong(m, 0),
         Cong((t * t) * (p * p) - (s * s) * (m * m), (p * m) * (p * m) + d * ((s * t) * (s * t)))
  PROVE  Cong(y * y - x * x, 1 + d * ((x * y) * (x * y)))
<1>1. PICK u \in Int, v \in Int : u = x * p /\ v = y * m
  OBVIOUS
<1>2. Cong(u, s) /\ Cong(v, t)
  BY <1>1
<1>3. PICK pp \in Int, mm \in Int, pm \in Int, w \in Int :
         pp = p * p /\ mm = m * m /\ pm = p * m /\ w = pm * pm
  OBVIOUS
<1>4. Cong((v * v) * pp - (u * u) * mm, (t * t) * pp - (s * s) * mm)
  <2>1. Cong(v * v, t * t) /\ Cong(u * u, s * s)
    BY <1>2, CongMul
  <2>2. PICK vv \in Int, tt \in Int, uu \in Int, ss \in Int :
           vv = v * v /\ tt = t * t /\ uu = u * u /\ ss = s * s
    OBVIOUS
  <2>3. Cong(vv * pp, tt * pp) /\ Cong(uu * mm, ss * mm)
    BY <2>1, <2>2, CongSame, CongMul
  <2>4. PICK i \in Int, j \in Int, k \in Int, l \in Int :
           i = vv * pp /\ j = tt * pp /\ k = uu * mm /\ l = ss * mm
    OBVIOUS
  <2>5. Cong(i - k, j - l)
    BY <2>3, <2>4, CongAdd
  <2> QED BY <2>2, <2>4, <2>5
<1>5. Cong(w + d * ((s * t) * (s * t)), w + d * ((u * v) * (u * v)))
  <2>1. Cong(s, u) /\ Cong(t, v)
    BY <1>2, CongBack
  <2>2. PICK i \in Int, j \in Int : i = s * t /\ j = u * v
    OBVIOUS
  <2>3. Cong(i, j)
    BY <2>1, <2>2, CongMul
  <2>4. PICK k \in Int, l \in Int : k = i * i /\ l = j * j
    OBVIOUS
  <2>5. Cong(k, l)
    BY <2>3, <2>4, CongMul
  <2>6. PICK n \in Int, r \in Int : n = d * k /\ r = d * l
    OBVIOUS
  <2>7. Cong(n, r)
    BY <2>5, <2>6, CongSame, CongMul
  <2>8. Cong(w + n, w + r)
    BY <2>7, CongSame, CongAdd
  <2> QED BY <2>2, <2>4, <2>6, <2>8
<1>6. PICK e \in Int, c \in Int : e = y * y - x * x /\ c = 1 + d * ((x * y) * (x * y))
  OBVIOUS
<1>7. (v * v) * pp - (u * u) * mm = e * w
  BY <1>1, <1>3, <1>6
<1>8. w + d * ((u * v) * (u * v)) = c * w
  <2>1. u * v = (x * y) * pm
    BY <1>1, <1>3
  <2>2. (u * v) * (u * v) = ((x * y) * (x * y)) * w
    BY <2>1, <1>3
  <2> QED BY <2>2, <1>6
<1>9. Cong(e * w, c * w)
  <2>1. PICK f \in Int, g \in Int, h \in Int, l \in Int :
           /\ f = (v * v) * pp - (u * u) * mm /\ g = (t * t) * pp - (s * s) * mm
           /\ h = w + d * ((s * t) * (s * t)) /\ l = w + d * ((u * v) * (u * v))
    OBVIOUS
  <2>2. Cong(g, h)
    BY <1>3, <2>1
  <2>3. Cong(f, l)
    BY <1>4, <1>5, <2>1, <2>2, CongTrans
  <2> QED BY <1>7, <1>8, <2>1, <2>3
<1>10. ~ Cong(w, 0)
  BY <1>3, CongZero
<1>11. Cong(e, c)
  BY <1>9, <1>10, CongCancel
<1> QED BY <1>6, <1>11

\* A quotient stays one whatever number stands for its denominator.
LEMMA Quotient ==
  ASSUME CurveAssumption, NEW s \in Int, NEW p \in Int, ~ Cong(p, 0)
  PROVE  \E x \in Int : x \in Field /\ Cong(x * p, s)
<1>1. PICK i \in Int : Cong(p * i, 1)
  BY CongInverse
<1>2. PICK o \in Int, l \in Int, n \in Int : o = p * i /\ l = 1 /\ n = s * i
  OBVIOUS
<1>3. PICK x \in Int : x \in Field /\ Cong(x, n)
  BY CongMod
<1>4. Cong(x * p, n * p)
  BY <1>3, CongSame, CongMul
<1>5. Cong(s * o, s * l)
  <2>1. Cong(o, l)
    BY <1>1, <1>2
  <2> QED BY <2>1, CongSame, CongMul
<1>6. n * p = s * o /\ s * l = s
  BY <1>2
<1>7. Cong(x * p, s)
  BY <1>4, <1>5, <1>6, CongTrans
<1> QED BY <1>3, <1>7

\* What the law says of the sum of two points.
LEMMA IsSumFact ==
  ASSUME NEW c, NEW a, NEW b
  PROVE  IsSum(c, a, b) <=> /\ Cong(c[1] * (1 + Cross(a, b)), a[1] * b[2] + a[2] * b[1])
                            /\ Cong(c[2] * (1 - Cross(a, b)), a[2] * b[2] + a[1] * b[1])
BY DEF IsSum, Cong

\* The law of the curve, which pointAdd of crypto.ts computes without a special case, needs
\* none: any two points have their sum, on the curve, and no denominator is 0.
THEOREM LawIsComplete ==
  ASSUME CurveAssumption, NEW a \in Curve, NEW b \in Curve
  PROVE  /\ Cross(a, b) \in Int /\ ~ Cong(1 + Cross(a, b), 0) /\ ~ Cong(1 - Cross(a, b), 0)
         /\ \E c \in Curve : IsSum(c, a, b)
<1>1. PICK x1 \in Int, y1 \in Int : a = <<x1, y1>>
  BY CurveFact
<1>2. PICK x2 \in Int, y2 \in Int : b = <<x2, y2>>
  BY CurveFact
<1>3. PICK d \in Int : d = D
  BY DInt
<1>4. PICK n \in Int : n = d * ((x1 * y1) * (x2 * y2))
  OBVIOUS
<1>5. PICK k \in Int : k = Cross(a, b) /\ Cong(k, n)
  BY <1>1, <1>2, <1>3, <1>4, CrossFact
<1>6. ~ Cong(n * n, 1)
  BY <1>1, <1>2, <1>3, <1>4, NoException
<1>7. ~ Cong(1 + k, 0) /\ ~ Cong(1 - k, 0)
  BY <1>5, <1>6, Denominators
<1>8. ~ Cong(1 + n, 0) /\ ~ Cong(1 - n, 0)
  <2>1. Cong(n, n)
    BY CongSame
  <2> QED BY <2>1, <1>6, Denominators
<1>9. PICK p \in Int, m \in Int, s \in Int, t \in Int :
         p = 1 + n /\ m = 1 - n /\ s = x1 * y2 + y1 * x2 /\ t = y1 * y2 + x1 * x2
  OBVIOUS
<1>10. PICK x \in Int : x \in Field /\ Cong(x * p, s)
  BY <1>8, <1>9, Quotient
<1>11. PICK y \in Int : y \in Field /\ Cong(y * m, t)
  BY <1>8, <1>9, Quotient
<1>12. Cong((t * t) * (p * p) - (s * s) * (m * m), (p * m) * (p * m) + d * ((s * t) * (s * t)))
  <2>1. Cong((t * t) * ((1 + n) * (1 + n)) - (s * s) * ((1 - n) * (1 - n)),
             (1 - n * n) * (1 - n * n) + d * ((s * t) * (s * t)))
    BY <1>1, <1>2, <1>3, <1>4, <1>9, NumeratorsFit
  <2>2. (p * m) * (p * m) = (1 - n * n) * (1 - n * n)
    BY <1>9
  <2>3. p * p = (1 + n) * (1 + n) /\ m * m = (1 - n) * (1 - n)
    BY <1>9
  <2> QED BY <2>1, <2>2, <2>3
<1>13. Cong(y * y - x * x, 1 + d * ((x * y) * (x * y)))
  BY <1>8, <1>9, <1>10, <1>11, <1>12, OverDenominators
<1>14. <<x, y>> \in Curve
  <2>1. PICK e \in Int, c \in Int : e = y * y - x * x /\ c = d * ((x * y) * (x * y))
    OBVIOUS
  <2> QED BY <2>1, <1>3, <1>10, <1>11, <1>13, CurveEquation
<1>15. Cong(x * (1 + k), s) /\ Cong(y * (1 - k), t)
  <2>1. PICK o \in Int, q \in Int, r \in Int : o = 1 /\ q = 1 + k /\ r = 1 - k
    OBVIOUS
  <2>2. Cong(q, p) /\ Cong(r, m)
    <3>1. Cong(o, o)
      BY CongSame
    <3>2. Cong(o + k, o + n) /\ Cong(o - k, o - n)
      BY <1>5, <3>1, CongAdd
    <3> QED BY <3>2, <2>1, <1>9
  <2>3. Cong(x * q, x * p) /\ Cong(y * r, y * m)
    BY <2>2, CongSame, CongMul
  <2>4. Cong(x * q, s) /\ Cong(y * r, t)
    BY <2>3, <1>10, <1>11, CongTrans
  <2> QED BY <2>1, <2>4
<1>16. IsSum(<<x, y>>, a, b)
  <2> DEFINE c == <<x, y>>
  <2>1. c[1] = x /\ c[2] = y
    OBVIOUS
  <2> HIDE DEF c
  <2>2. Cong(c[1] * (1 + Cross(a, b)), a[1] * b[2] + a[2] * b[1])
    BY <1>1, <1>2, <1>5, <1>9, <1>15, <2>1
  <2>3. Cong(c[2] * (1 - Cross(a, b)), a[2] * b[2] + a[1] * b[1])
    BY <1>1, <1>2, <1>5, <1>9, <1>15, <2>1
  <2>4. IsSum(c, a, b)
    BY <2>2, <2>3, IsSumFact
  <2> QED BY <2>4 DEF c
<1> QED BY <1>5, <1>7, <1>14, <1>16
-----------------------------------------------------------------------------
(* The multiples of the base point.                                        *)

LEMMA NeutralOnCurve == ASSUME CurveAssumption PROVE Neutral \in Curve
<1>1. P \in Nat /\ P > 2 /\ D \in Int
  BY DInt DEF CurveAssumption
<1>2. 0 \in Field /\ 1 \in Field
  BY <1>1 DEF Field
<1>3. mod(D * 0 * 0, P) = 0
  BY <1>1, <1>2, FieldFact
<1>4. mod(1 * 1 - 0 * 0, P) = mod(1 + mod(D * 0 * 0, P) * 1 * 1, P)
  BY <1>3
<1> QED BY <1>2, <1>4 DEF Curve, Neutral

\* The neutral point is neutral.
LEMMA NeutralSums ==
  ASSUME CurveAssumption, NEW a \in Curve
  PROVE  Sum(Neutral, a) = a /\ Sum(a, Neutral) = a
<1>1. PICK x \in Field, y \in Field : a = <<x, y>> /\ x \in Int /\ y \in Int
  BY CurveFact
<1>2. D \in Int /\ 0 \in Field /\ P \in Nat /\ P > 2
  BY DInt DEF CurveAssumption, Field
<1>3. mod(0, P) = 0
  BY <1>2, FieldFact
<1>4. Cross(Neutral, a) = 0 /\ Cross(a, Neutral) = 0
  <2>1. D * 0 * x = 0 /\ D * x * 0 = 0 /\ 0 * 1 * y = 0 /\ 0 * y * 1 = 0
    BY <1>1, <1>2
  <2> QED BY <1>1, <1>3, <2>1 DEF Cross, Neutral
<1>5. ASSUME NEW c \in Curve
      PROVE  /\ IsSum(c, Neutral, a) <=> c = a
             /\ IsSum(c, a, Neutral) <=> c = a
  <2>1. PICK u \in Field, v \in Field : c = <<u, v>> /\ u \in Int /\ v \in Int
    BY CurveFact
  <2>2. u * (1 + 0) = u /\ v * (1 - 0) = v /\ 0 * y + 1 * x = x /\ 1 * y + 0 * x = y
        /\ x * 1 + y * 0 = x /\ y * 1 + x * 0 = y
    BY <1>1, <2>1
  <2>3. IsSum(c, Neutral, a) <=> Cong(u, x) /\ Cong(v, y)
    BY <1>1, <1>4, <2>1, <2>2, IsSumFact DEF Neutral
  <2>4. IsSum(c, a, Neutral) <=> Cong(u, x) /\ Cong(v, y)
    BY <1>1, <1>4, <2>1, <2>2, IsSumFact DEF Neutral
  <2>5. (Cong(u, x) /\ Cong(v, y)) <=> c = a
    BY <1>1, <2>1, CongField, CongSame
  <2> QED BY <2>3, <2>4, <2>5
<1> QED BY <1>5 DEF Sum

\* The multiples of the base point.
Mult(n) == Times(n, Base)

LEMMA MultDef ==
  /\ Mult(0) = Neutral
  /\ \A n \in Nat : Mult(n + 1) = Sum(Mult(n), Base)
BY TimesDef DEF Mult, Neutral

\* The remainder is what the division says, whatever the quotient.
LEMMA RemainderIs ==
  ASSUME NEW l \in Nat, l > 0, NEW u \in Int, NEW q \in Int, NEW r \in Int,
         0 <= r, r < l, u = q * l + r
  PROVE  u % l = r
<1>1. u = (u \div l) * l + (u % l) /\ u \div l \in Int /\ u % l \in 0..(l - 1)
  OBVIOUS
<1>2. PICK k \in Int, m \in 0..(l - 1) : u = k * l + m /\ m = u % l
  BY <1>1
<1>3. (q - k) * l = m - r
  <2>1. (q - k) * l = q * l - k * l
    OBVIOUS
  <2>2. q * l \in Int /\ k * l \in Int
    OBVIOUS
  <2> QED BY <1>2, <2>1, <2>2
<1>4. q - k \in Int /\ (q - k) * l < l /\ (q - k) * l > -l
  BY <1>2, <1>3
<1>5. q - k = 0
  <2> DEFINE j == q - k
  <2>1. j \in Int /\ j * l < l /\ j * l > -l
    BY <1>4
  <2> HIDE DEF j
  <2>2. j = 0
    BY <2>1, SmallMultiple
  <2> QED BY <2>2 DEF j
<1>6. m - r = 0
  BY <1>3, <1>5
<1> QED BY <1>2, <1>6

\* Multiples depend on the remainder by L only, as the base point is of order L.
LEMMA MultRemainder ==
  ASSUME CurveAssumption, NEW n \in Nat
  PROVE  n % L \in 0..(L - 1) /\ Mult(n) = Mult(n % L)
<1> DEFINE T == {i \in Nat : Mult(i) = Mult(i % L)}
<1>1. L \in Nat /\ L > 0
  BY DEF CurveAssumption
<1>2. Mult(L) = Mult(0)
  BY MultDef DEF Mult, Neutral, CurveAssumption
<1>3. 0 \in T
  BY <1>1
<1>4. ASSUME NEW i \in T PROVE i + 1 \in T
  <2>1. PICK r \in 0..(L - 1) : r = i % L
    BY <1>1
  <2>2. Mult(i + 1) = Mult(r + 1)
    <3>1. Mult(i + 1) = Sum(Mult(i), Base) /\ Mult(r + 1) = Sum(Mult(r), Base)
      BY MultDef
    <3> QED BY <2>1, <3>1
  <2>3. PICK q \in Int : i = q * L + r
    <3>1. i = (i \div L) * L + (i % L) /\ i \div L \in Int
      BY <1>1
    <3> QED BY <2>1, <3>1
  <2>4. CASE r + 1 < L
    <3>1. i + 1 = q * L + (r + 1)
      BY <1>1, <2>1, <2>3
    <3>2. i + 1 \in Int /\ r + 1 \in Int /\ 0 <= r + 1
      BY <2>1
    <3>3. (i + 1) % L = r + 1
      BY <1>1, <2>4, <3>1, <3>2, RemainderIs
    <3> QED BY <2>2, <3>3
  <2>5. CASE r + 1 = L
    <3>1. i + 1 = (q + 1) * L + 0
      BY <1>1, <2>1, <2>3, <2>5
    <3>2. (i + 1) % L = 0
      BY <1>1, <3>1, RemainderIs
    <3> QED BY <1>2, <2>2, <2>5, <3>2
  <2> QED BY <1>1, <2>1, <2>4, <2>5
<1>5. T = Nat
  <2> HIDE DEF T
  <2>1. T \in SUBSET Nat
    BY DEF T
  <2> QED BY <1>3, <1>4, <2>1, NatSet
<1> QED BY <1>1, <1>5

LEMMA MultIn ==
  ASSUME CurveAssumption, NEW n \in Nat
  PROVE  Mult(n) \in Multiples
<1>1. PICK r \in 0..(L - 1) : Mult(n) = Mult(r)
  BY MultRemainder
<1> QED BY <1>1 DEF Mult, Multiples

LEMMA MultOne ==
  ASSUME CurveAssumption
  PROVE  Mult(1) = Base /\ Base \in Multiples
<1>1. Base \in Curve
  BY DEF CurveAssumption
<1>2. Mult(0 + 1) = Sum(Neutral, Base)
  BY MultDef
<1>3. Mult(1) = Base
  BY <1>1, <1>2, NeutralSums
<1>4. Mult(1) \in Multiples
  BY MultIn
<1> QED BY <1>3, <1>4

\* Sum chooses the sum.
LEMMA SumOfPoints ==
  ASSUME CurveAssumption, NEW a \in Curve, NEW b \in Curve
  PROVE  Sum(a, b) \in Curve /\ IsSum(Sum(a, b), a, b)
<1>1. \E c \in Curve : IsSum(c, a, b)
  BY LawIsComplete
<1> QED BY <1>1 DEF Sum

LEMMA MultOnCurve ==
  ASSUME CurveAssumption, NEW n \in Nat
  PROVE  Mult(n) \in Curve
<1> DEFINE T == {i \in Nat : Mult(i) \in Curve}
<1>1. 0 \in T
  BY MultDef, NeutralOnCurve
<1>2. ASSUME NEW i \in T PROVE i + 1 \in T
  <2>1. Mult(i + 1) = Sum(Mult(i), Base)
    BY MultDef
  <2>2. Mult(i) \in Curve /\ Base \in Curve
    BY DEF CurveAssumption
  <2> QED BY <2>1, <2>2, SumOfPoints
<1>3. T = Nat
  <2> HIDE DEF T
  <2>1. T \in SUBSET Nat
    BY DEF T
  <2> QED BY <1>1, <1>2, <2>1, NatSet
<1> QED BY <1>3

\* The multiples add as their numbers do.
LEMMA MultPlus ==
  ASSUME CurveAssumption, NEW m \in Nat, NEW n \in Nat
  PROVE  Mult(m + n) = Sum(Mult(m), Mult(n))
<1> DEFINE T == {i \in Nat : Mult(m + i) = Sum(Mult(m), Mult(i))}
<1>1. 0 \in T
  <2>1. Sum(Mult(m), Neutral) = Mult(m)
    BY MultOnCurve, NeutralSums
  <2> QED BY <2>1, MultDef
<1>2. ASSUME NEW i \in T PROVE i + 1 \in T
  <2>1. Mult((m + i) + 1) = Sum(Mult(m + i), Base)
    BY MultDef
  <2>2. Mult(m) \in Multiples /\ Mult(i) \in Multiples
    BY MultIn
  <2>3. Sum(Sum(Mult(m), Mult(i)), Base) = Sum(Mult(m), Sum(Mult(i), Base))
    BY <2>2 DEF CurveAssumption
  <2>4. Sum(Mult(i), Base) = Mult(i + 1)
    BY MultDef
  <2>5. (m + i) + 1 = m + (i + 1)
    OBVIOUS
  <2> QED BY <2>1, <2>3, <2>4, <2>5
<1>3. T = Nat
  <2> HIDE DEF T
  <2>1. T \in SUBSET Nat
    BY DEF T
  <2> QED BY <1>1, <1>2, <2>1, NatSet
<1> QED BY <1>3

\* A multiple of a multiple is the multiple of the product.
LEMMA TimesOfMult ==
  ASSUME CurveAssumption, NEW k \in Nat, NEW n \in Nat
  PROVE  Times(k, Mult(n)) = Mult(k * n)
<1> DEFINE T == {i \in Nat : Times(i, Mult(n)) = Mult(i * n)}
<1>1. 0 \in T
  <2>1. Times(0, Mult(n)) = Neutral /\ 0 * n = 0
    BY TimesDef DEF Neutral
  <2> QED BY <2>1, MultDef
<1>2. ASSUME NEW i \in T PROVE i + 1 \in T
  <2>1. Times(i + 1, Mult(n)) = Sum(Times(i, Mult(n)), Mult(n))
    BY TimesDef
  <2>2. i * n \in Nat /\ (i + 1) * n = i * n + n
    OBVIOUS
  <2>3. Mult(i * n + n) = Sum(Mult(i * n), Mult(n))
    BY <2>2, MultPlus
  <2> QED BY <2>1, <2>2, <2>3
<1>3. T = Nat
  <2> HIDE DEF T
  <2>1. T \in SUBSET Nat
    BY DEF T
  <2> QED BY <1>1, <1>2, <2>1, NatSet
<1> QED BY <1>3
-----------------------------------------------------------------------------
(* What a point in extended coordinates stands for, and the code's sums.   *)

\* p stands for the affine point a.
Stands(p, a) ==
  /\ p \in Point /\ p[3] # 0
  /\ Cong(p[1], a[1] * p[3]) /\ Cong(p[2], a[2] * p[3])
  /\ Cong(p[4], (a[1] * a[2]) * p[3])

\* What the code keeps after a product, a sum or a difference.
LEMMA CongModMul ==
  ASSUME CurveAssumption, NEW a \in Int, NEW b \in Int, NEW u \in Int, NEW v \in Int,
         Cong(a, u), Cong(b, v)
  PROVE  mod(a * b, P) \in Int /\ Cong(mod(a * b, P), u * v)
<1>1. a * b \in Int /\ u * v \in Int
  OBVIOUS
<1>2. Cong(mod(a * b, P), a * b) /\ mod(a * b, P) \in Int
  BY <1>1, CongMod
<1>3. Cong(a * b, u * v)
  BY CongMul
<1> QED BY <1>2, <1>3, CongTrans

LEMMA CongModAdd ==
  ASSUME CurveAssumption, NEW a \in Int, NEW b \in Int, NEW u \in Int, NEW v \in Int,
         Cong(a, u), Cong(b, v)
  PROVE  /\ mod(a + b, P) \in Int /\ Cong(mod(a + b, P), u + v)
         /\ mod(a - b, P) \in Int /\ Cong(mod(a - b, P), u - v)
<1>1. a + b \in Int /\ u + v \in Int /\ a - b \in Int /\ u - v \in Int
  OBVIOUS
<1>2. Cong(mod(a + b, P), a + b) /\ mod(a + b, P) \in Int
  BY <1>1, CongMod
<1>3. Cong(mod(a - b, P), a - b) /\ mod(a - b, P) \in Int
  BY <1>1, CongMod
<1>4. Cong(a + b, u + v) /\ Cong(a - b, u - v)
  BY CongAdd
<1> QED BY <1>2, <1>3, <1>4, CongTrans

\* Both formulas end in E, F, G and H: they stand for c when E is c[1] times G and H
\* is c[2] times F.
LEMMA EndsIn ==
  ASSUME CurveAssumption, NEW x \in Int, NEW y \in Int,
         NEW e \in Int, NEW f \in Int, NEW g \in Int, NEW h \in Int,
         Cong(e, x * g), Cong(h, y * f), ~ Cong(f, 0), ~ Cong(g, 0)
  PROVE  Stands(<<mod(e * f, P), mod(g * h, P), mod(f * g, P), mod(e * h, P)>>, <<x, y>>)
<1>1. e * f \in Int /\ g * h \in Int /\ f * g \in Int /\ e * h \in Int
      /\ x * g \in Int /\ y * f \in Int /\ x * y \in Int
  OBVIOUS
<1>2. PICK p1 \in Field, p2 \in Field, p3 \in Field, p4 \in Field :
         /\ p1 = mod(e * f, P) /\ p2 = mod(g * h, P) /\ p3 = mod(f * g, P) /\ p4 = mod(e * h, P)
         /\ Cong(p1, e * f) /\ Cong(p2, g * h) /\ Cong(p3, f * g) /\ Cong(p4, e * h)
  BY <1>1, CongMod
<1>3. p1 \in Int /\ p2 \in Int /\ p3 \in Int /\ p4 \in Int
  BY FieldFact
<1>4. Cong(p1, x * p3)
  <2>1. Cong(e * f, (x * g) * f)
    BY <1>1, CongSame, CongMul
  <2>2. (x * g) * f = x * (f * g)
    OBVIOUS
  <2>3. Cong(x * p3, x * (f * g))
    BY <1>1, <1>2, <1>3, CongSame, CongMul
  <2>4. Cong(p1, (x * g) * f) /\ Cong(x * (f * g), x * p3)
    BY <1>2, <2>1, <2>3, CongTrans, CongBack
  <2> QED BY <2>2, <2>4, CongTrans
<1>5. Cong(p2, y * p3)
  <2>1. Cong(g * h, g * (y * f))
    BY <1>1, CongSame, CongMul
  <2>2. g * (y * f) = y * (f * g)
    OBVIOUS
  <2>3. Cong(y * p3, y * (f * g))
    BY <1>1, <1>2, <1>3, CongSame, CongMul
  <2>4. Cong(p2, g * (y * f)) /\ Cong(y * (f * g), y * p3)
    BY <1>2, <2>1, <2>3, CongTrans, CongBack
  <2> QED BY <2>2, <2>4, CongTrans
<1>6. Cong(p4, (x * y) * p3)
  <2>1. Cong(e * h, (x * g) * (y * f))
    BY <1>1, CongMul
  <2>2. (x * g) * (y * f) = (x * y) * (f * g)
    OBVIOUS
  <2>3. Cong((x * y) * p3, (x * y) * (f * g))
    BY <1>1, <1>2, <1>3, CongSame, CongMul
  <2>4. Cong(p4, (x * g) * (y * f)) /\ Cong((x * y) * (f * g), (x * y) * p3)
    BY <1>2, <2>1, <2>3, CongTrans, CongBack
  <2> QED BY <2>2, <2>4, CongTrans
<1>7. p3 # 0
  <2>1. ~ Cong(f * g, 0)
    BY CongZero
  <2> QED BY <2>1, <1>2, CongBack
<1>8. <<p1, p2, p3, p4>> \in Point
  BY DEF Point
<1> QED BY <1>2, <1>4, <1>5, <1>6, <1>7, <1>8 DEF Stands

\* Of the point that e, f, g, h end in, from what they are in numbers: k leaves the
\* denominators invertible, and c is the quotient.
LEMMA QuotientStands ==
  ASSUME CurveAssumption, NEW x \in Int, NEW y \in Int, NEW w \in Int, NEW v \in Int, NEW k \in Int,
         NEW e1 \in Int, NEW h1 \in Int,
         Cong(x * (1 + k), e1), Cong(y * (1 - k), h1),
         ~ Cong(1 + k, 0), ~ Cong(1 - k, 0), ~ Cong(w, 0), ~ Cong(v, 0),
         NEW e \in Int, NEW f \in Int, NEW g \in Int, NEW h \in Int,
         Cong(e, e1 * v), Cong(h, h1 * w), Cong(f, (1 - k) * w), Cong(g, (1 + k) * v)
  PROVE  Stands(<<mod(e * f, P), mod(g * h, P), mod(f * g, P), mod(e * h, P)>>, <<x, y>>)
<1>1. 1 + k \in Int /\ 1 - k \in Int /\ (1 + k) * v \in Int /\ (1 - k) * w \in Int
      /\ x * (1 + k) \in Int /\ y * (1 - k) \in Int
  OBVIOUS
<1>2. Cong(e, x * g)
  <2>1. Cong((x * (1 + k)) * v, e1 * v)
    BY <1>1, CongSame, CongMul
  <2>2. Cong(x * g, x * ((1 + k) * v))
    BY <1>1, CongSame, CongMul
  <2>3. (x * (1 + k)) * v = x * ((1 + k) * v)
    OBVIOUS
  <2>4. Cong(e1 * v, (x * (1 + k)) * v) /\ Cong(x * ((1 + k) * v), x * g)
    BY <2>1, <2>2, CongBack
  <2> QED BY <2>3, <2>4, CongTrans
<1>3. Cong(h, y * f)
  <2>1. Cong((y * (1 - k)) * w, h1 * w)
    BY <1>1, CongSame, CongMul
  <2>2. Cong(y * f, y * ((1 - k) * w))
    BY <1>1, CongSame, CongMul
  <2>3. (y * (1 - k)) * w = y * ((1 - k) * w)
    OBVIOUS
  <2>4. Cong(h1 * w, (y * (1 - k)) * w) /\ Cong(y * ((1 - k) * w), y * f)
    BY <2>1, <2>2, CongBack
  <2> QED BY <2>3, <2>4, CongTrans
<1>4. ~ Cong((1 - k) * w, 0) /\ ~ Cong((1 + k) * v, 0)
  BY <1>1, CongZero
<1>5. ~ Cong(f, 0) /\ ~ Cong(g, 0)
  BY <1>4, CongBack, CongTrans
<1> QED BY <1>2, <1>3, <1>5, EndsIn

\* The third coordinate of what stands for a point is not 0.
LEMMA StandsFact ==
  ASSUME CurveAssumption, NEW p, NEW a \in Curve, Stands(p, a)
  PROVE  /\ p[1] \in Int /\ p[2] \in Int /\ p[3] \in Int /\ p[4] \in Int
         /\ p[3] \in Field /\ ~ Cong(p[3], 0)
<1>1. p[1] \in Field /\ p[2] \in Field /\ p[3] \in Field /\ p[4] \in Field
  BY DEF Stands, Point
<1>2. 0 \in Field
  BY DEF CurveAssumption, Field
<1>3. ~ Cong(p[3], 0)
  BY <1>1, <1>2, CongField DEF Stands
<1> QED BY <1>1, <1>3, FieldFact

\* The law between points of the curve, with what it says of their sum.
LEMMA LawFact ==
  ASSUME CurveAssumption, NEW a \in Curve, NEW b \in Curve
  PROVE  LET c == Sum(a, b)   k == Cross(a, b) IN
         /\ c \in Curve /\ k \in Int
         /\ Cong(c[1] * (1 + k), a[1] * b[2] + a[2] * b[1])
         /\ Cong(c[2] * (1 - k), a[2] * b[2] + a[1] * b[1])
         /\ ~ Cong(1 + k, 0) /\ ~ Cong(1 - k, 0)
<1>1. Sum(a, b) \in Curve /\ IsSum(Sum(a, b), a, b)
  BY SumOfPoints
<1> QED BY <1>1, LawIsComplete, IsSumFact

\* pointAdd of crypto.ts adds: of what stands for two points of the curve it makes what
\* stands for their sum by the law of the curve.
THEOREM PointAddAdds ==
  ASSUME CurveAssumption, NEW a \in Curve, NEW b \in Curve,
         NEW p, NEW q, Stands(p, a), Stands(q, b)
  PROVE  Stands(pointAdd(p, q), Sum(a, b))
<1>1. PICK x1 \in Int, y1 \in Int : a = <<x1, y1>>
  BY CurveFact
<1>2. PICK x2 \in Int, y2 \in Int : b = <<x2, y2>>
  BY CurveFact
<1>3. PICK d \in Int : d = D
  BY DInt
<1>4. PICK u1 \in Int, v1 \in Int, z1 \in Int, t1 \in Int :
         u1 = p[1] /\ v1 = p[2] /\ z1 = p[3] /\ t1 = p[4] /\ ~ Cong(z1, 0)
  BY StandsFact
<1>5. PICK u2 \in Int, v2 \in Int, z2 \in Int, t2 \in Int :
         u2 = q[1] /\ v2 = q[2] /\ z2 = q[3] /\ t2 = q[4] /\ ~ Cong(z2, 0)
  BY StandsFact
<1>6. PICK k \in Int : k = Cross(a, b) /\ Cong(k, d * ((x1 * y1) * (x2 * y2)))
  BY <1>1, <1>2, <1>3, CrossFact
<1>7. PICK x \in Int, y \in Int : Sum(a, b) = <<x, y>>
  BY LawFact, CurveFact
<1>8. Cong(u1, x1 * z1) /\ Cong(v1, y1 * z1) /\ Cong(t1, (x1 * y1) * z1)
  BY <1>1, <1>4 DEF Stands
<1>9. Cong(u2, x2 * z2) /\ Cong(v2, y2 * z2) /\ Cong(t2, (x2 * y2) * z2)
  BY <1>2, <1>5 DEF Stands
<1>10. PICK a1 \in Int, b1 \in Int : a1 = mod((v1 - u1) * (v2 - u2), P)
                                   /\ b1 = mod((v1 + u1) * (v2 + u2), P)
  <2>1. (v1 - u1) * (v2 - u2) \in Int /\ (v1 + u1) * (v2 + u2) \in Int
    OBVIOUS
  <2> QED BY <2>1, CongMod
<1>11. PICK c1 \in Int, w1 \in Int : c1 = mod(mod(t1 * 2 * d, P) * t2, P)
                                   /\ w1 = mod(z1 * 2 * z2, P)
  <2>1. t1 * 2 * d \in Int /\ z1 * 2 * z2 \in Int
    OBVIOUS
  <2>2. PICK m \in Int : m = mod(t1 * 2 * d, P)
    BY <2>1, CongMod
  <2>3. m * t2 \in Int
    OBVIOUS
  <2> QED BY <2>1, <2>2, <2>3, CongMod
<1>12. PICK w \in Int : w = z1 * 2 * z2
  OBVIOUS
<1>13. /\ Cong(mod(b1 - a1, P), (x1 * y2 + y1 * x2) * w)
       /\ Cong(mod(b1 + a1, P), (y1 * y2 + x1 * x2) * w)
       /\ Cong(mod(w1 - c1, P), (1 - k) * w)
       /\ Cong(mod(w1 + c1, P), (1 + k) * w)
  <2> USE <1>3, <1>6, <1>8, <1>9, <1>10, <1>11, <1>12
  <2>1. x1 * z1 \in Int /\ y1 * z1 \in Int /\ x2 * z2 \in Int /\ y2 * z2 \in Int
    OBVIOUS
  <2>2. Cong(v1 - u1, y1 * z1 - x1 * z1) /\ Cong(v1 + u1, y1 * z1 + x1 * z1)
    BY <2>1, CongAdd
  <2>3. Cong(v2 - u2, y2 * z2 - x2 * z2) /\ Cong(v2 + u2, y2 * z2 + x2 * z2)
    BY <2>1, CongAdd
  <2> DEFINE a0 == (y1 * z1 - x1 * z1) * (y2 * z2 - x2 * z2)
             b0 == (y1 * z1 + x1 * z1) * (y2 * z2 + x2 * z2)
  <2>4. Cong(a1, a0) /\ a0 \in Int
    <3>1. /\ v1 - u1 \in Int /\ v2 - u2 \in Int
          /\ y1 * z1 - x1 * z1 \in Int /\ y2 * z2 - x2 * z2 \in Int
      BY <2>1
    <3> QED BY <3>1, <2>2, <2>3, CongModMul
  <2>5. Cong(b1, b0) /\ b0 \in Int
    <3>1. /\ v1 + u1 \in Int /\ v2 + u2 \in Int
          /\ y1 * z1 + x1 * z1 \in Int /\ y2 * z2 + x2 * z2 \in Int
      BY <2>1
    <3> QED BY <3>1, <2>2, <2>3, CongModMul
  <2>6. b0 - a0 = (x1 * y2 + y1 * x2) * w
    BY w = z1 * 2 * z2
  <2>7. b0 + a0 = (y1 * y2 + x1 * x2) * w
    BY w = z1 * 2 * z2
  <2> HIDE DEF a0, b0
  <2>8. Cong(mod(b1 - a1, P), b0 - a0) /\ Cong(mod(b1 + a1, P), b0 + a0)
    BY <2>4, <2>5, CongModAdd
  <2>9. Cong(w1, w)
    BY CongMod
  <2>10. Cong(c1, k * w)
    <3>1. PICK m \in Int : m = mod(t1 * 2 * d, P) /\ Cong(m, ((x1 * y1) * z1) * (2 * d))
      <4>1. t1 * 2 * d = t1 * (2 * d) /\ 2 * d \in Int /\ (x1 * y1) * z1 \in Int
        OBVIOUS
      <4>2. Cong(2 * d, 2 * d)
        BY CongSame
      <4>3. mod(t1 * (2 * d), P) \in Int
            /\ Cong(mod(t1 * (2 * d), P), ((x1 * y1) * z1) * (2 * d))
        BY <4>1, <4>2, CongModMul
      <4> QED BY <4>1, <4>3
    <3>2. ((x1 * y1) * z1) * (2 * d) \in Int /\ (x2 * y2) * z2 \in Int
      OBVIOUS
    <3>3. Cong(c1, (((x1 * y1) * z1) * (2 * d)) * ((x2 * y2) * z2))
      BY <3>1, <3>2, CongModMul
    <3>4. (((x1 * y1) * z1) * (2 * d)) * ((x2 * y2) * z2) = (d * ((x1 * y1) * (x2 * y2))) * w
      BY w = z1 * 2 * z2
    <3>5. Cong((d * ((x1 * y1) * (x2 * y2))) * w, k * w)
      <4>1. d * ((x1 * y1) * (x2 * y2)) \in Int
        OBVIOUS
      <4> QED BY <4>1, CongSame, CongBack, CongMul
    <3> QED BY <3>3, <3>4, <3>5, CongTrans
  <2>11. k * w \in Int /\ w - k * w = (1 - k) * w /\ w + k * w = (1 + k) * w
    OBVIOUS
  <2>12. Cong(mod(w1 - c1, P), w - k * w) /\ Cong(mod(w1 + c1, P), w + k * w)
    BY <2>9, <2>10, <2>11, CongModAdd
  <2> QED BY <2>6, <2>7, <2>8, <2>11, <2>12
<1>14. PICK e \in Int, f \in Int, g \in Int, h \in Int :
          e = mod(b1 - a1, P) /\ f = mod(w1 - c1, P) /\ g = mod(w1 + c1, P) /\ h = mod(b1 + a1, P)
  <2>1. b1 - a1 \in Int /\ w1 - c1 \in Int /\ w1 + c1 \in Int /\ b1 + a1 \in Int
    OBVIOUS
  <2> QED BY <2>1, CongMod
<1>15. ~ Cong(w, 0)
  <2>1. PICK t \in Int : t = 2
    OBVIOUS
  <2>2. ~ Cong(t, 0)
    BY <2>1, ZeroOne
  <2>3. z1 * t \in Int /\ ~ Cong(z1 * t, 0)
    <3>1. z1 * t \in Int
      OBVIOUS
    <3>2. ~ Cong(z1, 0)
      BY <1>4
    <3>3. ~ Cong(z1 * t, 0)
      BY <2>2, <3>2, CongZero
    <3> QED BY <3>1, <3>3
  <2> DEFINE z == z1 * t
  <2>4. z \in Int /\ ~ Cong(z, 0) /\ w = z * z2
    BY <2>1, <2>3, <1>12
  <2> HIDE DEF z
  <2> QED BY <2>4, <1>5, CongZero
<1>16. /\ Cong(x * (1 + k), x1 * y2 + y1 * x2) /\ Cong(y * (1 - k), y1 * y2 + x1 * x2)
       /\ ~ Cong(1 + k, 0) /\ ~ Cong(1 - k, 0)
  BY <1>1, <1>2, <1>6, <1>7, LawFact
<1>17. x1 * y2 + y1 * x2 \in Int /\ y1 * y2 + x1 * x2 \in Int
  OBVIOUS
<1>18. Stands(<<mod(e * f, P), mod(g * h, P), mod(f * g, P), mod(e * h, P)>>, <<x, y>>)
  BY <1>13, <1>14, <1>15, <1>16, <1>17, QuotientStands
<1>19. pointAdd(p, q) = <<mod(e * f, P), mod(g * h, P), mod(f * g, P), mod(e * h, P)>>
  BY <1>3, <1>4, <1>5, <1>10, <1>11, <1>14 DEF pointAdd
<1> QED BY <1>7, <1>18, <1>19

\* pointDouble of crypto.ts doubles, though it reads no last coordinate: on the curve the
\* denominator of the law is the difference of the squares.
THEOREM PointDoubleDoubles ==
  ASSUME CurveAssumption, NEW a \in Curve, NEW p, Stands(p, a)
  PROVE  Stands(pointDouble(p), Sum(a, a))
<1>1. PICK x1 \in Int, y1 \in Int : a = <<x1, y1>>
  BY CurveFact
<1>2. PICK d \in Int : d = D
  BY DInt
<1>3. PICK u1 \in Int, v1 \in Int, z1 \in Int :
         u1 = p[1] /\ v1 = p[2] /\ z1 = p[3] /\ ~ Cong(z1, 0)
  BY StandsFact
<1>4. PICK k \in Int : k = Cross(a, a) /\ Cong(k, d * ((x1 * y1) * (x1 * y1)))
  BY <1>1, <1>2, CrossFact
<1>5. PICK x \in Int, y \in Int : Sum(a, a) = <<x, y>>
  BY LawFact, CurveFact
<1>6. Cong(u1, x1 * z1) /\ Cong(v1, y1 * z1)
  BY <1>1, <1>3 DEF Stands
<1>7. x1 * z1 \in Int /\ y1 * z1 \in Int /\ x1 * x1 \in Int /\ y1 * y1 \in Int
  OBVIOUS
<1>8. PICK w \in Int : w = z1 * z1
  OBVIOUS
<1>9. Cong(y1 * y1 - x1 * x1, 1 + k)
  <2>1. PICK e \in Int, c \in Int, o \in Int :
          e = y1 * y1 - x1 * x1 /\ c = d * ((x1 * y1) * (x1 * y1)) /\ o = 1
    OBVIOUS
  <2>2. Cong(e, o + c)
    BY <1>1, <1>2, <2>1, CurveEquation
  <2>3. Cong(c, k)
    BY <1>4, <2>1, CongBack
  <2>4. Cong(o + c, o + k)
    BY <2>3, CongSame, CongAdd
  <2> QED BY <2>1, <2>2, <2>4, CongTrans
<1>10. PICK a1 \in Int : a1 = mod(u1 * u1, P) /\ Cong(a1, (x1 * x1) * w)
  <2>1. mod(u1 * u1, P) \in Int /\ Cong(mod(u1 * u1, P), (x1 * z1) * (x1 * z1))
    BY <1>6, <1>7, CongModMul
  <2>2. (x1 * z1) * (x1 * z1) = (x1 * x1) * w
    BY <1>8
  <2> QED BY <2>1, <2>2
<1>11. PICK b1 \in Int : b1 = mod(v1 * v1, P) /\ Cong(b1, (y1 * y1) * w)
  <2>1. mod(v1 * v1, P) \in Int /\ Cong(mod(v1 * v1, P), (y1 * z1) * (y1 * z1))
    BY <1>6, <1>7, CongModMul
  <2>2. (y1 * z1) * (y1 * z1) = (y1 * y1) * w
    BY <1>8
  <2> QED BY <2>1, <2>2
<1>12. PICK c1 \in Int : c1 = mod(2 * z1 * z1, P) /\ Cong(c1, 2 * w)
  <2>1. 2 * z1 * z1 = 2 * w /\ 2 * w \in Int
    BY <1>8
  <2> QED BY <2>1, CongMod
<1>13. (x1 * x1) * w \in Int /\ (y1 * y1) * w \in Int /\ 2 * w \in Int
  OBVIOUS
<1>v. PICK v \in Int : v = -w
  OBVIOUS
<1>14. PICK h \in Int : h = mod(a1 + b1, P) /\ Cong(h, (y1 * y1 + x1 * x1) * w)
  <2>1. mod(a1 + b1, P) \in Int /\ Cong(mod(a1 + b1, P), (x1 * x1) * w + (y1 * y1) * w)
    BY <1>10, <1>11, <1>13, CongModAdd
  <2>2. (x1 * x1) * w + (y1 * y1) * w = (y1 * y1 + x1 * x1) * w
    OBVIOUS
  <2> QED BY <2>1, <2>2
<1>15. PICK s \in Int : s = mod((u1 + v1) * (u1 + v1), P)
                      /\ Cong(s, (x1 * z1 + y1 * z1) * (x1 * z1 + y1 * z1))
  <2>1. u1 + v1 \in Int /\ x1 * z1 + y1 * z1 \in Int /\ Cong(u1 + v1, x1 * z1 + y1 * z1)
    BY <1>6, <1>7, CongAdd
  <2> QED BY <2>1, CongModMul
<1> DEFINE e1 == x1 * y1 + y1 * x1   h1 == y1 * y1 + x1 * x1
<1>16. PICK e \in Int : e = mod(h - s, P) /\ Cong(e, e1 * v)
  <2> DEFINE s0 == (x1 * z1 + y1 * z1) * (x1 * z1 + y1 * z1)   h0 == h1 * w
  <2>1. s0 \in Int /\ h0 \in Int /\ h0 - s0 = e1 * v
    BY <1>8, <1>v
  <2>2. Cong(h, h0) /\ Cong(s, s0)
    BY <1>14, <1>15
  <2> HIDE DEF s0, h0
  <2>3. mod(h - s, P) \in Int /\ Cong(mod(h - s, P), h0 - s0)
    BY <2>1, <2>2, CongModAdd
  <2> QED BY <2>1, <2>3
<1>17. PICK g \in Int : g = mod(a1 - b1, P) /\ Cong(g, (1 + k) * v)
  <2>1. mod(a1 - b1, P) \in Int /\ Cong(mod(a1 - b1, P), (x1 * x1) * w - (y1 * y1) * w)
    BY <1>10, <1>11, <1>13, CongModAdd
  <2>2. PICK i \in Int, j \in Int : i = y1 * y1 - x1 * x1 /\ j = 1 + k
    OBVIOUS
  <2>3. Cong(i * w, j * w)
    BY <1>9, <2>2, CongSame, CongMul
  <2>4. i * w \in Int /\ j * w \in Int /\ Cong(0 - i * w, 0 - j * w)
    BY <2>3, CongSame, CongAdd
  <2>5. (x1 * x1) * w - (y1 * y1) * w = 0 - i * w /\ (1 + k) * v = 0 - j * w
    BY <1>v, <2>2
  <2> QED BY <2>1, <2>4, <2>5, CongTrans
<1>18. PICK f \in Int : f = mod(c1 + g, P) /\ Cong(f, (1 - k) * w)
  <2>1. (1 + k) * v \in Int
    OBVIOUS
  <2>2. mod(c1 + g, P) \in Int /\ Cong(mod(c1 + g, P), 2 * w + ((1 + k) * v))
    BY <1>12, <1>13, <1>17, <2>1, CongModAdd
  <2>3. 2 * w + ((1 + k) * v) = (1 - k) * w
    BY <1>v
  <2> QED BY <2>2, <2>3
<1>19. ~ Cong(w, 0)
  BY <1>3, <1>8, CongZero
<1>20. ~ Cong(v, 0)
  <2>1. SUFFICES ASSUME Cong(v, 0) PROVE FALSE
    OBVIOUS
  <2>2. Cong(0 - v, 0 - 0) /\ 0 - v = w /\ 0 - 0 = 0
    BY <1>v, <2>1, CongSame, CongAdd
  <2> QED BY <1>19, <2>2
<1>21. /\ Cong(x * (1 + k), e1) /\ Cong(y * (1 - k), h1)
       /\ ~ Cong(1 + k, 0) /\ ~ Cong(1 - k, 0)
  BY <1>1, <1>4, <1>5, LawFact
<1>22. pointDouble(p) = <<mod(e * f, P), mod(g * h, P), mod(f * g, P), mod(e * h, P)>>
  BY <1>3, <1>10, <1>11, <1>12, <1>14, <1>15, <1>16, <1>17, <1>18 DEF pointDouble
<1>23. e1 \in Int /\ h1 \in Int
  OBVIOUS
<1>24. Cong(h, h1 * w)
  BY <1>14
<1> HIDE DEF e1, h1
<1>25. Stands(<<mod(e * f, P), mod(g * h, P), mod(f * g, P), mod(e * h, P)>>, <<x, y>>)
  BY <1>16, <1>17, <1>18, <1>19, <1>20, <1>21, <1>23, <1>24, QuotientStands
<1> QED BY <1>5, <1>22, <1>25
-----------------------------------------------------------------------------
(* The bytes of a point, and the point read back from them.                *)

\* pointToBytes gives y and the parity of x, whatever the coordinates it divides by.
LEMMA BytesOfPoint ==
  ASSUME CurveAssumption, NEW a \in Curve, NEW p, Stands(p, a)
  PROVE  pointToBytes(p) = Bytes(a)
<1>1. PICK x \in Field, y \in Field : a = <<x, y>> /\ x \in Int /\ y \in Int
  BY CurveFact
<1>2. PICK u \in Int, v \in Int, z \in Int : u = p[1] /\ v = p[2] /\ z = p[3]
  BY StandsFact
<1>3. PICK i \in Int : i = modInverse(z, P) /\ mod(z * i, P) = 1
  <2>1. z \in Field \ {0}
    BY <1>2, StandsFact DEF Stands
  <2>2. modInverse(z, P) \in Field /\ mod(z * modInverse(z, P), P) = 1
    BY <2>1, InverseFact
  <2> QED BY <2>2, FieldFact
<1>4. Cong(z * i, 1) /\ z * i \in Int /\ u * i \in Int /\ v * i \in Int
  <2>1. 1 \in Field
    BY DEF CurveAssumption, Field
  <2> QED BY <1>3, <2>1, FieldFact DEF Cong
<1>5. PICK o \in Int : o = z * i /\ Cong(o, 1)
  BY <1>4
<1>6. Cong(u, x * z) /\ Cong(v, y * z) /\ x * z \in Int /\ y * z \in Int
  BY <1>1, <1>2 DEF Stands
<1>7. ASSUME NEW c \in Int, NEW e \in Int, e \in Field, Cong(c, e * z)
      PROVE  mod(c * i, P) = e
  <2>1. Cong(c * i, (e * z) * i)
    <3>1. e * z \in Int /\ Cong(i, i)
      BY CongSame
    <3> QED BY <3>1, <1>7, CongMul
  <2>2. (e * z) * i = e * o
    BY <1>5, <1>7
  <2>3. Cong(e * o, e * 1)
    <3>1. PICK l \in Int : l = 1
      OBVIOUS
    <3>2. Cong(e, e) /\ Cong(o, l)
      BY <1>5, <3>1, CongSame
    <3>3. Cong(e * o, e * l)
      BY <3>2, CongMul
    <3> QED BY <3>1, <3>3
  <2>4. e * 1 = e /\ c * i \in Int
    BY <1>7
  <2>5. Cong(c * i, e)
    BY <2>1, <2>2, <2>3, <2>4, CongTrans
  <2>6. Cong(mod(c * i, P), e) /\ mod(c * i, P) \in Field
    BY <2>4, <2>5, CongMod, CongTrans
  <2> QED BY <1>7, <2>6, CongField
<1>8. mod(u * i, P) = x /\ mod(v * i, P) = y
  BY <1>1, <1>6, <1>7
<1> QED BY <1>1, <1>2, <1>3, <1>8 DEF pointToBytes, Bytes

\* On the curve the square of x follows from y.
LEMMA SquareFromY ==
  ASSUME CurveAssumption, NEW x \in Int, NEW y \in Int, <<x, y>> \in Curve,
         NEW d \in Int, d = D, NEW j \in Int, j = 1 + d * y * y
  PROVE  Cong((x * x) * j, y * y - 1)
<1>1. mod(y * y - x * x, P) = mod(1 + mod(d * x * x, P) * y * y, P)
  BY DEF Curve
<1>2. d * x * x \in Int /\ x * x \in Int /\ y * y \in Int
  OBVIOUS
<1>3. PICK m \in Int : m = mod(d * x * x, P) /\ Cong(m, d * x * x)
  BY <1>2, CongMod
<1>4. Cong(m * (y * y), (d * x * x) * (y * y))
  BY <1>2, <1>3, CongSame, CongMul
<1>5. PICK n \in Int, r \in Int : n = m * (y * y) /\ r = (d * x * x) * (y * y)
  BY <1>2
<1>6. Cong(n, r) /\ Cong(y * y - x * x, 1 + n)
  <2>1. m * y * y = m * (y * y)
    OBVIOUS
  <2> QED BY <1>1, <1>3, <1>4, <1>5, <2>1 DEF Cong
<1>7. PICK o \in Int, q \in Int, e \in Int : o = 1 /\ q = x * x /\ e = y * y
  BY <1>2
<1>8. Cong(o + n, o + r)
  BY <1>6, CongSame, CongAdd
<1>9. Cong(e - q, o + r)
  BY <1>6, <1>7, <1>8, CongTrans
<1>10. Cong(q, q) /\ Cong(o, o)
  BY CongSame
<1>11. Cong((e - q) + q, (o + r) + q)
  <2>1. e - q \in Int /\ o + r \in Int
    OBVIOUS
  <2> QED BY <2>1, <1>9, <1>10, CongAdd
<1>12. PICK t \in Int : t = (o + r) + q
  OBVIOUS
<1>13. Cong(e, t)
  <2>1. (e - q) + q = e
    OBVIOUS
  <2> QED BY <1>11, <1>12, <2>1
<1>14. Cong(e - o, t - o)
  BY <1>10, <1>13, CongAdd
<1>15. t - o = (x * x) * j /\ e - o = y * y - 1
  <2>1. t - o = r + q
    BY <1>12
  <2>2. r + q = (x * x) * j
    BY <1>5, <1>7
  <2> QED BY <1>7, <2>1, <2>2
<1> QED BY <1>14, <1>15, CongBack

\* Were 1 + d*y*y 0, the root of -1 would be d times a square too.
LEMMA OneMoreThanSquare ==
  ASSUME CurveAssumption, NEW d \in Int, d = D, NEW y \in Int, NEW j \in Int, j = 1 + d * y * y
  PROVE  ~ Cong(j, 0)
<1>1. SUFFICES ASSUME Cong(j, 0) PROVE FALSE
  OBVIOUS
<1>2. PICK i \in Int : Cong(i * i, -1)
  BY MinusOneSquare
<1>3. PICK o \in Int, z \in Int, c \in Int, m \in Int :
        o = 1 /\ z = 0 /\ c = d * (y * y) /\ m = -1
  OBVIOUS
<1>4. Cong(c, m)
  <2>1. Cong(j, z) /\ Cong(o, o)
    BY <1>1, <1>3, CongSame
  <2>2. Cong(j - o, z - o)
    BY <2>1, CongAdd
  <2>3. j - o = c /\ z - o = m
    BY <1>3
  <2> QED BY <2>2, <2>3
<1>5. Cong(i * i, d * (y * y))
  BY <1>2, <1>3, <1>4, CongBack, CongTrans
<1>6. Cong(y, z)
  BY <1>3, <1>5, NonSquare
<1>7. Cong(y * y, z * z)
  BY <1>6, CongMul
<1>8. PICK q \in Int, r \in Int : q = y * y /\ r = z * z
  OBVIOUS
<1>9. Cong(d * q, d * r)
  BY <1>7, <1>8, CongSame, CongMul
<1>10. d * q = c /\ d * r = z
  BY <1>3, <1>8
<1>11. Cong(j, o)
  <2>1. Cong(c, z) /\ Cong(o, o)
    BY <1>9, <1>10, CongSame
  <2>2. Cong(o + c, o + z)
    BY <2>1, CongAdd
  <2>3. o + c = j /\ o + z = o
    BY <1>3
  <2> QED BY <2>2, <2>3
<1>12. Cong(1, 0)
  BY <1>1, <1>3, <1>11, CongBack, CongTrans
<1> QED BY <1>12, ZeroOne

\* The bytes pointToBytes of crypto.ts writes, y and the parity of x, tell the points of
\* the curve apart.
THEOREM BytesTellApart ==
  ASSUME CurveAssumption, NEW a \in Curve, NEW c \in Curve, Bytes(a) = Bytes(c)
  PROVE  a = c
<1>1. PICK x1 \in Field, y \in Field : a = <<x1, y>> /\ x1 \in Int /\ y \in Int
  BY CurveFact
<1>2. PICK x2 \in Field, y2 \in Field : c = <<x2, y2>> /\ x2 \in Int /\ y2 \in Int
  BY CurveFact
<1>3. y2 = y /\ (x1 % 2 = 1 <=> x2 % 2 = 1)
  BY <1>1, <1>2 DEF Bytes
<1>4. PICK d \in Int : d = D
  BY DInt
<1>5. PICK j \in Int : j = 1 + d * y * y
  BY <1>1
<1>6. ~ Cong(j, 0)
  BY <1>1, <1>4, <1>5, OneMoreThanSquare
<1>7. PICK q1 \in Int, q2 \in Int, e \in Int : q1 = x1 * x1 /\ q2 = x2 * x2 /\ e = y * y - 1
  BY <1>1, <1>2
<1>8. Cong(q1 * j, e) /\ Cong(q2 * j, e)
  BY <1>1, <1>2, <1>3, <1>4, <1>5, <1>7, SquareFromY
<1>9. Cong((q1 - q2) * j, 0)
  <2>1. q1 * j \in Int /\ q2 * j \in Int
    OBVIOUS
  <2>2. Cong(q1 * j - q2 * j, e - e)
    BY <1>8, <2>1, CongAdd
  <2>3. q1 * j - q2 * j = (q1 - q2) * j /\ e - e = 0
    OBVIOUS
  <2> QED BY <2>2, <2>3
<1>10. PICK r \in Int, s \in Int : r = x1 - x2 /\ s = x1 + x2
  BY <1>1, <1>2
<1>11. Cong(r * s, 0)
  <2>1. q1 - q2 = r * s
    BY <1>1, <1>2, <1>7, <1>10
  <2>2. q1 - q2 \in Int
    OBVIOUS
  <2>3. Cong(q1 - q2, 0)
    BY <1>6, <1>9, <2>2, CongZero
  <2> QED BY <2>1, <2>3
<1>12. Cong(r, 0) \/ Cong(s, 0)
  BY <1>11, CongZero
<1>13. P \in Nat /\ P % 2 = 1 /\ P > 2
  BY DEF CurveAssumption
<1>14. CASE Cong(r, 0)
  <2>1. Cong(r + x2, 0 + x2)
    <3>1. PICK n \in Int : n = 0
      OBVIOUS
    <3>2. Cong(r, n) /\ Cong(x2, x2)
      BY <1>14, <3>1, CongSame
    <3>3. Cong(r + x2, n + x2)
      BY <3>2, <1>2, CongAdd
    <3> QED BY <3>1, <3>3
  <2>2. r + x2 = x1 /\ 0 + x2 = x2
    BY <1>1, <1>2, <1>10
  <2> QED BY <1>1, <1>2, <1>3, <2>1, <2>2, CongField
<1>15. CASE Cong(s, 0)
  <2>1. PICK k \in Int : s = 0 + k * P
    BY <1>15, CongIff
  <2>2. s = k * P
    BY <1>13, <2>1
  <2>3. s >= 0 /\ s < 2 * P
    BY <1>1, <1>2, <1>10, <1>13 DEF Field
  <2>4. k = 0 \/ k = 1
    <3>1. CASE k >= 2
      <4>1. k * P >= 2 * P
        BY <1>13, <3>1
      <4> QED BY <2>2, <2>3, <4>1, <1>13
    <3>2. CASE k <= -1
      <4>1. k * P <= (-1) * P
        BY <1>13, <3>2
      <4> QED BY <2>2, <2>3, <4>1, <1>13
    <3> QED BY <3>1, <3>2
  <2>5. CASE k = 0
    <3>1. s = 0
      BY <1>13, <2>2, <2>5
    <3>2. x1 = 0 /\ x2 = 0
      BY <1>1, <1>2, <1>10, <1>13, <3>1 DEF Field
    <3> QED BY <1>1, <1>2, <1>3, <3>2
  <2>6. CASE k = 1
    <3>1. x1 + x2 = P
      BY <1>10, <1>13, <2>2, <2>6
    <3>2. x1 \in Int /\ x2 \in Int /\ (x1 + x2) % 2 = 1
      BY <1>1, <1>2, <1>13, <3>1
    <3> QED BY <1>3, <3>2
  <2> QED BY <2>4, <2>5, <2>6
<1> QED BY <1>12, <1>14, <1>15

\* The point read back from the bytes is the one that went into them.
LEMMA AffineOfPoint ==
  ASSUME CurveAssumption, NEW a \in Curve, NEW p, Stands(p, a)
  PROVE  Known(p) /\ Affine(p) = a
<1>1. pointToBytes(p) = Bytes(a)
  BY BytesOfPoint
<1>2. ASSUME NEW c \in Curve, Bytes(c) = pointToBytes(p) PROVE c = a
  BY <1>1, <1>2, BytesTellApart
<1> QED BY <1>1, <1>2 DEF Known, Affine
-----------------------------------------------------------------------------
(* Double and add.                                                         *)

\* The code's sums of multiples of the base point are multiples of it.
LEMMA SumsAreOfMultiples ==
  ASSUME CurveAssumption, NEW m \in Nat, NEW n \in Nat, NEW p, NEW q,
         Stands(p, Mult(m)), Stands(q, Mult(n))
  PROVE  /\ Stands(pointAdd(p, q), Mult(m + n))
         /\ Stands(pointDouble(p), Mult(m + m))
<1>1. Mult(m) \in Curve /\ Mult(n) \in Curve
  BY MultOnCurve
<1>2. Mult(m + n) = Sum(Mult(m), Mult(n)) /\ Mult(m + m) = Sum(Mult(m), Mult(m))
  BY MultPlus
<1>3. Stands(pointAdd(p, q), Sum(Mult(m), Mult(n)))
  BY <1>1, PointAddAdds
<1>4. Stands(pointDouble(p), Sum(Mult(m), Mult(m)))
  BY <1>1, PointDoubleDoubles
<1> QED BY <1>2, <1>3, <1>4

\* The loop starts from the neutral point and the base point.
LEMMA StartsStand ==
  ASSUME CurveAssumption
  PROVE  Stands(ZERO, Mult(0)) /\ Stands(getBasePoint, Mult(1))
<1>1. P \in Nat /\ P > 2 /\ 0 \in Field /\ 1 \in Field
  BY DEF CurveAssumption, Field
<1>2. Stands(ZERO, Mult(0))
  <2>1. 0 * 1 = 0 /\ 1 * 1 = 1
    OBVIOUS
  <2>2. Cong(0, 0 * 1) /\ Cong(1, 1 * 1) /\ Cong(0, (0 * 1) * 1)
    BY <2>1, CongSame
  <2>3. ZERO \in Point
    BY <1>1 DEF ZERO, Point
  <2> QED BY <2>2, <2>3, MultDef DEF Stands, ZERO, Neutral
<1>3. Stands(getBasePoint, Mult(1))
  <2>1. Base \in Curve
    BY DEF CurveAssumption
  <2>2. Bx \in Field /\ By \in Field /\ Bx \in Int /\ By \in Int
    BY <2>1, CurveFact DEF Base
  <2>3. Bx * By \in Int /\ Bx * 1 = Bx /\ By * 1 = By /\ (Bx * By) * 1 = Bx * By
    BY <2>2
  <2>4. mod(Bx * By, P) \in Field /\ Cong(mod(Bx * By, P), (Bx * By) * 1)
    BY <2>3, CongMod
  <2>5. Cong(Bx, Bx * 1) /\ Cong(By, By * 1)
    BY <2>3, CongSame
  <2>6. getBasePoint \in Point
    BY <1>1, <2>2, <2>4 DEF getBasePoint, Point
  <2>7. getBasePoint[1] = Bx /\ getBasePoint[2] = By /\ getBasePoint[3] = 1
        /\ getBasePoint[4] = mod(Bx * By, P)
    BY DEF getBasePoint
  <2>8. Stands(getBasePoint, <<Bx, By>>)
    BY <2>4, <2>5, <2>6, <2>7 DEF Stands
  <2> QED BY <2>8, MultOne DEF Base
<1> QED BY <1>2, <1>3

\* What holds of the loop for a scalar s: the addend and the result stand for multiples,
\* and what is left of s, times the addend, makes the result up to s times the base point.
LoopInv(s, b) ==
  \E u, v \in Nat : /\ b[1] \in Nat /\ v + b[1] * u = s
                    /\ Stands(b[2], Mult(u)) /\ Stands(b[3], Mult(v))

\* A round keeps the invariant and drops a bit.
LEMMA RoundKeeps ==
  ASSUME CurveAssumption, NEW s \in Nat, NEW b, LoopInv(s, b)
  PROVE  LoopInv(s, round(b)) /\ b[1] \in Nat /\ round(b)[1] = b[1] \div 2
<1>1. PICK u \in Nat, v \in Nat : /\ b[1] \in Nat /\ v + b[1] * u = s
                                  /\ Stands(b[2], Mult(u)) /\ Stands(b[3], Mult(v))
  BY DEF LoopInv
<1>2. PICK n \in Nat, h \in Nat : n = b[1] /\ h = n \div 2 /\ h = b[1] \div 2
  BY <1>1
<1>3. PICK r : r = round(b)
  OBVIOUS
<1>4. r = <<h, pointDouble(b[2]), IF n % 2 = 1 THEN pointAdd(b[3], b[2]) ELSE b[3]>>
  BY <1>2, <1>3 DEF round
<1>5. Stands(r[2], Mult(u + u)) /\ u + u \in Nat
  <2>1. Stands(pointDouble(b[2]), Mult(u + u))
    BY <1>1, SumsAreOfMultiples
  <2>2. r[2] = pointDouble(b[2]) /\ u + u \in Nat
    BY <1>4
  <2> QED BY <2>1, <2>2
<1>6. CASE n % 2 = 1
  <2>1. n = h + h + 1
    BY <1>2, <1>6
  <2>2. Stands(r[3], Mult(v + u)) /\ v + u \in Nat
    BY <1>1, <1>4, <1>6, SumsAreOfMultiples
  <2>3. (v + u) + h * (u + u) = s
    <3>1. v + (h + h + 1) * u = s
      BY <1>1, <1>2, <2>1
    <3> QED BY <3>1
  <2> QED BY <1>1, <1>2, <1>3, <1>4, <1>5, <2>2, <2>3 DEF LoopInv
<1>7. CASE n % 2 # 1
  <2>1. n = h + h
    BY <1>2, <1>7
  <2>2. Stands(r[3], Mult(v))
    BY <1>1, <1>4, <1>7
  <2>3. v + h * (u + u) = s
    <3>1. v + (h + h) * u = s
      BY <1>1, <1>2, <2>1
    <3> QED BY <3>1
  <2> QED BY <1>1, <1>2, <1>3, <1>4, <1>5, <2>2, <2>3 DEF LoopInv
<1> QED BY <1>6, <1>7

\* The invariant of the loop as a set: what the loop's recursive function ranges over.
LEMMA LoopDef ==
  ASSUME CurveAssumption, NEW s \in Nat, NEW t,
         t = CHOOSE loop : loop = [i \in Nat |-> IF i = 0 THEN <<s, getBasePoint, ZERO>>
                                                 ELSE round(loop[i - 1])]
  PROVE  /\ t[0] = <<s, getBasePoint, ZERO>> /\ LoopInv(s, t[0])
         /\ \A i \in Nat : t[i + 1] = round(t[i]) /\ LoopInv(s, t[i])
<1> DEFINE first == <<s, getBasePoint, ZERO>>
           St == {b \in Nat \X Point \X Point : LoopInv(s, b)}
           f == [b \in St |-> round(b)]
<1>1. first \in St
  <2>1. Stands(ZERO, Mult(0)) /\ Stands(getBasePoint, Mult(1))
    BY StartsStand
  <2>2. ZERO \in Point /\ getBasePoint \in Point
    BY <2>1 DEF Stands
  <2>3. 0 + s * 1 = s
    OBVIOUS
  <2> QED BY <2>1, <2>2, <2>3 DEF LoopInv
<1>2. ASSUME NEW b \in St PROVE round(b) \in St
  <2>1. LoopInv(s, round(b))
    BY RoundKeeps
  <2>2. PICK r : r = round(b)
    OBVIOUS
  <2>3. r[1] \in Nat /\ r[2] \in Point /\ r[3] \in Point
    BY <2>1, <2>2 DEF LoopInv, Stands
  <2>4. r = <<r[1], r[2], r[3]>>
    BY <2>2 DEF round
  <2>5. r \in Nat \X Point \X Point
    BY <2>3, <2>4
  <2> QED BY <2>1, <2>2, <2>5
<1>3. f \in [St -> St]
  BY <1>2
<1>4. PICK g \in [Nat -> St] : g[0] = first /\ \A n \in Nat : g[n + 1] = f[g[n]]
  <2> HIDE DEF first, St, f
  <2> QED BY <1>1, <1>3, Iteration
<1>5. ASSUME NEW i \in Nat PROVE g[i] = IF i = 0 THEN first ELSE round(g[i - 1])
  <2>1. CASE i = 0
    BY <1>4, <2>1
  <2>2. CASE i # 0
    <3>1. PICK j \in Nat : i = j + 1 /\ j = i - 1
      BY <2>2
    <3>2. g[j] \in St
      BY <1>4
    <3> QED BY <1>4, <2>2, <3>1, <3>2
  <2> QED BY <2>1, <2>2
<1>6. g = [i \in Nat |-> g[i]]
  BY <1>4
<1> HIDE DEF first, St, f
<1>7. g = [i \in Nat |-> IF i = 0 THEN first ELSE round(g[i - 1])]
  BY <1>5, <1>6
<1>8. t = [i \in Nat |-> IF i = 0 THEN first ELSE round(t[i - 1])]
  BY <1>7 DEF first
<1>9. t[0] = first
  BY <1>8
<1>10. ASSUME NEW i \in Nat PROVE t[i + 1] = round(t[i])
  <2>1. i + 1 \in Nat /\ i + 1 # 0 /\ (i + 1) - 1 = i
    OBVIOUS
  <2>2. t[i + 1] = round(t[(i + 1) - 1])
    BY <1>8, <2>1
  <2> QED BY <2>1, <2>2
<1> DEFINE T == {i \in Nat : LoopInv(s, t[i])}
<1>11. 0 \in T
  BY <1>1, <1>9 DEF St
<1>12. ASSUME NEW i \in T PROVE i + 1 \in T
  BY <1>10, RoundKeeps
<1>13. T = Nat
  <2> HIDE DEF T
  <2>1. T \in SUBSET Nat
    BY DEF T
  <2> QED BY <1>11, <1>12, <2>1, NatSet
<1> QED BY <1>9, <1>10, <1>13 DEF first

\* scalarMult of crypto.ts multiplies: its result stands for the s-fold sum of the base point.
THEOREM ScalarMultMultiplies ==
  ASSUME CurveAssumption, NEW s \in Nat
  PROVE  Stands(scalarMult(s, getBasePoint), Mult(s))
<1> DEFINE t == CHOOSE loop : loop = [i \in Nat |-> IF i = 0 THEN <<s, getBasePoint, ZERO>>
                                                    ELSE round(loop[i - 1])]
           last == CHOOSE i \in 0..s : t[i][1] = 0
<1>1. scalarMult(s, getBasePoint) = t[last][3]
  BY DEF scalarMult
<1> HIDE DEF t
<1>2. t[0] = <<s, getBasePoint, ZERO>> /\ LoopInv(s, t[0])
  BY LoopDef DEF t
<1>3. \A i \in Nat : t[i + 1] = round(t[i]) /\ LoopInv(s, t[i])
  BY LoopDef DEF t
<1>4. \A i \in Nat : t[i][1] \in Nat /\ t[i + 1][1] = t[i][1] \div 2
  BY <1>3, RoundKeeps
<1>5. t[0][1] = s
  BY <1>2
<1>6. t[s][1] = 0
  BY <1>4, <1>5, LoopEnds
<1>7. last \in 0..s /\ t[last][1] = 0
  BY <1>6
<1> HIDE DEF last
<1>8. LoopInv(s, t[last])
  BY <1>3, <1>7
<1>9. PICK u \in Nat, v \in Nat : /\ v + t[last][1] * u = s /\ Stands(t[last][3], Mult(v))
  BY <1>8 DEF LoopInv
<1>10. v + 0 * u = v
  OBVIOUS
<1>11. v = s
  BY <1>7, <1>9, <1>10
<1> QED BY <1>1, <1>9, <1>11
-----------------------------------------------------------------------------
(* The signer.                                                             *)

\* What each step leaves: the public key stands for seed times the base point, R for the
\* nonce times it, and S is their combination under the challenge.
SignInv ==
  /\ TypeOK
  /\ step # "derive" => Stands(point.A, Mult(seed))
  /\ step \in {"challenge", "signed"} => Stands(point.R, Mult(mod(rHash, L)))
  /\ step = "signed" => point.S = mod(mod(rHash, L) + mod(kHash, L) * seed, L)

\* The numbers the signer adds and multiplies are naturals.
LEMMA HashFact ==
  ASSUME CurveAssumption, TypeOK
  PROVE  /\ L \in Nat /\ L > 0 /\ seed \in Nat
         /\ mod(rHash, L) \in Nat /\ mod(kHash, L) \in Nat
         /\ mod(rHash, L) + mod(kHash, L) * seed \in Nat
<1>1. L \in Nat /\ L > 0 /\ seed \in Nat /\ rHash \in Nat /\ kHash \in Nat
  <2>1. L \in Nat /\ L > 0 /\ Clamped \subseteq Nat /\ Hashes \subseteq Nat
    BY DEF CurveAssumption
  <2>2. seed \in Clamped /\ rHash \in Hashes /\ kHash \in Hashes
    BY DEF TypeOK
  <2> QED BY <2>1, <2>2
<1>2. PICK r \in Nat, k \in Nat : r = mod(rHash, L) /\ k = mod(kHash, L)
  BY <1>1 DEF mod
<1>3. r + k * seed \in Nat
  <2>1. k * seed \in Nat
    BY <1>1
  <2> QED BY <2>1
<1> QED BY <1>1, <1>2, <1>3

LEMMA SignInit == ASSUME CurveAssumption, Init PROVE SignInv
<1>1. ZERO \in Point
  BY StartsStand DEF Stands
<1>2. 0 \in 0..(L - 1)
  BY DEF CurveAssumption
<1>3. TypeOK
  BY <1>1, <1>2 DEF Init, TypeOK
<1> QED BY <1>3 DEF Init, SignInv

LEMMA SignStep == ASSUME CurveAssumption, SignInv, [Next]_vars PROVE SignInv'
<1>1. /\ seed \in Clamped /\ {rHash, kHash} \subseteq Hashes
      /\ point \in [A : Point, R : Point, S : 0..(L - 1)]
  BY DEF SignInv, TypeOK
<1>2. /\ L \in Nat /\ L > 0 /\ seed \in Nat /\ mod(rHash, L) \in Nat /\ mod(kHash, L) \in Nat
      /\ mod(rHash, L) + mod(kHash, L) * seed \in Nat
  BY HashFact DEF SignInv
<1>3. CASE deriveKeypair
  <2>1. PICK p : p = scalarMult(seed, getBasePoint)
    OBVIOUS
  <2>2. Stands(p, Mult(seed)) /\ p \in Point
    BY <1>2, <2>1, ScalarMultMultiplies DEF Stands
  <2>3. point' = [point EXCEPT !.A = p] /\ step' = "nonce" /\ UNCHANGED <<seed, rHash, kHash>>
    BY <1>3, <2>1 DEF deriveKeypair
  <2>4. point' \in [A : Point, R : Point, S : 0..(L - 1)] /\ point'.A = p
    BY <1>1, <2>2, <2>3
  <2> QED BY <1>1, <2>2, <2>3, <2>4 DEF SignInv, TypeOK
<1>4. CASE nonce
  <2>1. PICK p : p = scalarMult(mod(rHash, L), getBasePoint)
    OBVIOUS
  <2>2. Stands(p, Mult(mod(rHash, L))) /\ p \in Point
    BY <1>2, <2>1, ScalarMultMultiplies DEF Stands
  <2>3. point' = [point EXCEPT !.R = p] /\ step = "nonce" /\ step' = "challenge"
        /\ UNCHANGED <<seed, rHash, kHash>>
    BY <1>4, <2>1 DEF nonce
  <2>4. point' \in [A : Point, R : Point, S : 0..(L - 1)] /\ point'.R = p /\ point'.A = point.A
    BY <1>1, <2>2, <2>3
  <2>5. Stands(point.A, Mult(seed))
    BY <2>3 DEF SignInv
  <2> QED BY <1>1, <2>2, <2>3, <2>4, <2>5 DEF SignInv, TypeOK
<1>5. CASE ed25519Sign
  <2>1. PICK n \in Nat : n = mod(rHash, L) + mod(kHash, L) * seed
    BY <1>2
  <2>2. mod(n, L) \in 0..(L - 1)
    BY <1>2 DEF mod
  <2>3. point' = [point EXCEPT !.S = mod(n, L)] /\ step = "challenge" /\ step' = "signed"
        /\ UNCHANGED <<seed, rHash, kHash>>
    BY <1>5, <2>1 DEF ed25519Sign
  <2>4. /\ point' \in [A : Point, R : Point, S : 0..(L - 1)] /\ point'.R = point.R
        /\ point'.A = point.A /\ point'.S = mod(n, L)
    BY <1>1, <2>2, <2>3
  <2>5. Stands(point.A, Mult(seed)) /\ Stands(point.R, Mult(mod(rHash, L)))
    BY <2>3 DEF SignInv
  <2> QED BY <1>1, <2>1, <2>3, <2>4, <2>5 DEF SignInv, TypeOK
<1>6. CASE UNCHANGED vars
  BY <1>6 DEF SignInv, TypeOK, vars
<1> QED BY <1>3, <1>4, <1>5, <1>6 DEF Next

LEMMA SignInvVerifies == ASSUME CurveAssumption, SignInv PROVE SignatureVerifies
<1>1. SUFFICES ASSUME step = "signed"
               PROVE  /\ Known(point.R) /\ Known(point.A)
                      /\ Times(point.S, Base)
                           = Sum(Affine(point.R), Times(mod(kHash, L), Affine(point.A)))
  BY DEF SignatureVerifies
<1>2. PICK r \in Nat, k \in Nat, n \in Nat :
         /\ r = mod(rHash, L) /\ k = mod(kHash, L) /\ n = r + k * seed /\ seed \in Nat
  BY HashFact DEF SignInv
<1>3. Stands(point.A, Mult(seed)) /\ Stands(point.R, Mult(r)) /\ point.S = mod(n, L)
  BY <1>1, <1>2 DEF SignInv
<1>4. Mult(seed) \in Curve /\ Mult(r) \in Curve
  BY <1>2, MultOnCurve
<1>5. Known(point.R) /\ Known(point.A) /\ Affine(point.R) = Mult(r) /\ Affine(point.A) = Mult(seed)
  BY <1>3, <1>4, AffineOfPoint
<1>6. Times(point.S, Base) = Mult(n)
  BY <1>3, MultRemainder DEF Mult, mod
<1>7. Times(k, Mult(seed)) = Mult(k * seed) /\ k * seed \in Nat
  <2>1. PICK m \in Nat : m = seed
    BY <1>2
  <2>2. Times(k, Mult(m)) = Mult(k * m) /\ k * m \in Nat
    BY TimesOfMult
  <2> QED BY <2>1, <2>2
<1>8. Mult(n) = Sum(Mult(r), Mult(k * seed))
  BY <1>2, <1>7, MultPlus
<1> QED BY <1>2, <1>5, <1>6, <1>7, <1>8

\* The signer of crypto.ts keeps its types: points in the field, S below the order.
THEOREM SignerTypeOK == ASSUME CurveAssumption PROVE Spec => []TypeOK
<1>1. Init => SignInv
  BY SignInit
<1>2. SignInv /\ [Next]_vars => SignInv'
  BY SignStep
<1>3. SignInv => TypeOK
  BY DEF SignInv
<1> QED BY <1>1, <1>2, <1>3, PTL DEF Spec

\* What ed25519Sign of crypto.ts signs verifies, on every curve CurveAssumption admits and
\* for every private scalar and hash: the bytes of R and of the public key are those of
\* points, and S times the base point is R plus the challenge times the key.
THEOREM SignerVerifies == ASSUME CurveAssumption PROVE Spec => []SignatureVerifies
<1>1. Init => SignInv
  BY SignInit
<1>2. SignInv /\ [Next]_vars => SignInv'
  BY SignStep
<1>3. SignInv => SignatureVerifies
  BY SignInvVerifies
<1> QED BY <1>1, <1>2, <1>3, PTL DEF Spec
=============================================================================
