--------------------------- MODULE SharePathProofs ---------------------------
(***************************************************************************)
(* Proofs about SharePath: the division and the comparison by words are    *)
(* those of numbers, and a nonce is accepted exactly if its digest meets   *)
(* the target, for every number and length of words, every radix, divisor, *)
(* target text and digest; and the pool reads back what was found.         *)
(*                                                                         *)
(* Induction is over sets of numbers (Induction below), from the fact that *)
(* < is well founded on Nat.                                               *)
(***************************************************************************)
EXTENDS SharePath, WellFoundedInduction, TLAPS

-----------------------------------------------------------------------------
(* Arithmetic.                                                             *)

LEMMA MulMonotone ==
  ASSUME NEW a \in Nat, NEW b \in Nat, NEW c \in Nat, a <= b
  PROVE  a * c <= b * c /\ a * c \in Nat /\ b * c \in Nat
<1>1. PICK e \in Nat : b = a + e
  <2>1. b - a \in Nat /\ b = a + (b - a)
    OBVIOUS
  <2> QED  BY <2>1
<1>2. (a + e) * c = a * c + e * c
  OBVIOUS
<1>3. e * c \in Nat /\ a * c \in Nat
  OBVIOUS
<1> QED  BY <1>1, <1>2, <1>3

LEMMA DivMod ==
  ASSUME NEW p \in Nat, NEW d \in Nat, d >= 1
  PROVE  /\ p \div d \in Nat /\ p % d \in 0..(d - 1)
         /\ p = (p \div d) * d + (p % d)
  OBVIOUS

LEMMA HigherPartDecides ==
  ASSUME NEW a \in Nat, NEW b \in Nat, NEW c \in Nat,
         NEW x \in 0..(c - 1), NEW y \in Nat, a < b
  PROVE  a * c + x < b * c + y
<1>1. (a + 1) * c <= b * c /\ (a + 1) * c \in Nat /\ b * c \in Nat
  BY MulMonotone, a + 1 \in Nat, a + 1 <= b
<1>2. (a + 1) * c = a * c + c /\ a * c \in Nat
  OBVIOUS
<1> QED  BY <1>1, <1>2

LEMMA QuotientUnique ==
  ASSUME NEW p \in Nat, NEW d \in Nat, d >= 1,
         NEW q \in Nat, NEW r \in 0..(d - 1), p = q * d + r
  PROVE  q = p \div d
<1> DEFINE e == p \div d
           s == p % d
<1>1. e \in Nat /\ s \in 0..(d - 1) /\ p = e * d + s
  BY DivMod
<1> HIDE DEF e, s
<1>2. ~(e < q)
  <2>1. e < q => e * d + s < q * d + r
    BY <1>1, HigherPartDecides
  <2>2. e * d \in Nat /\ q * d \in Nat
    BY <1>1
  <2> QED  BY <1>1, <2>1, <2>2
<1>3. ~(q < e)
  <2>1. q < e => q * d + r < e * d + s
    BY <1>1, HigherPartDecides
  <2>2. e * d \in Nat /\ q * d \in Nat
    BY <1>1
  <2> QED  BY <1>1, <2>1, <2>2
<1>4. q = e
  BY <1>1, <1>2, <1>3
<1> QED  BY <1>4 DEF e

\* One turn of the division, of word w to the base c with remainder r so far
\* and quotient q so far.
IsTurn(c, d, r, w, q, p) ==
  /\ c \in Nat /\ d \in 1..c /\ r \in 0..(d - 1) /\ w \in 0..(c - 1)
  /\ q \in Nat /\ p \in Nat /\ p = r * c + w

\* The quotient's word fits, and the remainder is carried exactly.
LEMMA DivideTurn ==
  ASSUME NEW c, NEW d, NEW r, NEW w, NEW q, NEW p, IsTurn(c, d, r, w, q, p)
  PROVE  /\ p \div d \in 0..(c - 1) /\ p % d \in 0..(d - 1)
         /\ (q * d + r) * c + w = (q * c + (p \div d)) * d + (p % d)
<1> USE DEF IsTurn
<1> DEFINE e == p \div d
           s == p % d
<1>1. e \in Nat /\ s \in 0..(d - 1) /\ p = e * d + s
  <2>1. d \in Nat /\ d >= 1
    OBVIOUS
  <2> QED  BY <2>1, DivMod
<1> HIDE DEF e, s
<1>2. r * c + w < d * c + 0
  BY HigherPartDecides
<1>3. e < c
  <2>1. SUFFICES ASSUME c <= e PROVE FALSE
    BY <1>1
  <2>2. c * d <= e * d /\ c * d \in Nat /\ e * d \in Nat
    BY <1>1, <2>1, MulMonotone
  <2>3. c * d = d * c
    OBVIOUS
  <2> QED  BY <1>1, <1>2, <2>2, <2>3
<1>4. (q * d + r) * c + w = (q * c + e) * d + s
  <2>1. (q * d + r) * c = q * d * c + r * c
    OBVIOUS
  <2>2. (q * c + e) * d = q * c * d + e * d
    BY <1>1
  <2>3. q * d * c = q * c * d
    OBVIOUS
  <2>4. q * c * d \in Nat /\ e * d \in Nat /\ r * c \in Nat
    BY <1>1
  <2> QED  BY <1>1, <2>1, <2>2, <2>3, <2>4
<1>5. e \in 0..(c - 1)
  BY <1>1, <1>3
<1> QED  BY <1>1, <1>4, <1>5 DEF e, s

\* The remainder of a sum that ends in less than the divisor.
LEMMA RemainderUnique ==
  ASSUME NEW p \in Nat, NEW d \in Nat, d >= 1,
         NEW q \in Nat, NEW r \in 0..(d - 1), p = q * d + r
  PROVE  r = p % d
<1>1. q = p \div d
  BY QuotientUnique
<1>2. p = (p \div d) * d + (p % d)
  BY DivMod
<1> DEFINE e == p \div d
           s == p % d
<1>3. e \in Nat /\ s \in Nat
  BY DivMod
<1> HIDE DEF e, s
<1>4. q * d + r = q * d + s
  BY <1>1, <1>2 DEF e, s
<1>5. q * d \in Nat
  OBVIOUS
<1> QED  BY <1>3, <1>4, <1>5 DEF s

\* Dividing twice.
LEMMA DivDiv ==
  ASSUME NEW x \in Nat, NEW p \in Nat, NEW r \in Nat, p >= 1, r >= 1
  PROVE  x \div (p * r) = (x \div p) \div r
<1> DEFINE y == x \div p
           a == x % p
           z == y \div r
           b == y % r
<1>1. y \in Nat /\ a \in 0..(p - 1) /\ x = y * p + a
  BY DivMod
<1> HIDE DEF y, a
<1>2. z \in Nat /\ b \in 0..(r - 1) /\ y = z * r + b
  BY <1>1, DivMod
<1> HIDE DEF z, b
<1>3. p * r \in Nat /\ p * r >= 1
  <2>1. 1 * r <= p * r
    BY MulMonotone
  <2> QED  BY <2>1
<1>4. x = z * (p * r) + (b * p + a)
  <2>1. (z * r + b) * p = z * (p * r) + b * p
    BY <1>2
  <2>2. z * (p * r) \in Nat /\ b * p \in Nat
    BY <1>2, <1>3
  <2> QED  BY <1>1, <1>2, <2>1, <2>2
<1>5. b * p + a \in 0..((p * r) - 1)
  <2>1. b * p + a < r * p + 0
    BY <1>1, <1>2, HigherPartDecides
  <2>2. r * p = p * r /\ b * p \in Nat
    BY <1>2
  <2> QED  BY <1>1, <1>3, <2>1, <2>2
<1>6. z = x \div (p * r)
  BY <1>2, <1>3, <1>4, <1>5, QuotientUnique
<1> QED  BY <1>6 DEF z, y

-----------------------------------------------------------------------------
(* Induction.                                                              *)

LEMMA Induction ==
  ASSUME NEW n \in Nat, NEW S, 0 \in S, \A k \in 0..(n - 1) : k \in S => k + 1 \in S
  PROVE  \A k \in 0..n : k \in S
<1> DEFINE T == {k \in 0..n : k \notin S}
<1>1. SUFFICES ASSUME T # {} PROVE FALSE
  OBVIOUS
<1>2. IsWellFoundedOn(OpToRel(<, Nat), Nat)
  BY NatLessThanWellFounded
<1>3. T \subseteq Nat
  OBVIOUS
<1>4. PICK x \in T : \A y \in T : ~(<<y, x>> \in OpToRel(<, Nat))
  BY <1>1, <1>2, <1>3, WFMin
<1>5. \A y \in T : ~(y < x)
  BY <1>3, <1>4 DEF OpToRel
<1>6. x \in 0..n /\ x \notin S
  OBVIOUS
<1>7. x # 0 /\ x - 1 \in 0..(n - 1) /\ x - 1 \in 0..n /\ x - 1 < x
  BY <1>6
<1>8. x - 1 \in S
  BY <1>5, <1>7
<1>9. (x - 1) + 1 \in S
  BY <1>7, <1>8
<1>10. (x - 1) + 1 = x
  BY <1>6
<1> QED  BY <1>6, <1>9, <1>10

-----------------------------------------------------------------------------
(* Number.                                                                 *)

Natural(s, n) == \A k \in 1..n : s[k] \in Nat

\* What the recursive function of Number is meant to be.
IsNumber(g, s, n, radix) ==
  /\ g \in [0..n -> Nat]
  /\ g[0] = 0
  /\ \A k \in 1..n : g[k] = g[k - 1] * radix + s[k]

LEMMA NumberExists ==
  ASSUME NEW s, NEW n \in Nat, NEW radix \in Nat, Natural(s, n)
  PROVE  \E g : IsNumber(g, s, n, radix)
<1> DEFINE S == {k \in 0..n : \E g : IsNumber(g, s, k, radix)}
<1>1. 0 \in S
  <2>1. IsNumber([j \in 0..0 |-> 0], s, 0, radix)
    BY DEF IsNumber
  <2> QED  BY <2>1
<1>2. ASSUME NEW k \in 0..(n - 1), k \in S
      PROVE  k + 1 \in S
  <2>1. PICK g : IsNumber(g, s, k, radix)
    BY <1>2
  <2> DEFINE x == g[k] * radix + s[k + 1]
             h == [j \in 0..(k + 1) |-> IF j = k + 1 THEN x ELSE g[j]]
  <2>2. g[k] \in Nat /\ s[k + 1] \in Nat
    BY <2>1 DEF IsNumber, Natural
  <2>3. x \in Nat
    BY <2>2
  <2> HIDE DEF x
  <2>4. h \in [0..(k + 1) -> Nat] /\ h[0] = 0
    BY <2>1, <2>3 DEF IsNumber
  <2>5. h[k + 1] = h[k] * radix + s[k + 1]
    BY DEF x
  <2>6. \A j \in 1..k : h[j] = h[j - 1] * radix + s[j]
    BY <2>1 DEF IsNumber
  <2> HIDE DEF h
  <2>7. \A j \in 1..(k + 1) : h[j] = h[j - 1] * radix + s[j]
    <3> TAKE j \in 1..(k + 1)
    <3>1. CASE j = k + 1
      <4>1. j - 1 = k
        BY <3>1
      <4> QED  BY <2>5, <3>1, <4>1
    <3>2. CASE j \in 1..k
      BY <2>6, <3>2
    <3> QED  BY <3>1, <3>2
  <2>8. IsNumber(h, s, k + 1, radix)
    BY <2>4, <2>7 DEF IsNumber
  <2> QED  BY <2>8
<1> HIDE DEF S
<1>3. n \in S
  BY <1>1, <1>2, Induction
<1> QED  BY <1>3 DEF S

LEMMA NumberUnique ==
  ASSUME NEW s, NEW n \in Nat, NEW m \in 0..n, NEW radix \in Nat,
         NEW f, IsNumber(f, s, n, radix), NEW g, IsNumber(g, s, m, radix)
  PROVE  \A k \in 0..m : f[k] = g[k]
<1> DEFINE S == {k \in 0..m : f[k] = g[k]}
<1>1. 0 \in S
  BY DEF IsNumber
<1>2. \A k \in 0..(m - 1) : k \in S => k + 1 \in S
  BY DEF IsNumber
<1> HIDE DEF S
<1>3. \A k \in 0..m : k \in S
  BY <1>1, <1>2, Induction
<1> QED  BY <1>3 DEF S

\* Number is the last value of such a function.
LEMMA NumberIs ==
  ASSUME NEW s, NEW n \in Nat, NEW radix \in Nat, Natural(s, n),
         NEW g, IsNumber(g, s, n, radix)
  PROVE  Number(s, n, radix) = g[n]
<1> DEFINE Rec(f) == [k \in 0..n |->
                        IF k = 0 THEN 0 ELSE f[k - 1] * radix + s[k]]
           F == CHOOSE f : f = Rec(f)
<1>1. g = Rec(g)
  BY DEF IsNumber
<1>2. F = Rec(F)
  BY <1>1
<1>3. Number(s, n, radix) = F[n]
  BY DEF Number
<1> HIDE DEF F
<1>4. F[0] = 0 /\ \A k \in 1..n : F[k] = F[k - 1] * radix + s[k]
  BY <1>2
<1> DEFINE S == {k \in 0..n : F[k] = g[k]}
<1>5. 0 \in S
  BY <1>4 DEF IsNumber
<1>6. ASSUME NEW k \in 0..(n - 1), k \in S
      PROVE  k + 1 \in S
  <2>1. F[k + 1] = F[k] * radix + s[k + 1]
    BY <1>4
  <2>2. g[k + 1] = g[k] * radix + s[k + 1]
    BY DEF IsNumber
  <2> QED  BY <1>6, <2>1, <2>2
<1> HIDE DEF S
<1>7. n \in S
  BY <1>5, <1>6, Induction
<1> QED  BY <1>3, <1>7 DEF S

\* The equations of Number.
LEMMA NumberStep ==
  ASSUME NEW s, NEW n \in Nat, NEW radix \in Nat, Natural(s, n)
  PROVE  /\ Number(s, 0, radix) = 0
         /\ \A k \in 0..n : Number(s, k, radix) \in Nat
         /\ \A k \in 0..(n - 1) :
              Number(s, k + 1, radix) = Number(s, k, radix) * radix + s[k + 1]
<1>1. PICK g : IsNumber(g, s, n, radix)
  BY NumberExists
<1>2. ASSUME NEW k \in 0..n
      PROVE  Number(s, k, radix) = g[k]
  <2>1. Natural(s, k)
    BY DEF Natural
  <2>2. PICK h : IsNumber(h, s, k, radix)
    BY <2>1, NumberExists
  <2>3. Number(s, k, radix) = h[k]
    BY <2>1, <2>2, NumberIs
  <2>4. \A j \in 0..k : g[j] = h[j]
    BY <1>1, <2>2, NumberUnique
  <2> QED  BY <2>3, <2>4
<1> QED  BY <1>1, <1>2 DEF IsNumber

\* Number looks at the digits it is given only.
LEMMA NumberExtensional ==
  ASSUME NEW s, NEW t, NEW n \in Nat, NEW radix \in Nat, Natural(s, n),
         \A k \in 1..n : s[k] = t[k]
  PROVE  Number(s, n, radix) = Number(t, n, radix)
<1>1. Natural(t, n)
  BY DEF Natural
<1>2. PICK g : IsNumber(g, s, n, radix)
  BY NumberExists
<1>3. IsNumber(g, t, n, radix)
  BY <1>2 DEF IsNumber
<1> QED  BY <1>1, <1>2, <1>3, NumberIs

LEMMA PowerStep ==
  ASSUME NEW radix \in Nat
  PROVE  /\ Power(radix, 0) = 1
         /\ \A n \in Nat : Power(radix, n + 1) = Power(radix, n) * radix
         /\ \A n \in Nat : Power(radix, n) \in Nat
<1> DEFINE one(n) == [k \in 1..(n + 1) |-> IF k = 1 THEN 1 ELSE 0]
<1>1. \A n \in Nat : Natural(one(n), n + 1)
  BY DEF Natural
<1>2. Power(radix, 0) = 1
  <2> DEFINE s == one(0)
  <2>1. s[0 + 1] = 1 /\ 0 * radix = 0
    OBVIOUS
  <2>2. Natural(s, 1)
    BY DEF Natural
  <2>3. Power(radix, 0) = Number(s, 0 + 1, radix)
    BY DEF Power
  <2> HIDE DEF s
  <2>4. /\ Number(s, 0, radix) = 0
        /\ Number(s, 0 + 1, radix) = Number(s, 0, radix) * radix + s[0 + 1]
    <3>1. 0 \in 0..(1 - 1) /\ 1 \in Nat
      OBVIOUS
    <3> QED  BY <2>2, <3>1, NumberStep
  <2> QED  BY <2>1, <2>3, <2>4
<1>3. ASSUME NEW n \in Nat
      PROVE  /\ Power(radix, n + 1) = Power(radix, n) * radix
             /\ Power(radix, n) \in Nat
  <2> DEFINE s == one(n + 1)
             t == one(n)
  <2>1. Natural(s, n + 2) /\ Natural(t, n + 1)
    <3>1. (n + 1) + 1 = n + 2 /\ n + 1 \in Nat
      OBVIOUS
    <3> QED  BY <1>1, <3>1
  <2>2. /\ Number(s, (n + 1) + 1, radix) = Number(s, n + 1, radix) * radix + s[(n + 1) + 1]
        /\ Number(t, n + 1, radix) \in Nat
    <3>1. n + 1 \in 0..((n + 2) - 1) /\ n + 1 \in 0..(n + 1) /\ n + 2 \in Nat /\ n + 1 \in Nat
      OBVIOUS
    <3> HIDE DEF s, t
    <3> QED  BY <2>1, <3>1, NumberStep
  <2>3. s[(n + 1) + 1] = 0
    OBVIOUS
  <2>4. Number(s, n + 1, radix) = Number(t, n + 1, radix)
    <3>1. Natural(s, n + 1)
      BY DEF Natural
    <3>2. \A k \in 1..(n + 1) : s[k] = t[k]
      OBVIOUS
    <3> HIDE DEF s, t
    <3> QED  BY <3>1, <3>2, NumberExtensional
  <2>5. Power(radix, n + 1) = Number(s, (n + 1) + 1, radix)
    BY DEF Power
  <2>6. Power(radix, n) = Number(t, n + 1, radix)
    BY DEF Power
  <2> HIDE DEF s, t
  <2>7. Number(t, n + 1, radix) * radix \in Nat
    BY <2>2
  <2> QED  BY <2>2, <2>3, <2>4, <2>5, <2>6, <2>7
<1> QED  BY <1>2, <1>3

LEMMA PowerPositive ==
  ASSUME NEW radix \in Nat, radix >= 1, NEW n \in Nat
  PROVE  Power(radix, n) \in Nat /\ Power(radix, n) >= 1
<1> DEFINE S == {k \in 0..n : Power(radix, k) >= 1}
<1>1. 0 \in S
  BY PowerStep
<1>2. ASSUME NEW k \in 0..(n - 1), k \in S
      PROVE  k + 1 \in S
  <2>1. Power(radix, k + 1) = Power(radix, k) * radix /\ Power(radix, k) \in Nat
    BY PowerStep
  <2>2. 1 * radix <= Power(radix, k) * radix
    BY <1>2, <2>1, MulMonotone
  <2> QED  BY <1>2, <2>1, <2>2
<1> HIDE DEF S
<1>3. n \in S
  BY <1>1, <1>2, Induction
<1> QED  BY <1>3, PowerStep DEF S

DigitsBelow(s, n, radix) == \A k \in 1..n : s[k] \in 0..(radix - 1)

\* A number of n digits is below the n-th power.
LEMMA NumberBound ==
  ASSUME NEW s, NEW n \in Nat, NEW radix \in Nat, radix >= 1, DigitsBelow(s, n, radix)
  PROVE  Number(s, n, radix) \in 0..(Power(radix, n) - 1)
<1> DEFINE S == {k \in 0..n : Number(s, k, radix) < Power(radix, k)}
<1>1. Natural(s, n)
  BY DEF Natural, DigitsBelow
<1>2. 0 \in S
  BY <1>1, NumberStep, PowerStep
<1>3. ASSUME NEW k \in 0..(n - 1), k \in S
      PROVE  k + 1 \in S
  <2>1. /\ Number(s, k + 1, radix) = Number(s, k, radix) * radix + s[k + 1]
        /\ Number(s, k, radix) \in Nat
    BY <1>1, NumberStep
  <2>2. Power(radix, k + 1) = Power(radix, k) * radix + 0 /\ Power(radix, k) \in Nat
    <3>1. k \in Nat
      OBVIOUS
    <3>2. Power(radix, k + 1) = Power(radix, k) * radix /\ Power(radix, k) \in Nat
      BY <3>1, PowerStep
    <3>3. Power(radix, k) * radix \in Nat
      BY <3>2
    <3> QED  BY <3>2, <3>3
  <2>3. s[k + 1] \in 0..(radix - 1)
    BY DEF DigitsBelow
  <2>4. Number(s, k, radix) * radix + s[k + 1] < Power(radix, k) * radix + 0
    BY <1>3, <2>1, <2>2, <2>3, HigherPartDecides
  <2> QED  BY <1>3, <2>1, <2>2, <2>4
<1> HIDE DEF S
<1>4. n \in S
  BY <1>2, <1>3, Induction
<1>5. Number(s, n, radix) < Power(radix, n)
  BY <1>4 DEF S
<1>6. Number(s, n, radix) \in Nat /\ Power(radix, n) \in Nat
  BY <1>1, NumberStep, PowerStep
<1> QED  BY <1>5, <1>6

\* Cutting a number after its first m digits.
LEMMA NumberSplit ==
  ASSUME NEW s, NEW m \in Nat, NEW n \in Nat, NEW radix \in Nat, Natural(s, m + n),
         NEW t, \A j \in 1..n : t[j] = s[m + j]
  PROVE  Number(s, m + n, radix)
           = Number(s, m, radix) * Power(radix, n) + Number(t, n, radix)
<1> DEFINE N(k) == Number(s, k, radix)
           T(k) == Number(t, k, radix)
           P(k) == Power(radix, k)
           S == {k \in 0..n : N(m + k) = N(m) * P(k) + T(k)}
<1>1. Natural(t, n)
  BY DEF Natural
<1>2. \A k \in 0..(m + n) : N(k) \in Nat
  BY NumberStep
<1>3. /\ T(0) = 0
      /\ \A k \in 0..n : T(k) \in Nat
      /\ \A k \in 0..(n - 1) : T(k + 1) = T(k) * radix + t[k + 1]
  BY <1>1, NumberStep
<1>4. \A k \in 0..n : P(k) \in Nat /\ P(k + 1) = P(k) * radix
  BY PowerStep
<1>5. P(0) = 1
  BY PowerStep
<1>6. \A k \in 0..(n - 1) : t[k + 1] = s[m + k + 1] /\ s[m + k + 1] \in Nat
  BY DEF Natural
<1>7. \A k \in 0..(n - 1) : N(m + k + 1) = N(m + k) * radix + s[m + k + 1]
  BY NumberStep
<1> HIDE DEF N, T, P
<1>8. 0 \in S
  <2>1. N(m + 0) = N(m) /\ N(m) \in Nat
    BY <1>2
  <2> QED  BY <1>3, <1>5, <2>1
<1>9. ASSUME NEW k \in 0..(n - 1), k \in S
      PROVE  k + 1 \in S
  <2> DEFINE a == N(m)
             p == P(k)
             u == T(k)
             d == s[m + k + 1]
  <2>1. a \in Nat /\ p \in Nat /\ u \in Nat /\ d \in Nat
    BY <1>2, <1>3, <1>4, <1>6
  <2>2. N(m + k) = a * p + u
    BY <1>9
  <2>3. N(m + k + 1) = (a * p + u) * radix + d
    BY <1>7, <2>2
  <2>4. T(k + 1) = u * radix + d /\ P(k + 1) = p * radix
    BY <1>3, <1>4, <1>6
  <2> HIDE DEF a, p, u, d
  <2>5. (a * p + u) * radix + d = a * (p * radix) + (u * radix + d)
    <3>1. (a * p + u) * radix = a * p * radix + u * radix
      BY <2>1
    <3>2. a * p * radix = a * (p * radix)
      BY <2>1
    <3>3. a * (p * radix) \in Nat /\ u * radix \in Nat
      BY <2>1
    <3> QED  BY <2>1, <3>1, <3>2, <3>3
  <2>6. m + (k + 1) = m + k + 1
    OBVIOUS
  <2> QED  BY <2>3, <2>4, <2>5, <2>6 DEF a
<1> HIDE DEF S
<1>10. n \in S
  BY <1>8, <1>9, Induction
<1> QED  BY <1>10 DEF S, N, T, P

-----------------------------------------------------------------------------
(* Digits.                                                                 *)

LEMMA NumberSplitAt ==
  ASSUME NEW s, NEW n \in Nat, NEW k \in 0..n, NEW radix \in Nat, radix >= 1,
         DigitsBelow(s, n, radix)
  PROVE  Number(s, n, radix) \div Power(radix, k) = Number(s, n - k, radix)
<1> DEFINE m == n - k
           t == [j \in 1..k |-> s[m + j]]
           a == Number(s, m, radix)
           p == Power(radix, k)
           r == Number(t, k, radix)
<1>1. m \in Nat /\ m + k = n /\ k \in Nat /\ Natural(s, n)
  BY DEF DigitsBelow, Natural
<1>2. Number(s, n, radix) = a * p + r
  <2>1. Natural(s, m + k) /\ \A j \in 1..k : t[j] = s[m + j]
    BY <1>1
  <2> HIDE DEF m, t
  <2>2. Number(s, m + k, radix) = a * p + r
    BY <1>1, <2>1, NumberSplit
  <2> QED  BY <1>1, <2>2
<1>3. a \in Nat
  <2>1. Natural(s, m)
    BY <1>1 DEF Natural
  <2> HIDE DEF m
  <2> QED  BY <1>1, <2>1, NumberStep
<1>4. p \in Nat /\ p >= 1
  BY <1>1, PowerPositive
<1>5. r \in 0..(p - 1)
  <2>1. DigitsBelow(t, k, radix)
    BY DEF DigitsBelow
  <2> HIDE DEF t
  <2> QED  BY <1>1, <2>1, NumberBound
<1>6. Number(s, n, radix) \in Nat
  BY <1>1, NumberStep
<1> HIDE DEF a, p, r, m
<1>7. a = Number(s, n, radix) \div p
  BY <1>2, <1>3, <1>4, <1>5, <1>6, QuotientUnique
<1> QED  BY <1>7 DEF a, p, m

\* Shifting and masking finds the digits a number was made of.
LEMMA DigitOfNumber ==
  ASSUME NEW s, NEW n \in Nat, NEW k \in 0..(n - 1), NEW radix \in Nat, radix >= 1,
         DigitsBelow(s, n, radix)
  PROVE  Digit(Number(s, n, radix), k, radix) = s[n - k]
<1> DEFINE m == (n - k) - 1
           a == Number(s, m, radix)
           b == Number(s, n - k, radix)
<1>1. m \in 0..(n - 1) /\ m + 1 = n - k /\ Natural(s, n) /\ k \in 0..n
  BY DEF DigitsBelow, Natural
<1>2. a \in Nat /\ b = a * radix + s[n - k]
  <2> HIDE DEF m
  <2>1. /\ Number(s, m, radix) \in Nat
        /\ Number(s, m + 1, radix) = Number(s, m, radix) * radix + s[m + 1]
    BY <1>1, NumberStep
  <2> QED  BY <1>1, <2>1
<1>3. s[n - k] \in 0..(radix - 1)
  BY DEF DigitsBelow
<1>4. b \in Nat
  BY <1>2, <1>3
<1>5. Number(s, n, radix) \div Power(radix, k) = b
  BY <1>1, NumberSplitAt
<1> HIDE DEF a, b, m
<1>6. s[n - k] = b % radix
  BY <1>2, <1>3, <1>4, RemainderUnique
<1> QED  BY <1>5, <1>6 DEF Digit

LEMMA DigitInRadix ==
  ASSUME NEW x \in Nat, NEW k \in Nat, NEW radix \in Nat, radix >= 1
  PROVE  Digit(x, k, radix) \in 0..(radix - 1)
<1> DEFINE p == Power(radix, k)
           e == x \div p
<1>1. p \in Nat /\ p >= 1
  BY PowerPositive
<1> HIDE DEF p
<1>2. e \in Nat
  BY <1>1, DivMod
<1> HIDE DEF e
<1>3. e % radix \in 0..(radix - 1)
  BY <1>2, DivMod
<1> QED  BY <1>3 DEF Digit, e, p

\* A number below the n-th power is what its n digits denote.
LEMMA NumberOfDigits ==
  ASSUME NEW n \in Nat, NEW radix \in Nat, radix >= 1,
         NEW x \in 0..(Power(radix, n) - 1)
  PROVE  Number([j \in 1..n |-> Digit(x, n - j, radix)], n, radix) = x
<1> DEFINE s == [j \in 1..n |-> Digit(x, n - j, radix)]
           N(k) == Number(s, k, radix)
           P(k) == Power(radix, k)
           S == {k \in 0..n : N(k) = x \div P(n - k)}
<1>1. x \in Nat /\ \A k \in Nat : P(k) \in Nat /\ P(k) >= 1 /\ P(k + 1) = P(k) * radix
  <2>1. \A k \in Nat : P(k) \in Nat /\ P(k) >= 1
    BY PowerPositive
  <2>2. \A k \in Nat : P(k + 1) = P(k) * radix
    BY PowerStep
  <2>3. x \in Nat
    <3>1. P(n) \in Nat
      BY <2>1
    <3> QED  BY <3>1
  <2> QED  BY <2>1, <2>2, <2>3
<1>2. \A k \in 1..n : s[k] = Digit(x, n - k, radix) /\ n - k \in Nat
  OBVIOUS
<1>3. Natural(s, n)
  <2>1. SUFFICES ASSUME NEW k \in 1..n PROVE s[k] \in Nat
    BY DEF Natural
  <2>2. n - k \in Nat
    OBVIOUS
  <2>3. Digit(x, n - k, radix) \in 0..(radix - 1)
    BY <1>1, <2>2, DigitInRadix
  <2> QED  BY <1>2, <2>3
<1>4. /\ N(0) = 0
      /\ \A k \in 0..n : N(k) \in Nat
      /\ \A k \in 0..(n - 1) : N(k + 1) = N(k) * radix + s[k + 1]
  <2> HIDE DEF s
  <2> QED  BY <1>3, NumberStep
<1>5. x \in 0..(P(n) - 1)
  OBVIOUS
<1>6. \A k \in Nat : Digit(x, k, radix) = (x \div P(k)) % radix
  BY DEF Digit
<1>7. P(0) = 1
  BY PowerStep
<1> HIDE DEF s, N, P
<1>8. 0 \in S
  <2>1. P(n) \in Nat /\ P(n) >= 1 /\ x = 0 * P(n) + x
    BY <1>1
  <2>2. 0 = x \div P(n)
    BY <1>1, <1>5, <2>1, QuotientUnique
  <2>3. n - 0 = n
    OBVIOUS
  <2> QED  BY <1>4, <2>2, <2>3
<1>9. ASSUME NEW k \in 0..(n - 1), k \in S
      PROVE  k + 1 \in S
  <2> DEFINE m == (n - k) - 1
             y == x \div P(m)
  <2>1. m \in Nat /\ m + 1 = n - k /\ n - (k + 1) = m /\ k + 1 \in 1..n
    OBVIOUS
  <2>2. y \in Nat
    BY <1>1, <2>1, DivMod
  <2>3. N(k) = y \div radix
    <3>1. N(k) = x \div P(m + 1)
      BY <1>9, <2>1
    <3>2. P(m + 1) = P(m) * radix /\ P(m) \in Nat /\ P(m) >= 1
      BY <1>1, <2>1
    <3> HIDE DEF m
    <3>3. x \div (P(m) * radix) = (x \div P(m)) \div radix
      <4> DEFINE p == P(m)
      <4>1. x \in Nat /\ p \in Nat /\ p >= 1
        BY <1>1, <3>2
      <4> HIDE DEF p
      <4>2. x \div (p * radix) = (x \div p) \div radix
        BY <4>1, DivDiv
      <4> QED  BY <4>2 DEF p
    <3> QED  BY <3>1, <3>2, <3>3
  <2>4. s[k + 1] = y % radix
    <3>1. s[k + 1] = Digit(x, m, radix)
      BY <1>2, <2>1
    <3> QED  BY <1>6, <2>1, <3>1
  <2>5. N(k + 1) = N(k) * radix + s[k + 1]
    BY <1>4
  <2> HIDE DEF m, y
  <2>6. y = (y \div radix) * radix + (y % radix)
    BY <2>2, DivMod
  <2>7. N(k + 1) = y
    BY <2>3, <2>4, <2>5, <2>6
  <2> QED  BY <2>1, <2>7 DEF y
<1> HIDE DEF S
<1>10. n \in S
  BY <1>8, <1>9, Induction
<1>11. N(n) = x \div 1
  <2>1. n - n = 0
    OBVIOUS
  <2> QED  BY <1>7, <1>10, <2>1 DEF S
<1>12. x \div 1 = x
  BY <1>1
<1> QED  BY <1>11, <1>12 DEF N, s

ArePartsOf(w, t, n, size, radix) ==
  \A k \in 0..(n - 1) : w[k + 1] = Number(Part(t, k, size), size, radix)

\* A text cut into words denotes the number its words denote.
LEMMA NumberOfParts ==
  ASSUME NEW t, NEW n \in Nat, NEW size \in Nat, NEW radix \in Nat, radix >= 1,
         DigitsBelow(t, n * size, radix),
         NEW w, ArePartsOf(w, t, n, size, radix)
  PROVE  Number(w, n, Power(radix, size)) = Number(t, n * size, radix)
<1> DEFINE B == Power(radix, size)
           N(k) == Number(w, k, B)
           T(k) == Number(t, k * size, radix)
           S == {k \in 0..n : N(k) = T(k)}
<1>1. \A k \in 0..n : k * size \in 0..(n * size)
  BY MulMonotone
<1>2. ASSUME NEW k \in 0..(n - 1)
      PROVE  /\ w[k + 1] \in Nat
             /\ T(k + 1) = T(k) * B + w[k + 1]
  <2> DEFINE m == k * size
             u == [j \in 1..size |-> t[m + j]]
  <2>1. m \in Nat /\ (k + 1) * size = m + size /\ (k + 1) * size \in 0..(n * size)
    <3>1. k + 1 \in 0..n
      OBVIOUS
    <3>2. (k + 1) * size \in 0..(n * size)
      BY <1>1, <3>1
    <3> QED  BY <3>2
  <2>2. u = Part(t, k, size)
    BY DEF Part
  <2> HIDE DEF m
  <2>3. Natural(t, m + size) /\ \A j \in 1..size : u[j] = t[m + j]
    BY <2>1 DEF DigitsBelow, Natural
  <2>5. Natural(u, size)
    BY <2>1, <2>3 DEF Natural
  <2> HIDE DEF u
  <2>4. Number(t, m + size, radix) = Number(t, m, radix) * B + Number(u, size, radix)
    BY <2>1, <2>3, NumberSplit
  <2>6. Number(u, size, radix) \in Nat
    BY <2>5, NumberStep
  <2>7. w[k + 1] = Number(u, size, radix)
    BY <2>2 DEF ArePartsOf
  <2> QED  BY <2>1, <2>4, <2>6, <2>7 DEF m
<1>3. Natural(w, n)
  <2>1. SUFFICES ASSUME NEW j \in 1..n PROVE w[j] \in Nat
    BY DEF Natural
  <2>2. j - 1 \in 0..(n - 1) /\ (j - 1) + 1 = j
    OBVIOUS
  <2>3. w[(j - 1) + 1] \in Nat
    BY <1>2, <2>2
  <2> QED  BY <2>2, <2>3
<1>4. B \in Nat
  BY PowerStep
<1>5. N(0) = 0 /\ \A k \in 0..(n - 1) : N(k + 1) = N(k) * B + w[k + 1]
  <2> HIDE DEF B
  <2> QED  BY <1>3, <1>4, NumberStep
<1>6. T(0) = 0
  <2>1. 0 * size = 0 /\ n * size \in Nat
    OBVIOUS
  <2>2. Natural(t, n * size)
    BY DEF DigitsBelow, Natural
  <2> QED  BY <2>1, <2>2, NumberStep
<1> HIDE DEF N, T, B
<1>7. 0 \in S
  BY <1>5, <1>6
<1>8. ASSUME NEW k \in 0..(n - 1), k \in S
      PROVE  k + 1 \in S
  BY <1>2, <1>5, <1>8
<1> HIDE DEF S
<1>9. n \in S
  BY <1>7, <1>8, Induction
<1> QED  BY <1>9 DEF S, N, T, B

\* The most significant digit that differs decides.
LEMMA DigitDecides ==
  ASSUME NEW s, NEW t, NEW n \in Nat, NEW k \in 0..(n - 1), NEW radix \in Nat, radix >= 1,
         DigitsBelow(s, n, radix), DigitsBelow(t, n, radix),
         Number(s, k, radix) = Number(t, k, radix), s[k + 1] < t[k + 1]
  PROVE  Number(s, n, radix) < Number(t, n, radix)
<1> DEFINE m == n - (k + 1)
           p == Power(radix, m)
           a == Number(s, k + 1, radix)
           b == Number(t, k + 1, radix)
           x == Number([j \in 1..m |-> s[(k + 1) + j]], m, radix)
           y == Number([j \in 1..m |-> t[(k + 1) + j]], m, radix)
<1>1. m \in Nat /\ (k + 1) + m = n /\ Natural(s, n) /\ Natural(t, n)
  BY DEF DigitsBelow, Natural
<1>2. a \in Nat /\ b \in Nat /\ a < b
  <2>1. /\ a = Number(s, k, radix) * radix + s[k + 1]
        /\ Number(s, k, radix) \in Nat
    BY <1>1, NumberStep
  <2>2. b = Number(t, k, radix) * radix + t[k + 1]
    BY <1>1, NumberStep
  <2>3. s[k + 1] \in Nat /\ t[k + 1] \in Nat
    BY DEF DigitsBelow
  <2> DEFINE c == Number(s, k, radix)
  <2> HIDE DEF a, b, c
  <2>4. c \in Nat /\ a = c * radix + s[k + 1] /\ b = c * radix + t[k + 1]
    BY <2>1, <2>2 DEF c
  <2>5. c * radix \in Nat
    BY <2>4
  <2> QED  BY <2>3, <2>4, <2>5
<1>3. Number(s, n, radix) = a * p + x
  <2> DEFINE u == [j \in 1..m |-> s[(k + 1) + j]]
  <2>1. Natural(s, (k + 1) + m) /\ \A j \in 1..m : u[j] = s[(k + 1) + j]
    BY <1>1
  <2> HIDE DEF m, u
  <2>2. Number(s, (k + 1) + m, radix) = a * p + Number(u, m, radix)
    BY <1>1, <2>1, NumberSplit
  <2> QED  BY <1>1, <2>2 DEF u
<1>4. Number(t, n, radix) = b * p + y
  <2> DEFINE u == [j \in 1..m |-> t[(k + 1) + j]]
  <2>1. Natural(t, (k + 1) + m) /\ \A j \in 1..m : u[j] = t[(k + 1) + j]
    BY <1>1
  <2> HIDE DEF m, u
  <2>2. Number(t, (k + 1) + m, radix) = b * p + Number(u, m, radix)
    BY <1>1, <2>1, NumberSplit
  <2> QED  BY <1>1, <2>2 DEF u
<1>5. x \in 0..(p - 1)
  <2> DEFINE u == [j \in 1..m |-> s[(k + 1) + j]]
  <2>1. DigitsBelow(u, m, radix)
    BY DEF DigitsBelow
  <2> HIDE DEF u
  <2>2. Number(u, m, radix) \in 0..(Power(radix, m) - 1)
    BY <1>1, <2>1, NumberBound
  <2> QED  BY <2>2 DEF u
<1>6. y \in Nat
  <2> DEFINE u == [j \in 1..m |-> t[(k + 1) + j]]
  <2>1. Natural(u, m)
    BY DEF DigitsBelow, Natural
  <2> HIDE DEF u
  <2>2. Number(u, m, radix) \in Nat
    BY <1>1, <2>1, NumberStep
  <2> QED  BY <2>2 DEF u
<1>7. p \in Nat
  BY <1>1, PowerStep
<1> HIDE DEF a, b, p, x, y
<1>8. a * p + x < b * p + y
  BY <1>2, <1>5, <1>6, <1>7, HigherPartDecides
<1> QED  BY <1>3, <1>4, <1>8

-----------------------------------------------------------------------------
(* Words, texts and digests.                                               *)

LEMMA Sizes ==
  /\ NumWords \in Nat /\ NumWords >= 1
  /\ WordDigits \in Nat /\ WordDigits >= 1 /\ WordBytes \in Nat
  /\ Radix \in Nat /\ Radix >= 1 /\ ByteBase \in Nat /\ ByteBase >= 1
  /\ Base \in Nat /\ Base >= 1
  /\ TextLength \in Nat /\ DigestLength \in Nat
<1>1. /\ NumWords \in Nat /\ NumWords >= 1
      /\ WordDigits \in Nat /\ WordDigits >= 1
      /\ Radix \in Nat /\ Radix >= 1
  BY ShareAssumption
<1>2. WordBytes \in Nat
  BY <1>1 DEF WordBytes
<1>3. ByteBase \in Nat /\ ByteBase >= 1
  <2>1. 1 * Radix <= Radix * Radix /\ Radix * Radix \in Nat
    BY <1>1, MulMonotone
  <2> QED  BY <1>1, <2>1 DEF ByteBase
<1>4. Base \in Nat /\ Base >= 1
  BY <1>1, PowerPositive, ShareAssumption
<1>5. TextLength \in Nat /\ DigestLength \in Nat
  BY <1>1, <1>2 DEF TextLength, DigestLength
<1> QED  BY <1>1, <1>2, <1>3, <1>4, <1>5

\* A word is as many bytes as it is pairs of digits.
LEMMA BaseInBytes == Power(ByteBase, WordBytes) = Base
<1> DEFINE S == {k \in 0..WordBytes : Power(ByteBase, k) = Power(Radix, 2 * k)}
<1>1. 0 \in S
  <2>1. 2 * 0 = 0
    OBVIOUS
  <2> QED  BY <2>1, PowerStep, Sizes
<1>2. ASSUME NEW k \in 0..(WordBytes - 1), k \in S
      PROVE  k + 1 \in S
  <2> DEFINE a == Power(Radix, 2 * k)
  <2>1. k \in Nat /\ 2 * k \in Nat /\ 2 * k + 1 \in Nat /\ 2 * (k + 1) = (2 * k + 1) + 1
    BY Sizes
  <2>2. a \in Nat /\ Power(Radix, 2 * k + 1) = a * Radix
    BY <2>1, Sizes, PowerStep
  <2>3. Power(Radix, (2 * k + 1) + 1) = Power(Radix, 2 * k + 1) * Radix
    BY <2>1, Sizes, PowerStep
  <2>4. Power(ByteBase, k + 1) = Power(ByteBase, k) * ByteBase
    BY <2>1, Sizes, PowerStep
  <2>5. Power(ByteBase, k) = a
    BY <1>2
  <2> HIDE DEF a
  <2>6. a * Radix * Radix = a * (Radix * Radix)
    BY <2>2, Sizes
  <2>7. Power(ByteBase, k + 1) = Power(Radix, 2 * (k + 1))
    BY <2>1, <2>2, <2>3, <2>4, <2>5, <2>6 DEF ByteBase
  <2>8. k + 1 \in 0..WordBytes
    BY Sizes
  <2> QED  BY <2>7, <2>8
<1> HIDE DEF S
<1>3. WordBytes \in S
  BY <1>1, <1>2, Sizes, Induction
<1> QED  BY <1>3, ShareAssumption DEF S

LEMMA BigEndianBelow ==
  ASSUME NEW w \in Words
  PROVE  /\ DigitsBelow(BigEndian(w), NumWords, Base)
         /\ \A k \in Index : BigEndian(w)[k + 1] = w[NumWords - 1 - k]
<1>1. \A k \in 1..NumWords : BigEndian(w)[k] = w[NumWords - k] /\ NumWords - k \in Index
  BY Sizes DEF BigEndian, Index
<1>2. \A k \in Index : k + 1 \in 1..NumWords /\ NumWords - (k + 1) = NumWords - 1 - k
  BY Sizes DEF Index
<1> QED  BY <1>1, <1>2 DEF DigitsBelow, Words

\* The words of a text of full length denote the number the text denotes.
LEMMA ParseIsRight ==
  ASSUME NEW text \in [1..TextLength -> Digits]
  PROVE  /\ ParseHexToUint256(text) \in Words
         /\ Value(ParseHexToUint256(text)) = Number(text, TextLength, Radix)
<1> DEFINE w == ParseHexToUint256(text)
           part(k) == Part(text, k, WordDigits)
<1>1. DigitsBelow(text, NumWords * WordDigits, Radix)
  BY DEF DigitsBelow, TextLength, Digits
<1>2. ASSUME NEW k \in Index
      PROVE  Number(part(k), WordDigits, Radix) \in 0..(Base - 1)
  <2>1. DigitsBelow(part(k), WordDigits, Radix)
    <3>1. SUFFICES ASSUME NEW j \in 1..WordDigits
                   PROVE  part(k)[j] \in 0..(Radix - 1)
      BY DEF DigitsBelow
    <3>2. part(k)[j] = text[k * WordDigits + j]
      BY DEF Part
    <3>3. k * WordDigits + j \in 1..(NumWords * WordDigits)
      <4>1. (k + 1) * WordDigits <= NumWords * WordDigits /\ k * WordDigits \in Nat
        BY Sizes, MulMonotone DEF Index
      <4>2. (k + 1) * WordDigits = k * WordDigits + WordDigits
        BY Sizes DEF Index
      <4>3. NumWords * WordDigits \in Nat
        BY Sizes
      <4> QED  BY <4>1, <4>2, <4>3, Sizes
    <3> QED  BY <1>1, <3>2, <3>3 DEF DigitsBelow
  <2> HIDE DEF part
  <2>2. Number(part(k), WordDigits, Radix) \in 0..(Power(Radix, WordDigits) - 1)
    BY <2>1, Sizes, NumberBound
  <2> QED  BY <2>2, ShareAssumption
<1>3. \A k \in Index : NumWords - 1 - k \in Index
  BY Sizes DEF Index
<1>4. w \in Words
  BY <1>2, <1>3 DEF ParseHexToUint256, Words
<1>5. ASSUME NEW k \in 0..(NumWords - 1)
      PROVE  BigEndian(w)[k + 1] = Number(part(k), WordDigits, Radix)
  <2>1. BigEndian(w)[k + 1] = w[NumWords - 1 - k]
    BY <1>4, BigEndianBelow DEF Index
  <2>2. NumWords - 1 - (NumWords - 1 - k) = k
    BY Sizes
  <2>3. w[NumWords - 1 - k] = Number(part(k), WordDigits, Radix)
    BY <1>3, <2>2 DEF ParseHexToUint256, Index
  <2> QED  BY <2>1, <2>3
<1> HIDE DEF w
<1>6. Number(BigEndian(w), NumWords, Power(Radix, WordDigits))
        = Number(text, NumWords * WordDigits, Radix)
  <2> DEFINE u == BigEndian(w)
  <2>1. ArePartsOf(u, text, NumWords, WordDigits, Radix)
    BY <1>5 DEF ArePartsOf
  <2> HIDE DEF u
  <2>2. Number(u, NumWords, Power(Radix, WordDigits))
          = Number(text, NumWords * WordDigits, Radix)
    <3>1. /\ NumWords \in Nat /\ WordDigits \in Nat /\ Radix \in Nat /\ Radix >= 1
      BY Sizes
    <3> QED  BY <1>1, <2>1, <3>1, NumberOfParts
  <2> QED  BY <2>2 DEF u
<1>7. Value(w) = Number(text, TextLength, Radix)
  BY <1>6, ShareAssumption DEF Value, TextLength
<1> QED  BY <1>4, <1>7 DEF w

\* The text of a number is of full length, and parsed back it is the number.
LEMMA FormatThenParse ==
  ASSUME NEW w \in Words
  PROVE  /\ Uint256ToHex(w) \in [1..TextLength -> Digits]
         /\ ParseHexToUint256(Uint256ToHex(w)) = w
<1> DEFINE text == Uint256ToHex(w)
           D(x, j) == Digit(x, WordDigits - j, Radix)
<1>1. \A k \in Index : w[k] \in 0..(Base - 1) /\ w[k] \in Nat
  BY Sizes DEF Words
<1>2. ASSUME NEW x \in Nat, NEW j \in 1..WordDigits
      PROVE  HexDigits(x, WordDigits)[j] = D(x, j) /\ D(x, j) \in Digits
  <2>1. WordDigits - j \in Nat
    BY Sizes
  <2>2. HexDigits(x, WordDigits)[j] = D(x, j)
    BY DEF HexDigits
  <2>3. D(x, j) \in 0..(Radix - 1)
    BY <2>1, Sizes, DigitInRadix
  <2> QED  BY <2>2, <2>3 DEF Digits
<1>3. ASSUME NEW k \in 1..TextLength
      PROVE  text[k] \in Digits
  <2> DEFINE e == (k - 1) \div WordDigits
             r == (k - 1) % WordDigits
  <2>1. e \in Nat /\ r \in 0..(WordDigits - 1) /\ k - 1 = e * WordDigits + r
    <3>1. k - 1 \in Nat
      BY Sizes
    <3> QED  BY <3>1, Sizes, DivMod
  <2>2. text[k] = HexDigits(w[NumWords - 1 - e], WordDigits)[r + 1]
    BY DEF Uint256ToHex
  <2> HIDE DEF e, r
  <2>3. e < NumWords
    <3>1. SUFFICES ASSUME NumWords <= e PROVE FALSE
      BY <2>1, Sizes
    <3>2. NumWords * WordDigits <= e * WordDigits /\ e * WordDigits \in Nat
      BY <2>1, <3>1, Sizes, MulMonotone
    <3> QED  BY <2>1, <3>2, Sizes DEF TextLength
  <2>4. NumWords - 1 - e \in Index /\ r + 1 \in 1..WordDigits
    BY <2>1, <2>3, Sizes DEF Index
  <2> QED  BY <1>1, <1>2, <2>2, <2>4
<1>4. text \in [1..TextLength -> Digits]
  BY <1>3 DEF Uint256ToHex
<1>5. ASSUME NEW k \in Index
      PROVE  ParseHexToUint256(text)[k] = w[k]
  <2> DEFINE m == NumWords - 1 - k
             s == Part(text, m, WordDigits)
             t == [j \in 1..WordDigits |-> Digit(w[k], WordDigits - j, Radix)]
  <2>1. m \in Index /\ NumWords - 1 - m = k
    BY Sizes DEF Index
  <2>2. ASSUME NEW j \in 1..WordDigits
        PROVE  s[j] = t[j] /\ s[j] \in Nat
    <3> DEFINE p == m * WordDigits + j
    <3>1. p - 1 = m * WordDigits + (j - 1) /\ j - 1 \in 0..(WordDigits - 1) /\ m \in Nat
      BY <2>1, Sizes DEF Index
    <3>2. p \in 1..TextLength /\ p - 1 \in Nat
      <4>1. (m + 1) * WordDigits <= NumWords * WordDigits /\ m * WordDigits \in Nat
        BY <2>1, Sizes, MulMonotone DEF Index
      <4>2. (m + 1) * WordDigits = m * WordDigits + WordDigits
        BY <2>1, Sizes DEF Index
      <4>3. NumWords * WordDigits \in Nat
        BY Sizes
      <4> HIDE DEF m
      <4> QED  BY <4>1, <4>2, <4>3, Sizes DEF TextLength
    <3>3. s[j] = text[p]
      BY DEF Part
    <3>4. text[p] = HexDigits(w[NumWords - 1 - ((p - 1) \div WordDigits)], WordDigits)
                      [((p - 1) % WordDigits) + 1]
      BY <3>2 DEF Uint256ToHex
    <3> HIDE DEF p, m
    <3>5. (p - 1) \div WordDigits = m /\ (p - 1) % WordDigits = j - 1
      BY <3>1, <3>2, Sizes, QuotientUnique, RemainderUnique
    <3>6. (j - 1) + 1 = j
      OBVIOUS
    <3>7. s[j] = HexDigits(w[k], WordDigits)[j]
      BY <2>1, <3>3, <3>4, <3>5, <3>6
    <3> HIDE DEF s
    <3>8. t[j] = D(w[k], j)
      OBVIOUS
    <3>9. D(w[k], j) \in Nat
      BY <1>1, <1>2, Sizes DEF Digits
    <3> QED  BY <1>1, <1>2, <3>7, <3>8, <3>9
  <2>3. ParseHexToUint256(text)[k] = Number(s, WordDigits, Radix)
    BY DEF ParseHexToUint256
  <2>4. Natural(s, WordDigits)
    BY <2>2 DEF Natural
  <2>5. Number(s, WordDigits, Radix) = Number(t, WordDigits, Radix)
    <3> HIDE DEF s, t
    <3> QED  BY <2>2, <2>4, Sizes, NumberExtensional
  <2>6. Number(t, WordDigits, Radix) = w[k]
    <3>1. w[k] \in 0..(Power(Radix, WordDigits) - 1)
      BY <1>1, ShareAssumption
    <3> QED  BY <3>1, Sizes, NumberOfDigits
  <2> QED  BY <2>3, <2>5, <2>6
<1>6. ParseHexToUint256(text) = w
  BY <1>5 DEF ParseHexToUint256, Words
<1> QED  BY <1>4, <1>6

\* The words of keccak_state_32 with their bytes swapped, most significant
\* first, denote the number the digest's bytes denote.
Operand(d) == [k \in Index |-> Byteswap(LoadWord(d, NumWords - 1 - k))]

LEMMA SwapIsRight ==
  ASSUME NEW d \in Digests, NEW k \in Index
  PROVE  /\ Byteswap(LoadWord(d, k)) = Number(Part(d, k, WordBytes), WordBytes, ByteBase)
         /\ Byteswap(LoadWord(d, k)) \in 0..(Base - 1)
<1> DEFINE part == Part(d, k, WordBytes)
           back == [j \in 1..WordBytes |-> part[WordBytes + 1 - j]]
           x == Number(back, WordBytes, ByteBase)
           swapped == [j \in 1..WordBytes |-> Digit(x, j - 1, ByteBase)]
<1>1. d \in [1..(NumWords * WordBytes) -> 0..(ByteBase - 1)]
  BY ShareAssumption DEF DigestLength
<1>2. DigitsBelow(part, WordBytes, ByteBase)
  <2>1. SUFFICES ASSUME NEW j \in 1..WordBytes
                 PROVE  part[j] \in 0..(ByteBase - 1)
    BY DEF DigitsBelow
  <2>2. part[j] = d[k * WordBytes + j]
    BY DEF Part
  <2>3. k * WordBytes + j \in 1..(NumWords * WordBytes)
    <3>1. (k + 1) * WordBytes <= NumWords * WordBytes /\ k * WordBytes \in Nat
      BY Sizes, MulMonotone DEF Index
    <3>2. (k + 1) * WordBytes = k * WordBytes + WordBytes
      BY Sizes DEF Index
    <3>3. NumWords * WordBytes \in Nat
      BY Sizes
    <3> QED  BY <3>1, <3>2, <3>3, Sizes
  <2> QED  BY <1>1, <2>2, <2>3
<1>3. LoadWord(d, k) = x /\ Byteswap(x) = Number(swapped, WordBytes, ByteBase)
  BY DEF LoadWord, Byteswap
<1>4. \A j \in 1..WordBytes :
        /\ back[j] = part[WordBytes + 1 - j] /\ WordBytes + 1 - j \in 1..WordBytes
        /\ swapped[j] = Digit(x, j - 1, ByteBase)
  BY Sizes
<1> HIDE DEF part, back, x, swapped
<1>5. DigitsBelow(back, WordBytes, ByteBase)
  BY <1>2, <1>4 DEF DigitsBelow
<1>6. ASSUME NEW j \in 1..WordBytes
      PROVE  swapped[j] = part[j]
  <2>1. j - 1 \in 0..(WordBytes - 1) /\ WordBytes - (j - 1) \in 1..WordBytes
    BY Sizes
  <2>2. Digit(x, j - 1, ByteBase) = back[WordBytes - (j - 1)]
    BY <1>5, <2>1, Sizes, DigitOfNumber DEF x
  <2>3. WordBytes + 1 - (WordBytes - (j - 1)) = j
    BY Sizes
  <2> QED  BY <1>4, <2>1, <2>2, <2>3
<1>7. Natural(part, WordBytes)
  BY <1>2 DEF DigitsBelow, Natural
<1>8. Number(part, WordBytes, ByteBase) = Number(swapped, WordBytes, ByteBase)
  BY <1>6, <1>7, Sizes, NumberExtensional
<1>9. Number(part, WordBytes, ByteBase) \in 0..(Power(ByteBase, WordBytes) - 1)
  BY <1>2, Sizes, NumberBound
<1> QED  BY <1>3, <1>8, <1>9, BaseInBytes DEF part

LEMMA OperandIsRight ==
  ASSUME NEW d \in Digests
  PROVE  /\ Operand(d) \in Words
         /\ Value(Operand(d)) = Number(d, DigestLength, ByteBase)
<1> DEFINE w == Operand(d)
<1>1. \A k \in Index : NumWords - 1 - k \in Index
  BY Sizes DEF Index
<1>2. w \in Words
  BY <1>1, SwapIsRight DEF Operand, Words
<1>3. DigitsBelow(d, NumWords * WordBytes, ByteBase)
  BY ShareAssumption DEF DigitsBelow, DigestLength
<1>4. ASSUME NEW k \in 0..(NumWords - 1)
      PROVE  BigEndian(w)[k + 1] = Number(Part(d, k, WordBytes), WordBytes, ByteBase)
  <2>1. k \in Index /\ NumWords - 1 - (NumWords - 1 - k) = k
    BY Sizes DEF Index
  <2>2. BigEndian(w)[k + 1] = w[NumWords - 1 - k]
    BY <1>2, <2>1, BigEndianBelow
  <2>3. w[NumWords - 1 - k] = Byteswap(LoadWord(d, k))
    BY <1>1, <2>1 DEF Operand
  <2> QED  BY <2>1, <2>2, <2>3, SwapIsRight
<1> HIDE DEF w
<1>5. Number(BigEndian(w), NumWords, Power(ByteBase, WordBytes))
        = Number(d, NumWords * WordBytes, ByteBase)
  <2> DEFINE u == BigEndian(w)
  <2>1. ArePartsOf(u, d, NumWords, WordBytes, ByteBase)
    BY <1>4 DEF ArePartsOf
  <2> HIDE DEF u
  <2>2. Number(u, NumWords, Power(ByteBase, WordBytes))
          = Number(d, NumWords * WordBytes, ByteBase)
    <3>1. /\ NumWords \in Nat /\ WordBytes \in Nat /\ ByteBase \in Nat /\ ByteBase >= 1
      BY Sizes
    <3> QED  BY <1>3, <2>1, <3>1, NumberOfParts
  <2> QED  BY <2>2 DEF u
<1>6. Value(w) = Number(d, DigestLength, ByteBase)
  BY <1>5, BaseInBytes DEF Value, DigestLength
<1> QED  BY <1>2, <1>6 DEF w

-----------------------------------------------------------------------------
(* Bytes.                                                                  *)

\* A byte is written with two digits.
LEMMA ByteIsTwoDigits == Power(Radix, 2) = ByteBase
<1>1. Power(Radix, 0) = 1 /\ Power(Radix, 0 + 1) = Power(Radix, 0) * Radix
  BY Sizes, PowerStep
<1>2. Power(Radix, 1 + 1) = Power(Radix, 1) * Radix
  BY Sizes, PowerStep
<1> QED  BY <1>1, <1>2, Sizes DEF ByteBase

-----------------------------------------------------------------------------
(* The texts of a share.                                                   *)

\* Two digits of each of the bytes b, one after the other.
Pairs(b, n) == [q \in 1..(2 * n) |-> HexDigits(b[((q - 1) \div 2) + 1], 2)[((q - 1) % 2) + 1]]

LEMMA TwoDigits ==
  ASSUME NEW b \in Seq(0..(ByteBase - 1)), NEW k \in 1..Len(b)
  PROVE  /\ HexDigits(b[k], 2) \in [1..2 -> Digits]
         /\ Number(HexDigits(b[k], 2), 2, Radix) = b[k]
<1>1. b[k] \in 0..(ByteBase - 1) /\ b[k] \in Nat
  BY Sizes
<1>2. \A j \in 1..2 : Digit(b[k], 2 - j, Radix) \in Digits
  <2> TAKE j \in 1..2
  <2>1. 2 - j \in Nat
    OBVIOUS
  <2> QED  BY <1>1, <2>1, Sizes, DigitInRadix DEF Digits
<1>3. HexDigits(b[k], 2) \in [1..2 -> Digits]
  BY <1>2 DEF HexDigits
<1>4. Number([j \in 1..2 |-> Digit(b[k], 2 - j, Radix)], 2, Radix) = b[k]
  BY <1>1, ByteIsTwoDigits, Sizes, NumberOfDigits
<1> QED  BY <1>3, <1>4 DEF HexDigits

LEMMA FunctionIsSequence ==
  ASSUME NEW n \in Nat, NEW D, NEW f \in [1..n -> D]
  PROVE  f \in Seq(D) /\ Len(f) = n
  OBVIOUS

LEMMA Concatenation ==
  ASSUME NEW D, NEW s \in Seq(D), NEW t \in Seq(D)
  PROVE  /\ s \o t \in Seq(D) /\ Len(s \o t) = Len(s) + Len(t)
         /\ \A q \in 1..(Len(s) + Len(t)) :
              (s \o t)[q] = IF q <= Len(s) THEN s[q] ELSE t[q - Len(s)]
  OBVIOUS
LEMMA TwoMore ==
  ASSUME NEW D, NEW s \in Seq(D), NEW t \in Seq(D), Len(t) = 2
  PROVE  /\ s \o t \in [1..(Len(s) + 2) -> D]
         /\ \A q \in 1..Len(s) : (s \o t)[q] = s[q]
         /\ (s \o t)[Len(s) + 1] = t[1] /\ (s \o t)[Len(s) + 2] = t[2]
<1> DEFINE m == Len(s)
           n == Len(t)
           r == s \o t
<1>1. r \in Seq(D) /\ Len(r) = m + n
  BY Concatenation
<1>2. \A q \in 1..(m + n) : r[q] = IF q <= m THEN s[q] ELSE t[q - m]
  BY Concatenation
<1>3. m \in Nat /\ n = 2
  OBVIOUS
<1> HIDE DEF r, m, n
<1>4. \A q \in 1..m : r[q] = s[q]
  BY <1>2, <1>3
<1>5. /\ m + 1 \in 1..(m + n) /\ ~(m + 1 <= m) /\ (m + 1) - m = 1
      /\ m + 2 \in 1..(m + n) /\ ~(m + 2 <= m) /\ (m + 2) - m = 2
  BY <1>3
<1>6. r[m + 1] = t[1] /\ r[m + 2] = t[2]
  BY <1>2, <1>5
<1>7. r \in [1..(m + 2) -> D]
  BY <1>1, <1>3
<1> QED  BY <1>4, <1>6, <1>7 DEF r, m

LEMMA SamePointwise ==
  ASSUME NEW D, NEW n \in Nat, NEW f \in [1..n -> D], NEW g \in [1..n -> D],
         \A q \in 1..n : f[q] = g[q]
  PROVE  f = g
  OBVIOUS

\* The same of one byte more.
LEMMA PairsStep ==
  ASSUME NEW b \in Seq(0..(ByteBase - 1)), NEW k \in 1..Len(b)
  PROVE  /\ Pairs(b, k) \in Seq(Digits) /\ Len(Pairs(b, k)) = 2 * k
         /\ k = 1 => Pairs(b, k) = HexDigits(b[k], 2)
         /\ k > 1 => Pairs(b, k) = Pairs(b, k - 1) \o HexDigits(b[k], 2)
         /\ Pairs(b, k)[2 * k - 1] = HexDigits(b[k], 2)[1]
         /\ Pairs(b, k)[2 * k] = HexDigits(b[k], 2)[2]
<1> DEFINE h(j) == HexDigits(b[j], 2)
           at(q) == h(((q - 1) \div 2) + 1)[((q - 1) % 2) + 1]
<1>1. \A j \in 1..Len(b) : h(j) \in [1..2 -> Digits]
  BY TwoDigits
<1>3. at(2 * k - 1) = h(k)[1] /\ at(2 * k) = h(k)[2]
  <2>1. /\ ((2 * k - 1) - 1) \div 2 = k - 1 /\ ((2 * k - 1) - 1) % 2 = 0
        /\ (2 * k - 1) \div 2 = k - 1 /\ (2 * k - 1) % 2 = 1
    OBVIOUS
  <2>2. (k - 1) + 1 = k /\ 0 + 1 = 1 /\ 1 + 1 = 2
    OBVIOUS
  <2> HIDE DEF h
  <2> QED  BY <2>1, <2>2
<1>4. \A q \in 1..(2 * k) :
        /\ ((q - 1) \div 2) + 1 \in 1..Len(b) /\ ((q - 1) % 2) + 1 \in 1..2
  OBVIOUS
<1> HIDE DEF h
<1>5. \A q \in 1..(2 * k) : at(q) \in Digits
  BY <1>1, <1>4
<1>6. ASSUME NEW m \in {k - 1, k}
      PROVE  /\ Pairs(b, m) \in [1..(2 * m) -> Digits]
             /\ \A q \in 1..(2 * m) : Pairs(b, m)[q] = at(q)
  <2>1. \A q \in 1..(2 * m) : at(q) \in Digits
    BY <1>5
  <2>2. Pairs(b, m) = [q \in 1..(2 * m) |-> at(q)]
    BY DEF Pairs, h
  <2> HIDE DEF at
  <2> QED  BY <2>1, <2>2
<1> HIDE DEF at
<1>7. Pairs(b, k) \in Seq(Digits) /\ Len(Pairs(b, k)) = 2 * k
  <2>1. Pairs(b, k) \in [1..(2 * k) -> Digits] /\ 2 * k \in Nat
    <3>1. k \in {k - 1, k} /\ 2 * k \in Nat
      OBVIOUS
    <3> QED  BY <1>6, <3>1
  <2> QED  BY <2>1, FunctionIsSequence
<1>8. h(k) \in [1..2 -> Digits] /\ h(k) \in Seq(Digits) /\ Len(h(k)) = 2
  <2>1. h(k) \in [1..2 -> Digits]
    BY <1>1
  <2> QED  BY <2>1, FunctionIsSequence, 2 \in Nat
<1>9. ASSUME k = 1 PROVE Pairs(b, k) = h(k)
  <2>1. \A q \in 1..2 : at(q) = h(k)[q]
    BY <1>3, <1>9
  <2>2. Pairs(b, k) \in [1..2 -> Digits] /\ \A q \in 1..2 : Pairs(b, k)[q] = at(q)
    BY <1>6, <1>9
  <2> QED  BY <1>8, <2>1, <2>2
<1>10. ASSUME k > 1 PROVE Pairs(b, k) = Pairs(b, k - 1) \o h(k)
  <2> DEFINE p == Pairs(b, k - 1)
             m == 2 * (k - 1)
             r == p \o h(k)
  <2>1. /\ m \in Nat /\ 2 * k = m + 2 /\ m + 1 = 2 * k - 1
        /\ p \in [1..m -> Digits] /\ \A q \in 1..m : p[q] = at(q)
    BY <1>6, <1>10
  <2> HIDE DEF p, m
  <2>2. p \in Seq(Digits) /\ Len(p) = m
    BY <2>1
  <2>3. /\ r \in [1..(m + 2) -> Digits]
        /\ \A q \in 1..m : r[q] = p[q]
        /\ r[m + 1] = h(k)[1] /\ r[m + 2] = h(k)[2]
    <3> DEFINE t == h(k)
    <3>1. t \in Seq(Digits) /\ Len(t) = 2
      BY <1>8
    <3> HIDE DEF t
    <3>2. /\ p \o t \in [1..(Len(p) + 2) -> Digits]
          /\ \A q \in 1..Len(p) : (p \o t)[q] = p[q]
          /\ (p \o t)[Len(p) + 1] = t[1] /\ (p \o t)[Len(p) + 2] = t[2]
      BY <2>2, <3>1, TwoMore
    <3> QED  BY <2>2, <3>2 DEF t
  <2> HIDE DEF r
  <2>4. ASSUME NEW q \in 1..(m + 2) PROVE r[q] = at(q)
    <3>1. q \in 1..m \/ q = 2 * k - 1 \/ q = 2 * k
      BY <2>1
    <3> QED  BY <1>3, <2>1, <2>3, <3>1
  <2>5. /\ m + 2 \in Nat /\ Pairs(b, k) \in [1..(m + 2) -> Digits]
        /\ \A q \in 1..(m + 2) : Pairs(b, k)[q] = at(q)
    <3>1. k \in {k - 1, k}
      OBVIOUS
    <3>2. /\ Pairs(b, k) \in [1..(2 * k) -> Digits]
          /\ \A q \in 1..(2 * k) : Pairs(b, k)[q] = at(q)
      BY <1>6, <3>1
    <3> QED  BY <2>1, <3>2
  <2>6. Pairs(b, k) = r
    <3> DEFINE f == Pairs(b, k)
               n == m + 2
    <3>1. /\ n \in Nat /\ f \in [1..n -> Digits] /\ r \in [1..n -> Digits]
          /\ \A q \in 1..n : f[q] = r[q]
      BY <2>3, <2>4, <2>5
    <3> HIDE DEF f, n
    <3>2. f = r
      BY <3>1, SamePointwise
    <3> QED  BY <3>2 DEF f
  <2> QED  BY <2>6 DEF r, p
<1>11. 2 * k - 1 \in 1..(2 * k) /\ 2 * k \in 1..(2 * k)
  OBVIOUS
<1> QED  BY <1>3, <1>6, <1>7, <1>9, <1>10, <1>11 DEF h

\* A sequence of bytes is printed as its pairs of digits.
LEMMA PrintsPairs ==
  ASSUME NEW b \in Seq(0..(ByteBase - 1)), Len(b) >= 1
  PROVE  HexOfBytes(b) = Pairs(b, Len(b))
<1> DEFINE n == Len(b)
           seqs == [k \in 1..n |-> HexDigits(b[k], 2)]
           Rec(f) == [k \in 1..n |-> IF k = 1 THEN seqs[k] ELSE f[k - 1] \o seqs[k]]
           F == CHOOSE f : f = Rec(f)
           g == [k \in 1..n |-> Pairs(b, k)]
<1>1. n \in Nat /\ Len(seqs) = n
  OBVIOUS
<1>2. HexOfBytes(b) = F[n]
  BY <1>1 DEF HexOfBytes, FlattenSeq
<1>3. g = Rec(g)
  <2>1. ASSUME NEW k \in 1..n
        PROVE  Pairs(b, k) = IF k = 1 THEN seqs[k] ELSE g[k - 1] \o seqs[k]
    <3>1. k # 1 => g[k - 1] = Pairs(b, k - 1)
      OBVIOUS
    <3>2. seqs[k] = HexDigits(b[k], 2)
      OBVIOUS
    <3> HIDE DEF g, seqs
    <3>3. CASE k = 1
      BY <3>2, <3>3, PairsStep
    <3>4. CASE k # 1
      <4>1. k > 1
        BY <3>4
      <4>2. Pairs(b, k) = Pairs(b, k - 1) \o HexDigits(b[k], 2)
        BY <4>1, PairsStep
      <4> QED  BY <3>1, <3>2, <3>4, <4>2
    <3> QED  BY <3>3, <3>4
  <2> QED  BY <2>1
<1>4. F = Rec(F)
  BY <1>3
<1> HIDE DEF F, g, seqs
<1>5. \A k \in 1..n : /\ F[k] = IF k = 1 THEN seqs[k] ELSE F[k - 1] \o seqs[k]
                      /\ g[k] = IF k = 1 THEN seqs[k] ELSE g[k - 1] \o seqs[k]
  BY <1>3, <1>4
<1> DEFINE S == {k \in 0..n : k >= 1 => F[k] = g[k]}
<1>6. 0 \in S
  OBVIOUS
<1>7. ASSUME NEW k \in 0..(n - 1), k \in S
      PROVE  k + 1 \in S
  <2>1. k + 1 \in 1..n /\ (k + 1) - 1 = k
    OBVIOUS
  <2>2. CASE k = 0
    BY <1>5, <2>1, <2>2
  <2>3. CASE k >= 1
    <3>1. F[k] = g[k] /\ k + 1 # 1
      BY <1>7, <2>3
    <3>2. F[k + 1] = F[k] \o seqs[k + 1] /\ g[k + 1] = g[k] \o seqs[k + 1]
      BY <1>5, <2>1, <3>1
    <3>3. F[k + 1] = g[k + 1]
      BY <3>1, <3>2
    <3> QED  BY <1>1, <3>3
  <2> QED  BY <2>2, <2>3
<1> HIDE DEF S
<1>8. n \in S
  BY <1>1, <1>6, <1>7, Induction
<1>9. F[n] = g[n]
  BY <1>1, <1>8 DEF S
<1> QED  BY <1>1, <1>2, <1>9 DEF g

\* Read back two digits at a time, the text of bytes is the bytes.
LEMMA BytesReadBack ==
  ASSUME NEW b \in Seq(0..(ByteBase - 1))
  PROVE  Len(HexOfBytes(b)) = 2 * Len(b) /\ ReadBytes(HexOfBytes(b)) = b
<1> DEFINE n == Len(b)
           s == HexOfBytes(b)
<1>1. CASE n = 0
  <2>1. b = <<>>
    BY <1>1
  <2>2. s = <<>>
    BY <2>1 DEF HexOfBytes, FlattenSeq
  <2>3. ReadBytes(<<>>) = <<>>
    BY DEF ReadBytes
  <2> QED  BY <2>1, <2>2, <2>3
<1>2. CASE n >= 1
  <2>1. s = Pairs(b, n) /\ n \in Nat
    BY <1>2, PrintsPairs
  <2>2. Len(s) = 2 * n
    BY <1>2, <2>1, PairsStep
  <2>3. ASSUME NEW k \in 1..n
        PROVE  Number(Part(s, k - 1, 2), 2, Radix) = b[k]
    <3> DEFINE u == Part(s, k - 1, 2)
    <3>1. /\ Pairs(b, k)[2 * k - 1] = HexDigits(b[k], 2)[1]
          /\ Pairs(b, k)[2 * k] = HexDigits(b[k], 2)[2]
      BY PairsStep
    <3>2. \A q \in 1..(2 * k) : q \in 1..(2 * n) /\ Pairs(b, k)[q] = Pairs(b, n)[q]
      BY <2>1 DEF Pairs
    <3>3. 2 * k - 1 \in 1..(2 * k) /\ 2 * k \in 1..(2 * k)
      OBVIOUS
    <3>4. s[2 * k - 1] = HexDigits(b[k], 2)[1] /\ s[2 * k] = HexDigits(b[k], 2)[2]
      BY <2>1, <3>1, <3>2, <3>3
    <3>5. u[1] = s[2 * k - 1] /\ u[2] = s[2 * k]
      <4>1. (k - 1) * 2 + 1 = 2 * k - 1 /\ (k - 1) * 2 + 2 = 2 * k
        OBVIOUS
      <4> HIDE DEF s
      <4> QED  BY <4>1 DEF Part
    <3>6. HexDigits(b[k], 2) \in [1..2 -> Digits] /\ Number(HexDigits(b[k], 2), 2, Radix) = b[k]
      BY TwoDigits
    <3> DEFINE t == HexDigits(b[k], 2)
    <3>7. \A j \in 1..2 : t[j] = u[j]
      <4> HIDE DEF u, s, t
      <4>1. \A j \in 1..2 : j = 1 \/ j = 2
        OBVIOUS
      <4> QED  BY <3>4, <3>5, <4>1 DEF t
    <3>8. Natural(t, 2)
      BY <3>6, Sizes DEF Natural, Digits
    <3> HIDE DEF u, s, t
    <3>9. Number(t, 2, Radix) = Number(u, 2, Radix)
      BY <3>7, <3>8, Sizes, NumberExtensional
    <3> QED  BY <3>6, <3>9 DEF t, u
  <2> HIDE DEF s
  <2>4. ReadBytes(s) = [k \in 1..n |-> b[k]]
    <3>1. Len(s) \div 2 = n
      BY <2>1, <2>2
    <3> QED  BY <2>3, <3>1 DEF ReadBytes
  <2> QED  BY <2>2, <2>4 DEF s
<1>3. n \in Nat
  OBVIOUS
<1> QED  BY <1>1, <1>2, <1>3

-----------------------------------------------------------------------------
(* The invariant.                                                          *)

Prefix(w, n) == Number(BigEndian(w), n, Base)

LEMMA PrefixStep ==
  ASSUME NEW w \in Words
  PROVE  /\ Prefix(w, 0) = 0
         /\ \A k \in 0..NumWords : Prefix(w, k) \in Nat
         /\ \A j \in 1..NumWords :
              Prefix(w, NumWords - (j - 1)) = Prefix(w, NumWords - j) * Base + w[j - 1]
         /\ Prefix(w, NumWords) = Value(w)
<1> DEFINE s == BigEndian(w)
<1>1. /\ DigitsBelow(s, NumWords, Base)
      /\ \A k \in Index : s[k + 1] = w[NumWords - 1 - k]
  BY BigEndianBelow
<1>2. Natural(s, NumWords)
  BY <1>1, Sizes DEF DigitsBelow, Natural
<1> HIDE DEF s
<1>3. /\ Number(s, 0, Base) = 0
      /\ \A k \in 0..NumWords : Number(s, k, Base) \in Nat
      /\ \A k \in 0..(NumWords - 1) :
           Number(s, k + 1, Base) = Number(s, k, Base) * Base + s[k + 1]
  BY <1>2, Sizes, NumberStep
<1>4. ASSUME NEW j \in 1..NumWords
      PROVE  Prefix(w, NumWords - (j - 1)) = Prefix(w, NumWords - j) * Base + w[j - 1]
  <2>1. /\ NumWords - j \in Index /\ NumWords - (j - 1) = (NumWords - j) + 1
        /\ NumWords - 1 - (NumWords - j) = j - 1
    BY Sizes DEF Index
  <2>2. s[(NumWords - j) + 1] = w[j - 1]
    BY <1>1, <2>1
  <2>3. Number(s, (NumWords - j) + 1, Base)
          = Number(s, NumWords - j, Base) * Base + s[(NumWords - j) + 1]
    BY <1>3, <2>1 DEF Index
  <2> QED  BY <2>1, <2>2, <2>3 DEF Prefix, s
<1> QED  BY <1>3, <1>4 DEF Prefix, Value, s

\* The words below the j-th have no part in the prefix.
LEMMA PrefixExtensional ==
  ASSUME NEW v \in Words, NEW w \in Words, NEW j \in 0..NumWords,
         \A k \in Index : k >= j => v[k] = w[k]
  PROVE  Prefix(v, NumWords - j) = Prefix(w, NumWords - j)
<1> DEFINE s == BigEndian(v)
           t == BigEndian(w)
           n == NumWords - j
<1>1. n \in Nat
  BY Sizes
<1>2. Natural(s, n)
  BY Sizes, BigEndianBelow DEF DigitsBelow, Natural
<1>3. \A k \in 1..n : s[k] = t[k]
  <2> TAKE k \in 1..n
  <2>1. k \in 1..NumWords /\ NumWords - k \in Index /\ NumWords - k >= j
    BY Sizes DEF Index
  <2> QED  BY <2>1 DEF BigEndian
<1> HIDE DEF s, t, n
<1>4. Number(s, n, Base) = Number(t, n, Base)
  BY <1>1, <1>2, <1>3, Sizes, NumberExtensional
<1> QED  BY <1>4 DEF Prefix, s, t, n

\* The word that differs first decides.
LEMMA WordDecides ==
  ASSUME NEW v \in Words, NEW w \in Words, NEW j \in 1..NumWords,
         Prefix(v, NumWords - j) = Prefix(w, NumWords - j), v[j - 1] < w[j - 1]
  PROVE  Value(v) < Value(w)
<1> DEFINE s == BigEndian(v)
           t == BigEndian(w)
           k == NumWords - j
<1>1. k \in 0..(NumWords - 1) /\ NumWords - 1 - k = j - 1
  BY Sizes
<1>2. /\ DigitsBelow(s, NumWords, Base) /\ DigitsBelow(t, NumWords, Base)
      /\ s[k + 1] = v[j - 1] /\ t[k + 1] = w[j - 1]
  BY <1>1, BigEndianBelow DEF Index
<1>3. Number(s, k, Base) = Number(t, k, Base)
  BY DEF Prefix
<1> HIDE DEF s, t, k
<1>4. Number(s, NumWords, Base) < Number(t, NumWords, Base)
  BY <1>1, <1>2, <1>3, Sizes, DigitDecides
<1> QED  BY <1>4 DEF Value, s, t

\* While operator/ runs: the words done so far are the quotient of the words
\* seen so far.
Dividing ==
  pc = "divide" =>
    /\ max_target = ParseHexToUint256(pool_max_target)
    /\ remainder < fixed_difficulty
    /\ Prefix(max_target, NumWords - i)
         = Prefix(fixed_target, NumWords - i) * fixed_difficulty + remainder

\* What the device holds then is the text of the quotient.
TargetUploaded ==
  pc \notin {"parse", "divide"} =>
    /\ max_target = ParseHexToUint256(pool_max_target)
    /\ Value(fixed_target) = Value(max_target) \div fixed_difficulty
    /\ d_target_hex = Uint256ToHex(fixed_target)

\* The operands of the comparison, and what it has found while it runs.
Comparing ==
  pc \notin {"parse", "divide", "kernel"} =>
    /\ digest \in Digests /\ hash_val = Operand(digest)
    /\ target_val = fixed_target
    /\ pc = "compare" => Prefix(hash_val, NumWords - i) = Prefix(target_val, NumWords - i)

Inv == TypeOK /\ Dividing /\ TargetUploaded /\ Comparing /\ ComparisonRight

LEMMA InitInv == Init => Inv
<1>1. Zeros \in Words
  BY Sizes DEF Zeros, Words
<1>2. \A t \in PoolTexts : t \in [1..TextLength -> Digits]
  BY ShareAssumption
<1>3. 0 \in 0..NumWords /\ 0 \in 0..(Base - 1)
  BY Sizes
<1>4. Init => TypeOK
  BY <1>1, <1>2, <1>3 DEF Init, TypeOK
<1>5. Init => pc = "parse"
  BY DEF Init
<1> QED  BY <1>4, <1>5
         DEF Inv, Dividing, TargetUploaded, Comparing, ComparisonRight

\* One turn of operator/ keeps the quotient right.
LEMMA DivideWordInv ==
  ASSUME Inv, DivideWord
  PROVE  Inv'
<1> DEFINE d == fixed_difficulty
           w == max_target[i - 1]
           part == (remainder % Base) * Base + w
           q == part \div d
           r == part % d
           a == Prefix(fixed_target, NumWords - i)
<1>1. /\ pc = "divide" /\ i \in 1..NumWords /\ i - 1 \in Index /\ pc' = pc /\ i' = i - 1
      /\ i - 1 \in 0..NumWords
  BY Sizes DEF Inv, TypeOK, DivideWord, Index
<1>2. /\ d \in 1..Base /\ d \in Nat /\ w \in 0..(Base - 1) /\ remainder \in 0..(d - 1)
      /\ max_target \in Words /\ fixed_target \in Words
  <2>1. /\ d \in Divisors /\ max_target \in Words /\ fixed_target \in Words
        /\ remainder \in 0..(Base - 1) /\ remainder < d
    BY <1>1 DEF Inv, TypeOK, Dividing
  <2>2. d \in 1..Base
    BY <2>1, ShareAssumption
  <2>3. w \in 0..(Base - 1)
    BY <1>1, <2>1 DEF Words
  <2> QED  BY <2>1, <2>2, <2>3, Sizes
<1>3. remainder % Base = remainder
  <2>1. remainder \in Nat /\ remainder \in 0..(Base - 1) /\ remainder = 0 * Base + remainder
    BY <1>2, Sizes
  <2>2. remainder = remainder % Base
    BY <2>1, Sizes, RemainderUnique
  <2> QED  BY <2>2
<1>4. part = remainder * Base + w /\ part \in Nat
  <2>1. part = remainder * Base + w
    BY <1>3
  <2>2. remainder * Base \in Nat
    BY <1>2, Sizes
  <2> QED  BY <1>2, <2>1, <2>2
<1>5. a \in Nat
  <2>1. NumWords - i \in 0..NumWords
    BY <1>1, Sizes
  <2> QED  BY <1>2, <2>1, PrefixStep
<1>6. fixed_target' = [fixed_target EXCEPT ![i - 1] = q % Base] /\ remainder' = r
  BY DEF DivideWord
<1> HIDE DEF part
<1>7. /\ q \in 0..(Base - 1) /\ r \in 0..(d - 1)
      /\ (a * d + remainder) * Base + w = (a * Base + q) * d + r
  <2>1. IsTurn(Base, d, remainder, w, a, part)
    BY <1>2, <1>4, <1>5, Sizes DEF IsTurn
  <2> HIDE DEF d, w, a
  <2> QED  BY <2>1, DivideTurn DEF q, r
<1> HIDE DEF q, r
<1>8. q % Base = q
  <2>1. q \in Nat /\ q = 0 * Base + q
    BY <1>7, Sizes
  <2>2. q = q % Base
    BY <1>7, <2>1, Sizes, RemainderUnique
  <2> QED  BY <2>2
<1>9. /\ fixed_target' \in Words
      /\ fixed_target'[i - 1] = q
      /\ \A k \in Index : k >= i => fixed_target'[k] = fixed_target[k]
  BY <1>1, <1>2, <1>6, <1>7, <1>8 DEF Words, Index
<1>10. Prefix(fixed_target', NumWords - i) = a
  BY <1>1, <1>2, <1>9, Sizes, PrefixExtensional
<1>11. Prefix(fixed_target', NumWords - (i - 1)) = a * Base + q
  BY <1>1, <1>9, <1>10, PrefixStep
<1>12. Prefix(max_target, NumWords - (i - 1)) = (a * d + remainder) * Base + w
  <2>1. Prefix(max_target, NumWords - i) = a * d + remainder
    BY <1>1 DEF Inv, Dividing
  <2> QED  BY <1>1, <1>2, <2>1, PrefixStep
<1>13. UNCHANGED <<setVars, d_target_hex, kernelVars>>
  BY DEF DivideWord
<1>14. TypeOK'
  <2>1. r \in 0..(Base - 1)
    BY <1>2, <1>7, Sizes
  <2> QED  BY <1>1, <1>6, <1>9, <1>13, <2>1 DEF Inv, TypeOK, setVars, kernelVars
<1>15. Dividing'
  <2>1. max_target' = ParseHexToUint256(pool_max_target')
    BY <1>1, <1>13 DEF Inv, Dividing, setVars
  <2>2. remainder' < fixed_difficulty'
    BY <1>2, <1>6, <1>7, <1>13 DEF setVars
  <2>3. Prefix(max_target, NumWords - (i - 1))
          = Prefix(fixed_target', NumWords - (i - 1)) * d + r
    BY <1>7, <1>11, <1>12
  <2> QED  BY <1>1, <1>6, <1>13, <2>1, <2>2, <2>3 DEF Dividing, setVars, Prefix
<1>16. TargetUploaded' /\ Comparing' /\ ComparisonRight'
  BY <1>1 DEF TargetUploaded, Comparing, ComparisonRight
<1> QED  BY <1>14, <1>15, <1>16 DEF Inv

LEMMA ParseMaxTargetInv ==
  ASSUME Inv, ParseMaxTarget
  PROVE  Inv'
<1>1. /\ pc' = "divide" /\ i' = NumWords /\ remainder' = 0 /\ fixed_target' = Zeros
      /\ max_target' = ParseHexToUint256(pool_max_target)
      /\ UNCHANGED <<pool_max_target, fixed_difficulty, d_target_hex, kernelVars>>
  BY DEF ParseMaxTarget
<1>2. max_target' \in Words
  <2>1. pool_max_target \in [1..TextLength -> Digits]
    BY ShareAssumption DEF Inv, TypeOK
  <2> QED  BY <1>1, <2>1, ParseIsRight
<1>3. Zeros \in Words
  BY Sizes DEF Zeros, Words
<1>4. TypeOK'
  BY <1>1, <1>2, <1>3, Sizes DEF Inv, TypeOK, kernelVars
<1>5. Dividing'
  <2>1. Prefix(max_target', NumWords - i') = 0 /\ Prefix(fixed_target', NumWords - i') = 0
    <3>1. NumWords - NumWords = 0
      BY Sizes
    <3> QED  BY <1>1, <1>2, <1>3, <3>1, PrefixStep
  <2>2. fixed_difficulty \in 1..Base
    BY ShareAssumption DEF Inv, TypeOK
  <2>3. 0 < fixed_difficulty /\ 0 = 0 * fixed_difficulty + 0
    BY <2>2, Sizes
  <2>4. Prefix(max_target', NumWords - i')
          = Prefix(fixed_target', NumWords - i') * fixed_difficulty + 0
    BY <2>1, <2>3
  <2> QED  BY <1>1, <2>3, <2>4 DEF Dividing, Prefix
<1>6. TargetUploaded' /\ Comparing' /\ ComparisonRight'
  BY <1>1 DEF TargetUploaded, Comparing, ComparisonRight
<1> QED  BY <1>4, <1>5, <1>6 DEF Inv

LEMMA UploadTargetInv ==
  ASSUME Inv, UploadTarget
  PROVE  Inv'
<1>1. /\ pc = "divide" /\ i = 0 /\ pc' = "kernel" /\ d_target_hex' = Uint256ToHex(fixed_target)
      /\ UNCHANGED <<i, setVars, divideVars, kernelVars>>
  BY DEF UploadTarget
<1>2. fixed_target \in Words /\ max_target \in Words
  BY DEF Inv, TypeOK
<1>3. TypeOK'
  BY <1>1, <1>2, FormatThenParse DEF Inv, TypeOK, setVars, divideVars, kernelVars
<1>4. Value(fixed_target) = Value(max_target) \div fixed_difficulty
  <2> DEFINE q == Value(fixed_target)
             p == Value(max_target)
             d == fixed_difficulty
  <2>1. NumWords - i = NumWords
    BY <1>1, Sizes
  <2>2. p = q * d + remainder
    BY <1>1, <1>2, <2>1, PrefixStep DEF Inv, Dividing
  <2>3. p \in Nat /\ q \in Nat
    BY <1>2, PrefixStep, Sizes
  <2>4. d \in 1..Base /\ remainder \in 0..(Base - 1) /\ remainder < d
    BY <1>1, ShareAssumption DEF Inv, TypeOK, Dividing
  <2>5. d \in Nat /\ d >= 1 /\ remainder \in 0..(d - 1)
    BY <2>4, Sizes
  <2> HIDE DEF p, q, d
  <2>6. q = p \div d
    BY <2>2, <2>3, <2>5, QuotientUnique
  <2> QED  BY <2>6 DEF p, q, d
<1>5. TargetUploaded'
  BY <1>1, <1>4 DEF Inv, Dividing, TargetUploaded, setVars, divideVars, Value, BigEndian
<1>6. Dividing' /\ Comparing' /\ ComparisonRight'
  BY <1>1 DEF Dividing, Comparing, ComparisonRight
<1> QED  BY <1>3, <1>5, <1>6 DEF Inv

LEMMA LoadOperandsInv ==
  ASSUME Inv, LoadOperands
  PROVE  Inv'
<1>1. /\ pc = "kernel" /\ pc' = "compare" /\ i' = NumWords
      /\ digest' \in Digests /\ hash_val' = Operand(digest')
      /\ target_val' = ParseHexToUint256(d_target_hex)
      /\ UNCHANGED <<setVars, divideVars, d_target_hex, verdict>>
  BY DEF LoadOperands, Operand
<1>2. fixed_target \in Words
  BY DEF Inv, TypeOK
<1>3. target_val' = fixed_target
  BY <1>1, <1>2, FormatThenParse DEF Inv, TargetUploaded
<1>4. hash_val' \in Words
  BY <1>1, OperandIsRight
<1>5. TypeOK'
  BY <1>1, <1>2, <1>3, <1>4, Sizes DEF Inv, TypeOK, setVars, divideVars
<1>6. TargetUploaded'
  BY <1>1 DEF Inv, TargetUploaded, setVars, divideVars, Value, BigEndian
<1>7. Comparing'
  <2>1. NumWords - i' = 0
    BY <1>1, Sizes
  <2>2. Prefix(hash_val', NumWords - i') = 0 /\ Prefix(target_val', NumWords - i') = 0
    BY <1>2, <1>3, <1>4, <2>1, PrefixStep
  <2> QED  BY <1>1, <1>3, <2>2 DEF Comparing, divideVars, Prefix
<1>8. Dividing' /\ ComparisonRight'
  BY <1>1 DEF Dividing, ComparisonRight
<1> QED  BY <1>5, <1>6, <1>7, <1>8 DEF Inv

\* One turn of is_less_or_equal: the words that differ decide as the numbers do.
LEMMA CompareWordInv ==
  ASSUME Inv, CompareWord
  PROVE  Inv'
<1>1. /\ pc = "compare" /\ i \in 1..NumWords /\ i - 1 \in Index /\ i - 1 \in 0..NumWords
      /\ UNCHANGED <<setVars, divideVars, d_target_hex, digest, hash_val, target_val>>
  BY Sizes DEF CompareWord, Inv, TypeOK, Index
<1>2. /\ hash_val \in Words /\ target_val \in Words
      /\ Prefix(hash_val, NumWords - i) = Prefix(target_val, NumWords - i)
  BY <1>1 DEF Inv, TypeOK, Comparing
<1>3. TargetUploaded'
  BY <1>1 DEF Inv, TargetUploaded, CompareWord, setVars, divideVars, Value, BigEndian
<1>4. CASE hash_val[i - 1] = target_val[i - 1]
  <2>1. i' = i - 1 /\ pc' = pc /\ verdict' = verdict
    BY <1>4 DEF CompareWord
  <2>2. TypeOK'
    BY <1>1, <2>1 DEF Inv, TypeOK, setVars, divideVars
  <2>3. Prefix(hash_val, NumWords - (i - 1)) = Prefix(target_val, NumWords - (i - 1))
    BY <1>1, <1>2, <1>4, PrefixStep
  <2>4. Comparing'
    BY <1>1, <2>1, <2>3 DEF Inv, Comparing, divideVars, Prefix
  <2>5. Dividing' /\ ComparisonRight'
    BY <1>1, <2>1 DEF Dividing, ComparisonRight
  <2> QED  BY <1>3, <2>2, <2>4, <2>5 DEF Inv
<1>5. CASE hash_val[i - 1] # target_val[i - 1]
  <2>1. /\ pc' = "decided" /\ i' = i
        /\ verdict' = (hash_val[i - 1] < target_val[i - 1])
    BY <1>5 DEF CompareWord
  <2>2. TypeOK'
    BY <1>1, <2>1 DEF Inv, TypeOK, setVars, divideVars
  <2>3. Value(hash_val) \in Nat /\ Value(target_val) \in Nat
    BY <1>2, PrefixStep, Sizes
  <2>4. hash_val[i - 1] \in Nat /\ target_val[i - 1] \in Nat
    BY <1>1, <1>2, Sizes DEF Words
  <2>5. hash_val[i - 1] < target_val[i - 1] => Value(hash_val) < Value(target_val)
    BY <1>1, <1>2, WordDecides
  <2>6. target_val[i - 1] < hash_val[i - 1] => Value(target_val) < Value(hash_val)
    BY <1>1, <1>2, WordDecides
  <2>7. (hash_val[i - 1] < target_val[i - 1]) = (Value(hash_val) <= Value(target_val))
    BY <1>5, <2>3, <2>4, <2>5, <2>6
  <2>8. ComparisonRight'
    BY <1>1, <2>1, <2>7 DEF ComparisonRight, Value, BigEndian
  <2>9. Comparing' /\ Dividing'
    BY <1>1, <2>1 DEF Inv, Comparing, Dividing, divideVars
  <2> QED  BY <1>3, <2>2, <2>8, <2>9 DEF Inv
<1> QED  BY <1>4, <1>5

LEMMA CompareEndsInv ==
  ASSUME Inv, CompareEnds
  PROVE  Inv'
<1>1. /\ pc = "compare" /\ i = 0 /\ verdict' = TRUE /\ pc' = "decided"
      /\ UNCHANGED <<i, setVars, divideVars, d_target_hex, digest, hash_val, target_val>>
  BY DEF CompareEnds
<1>2. hash_val \in Words /\ target_val \in Words
  BY DEF Inv, TypeOK
<1>3. Value(hash_val) <= Value(target_val)
  <2>1. NumWords - i = NumWords
    BY <1>1, Sizes
  <2>2. Prefix(hash_val, NumWords - i) = Prefix(target_val, NumWords - i)
    BY <1>1 DEF Inv, Comparing
  <2>3. Value(hash_val) = Value(target_val)
    BY <1>2, <2>1, <2>2, PrefixStep
  <2>4. Value(hash_val) \in Nat
    BY <1>2, PrefixStep, Sizes
  <2> QED  BY <2>3, <2>4
<1>4. TypeOK'
  BY <1>1 DEF Inv, TypeOK, setVars, divideVars
<1>5. TargetUploaded'
  BY <1>1 DEF Inv, TargetUploaded, setVars, divideVars, Value, BigEndian
<1>6. Comparing' /\ Dividing'
  BY <1>1 DEF Inv, Comparing, Dividing, divideVars
<1>7. ComparisonRight'
  BY <1>1, <1>3 DEF ComparisonRight, Value, BigEndian
<1> QED  BY <1>4, <1>5, <1>6, <1>7 DEF Inv

LEMMA NextInv == Inv /\ [Next]_vars => Inv'
<1> SUFFICES ASSUME Inv, [Next]_vars PROVE Inv'
  OBVIOUS
<1> DEFINE same == UNCHANGED <<i, setVars, divideVars, d_target_hex, kernelVars>>
<1>1. CASE ParseMaxTarget
  BY <1>1, ParseMaxTargetInv
<1>2. CASE DivideWord
  BY <1>2, DivideWordInv
<1>3. CASE UploadTarget
  BY <1>3, UploadTargetInv
<1>4. CASE LoadOperands
  BY <1>4, LoadOperandsInv
<1>5. CASE CompareWord
  BY <1>5, CompareWordInv
<1>6. CASE CompareEnds
  BY <1>6, CompareEndsInv
<1>7. ASSUME same, pc' = pc \/ (pc = "decided" /\ pc' = "submitted") PROVE Inv'
  <2>1. TypeOK'
    BY <1>7 DEF Inv, TypeOK, setVars, divideVars, kernelVars
  <2>2. Dividing' /\ TargetUploaded' /\ Comparing' /\ ComparisonRight'
    BY <1>7 DEF Inv, Dividing, TargetUploaded, Comparing, ComparisonRight, Value, BigEndian,
                Prefix, setVars, divideVars, kernelVars
  <2> QED  BY <2>1, <2>2 DEF Inv
<1>8. CASE Submit
  BY <1>7, <1>8 DEF Submit
<1>9. CASE Done \/ UNCHANGED vars
  <2>1. UNCHANGED vars
    BY <1>9 DEF Done
  <2> QED  BY <1>7, <2>1 DEF vars
<1> QED  BY <1>1, <1>2, <1>3, <1>4, <1>5, <1>6, <1>8, <1>9 DEF Next

LEMMA InvHolds == Spec => []Inv
<1> QED  BY InitInv, NextInv, PTL DEF Spec

-----------------------------------------------------------------------------
(* Theorems.                                                               *)

\* Every word fits its 32 bits, and every text is of full length.
THEOREM TypeCorrect == Spec => []TypeOK
<1>1. Inv => TypeOK
  BY DEF Inv
<1> QED  BY <1>1, InvHolds, PTL

\* operator/ divides: no carry is lost, for any divisor up to the base.
THEOREM DivisionIsRight == Spec => []DivisionRight
<1>1. Inv => DivisionRight
  BY DEF Inv, TargetUploaded, DivisionRight
<1> QED  BY <1>1, InvHolds, PTL

\* is_less_or_equal compares.
THEOREM ComparisonIsRight == Spec => []ComparisonRight
<1>1. Inv => ComparisonRight
  BY DEF Inv
<1> QED  BY <1>1, InvHolds, PTL

\* From the text of the target of difficulty 1 and the bytes of a digest to
\* the verdict: a nonce is accepted exactly if its digest meets the target.
THEOREM SolutionsAreRight == Spec => []SolutionsMeetTarget
<1>1. ASSUME Inv PROVE SolutionsMeetTarget
  <2>1. SUFFICES ASSUME pc \in {"decided", "submitted"}
                 PROVE  verdict = (Number(digest, DigestLength, ByteBase)
                                     <= Number(pool_max_target, TextLength, Radix)
                                          \div fixed_difficulty)
    BY DEF SolutionsMeetTarget
  <2>2. /\ verdict = (Value(hash_val) <= Value(target_val))
        /\ digest \in Digests /\ hash_val = Operand(digest) /\ target_val = fixed_target
        /\ max_target = ParseHexToUint256(pool_max_target)
        /\ Value(fixed_target) = Value(max_target) \div fixed_difficulty
    BY <1>1, <2>1 DEF Inv, ComparisonRight, Comparing, TargetUploaded
  <2>3. pool_max_target \in [1..TextLength -> Digits]
    BY <1>1, ShareAssumption DEF Inv, TypeOK
  <2>4. Value(max_target) = Number(pool_max_target, TextLength, Radix)
    BY <2>2, <2>3, ParseIsRight
  <2>5. Value(hash_val) = Number(digest, DigestLength, ByteBase)
    BY <2>2, OperandIsRight
  <2> QED  BY <2>2, <2>4, <2>5
<1> QED  BY <1>1, InvHolds, PTL

\* The nonce and the mix hash the pool reads are those that were found.
THEOREM ShareIsReadBack == Spec => []ShareReadBack
<1>1. Init => ShareReadBack
  BY DEF Init, ShareReadBack
<1>2. ASSUME ShareReadBack, [Next]_vars PROVE ShareReadBack'
  <2>1. CASE Submit
    <3> DEFINE w == 2 * WordDigits
    <3>1. PICK n \in Nonces, m \in Mixes :
            /\ nonce' = n /\ mix' = m
            /\ params'.nonce = HexDigits(n, w) /\ params'.mix = HexOfBytes(m)
      BY <2>1 DEF Submit
    <3>2. w \in Nat /\ n \in 0..(Power(Radix, w) - 1)
      BY Sizes, ShareAssumption
    <3> HIDE DEF w
    <3>3. Len(HexDigits(n, w)) = w
      BY <3>2 DEF HexDigits
    <3>4. Number(HexDigits(n, w), w, Radix) = n
      BY <3>2, Sizes, NumberOfDigits DEF HexDigits
    <3>5. Len(HexOfBytes(m)) = 2 * Len(m) /\ ReadBytes(HexOfBytes(m)) = m
      BY ShareAssumption, BytesReadBack
    <3> QED  BY <3>1, <3>3, <3>4, <3>5 DEF ShareReadBack, w
  <2>2. CASE pc' # "submitted"
    BY <2>2 DEF ShareReadBack
  <2>3. CASE UNCHANGED vars
    BY <1>2, <2>3 DEF ShareReadBack, vars, shareVars
  <2>4. CASE DivideWord \/ CompareWord
    <3>1. pc' # "submitted"
      BY <2>4 DEF DivideWord, CompareWord
    <3> QED  BY <2>2, <3>1
  <2>5. CASE ParseMaxTarget \/ UploadTarget \/ LoadOperands \/ CompareEnds
    <3>1. pc' # "submitted"
      BY <2>5 DEF ParseMaxTarget, UploadTarget, LoadOperands, CompareEnds
    <3> QED  BY <2>2, <3>1
  <2>6. CASE Done
    BY <2>3, <2>6 DEF Done
  <2> QED  BY <1>2, <2>1, <2>3, <2>4, <2>5, <2>6 DEF Next
<1> QED  BY <1>1, <1>2, PTL DEF Spec

=============================================================================
