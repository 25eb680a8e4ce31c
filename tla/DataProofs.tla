------------------------------- MODULE DataProofs ------------------------------
(***************************************************************************)
(* What the register operations compute and what the loads leave in a      *)
(* register, for every width that DataAssumption admits and every pair of  *)
(* operands.                                                               *)
(***************************************************************************)
EXTENDS RamProofs, WellFoundedInduction

(* Induction, as a fact about sets: the library's form of it takes an      *)
(* operator.                                                               *)
LEMMA SetInduction ==
  ASSUME NEW T \in SUBSET Nat, 0 \in T, \A n \in T : n + 1 \in T
  PROVE  T = Nat
<1> SUFFICES ASSUME Nat \ T # {} PROVE FALSE
  OBVIOUS
<1>1. PICK m \in Nat \ T : \A k \in Nat \ T : ~(<<k, m>> \in OpToRel(<, Nat))
  BY WFMin, NatLessThanWellFounded, Zenon
<1>2. \A k \in Nat \ T : ~(k < m)
  <2> SUFFICES ASSUME NEW k \in Nat \ T, k < m PROVE FALSE
    OBVIOUS
  <2>1. <<k, m>> \in OpToRel(<, Nat)
    BY DEF OpToRel
  <2> QED
    BY <1>1, <2>1, Zenon
<1>3. m # 0 /\ m \in Nat
  OBVIOUS
<1>4. m - 1 \in Nat /\ m - 1 < m /\ (m - 1) + 1 = m
  BY <1>3
<1>5. m - 1 \in T
  BY <1>2, <1>4
<1> QED
  BY <1>4, <1>5

--------------------------------------------------------------------------------
(* Powers of two.  Pow2 is the function its definition describes: there is *)
(* one up to every number, the longer agree with the shorter, and together *)
(* they make one on all of Nat.                                            *)

Doubles(g, n) == g[0] = 1 /\ \A k \in 1 .. n : g[k] = 2 * g[k - 1]

LEMMA Pow2Agree ==
  ASSUME NEW m \in Nat, NEW n \in Nat, NEW g, NEW h, Doubles(g, m), Doubles(h, n)
  PROVE  \A k \in 0 .. m : k <= n => g[k] = h[k]
<1> DEFINE T == {k \in Nat : k <= m /\ k <= n => g[k] = h[k]}
<1>1. 0 \in T
  BY DEF Doubles
<1>2. ASSUME NEW k \in T, k + 1 <= m, k + 1 <= n PROVE g[k + 1] = h[k + 1]
  <2>1. k + 1 \in 1 .. m /\ k + 1 \in 1 .. n /\ (k + 1) - 1 = k /\ k <= m /\ k <= n
    BY <1>2
  <2>2. g[k + 1] = 2 * g[k] /\ h[k + 1] = 2 * h[k]
    BY <2>1 DEF Doubles
  <2> QED
    BY <1>2, <2>1, <2>2
<1>3. T \in SUBSET Nat /\ \A k \in T : k + 1 \in T
  BY <1>2
<1> HIDE DEF T
<1>4. T = Nat
  BY <1>1, <1>3, SetInduction
<1> QED
  BY <1>4 DEF T

LEMMA Pow2UpTo == ASSUME NEW n \in Nat PROVE \E g \in [0 .. n -> Nat \ {0}] : Doubles(g, n)
<1> DEFINE T == {m \in Nat : \E g \in [0 .. m -> Nat \ {0}] : Doubles(g, m)}
<1>1. 0 \in T
  <2>1. [k \in 0 .. 0 |-> 1] \in [0 .. 0 -> Nat \ {0}] /\ Doubles([k \in 0 .. 0 |-> 1], 0)
    BY DEF Doubles
  <2> QED
    BY <2>1
<1>2. ASSUME NEW m \in T PROVE m + 1 \in T
  <2>1. PICK g \in [0 .. m -> Nat \ {0}] : Doubles(g, m)
    OBVIOUS
  <2> DEFINE h == [k \in 0 .. m + 1 |-> IF k = m + 1 THEN 2 * g[m] ELSE g[k]]
  <2>2. g[m] \in Nat \ {0} /\ \A k \in 0 .. m : g[k] \in Nat \ {0}
    OBVIOUS
  <2>3. h \in [0 .. m + 1 -> Nat \ {0}]
    BY <2>2
  <2>4. h[0] = 1
    BY <2>1 DEF Doubles
  <2>5. ASSUME NEW k \in 1 .. m + 1 PROVE h[k] = 2 * h[k - 1]
    <3>1. CASE k = m + 1
      BY <3>1
    <3>2. CASE k \in 1 .. m
      BY <2>1, <3>2 DEF Doubles
    <3> QED
      BY <3>1, <3>2
  <2>6. Doubles(h, m + 1)
    BY <2>4, <2>5 DEF Doubles
  <2> HIDE DEF h
  <2>7. m + 1 \in Nat
    OBVIOUS
  <2> QED
    BY <2>3, <2>6, <2>7
<1>3. T \in SUBSET Nat
  OBVIOUS
<1> HIDE DEF T
<1>4. T = Nat
  BY <1>1, <1>2, <1>3, SetInduction
<1> QED
  BY <1>4 DEF T

LEMMA Pow2Unfolds == Pow2 = [n \in Nat |-> IF n = 0 THEN 1 ELSE 2 * Pow2[n - 1]]
<1> DEFINE G(n) == CHOOSE g \in [0 .. n -> Nat \ {0}] : Doubles(g, n)
           f == [n \in Nat |-> G(n)[n]]
<1>1. ASSUME NEW n \in Nat PROVE G(n) \in [0 .. n -> Nat \ {0}] /\ Doubles(G(n), n)
  BY Pow2UpTo
<1> HIDE DEF G
<1>2. f[0] = 1
  BY <1>1 DEF Doubles
<1>3. ASSUME NEW n \in Nat \ {0} PROVE f[n] = 2 * f[n - 1]
  <2>1. n - 1 \in Nat /\ n \in 1 .. n /\ n - 1 <= n
    OBVIOUS
  <2>2. G(n)[n] = 2 * G(n)[n - 1]
    BY <1>1, <2>1 DEF Doubles
  <2>3. G(n - 1)[n - 1] = G(n)[n - 1]
    <3>1. Doubles(G(n - 1), n - 1) /\ Doubles(G(n), n)
      BY <1>1, <2>1
    <3>2. \A k \in 0 .. n - 1 : k <= n => G(n - 1)[k] = G(n)[k]
      BY <2>1, <3>1, Pow2Agree
    <3> QED
      BY <2>1, <3>2
  <2> QED
    BY <2>1, <2>2, <2>3
<1>4. f = [n \in Nat |-> IF n = 0 THEN 1 ELSE 2 * f[n - 1]]
  BY <1>2, <1>3
<1> HIDE DEF f
<1> QED
  BY <1>4 DEF Pow2

LEMMA Pow2Next == Pow2[0] = 1 /\ \A n \in Nat : Pow2[n + 1] = 2 * Pow2[n]
<1> DEFINE e(n) == IF n = 0 THEN 1 ELSE 2 * Pow2[n - 1]
<1>1. \A n \in Nat : Pow2[n] = e(n)
  BY Pow2Unfolds
<1>2. ASSUME NEW n \in Nat PROVE e(n + 1) = 2 * Pow2[n]
  <2>1. n + 1 # 0 /\ (n + 1) - 1 = n
    OBVIOUS
  <2> QED
    BY <2>1
<1> QED
  BY <1>1, <1>2

LEMMA Pow2Type == ASSUME NEW n \in Nat PROVE Pow2[n] \in Nat \ {0}
<1> DEFINE T == {m \in Nat : Pow2[m] \in Nat \ {0}}
<1>1. 0 \in T /\ T \in SUBSET Nat /\ \A m \in T : m + 1 \in T
  BY Pow2Next
<1> HIDE DEF T
<1>2. T = Nat
  BY <1>1, SetInduction
<1> QED
  BY <1>2 DEF T

LEMMA Pow2Sum == ASSUME NEW m \in Nat, NEW n \in Nat PROVE Pow2[m + n] = Pow2[m] * Pow2[n]
<1> DEFINE T == {k \in Nat : Pow2[m + k] = Pow2[m] * Pow2[k]}
<1>1. 0 \in T
  BY Pow2Next, Pow2Type
<1>2. ASSUME NEW k \in T PROVE k + 1 \in T
  <2>1. m + (k + 1) = (m + k) + 1 /\ m + k \in Nat
    OBVIOUS
  <2>2. Pow2[m + (k + 1)] = 2 * Pow2[m + k] /\ Pow2[k + 1] = 2 * Pow2[k]
    BY <2>1, Pow2Next
  <2>3. Pow2[m] \in Nat /\ Pow2[k] \in Nat /\ Pow2[m + k] = Pow2[m] * Pow2[k]
    BY Pow2Type
  <2>4. 2 * (Pow2[m] * Pow2[k]) = Pow2[m] * (2 * Pow2[k])
    BY <2>3
  <2> QED
    BY <2>2, <2>3, <2>4
<1>3. T \in SUBSET Nat
  OBVIOUS
<1> HIDE DEF T
<1>4. T = Nat
  BY <1>1, <1>2, <1>3, SetInduction
<1> QED
  BY <1>4 DEF T

LEMMA ModulusIs ==
  HalfWord \in Nat \ {0} /\ Modulus = 2 * HalfWord /\ Modulus \in Nat
<1>1. XLen - 1 \in Nat /\ (XLen - 1) + 1 = XLen
  BY DataAssumption
<1>2. Pow2[XLen] = 2 * Pow2[XLen - 1] /\ Pow2[XLen - 1] \in Nat \ {0}
  BY <1>1, Pow2Next, Pow2Type
<1> QED
  BY <1>2 DEF Modulus, HalfWord

LEMMA PlaceIs ==
  /\ ByteMod \in Nat \ {0} /\ ByteMod % 2 = 0
  /\ Place(0) = 1 /\ Place(1) = ByteMod /\ Place(2) = ByteMod * ByteMod
  /\ Place(3) = ByteMod * (ByteMod * ByteMod)
  /\ Place(4) = (ByteMod * ByteMod) * (ByteMod * ByteMod)
  /\ Modulus = Place(4) /\ Pow2[XLen \div 2] = Place(2) /\ Pow2[XLen \div 4] = Place(1)
<1> DEFINE n == XLen \div 4
<1>1. n \in Nat \ {0} /\ XLen = 4 * n /\ XLen \div 2 = 2 * n
  BY DataAssumption
<1>2. ByteMod = Pow2[n] /\ ByteMod \in Nat \ {0}
  BY <1>1, Pow2Type, DataAssumption
<1> HIDE DEF n
<1>3. ByteMod % 2 = 0
  <2>1. n - 1 \in Nat /\ (n - 1) + 1 = n
    BY <1>1
  <2>2. Pow2[n] = 2 * Pow2[n - 1] /\ Pow2[n - 1] \in Nat
    BY <2>1, Pow2Next, Pow2Type
  <2> QED
    BY <1>2, <2>2
<1>4. Pow2[0] = 1 /\ 0 * n = 0 /\ 1 * n = n
  BY <1>1, Pow2Next
<1>5. Pow2[2 * n] = ByteMod * ByteMod
  <2>1. 2 * n = n + n
    BY <1>1
  <2> QED
    BY <1>1, <1>2, <2>1, Pow2Sum
<1>6. Pow2[3 * n] = ByteMod * (ByteMod * ByteMod)
  <2>1. 3 * n = n + 2 * n /\ 2 * n \in Nat
    BY <1>1
  <2> QED
    BY <1>1, <1>2, <1>5, <2>1, Pow2Sum
<1>7. Pow2[4 * n] = (ByteMod * ByteMod) * (ByteMod * ByteMod)
  <2>1. 4 * n = 2 * n + 2 * n /\ 2 * n \in Nat
    BY <1>1
  <2> QED
    BY <1>5, <2>1, Pow2Sum
<1>8. Place(0) = Pow2[0 * n] /\ Place(1) = Pow2[1 * n] /\ Place(2) = Pow2[2 * n]
      /\ Place(3) = Pow2[3 * n] /\ Place(4) = Pow2[4 * n]
  BY DEF Place, n
<1>9. Pow2[XLen \div 2] = Pow2[2 * n] /\ Modulus = Pow2[4 * n] /\ Pow2[XLen \div 4] = Pow2[n]
  BY <1>1 DEF Modulus, n
<1> QED
  BY <1>2, <1>3, <1>4, <1>5, <1>6, <1>7, <1>8, <1>9

--------------------------------------------------------------------------------
(* Two's complement. *)

LEMMA DivMod ==
  ASSUME NEW a \in Int, NEW b \in Nat \ {0}
  PROVE  a \div b \in Int /\ a = b * (a \div b) + (a % b) /\ a % b \in 0 .. b - 1
OBVIOUS

LEMMA Grows ==
  ASSUME NEW b \in Nat, NEW k \in Int, NEW l \in Int, k <= l
  PROVE  b * k \in Int /\ b * l \in Int /\ b * k <= b * l
OBVIOUS

(* A quotient and a remainder are the only ones. *)
LEMMA DivModUnique ==
  ASSUME NEW b \in Nat \ {0}, NEW q \in Int, NEW r \in 0 .. b - 1
  PROVE  (b * q + r) \div b = q /\ (b * q + r) % b = r
<1> DEFINE a == b * q + r
           k == a \div b
           s == a % b
<1>1. a \in Int /\ k \in Int /\ s \in 0 .. b - 1 /\ b * q + r = b * k + s /\ b * q \in Int /\ b * k \in Int
  BY DivMod
<1> HIDE DEF k, s
<1>2. ~(k >= q + 1)
  <2> SUFFICES ASSUME k >= q + 1 PROVE FALSE
    OBVIOUS
  <2>1. b * (q + 1) <= b * k
    BY <1>1, Grows
  <2>2. b * (q + 1) = b * q + b
    OBVIOUS
  <2> QED
    BY <1>1, <2>1, <2>2
<1>3. ~(q >= k + 1)
  <2> SUFFICES ASSUME q >= k + 1 PROVE FALSE
    OBVIOUS
  <2>1. b * (k + 1) <= b * q
    BY <1>1, Grows
  <2>2. b * (k + 1) = b * k + b
    BY <1>1
  <2> QED
    BY <1>1, <2>1, <2>2
<1>4. k = q
  BY <1>1, <1>2, <1>3
<1> QED
  BY <1>1, <1>4 DEF k, s

(* Adding multiples of the modulus leaves the remainder. *)
LEMMA Congruent ==
  ASSUME NEW a \in Int, NEW b \in Nat \ {0}, NEW n \in Int, \E k \in Int : n = a + b * k
  PROVE  n % b = a % b
<1> PICK k \in Int : n = a + b * k
  OBVIOUS
<1> DEFINE q == a \div b
           r == a % b
<1>1. q \in Int /\ r \in 0 .. b - 1 /\ a = b * q + r
  BY DivMod
<1> HIDE DEF q, r
<1>2. n = b * (q + k) + r /\ q + k \in Int
  BY <1>1
<1>3. (b * (q + k) + r) % b = r
  BY <1>1, <1>2, DivModUnique
<1> QED
  BY <1>2, <1>3 DEF r

SignedRange == -HalfWord .. HalfWord - 1

LEMMA SignedType == ASSUME NEW w \in Register PROVE AsSigned(w) \in SignedRange
BY ModulusIs DEF AsSigned, Register, SignedRange

LEMMA AsUnsignedType == ASSUME NEW s \in Int PROVE AsUnsigned(s) \in Register
BY ModulusIs, DivMod DEF AsUnsigned, Register

(* (u32) of a number in the range of i32. *)
LEMMA UnsignedOf ==
  ASSUME NEW s \in SignedRange
  PROVE  AsUnsigned(s) = IF s < 0 THEN s + Modulus ELSE s
<1>1. CASE s >= 0
  <2>1. Modulus * 0 + s = s /\ s \in 0 .. Modulus - 1 /\ Modulus \in Nat \ {0}
    BY <1>1, ModulusIs DEF SignedRange
  <2> QED
    BY <1>1, <2>1, DivModUnique DEF AsUnsigned
<1>2. CASE s < 0
  <2>1. Modulus * (-1) + (s + Modulus) = s /\ s + Modulus \in 0 .. Modulus - 1
        /\ Modulus \in Nat \ {0} /\ s \in Int
    BY <1>2, ModulusIs DEF SignedRange
  <2> QED
    BY <1>2, <2>1, DivModUnique DEF AsUnsigned
<1> QED
  BY <1>1, <1>2, ModulusIs DEF SignedRange

LEMMA UnsignedSigned == ASSUME NEW w \in Register PROVE AsUnsigned(AsSigned(w)) = w
BY SignedType, UnsignedOf, ModulusIs DEF AsSigned, Register

LEMMA SignedUnsigned == ASSUME NEW s \in SignedRange PROVE AsSigned(AsUnsigned(s)) = s
BY UnsignedOf, ModulusIs DEF AsSigned, SignedRange

(* (i32) yields the one number of its range that is congruent to the word. *)
LEMMA SgnIs == ASSUME NEW w \in Register PROVE Sgn(w) = AsSigned(w)
<1>1. Modulus \in Nat \ {0} /\ w \in Int
  BY ModulusIs DEF Register
<1>2. AsSigned(w) \in SignedRange /\ (AsSigned(w) - w) % Modulus = 0
  <2>1. (Modulus * 0 + 0) % Modulus = 0 /\ (Modulus * (-1) + 0) % Modulus = 0
    BY <1>1, DivModUnique
  <2>2. AsSigned(w) - w = Modulus * 0 + 0 \/ AsSigned(w) - w = Modulus * (-1) + 0
    BY <1>1 DEF AsSigned
  <2> QED
    BY <2>1, <2>2, SignedType
<1>3. ASSUME NEW s \in SignedRange, (s - w) % Modulus = 0 PROVE s = AsSigned(w)
  <2> DEFINE d == s - w
             k == d \div Modulus
  <2>1. s \in Int /\ d \in Int /\ s = w + d
    BY <1>1, ModulusIs DEF SignedRange
  <2> HIDE DEF d
  <2>2. k \in Int /\ d = Modulus * k + (d % Modulus)
    BY <1>1, <2>1, DivMod
  <2>3. d % Modulus = 0
    BY <1>3 DEF d
  <2> HIDE DEF k
  <2>4. s = w + Modulus * k
    BY <1>1, <2>1, <2>2, <2>3
  <2>5. s % Modulus = w % Modulus
    <3>1. \E j \in Int : s = w + Modulus * j
      BY <2>2, <2>4, Zenon
    <3> QED
      BY <1>1, <2>1, <3>1, Congruent
  <2>6. w % Modulus = w
    BY <1>1 DEF Register
  <2>7. AsUnsigned(s) = w
    BY <2>5, <2>6 DEF AsUnsigned
  <2> QED
    BY <1>3, <2>7, SignedUnsigned
<1> QED
  BY <1>2, <1>3 DEF Sgn, SignedRange

--------------------------------------------------------------------------------
(* Division. *)

LEMMA TimesMinus ==
  ASSUME NEW a \in Int, NEW b \in Int
  PROVE  (-a) * b = -(a * b) /\ a * (-b) = -(a * b) /\ (-a) * (-b) = a * b /\ a * b \in Int
OBVIOUS

(* C++ division truncates: the remainder has the sign of the dividend.     *)
LEMMA QuotientIs ==
  ASSUME NEW a \in Int, NEW b \in Int \ {0}
  PROVE  \E m \in Nat, t \in Nat :
           /\ t < Magnitude(b) /\ Magnitude(a) = Magnitude(b) * m + t
           /\ Quotient(a, b) = IF (a < 0) = (b < 0) THEN m ELSE -m
           /\ Remainder(a, b) = IF a < 0 THEN -t ELSE t
           /\ Quotient(a, b) * b = IF a < 0 THEN -(Magnitude(b) * m) ELSE Magnitude(b) * m
<1> DEFINE u == Magnitude(a)
           v == Magnitude(b)
           m == u \div v
           t == u % v
           p == v * m
<1>1. u \in Nat /\ v \in Nat \ {0} /\ a = (IF a < 0 THEN -u ELSE u) /\ b = (IF b < 0 THEN -v ELSE v)
  BY DEF Magnitude
<1> HIDE DEF u, v
<1>2. m \in Nat /\ t \in Nat /\ t < v /\ u = p + t /\ p \in Int
  <2>1. m \in Int /\ u = v * m + t /\ t \in 0 .. v - 1
    <3>1. u \in Int /\ v \in Nat \ {0}
      BY <1>1
    <3> QED
      BY <3>1, DivMod
  <2>2. m >= 0
    BY <1>1
  <2> QED
    BY <1>1, <2>1, <2>2
<1> DEFINE q == Quotient(a, b)
<1>3. q = IF (a < 0) = (b < 0) THEN m ELSE -m
  BY DEF Quotient, u, v
<1>4. Remainder(a, b) = a - b * q
  BY DEF Remainder
<1> HIDE DEF m, t, q
<1>5. m * v = p /\ (-m) * (-v) = p /\ (-m) * v = -p /\ m * (-v) = -p
      /\ v * m = p /\ (-v) * (-m) = p /\ v * (-m) = -p /\ (-v) * m = -p
  BY <1>1, <1>2, TimesMinus
<1> HIDE DEF p
<1>6. q * b = (IF a < 0 THEN -p ELSE p) /\ b * q = (IF a < 0 THEN -p ELSE p)
  BY <1>1, <1>3, <1>5
<1>7. Remainder(a, b) = IF a < 0 THEN -t ELSE t
  BY <1>1, <1>2, <1>4, <1>6
<1> QED
  BY <1>2, <1>3, <1>6, <1>7 DEF p, q, u, v

LEMMA SquareLess ==
  ASSUME NEW a \in Int, NEW b \in Int, NEW u \in Nat, NEW v \in Nat,
         a = u \/ a = -u, b = v \/ b = -v, u < v
  PROVE  a * a < b * b
<1>1. a * a = u * u /\ b * b = v * v
  <2>1. (-u) * (-u) = u * u /\ (-v) * (-v) = v * v
    BY TimesMinus
  <2> QED
    BY <2>1
<1>2. u * u <= u * v /\ u * v < v * v
  <2>1. u * u <= u * v
    BY Grows
  <2>2. v * (u + 1) <= v * v /\ v * (u + 1) = v * u + v /\ v * u = u * v
    BY Grows
  <2> QED
    BY <2>1, <2>2
<1> QED
  BY <1>1, <1>2

LEMMA SameSign ==
  ASSUME NEW a \in Int, NEW b \in Int, (a >= 0 /\ b >= 0) \/ (a <= 0 /\ b <= 0)
  PROVE  a * b >= 0
<1>1. CASE a >= 0 /\ b >= 0
  BY <1>1
<1>2. CASE a <= 0 /\ b <= 0
  <2>1. -a \in Nat /\ -b \in Nat
    BY <1>2
  <2>2. (-a) * (-b) \in Nat
    BY <2>1
  <2> QED
    BY <2>2, TimesMinus
<1> QED
  BY <1>1, <1>2

(* The only quotient that overflows is the one the code takes apart.       *)
LEMMA QuotientFits ==
  ASSUME NEW a \in SignedRange, NEW b \in SignedRange \ {0}, ~(a = -HalfWord /\ b = -1)
  PROVE  Quotient(a, b) \in SignedRange /\ Remainder(a, b) \in SignedRange
<1>1. a \in Int /\ b \in Int \ {0} /\ HalfWord \in Nat \ {0} /\ -HalfWord <= a /\ a < HalfWord
  BY ModulusIs DEF SignedRange
<1> DEFINE u == Magnitude(a)
           v == Magnitude(b)
<1>2. PICK m \in Nat, t \in Nat :
        /\ t < v /\ u = v * m + t
        /\ Quotient(a, b) = IF (a < 0) = (b < 0) THEN m ELSE -m
        /\ Remainder(a, b) = IF a < 0 THEN -t ELSE t
  BY <1>1, QuotientIs
<1>3. u \in Nat /\ v \in Nat \ {0} /\ a = (IF a < 0 THEN -u ELSE u) /\ b = (IF b < 0 THEN -v ELSE v)
  BY <1>1 DEF Magnitude
<1> HIDE DEF u, v
<1> DEFINE p == v * m
<1>4. p \in Nat /\ u = p + t
  BY <1>2, <1>3
<1>5. CASE v = 1
  <2>1. p = m /\ t = 0
    BY <1>2, <1>3, <1>5
  <2> QED
    BY <1>1, <1>2, <1>3, <1>4, <1>5, <2>1 DEF SignedRange
<1>6. CASE v >= 2
  <2>1. m * 2 <= m * v /\ m * v = p
    BY <1>3, <1>6, Grows
  <2> HIDE DEF p
  <2>2. m * 2 <= u /\ t <= u
    BY <1>3, <1>4, <2>1
  <2>3. m < HalfWord
    BY <1>1, <1>3, <2>2
  <2> QED
    BY <1>1, <1>2, <1>3, <2>2, <2>3 DEF SignedRange
<1> QED
  BY <1>3, <1>5, <1>6

LEMMA AluIs ==
  ASSUME NEW a, NEW b
  PROVE  /\ AluOp("add", a, b) = AsUnsigned(a + b) /\ AluOp("sub", a, b) = AsUnsigned(a - b)
         /\ AluOp("mul", a, b) = AsUnsigned(a * b)
         /\ AluOp("mulh", a, b) = AsUnsigned((AsSigned(a) * AsSigned(b)) \div Modulus)
         /\ AluOp("mulhsu", a, b) = AsUnsigned((AsSigned(a) * b) \div Modulus)
         /\ AluOp("mulhu", a, b) = (a * b) \div Modulus
         /\ AluOp("div", a, b) = Div(a, b) /\ AluOp("rem", a, b) = Rem(a, b)
         /\ AluOp("divu", a, b) = (IF b = 0 THEN Modulus - 1 ELSE a \div b)
         /\ AluOp("remu", a, b) = (IF b = 0 THEN a ELSE a % b)
         /\ AluOp("sll", a, b) = AsUnsigned(a * Pow2[b % XLen])
         /\ AluOp("srl", a, b) = a \div Pow2[b % XLen]
         /\ AluOp("sra", a, b) = AsUnsigned(AsSigned(a) \div Pow2[b % XLen])
         /\ AluOp("slt", a, b) = Truth(AsSigned(a) < AsSigned(b))
         /\ AluOp("sltu", a, b) = Truth(a < b)
         /\ AluOp("min", a, b) = AsUnsigned(Lesser(AsSigned(a), AsSigned(b)))
         /\ AluOp("max", a, b) = AsUnsigned(Greater(AsSigned(a), AsSigned(b)))
         /\ AluOp("minu", a, b) = Lesser(a, b) /\ AluOp("maxu", a, b) = Greater(a, b)
         /\ AluOp("and", a, b) = BitAnd(a, b) /\ AluOp("or", a, b) = BitOr(a, b)
         /\ AluOp("xor", a, b) = BitXor(a, b)
BY DEF AluOp, ShiftAmount

(* A word is congruent to the number it stands for. *)
LEMMA SgnFacts ==
  ASSUME NEW w \in Register
  PROVE  /\ Sgn(w) \in SignedRange /\ Sgn(w) \in Int /\ w \in Nat
         /\ Sgn(w) = (IF w >= HalfWord THEN w - Modulus ELSE w)
         /\ w = (IF Sgn(w) < 0 THEN Sgn(w) + Modulus ELSE Sgn(w))
BY SgnIs, SignedType, ModulusIs DEF AsSigned, SignedRange, Register

LEMMA SgnOf == ASSUME NEW s \in SignedRange PROVE Sgn(AsUnsigned(s)) = s
<1>1. AsUnsigned(s) \in Register
  BY ModulusIs, AsUnsignedType DEF SignedRange
<1> QED
  BY <1>1, SgnIs, SignedUnsigned

LEMMA SignedParts ==
  ASSUME NEW a \in Register, NEW b \in Register, b # 0
  PROVE  LET q == Sgn(AluOp("div", a, b))
             r == Sgn(AluOp("rem", a, b))
         IN  IF Sgn(a) = -HalfWord /\ Sgn(b) = -1
               THEN q = Sgn(a) /\ r = 0
               ELSE q = Quotient(Sgn(a), Sgn(b)) /\ r = Remainder(Sgn(a), Sgn(b))
<1>1. Sgn(a) = AsSigned(a) /\ Sgn(b) = AsSigned(b)
  BY SgnIs
<1>2. Sgn(a) \in SignedRange /\ Sgn(b) \in SignedRange \ {0}
  BY SgnFacts, ModulusIs
<1>3. CASE Sgn(a) = -HalfWord /\ Sgn(b) = -1
  <2>1. AluOp("div", a, b) = a /\ AluOp("rem", a, b) = 0
    <3>1. Div(a, b) = a /\ Rem(a, b) = 0
      BY <1>1, <1>3 DEF Div, Rem
    <3> QED
      BY <3>1, AluIs
  <2>2. 0 \in Register /\ Sgn(0) = 0
    <3>1. 0 \in Register /\ ~(0 >= HalfWord)
      BY ModulusIs DEF Register
    <3>2. Sgn(0) = IF 0 >= HalfWord THEN 0 - Modulus ELSE 0
      BY <3>1, SgnFacts
    <3> QED
      BY <3>1, <3>2
  <2> QED
    BY <1>3, <2>1, <2>2
<1>4. CASE ~(Sgn(a) = -HalfWord /\ Sgn(b) = -1)
  <2>1. Quotient(Sgn(a), Sgn(b)) \in SignedRange /\ Remainder(Sgn(a), Sgn(b)) \in SignedRange
    BY <1>2, <1>4, QuotientFits
  <2>2. /\ AluOp("div", a, b) = AsUnsigned(Quotient(Sgn(a), Sgn(b)))
        /\ AluOp("rem", a, b) = AsUnsigned(Remainder(Sgn(a), Sgn(b)))
    BY <1>1, <1>4, AluIs DEF Div, Rem
  <2> QED
    BY <1>4, <2>1, <2>2, SgnOf
<1> QED
  BY <1>3, <1>4

LEMMA ZeroMod == ASSUME NEW n \in Nat \ {0} PROVE 0 % n = 0 /\ n % n = 0
<1>1. (n * 0 + 0) % n = 0 /\ (n * 1 + 0) % n = 0
  BY DivModUnique
<1> QED
  BY <1>1

LEMMA SignedDivision ==
  ASSUME NEW a \in Register, NEW b \in Register
  PROVE  LET q == Sgn(AluOp("div", a, b))
             r == Sgn(AluOp("rem", a, b))
         IN  /\ (q * Sgn(b) + r - Sgn(a)) % Modulus = 0
             /\ b = 0 => q = -1
             /\ b # 0 =>
                  /\ r * r < Sgn(b) * Sgn(b) /\ r * Sgn(a) >= 0
                  /\ q * Sgn(b) * Sgn(a) >= 0 \/ (Sgn(a) = -HalfWord /\ Sgn(b) = -1 /\ q = Sgn(a))
<1> DEFINE q == Sgn(AluOp("div", a, b))
           r == Sgn(AluOp("rem", a, b))
<1>1. PICK c, d : c = Sgn(a) /\ d = Sgn(b)
  OBVIOUS
<1>2. c \in SignedRange /\ d \in SignedRange /\ c \in Int /\ d \in Int /\ (d = 0 <=> b = 0)
  BY <1>1, SgnFacts, ModulusIs
<1>3. HalfWord \in Nat \ {0} /\ Modulus = 2 * HalfWord /\ Modulus \in Nat \ {0}
  BY ModulusIs
<1>4. CASE b = 0
  <2>1. AluOp("div", a, b) = Modulus - 1 /\ AluOp("rem", a, b) = a
    BY <1>4, AluIs DEF Div, Rem
  <2>2. Modulus - 1 \in Register /\ Modulus - 1 >= HalfWord
    BY <1>3 DEF Register
  <2>3. q = -1 /\ r = c
    BY <1>1, <1>3, <2>1, <2>2, SgnFacts
  <2>4. q * d + r - c = 0
    BY <1>2, <1>4, <2>3
  <2> QED
    BY <1>1, <1>3, <1>4, <2>3, <2>4, ZeroMod
<1>5. CASE b # 0 /\ c = -HalfWord /\ d = -1
  <2>1. q = c /\ r = 0
    BY <1>1, <1>5, SignedParts
  <2>2. q * d + r - c = Modulus /\ r * r = 0 /\ d * d = 1 /\ r * c = 0
    BY <1>2, <1>3, <1>5, <2>1
  <2> QED
    BY <1>1, <1>3, <1>5, <2>1, <2>2, ZeroMod
<1>6. CASE b # 0 /\ ~(c = -HalfWord /\ d = -1)
  <2>1. q = Quotient(c, d) /\ r = Remainder(c, d)
    BY <1>1, <1>6, SignedParts
  <2>2. d \in Int \ {0}
    BY <1>2, <1>6
  <2>3. PICK m \in Nat, t \in Nat :
          /\ t < Magnitude(d) /\ Magnitude(c) = Magnitude(d) * m + t
          /\ r = (IF c < 0 THEN -t ELSE t)
          /\ q * d = IF c < 0 THEN -(Magnitude(d) * m) ELSE Magnitude(d) * m
    BY <1>2, <2>1, <2>2, QuotientIs
  <2> DEFINE p == Magnitude(d) * m
             n == q * d
  <2>4. Magnitude(d) \in Nat /\ Magnitude(c) \in Nat /\ (d = Magnitude(d) \/ d = -Magnitude(d))
        /\ c = (IF c < 0 THEN -Magnitude(c) ELSE Magnitude(c))
    BY <1>2 DEF Magnitude
  <2>5. p \in Nat /\ Magnitude(c) = p + t /\ n = (IF c < 0 THEN -p ELSE p)
    BY <2>3, <2>4
  <2>6. r * r < d * d
    BY <1>2, <2>3, <2>4, SquareLess
  <2> HIDE DEF p, q, r, n
  <2>7. n + r - c = 0 /\ n \in Int /\ r \in Int
    BY <1>2, <2>3, <2>4, <2>5
  <2>8. r * c >= 0 /\ n * c >= 0
    <3>1. (r >= 0 /\ c >= 0) \/ (r <= 0 /\ c <= 0)
      BY <1>2, <2>3
    <3>2. (n >= 0 /\ c >= 0) \/ (n <= 0 /\ c <= 0)
      BY <1>2, <2>5
    <3> QED
      BY <1>2, <2>7, <3>1, <3>2, SameSign
  <2> QED
    BY <1>1, <1>3, <1>6, <2>6, <2>7, <2>8, ZeroMod DEF n, q, r
<1> QED
  BY <1>4, <1>5, <1>6

LEMMA UnsignedDivision ==
  ASSUME NEW a \in Register, NEW b \in Register
  PROVE  LET qu == AluOp("divu", a, b)
             ru == AluOp("remu", a, b)
         IN  /\ a = (qu * b + ru) % Modulus
             /\ IF b = 0 THEN qu = Modulus - 1 ELSE ru < b
<1>1. Modulus \in Nat \ {0} /\ a \in 0 .. Modulus - 1 /\ b \in Nat
  BY ModulusIs DEF Register
<1>2. a % Modulus = a
  <2>1. (Modulus * 0 + a) % Modulus = a
    BY <1>1, DivModUnique
  <2> QED
    BY <1>1, <2>1
<1>3. CASE b = 0
  <2>1. AluOp("divu", a, b) = Modulus - 1 /\ AluOp("remu", a, b) = a
    BY <1>3, AluIs
  <2>2. (Modulus - 1) * b + a = a
    BY <1>1, <1>3
  <2> QED
    BY <1>2, <1>3, <2>1, <2>2
<1>4. CASE b # 0
  <2>1. AluOp("divu", a, b) = a \div b /\ AluOp("remu", a, b) = a % b
    BY <1>4, AluIs
  <2>2. a \div b \in Int /\ a = b * (a \div b) + (a % b) /\ a % b \in 0 .. b - 1
    <3>1. a \in Int /\ b \in Nat \ {0}
      BY <1>1, <1>4
    <3> QED
      BY <3>1, DivMod
  <2>3. b * (a \div b) = (a \div b) * b
    BY <1>1, <2>2
  <2> QED
    BY <1>1, <1>2, <1>4, <2>1, <2>2, <2>3
<1> QED
  BY <1>3, <1>4

--------------------------------------------------------------------------------
(* Products of twice the width. *)

LEMMA ProductParts ==
  ASSUME NEW n \in Int
  PROVE  n \div Modulus \in Int /\ n = Modulus * (n \div Modulus) + AsUnsigned(n)
<1>1. Modulus \in Nat \ {0}
  BY ModulusIs
<1> QED
  BY <1>1, DivMod DEF AsUnsigned

(* The low half does not see the signs. *)
LEMMA LowHalf ==
  ASSUME NEW a \in Register, NEW b \in Register
  PROVE  /\ AsUnsigned(Sgn(a) * Sgn(b)) = AsUnsigned(a * b)
         /\ AsUnsigned(Sgn(a) * b) = AsUnsigned(a * b)
<1>1. Modulus \in Nat \ {0} /\ a \in Int /\ b \in Int
  BY ModulusIs DEF Register
<1>2. PICK c \in Int, d \in Int : c = Sgn(a) /\ d = Sgn(b)
  BY SgnFacts
<1>3. PICK k \in Int, l \in Int : c = a + Modulus * k /\ d = b + Modulus * l
  <2>1. c = a + Modulus * 0 \/ c = a + Modulus * (-1)
    BY <1>1, <1>2, SgnFacts
  <2>2. d = b + Modulus * 0 \/ d = b + Modulus * (-1)
    BY <1>1, <1>2, SgnFacts
  <2> QED
    BY <2>1, <2>2
<1>4. PICK m \in Int, n \in Int : m = k * b /\ n = c * l
  BY <1>1, <1>3
<1>5. PICK s \in Int, t \in Int, u \in Int : s = a * b /\ t = c * b /\ u = c * d
  BY <1>1, <1>2
<1>6. t = s + Modulus * m
  <2>1. (a + Modulus * k) * b = a * b + Modulus * (k * b)
    BY <1>1
  <2> QED
    BY <1>3, <1>4, <1>5, <2>1
<1>7. u = t + Modulus * n
  <2>1. c * (b + Modulus * l) = c * b + Modulus * (c * l)
    BY <1>1
  <2> QED
    BY <1>3, <1>4, <1>5, <2>1
<1>8. t % Modulus = s % Modulus
  <2>1. \E j \in Int : t = s + Modulus * j
    BY <1>4, <1>6, Zenon
  <2>2. s \in Int /\ t \in Int /\ Modulus \in Nat \ {0}
    BY <1>1, <1>5
  <2> QED
    BY <2>1, <2>2, Congruent
<1>9. u % Modulus = t % Modulus
  <2>1. \E j \in Int : u = t + Modulus * j
    BY <1>4, <1>7, Zenon
  <2> QED
    BY <1>1, <1>5, <2>1, Congruent
<1> QED
  BY <1>2, <1>5, <1>8, <1>9 DEF AsUnsigned

LEMMA Magnitudes ==
  ASSUME NEW c \in Int, NEW d \in Int, NEW u \in Nat, NEW v \in Nat,
         -u <= c, c <= u, -v <= d, d <= v
  PROVE  c * d \in Int /\ u * v \in Nat /\ -(u * v) <= c * d /\ c * d <= u * v
<1>1. PICK m \in Nat, n \in Nat : (c = m \/ c = -m) /\ (d = n \/ d = -n) /\ m <= u /\ n <= v
  <2>1. ASSUME NEW e \in Int, NEW w \in Nat, -w <= e, e <= w
        PROVE  \E k \in Nat : (e = k \/ e = -k) /\ k <= w
    <3>1. CASE e >= 0
      BY <2>1, <3>1
    <3>2. CASE e < 0
      <4>1. -e \in Nat /\ e = -(-e) /\ -e <= w
        BY <2>1, <3>2
      <4> QED
        BY <4>1
    <3> QED
      BY <2>1, <3>1, <3>2
  <2> QED
    BY <2>1
<1>2. m * n <= u * v /\ m * n \in Nat /\ u * v \in Nat
  <2>1. m * n <= m * v
    BY <1>1, Grows
  <2>2. v * m <= v * u
    BY <1>1, Grows
  <2>3. v * m = m * v /\ v * u = u * v /\ m * n \in Nat /\ m * v \in Nat /\ u * v \in Nat
    OBVIOUS
  <2> QED
    BY <2>1, <2>2, <2>3
<1>3. c * d = m * n \/ c * d = -(m * n)
  <2>1. (-m) * n = -(m * n) /\ m * (-n) = -(m * n) /\ (-m) * (-n) = m * n
    BY TimesMinus
  <2> QED
    BY <1>1, <2>1
<1> DEFINE p == m * n
           r == u * v
<1> HIDE DEF p, r
<1>4. (c * d = p \/ c * d = -p) /\ p \in Nat /\ r \in Nat /\ p <= r
  BY <1>2, <1>3 DEF p, r
<1>5. c * d \in Int /\ -r <= c * d /\ c * d <= r
  BY <1>4
<1> QED
  BY <1>4, <1>5 DEF r

LEMMA QuotientBetween ==
  ASSUME NEW n \in Int, NEW b \in Nat \ {0}, NEW l \in Int, NEW h \in Int,
         b * l <= n, n < b * h
  PROVE  n \div b \in l .. h - 1
<1> DEFINE q == n \div b
           r == n % b
<1>1. q \in Int /\ n = b * q + r /\ r \in 0 .. b - 1
  BY DivMod
<1> HIDE DEF q, r
<1>2. ~(q >= h)
  <2> SUFFICES ASSUME q >= h PROVE FALSE
    OBVIOUS
  <2>1. b * h <= b * q /\ b * h \in Int /\ b * q \in Int
    BY <1>1, Grows
  <2> QED
    BY <1>1, <2>1
<1>3. ~(q + 1 <= l)
  <2> SUFFICES ASSUME q + 1 <= l PROVE FALSE
    OBVIOUS
  <2>1. b * (q + 1) <= b * l /\ b * l \in Int
    BY <1>1, Grows
  <2>2. b * (q + 1) = b * q + b /\ b * q \in Int
    BY <1>1
  <2> QED
    BY <1>1, <2>1, <2>2
<1>4. q \in l .. h - 1
  BY <1>1, <1>2, <1>3
<1> QED
  BY <1>4 DEF q

(* The high half of a product with a signed number is a signed number.     *)
LEMMA HighHalf ==
  ASSUME NEW c \in SignedRange, NEW d \in Int, -Modulus < d, d < Modulus
  PROVE  c * d \in Int /\ (c * d) \div Modulus \in SignedRange
<1>1. HalfWord \in Nat \ {0} /\ Modulus \in Nat \ {0} /\ c \in Int /\ -HalfWord <= c /\ c <= HalfWord
  BY ModulusIs DEF SignedRange
<1> DEFINE u == HalfWord * (Modulus - 1)
           w == HalfWord * Modulus
           n == c * d
<1>2. n \in Int /\ u \in Nat /\ -u <= n /\ n <= u
  <2>1. Modulus - 1 \in Nat /\ -(Modulus - 1) <= d /\ d <= Modulus - 1 /\ HalfWord \in Nat
    BY <1>1
  <2> QED
    BY <1>1, <2>1, Magnitudes
<1>3. u = w - HalfWord /\ w = Modulus * HalfWord /\ Modulus * (-HalfWord) = -w /\ w \in Int
  <2>1. HalfWord * (Modulus - 1) = HalfWord * Modulus - HalfWord
    BY <1>1
  <2>2. Modulus * (-HalfWord) = -(Modulus * HalfWord) /\ Modulus * HalfWord = HalfWord * Modulus
    BY <1>1, TimesMinus
  <2>3. HalfWord * Modulus \in Int
    BY <1>1
  <2> QED
    BY <2>1, <2>2, <2>3
<1> HIDE DEF u, w, n
<1>4. Modulus * (-HalfWord) <= n /\ n < Modulus * HalfWord /\ -HalfWord \in Int /\ HalfWord \in Int
  BY <1>1, <1>2, <1>3
<1>5. n \div Modulus \in -HalfWord .. HalfWord - 1
  BY <1>1, <1>2, <1>4, QuotientBetween
<1> QED
  BY <1>2, <1>5 DEF n, SignedRange

LEMMA WideProductsHold == ASSUME x \in [{1, 2} -> Register] PROVE WideProducts
<1>1. PICK a \in Register, b \in Register : a = x[1] /\ b = x[2]
  OBVIOUS
<1>2. PICK c \in SignedRange, d \in SignedRange :
        c = Sgn(a) /\ d = Sgn(b) /\ c = AsSigned(a) /\ d = AsSigned(b)
  BY SgnFacts, SgnIs
<1>3. /\ a \in Int /\ b \in Int /\ c \in Int /\ d \in Int
      /\ -Modulus < d /\ d < Modulus /\ -Modulus < b /\ b < Modulus
  BY ModulusIs DEF Register, SignedRange
<1> DEFINE low == AluOp("mul", a, b)
<1>4. low = AsUnsigned(a * b) /\ low = AsUnsigned(c * d) /\ low = AsUnsigned(c * b)
  <2>1. low = AsUnsigned(a * b)
    BY AluIs
  <2>2. AsUnsigned(c * d) = AsUnsigned(a * b) /\ AsUnsigned(c * b) = AsUnsigned(a * b)
    BY <1>2, LowHalf
  <2> QED
    BY <2>1, <2>2
<1>5. a * b \in Int /\ c * d \in Int /\ c * b \in Int
  BY <1>3
<1>6. low \in Register
  BY <1>4, <1>5, AsUnsignedType
<1>7. Modulus * Sgn(AluOp("mulh", a, b)) + low = c * d
  <2>1. (c * d) \div Modulus \in SignedRange
    BY <1>3, HighHalf
  <2>2. Sgn(AluOp("mulh", a, b)) = (c * d) \div Modulus
    BY <1>2, <2>1, AluIs, SgnOf
  <2> QED
    BY <1>4, <1>5, <2>2, ProductParts
<1>8. Modulus * Sgn(AluOp("mulhsu", a, b)) + low = c * b
  <2>1. (c * b) \div Modulus \in SignedRange
    BY <1>3, HighHalf
  <2>2. Sgn(AluOp("mulhsu", a, b)) = (c * b) \div Modulus
    BY <1>2, <2>1, AluIs, SgnOf
  <2> QED
    BY <1>4, <1>5, <2>2, ProductParts
<1>9. Modulus * AluOp("mulhu", a, b) + low = a * b
  <2>1. AluOp("mulhu", a, b) = (a * b) \div Modulus
    BY AluIs
  <2> QED
    BY <1>4, <1>5, <2>1, ProductParts
<1> QED
  BY <1>1, <1>2, <1>6, <1>7, <1>8, <1>9 DEF WideProducts

LEMMA DivisionHolds == ASSUME x \in [{1, 2} -> Register] PROVE DivisionContract
<1>1. PICK a \in Register, b \in Register : a = x[1] /\ b = x[2]
  OBVIOUS
<1> QED
  BY <1>1, SignedDivision, UnsignedDivision DEF DivisionContract

--------------------------------------------------------------------------------
(* Shifts and comparisons. *)

LEMMA OffTheQuotient ==
  ASSUME NEW a \in Int, NEW p \in Nat \ {0}
  PROVE  a - p * (a \div p) \in 0 .. p - 1
<1>1. PICK q \in Int, r \in 0 .. p - 1 : q = a \div p /\ a = p * q + r
  BY DivMod
<1>2. p * q \in Int
  BY <1>1
<1>3. a - p * q = r
  BY <1>1, <1>2
<1> QED
  BY <1>1, <1>3

LEMMA ShiftsHold == ASSUME x \in [{1, 2} -> Register] PROVE ShiftsAndOrder
<1>1. PICK a \in Register, b \in Register : a = x[1] /\ b = x[2]
  OBVIOUS
<1>2. PICK c \in SignedRange, d \in SignedRange :
        c = Sgn(a) /\ d = Sgn(b) /\ c = AsSigned(a) /\ d = AsSigned(b)
  BY SgnFacts, SgnIs
<1>3. /\ a \in Nat /\ b \in Nat /\ c \in Int /\ d \in Int
      /\ HalfWord \in Nat \ {0} /\ Modulus = 2 * HalfWord /\ Modulus \in Nat \ {0}
      /\ -HalfWord <= c /\ c < HalfWord
  BY ModulusIs DEF Register, SignedRange
<1>4. PICK p \in Nat \ {0} : p = Pow2[b % XLen]
  <2>1. b % XLen \in Nat
    BY <1>3, DataAssumption
  <2> QED
    BY <2>1, Pow2Type
<1>5. a - p * AluOp("srl", a, b) \in 0 .. p - 1
  <2>1. AluOp("srl", a, b) = a \div p
    BY <1>4, AluIs
  <2>2. a - p * (a \div p) \in 0 .. p - 1
    <3>1. a \in Int /\ p \in Nat \ {0}
      BY <1>3, <1>4
    <3> QED
      BY <3>1, OffTheQuotient
  <2> QED
    BY <2>1, <2>2
<1>6. c - p * Sgn(AluOp("sra", a, b)) \in 0 .. p - 1
  <2>1. AluOp("sra", a, b) = AsUnsigned(c \div p)
    BY <1>2, <1>4, AluIs
  <2>2. c \div p \in SignedRange
    <3>1. HalfWord <= p * HalfWord /\ p * (-HalfWord) = -(p * HalfWord) /\ p * HalfWord \in Int
      <4>1. HalfWord * 1 <= HalfWord * p /\ HalfWord * p = p * HalfWord
        BY <1>3, <1>4, Grows
      <4>2. p * (-HalfWord) = -(p * HalfWord) /\ p * HalfWord \in Int
        BY <1>3, <1>4, TimesMinus
      <4> QED
        BY <1>3, <4>1, <4>2
    <3>2. p * (-HalfWord) <= c /\ c < p * HalfWord /\ -HalfWord \in Int /\ HalfWord \in Int
      BY <1>3, <3>1
    <3>3. c \div p \in -HalfWord .. HalfWord - 1
      BY <1>3, <1>4, <3>2, QuotientBetween
    <3> QED
      BY <3>3 DEF SignedRange
  <2>3. Sgn(AluOp("sra", a, b)) = c \div p
    BY <2>1, <2>2, SgnOf
  <2> QED
    BY <1>3, <1>4, <2>3, OffTheQuotient
<1>7. (AluOp("sll", a, b) - p * a) % Modulus = 0
  <2>1. PICK n \in Int : n = a * p /\ n = p * a
    BY <1>3, <1>4
  <2>2. AluOp("sll", a, b) = AsUnsigned(n)
    BY <1>4, <2>1, AluIs
  <2>3. PICK k \in Int : n = Modulus * k + AsUnsigned(n)
    BY <2>1, ProductParts
  <2>4. AsUnsigned(n) \in Int
    BY <2>1, AsUnsignedType, ModulusIs DEF Register
  <2>5. AsUnsigned(n) - n = 0 + Modulus * (-k) /\ -k \in Int
    <3>1. Modulus * (-k) = -(Modulus * k) /\ Modulus * k \in Int
      BY <1>3, <2>3, TimesMinus
    <3> QED
      BY <2>1, <2>3, <2>4, <3>1
  <2>6. (AsUnsigned(n) - n) % Modulus = 0 % Modulus
    <3>1. \E j \in Int : AsUnsigned(n) - n = 0 + Modulus * j
      BY <2>5, Zenon
    <3>2. AsUnsigned(n) - n \in Int /\ 0 \in Int /\ Modulus \in Nat \ {0}
      BY <1>3, <2>1, <2>4
    <3> QED
      BY <3>1, <3>2, Congruent
  <2> QED
    BY <1>3, <2>1, <2>2, <2>6, ZeroMod
<1>8. (AluOp("slt", a, b) = 1) = (c < d) /\ (AluOp("sltu", a, b) = 1) = (a < b)
  BY <1>2, AluIs DEF Truth
<1>9. AsUnsigned(c) = a /\ AsUnsigned(d) = b
  BY <1>2, UnsignedSigned
<1>10. AluOp("min", a, b) = (IF c < d THEN a ELSE b) /\ AluOp("max", a, b) = (IF c < d THEN b ELSE a)
  <2>1. /\ AluOp("min", a, b) = AsUnsigned(Lesser(c, d))
        /\ AluOp("max", a, b) = AsUnsigned(Greater(c, d))
    BY <1>2, AluIs
  <2>2. c = d => a = b
    BY <1>9
  <2>3. Lesser(c, d) = (IF c < d THEN c ELSE d) /\ (c # d => Greater(c, d) = IF c < d THEN d ELSE c)
        /\ (c = d => Greater(c, d) = d)
    BY <1>3 DEF Lesser, Greater
  <2> QED
    BY <1>9, <2>1, <2>2, <2>3
<1>11. AluOp("minu", a, b) + AluOp("maxu", a, b) = a + b
  <2>1. AluOp("minu", a, b) = Lesser(a, b) /\ AluOp("maxu", a, b) = Greater(a, b)
    BY AluIs
  <2>2. Lesser(a, b) + Greater(a, b) = a + b
    BY <1>3 DEF Lesser, Greater
  <2> QED
    BY <2>1, <2>2
<1>12. /\ AluOp("and", a, b) + AluOp("or", a, b) = a + b
       /\ AluOp("xor", a, b) = AluOp("or", a, b) - AluOp("and", a, b)
  <2>1. /\ AluOp("and", a, b) = BitAnd(a, b) /\ AluOp("or", a, b) = BitOr(a, b)
        /\ AluOp("xor", a, b) = BitXor(a, b)
    BY AluIs
  <2> QED
    BY <2>1, BitAssumption
<1> QED
  BY <1>1, <1>2, <1>4, <1>5, <1>6, <1>7, <1>8, <1>10, <1>11, <1>12 DEF ShiftsAndOrder

--------------------------------------------------------------------------------
(* The registers stay registers. *)

LEMMA NotMore ==
  ASSUME NEW a \in Nat, NEW b \in Nat \ {0}
  PROVE  a \div b \in 0 .. a /\ a % b \in 0 .. a
<1>1. PICK q \in Int, r \in 0 .. b - 1 : q = a \div b /\ r = a % b /\ a = b * q + r
  BY DivMod
<1>2. q >= 0
  BY <1>1
<1>3. q * 1 <= q * b /\ q * b = b * q /\ b * q \in Nat
  BY <1>1, <1>2, Grows
<1>4. q <= a /\ r <= a /\ r >= 0
  BY <1>1, <1>2, <1>3
<1> QED
  BY <1>1, <1>2, <1>4

LEMMA AluTyped ==
  ASSUME NEW f \in AluFns, NEW a \in Register, NEW b \in Register
  PROVE  AluOp(f, a, b) \in Register
<1>1. /\ Modulus \in Nat /\ Modulus >= 2 /\ a \in Nat /\ a < Modulus /\ b \in Nat /\ b < Modulus
      /\ \A n \in Nat : n < Modulus => n \in Register
  BY ModulusIs DEF Register
<1>2. PICK c \in Int, d \in Int : c = AsSigned(a) /\ d = AsSigned(b)
  BY ModulusIs, SignedType DEF SignedRange
<1>3. PICK p \in Nat \ {0} : p = Pow2[b % XLen]
  <2>1. b % XLen \in Nat
    BY <1>1, DataAssumption
  <2> QED
    BY <2>1, Pow2Type
<1>4. CASE f \in {"add", "sub", "sll", "mul", "mulh", "mulhsu", "sra"}
  <2>1. \A n \in Int : AsUnsigned(n) \in Register
    BY AsUnsignedType
  <2>2. /\ a + b \in Int /\ a - b \in Int /\ a * p \in Int /\ a * b \in Int
        /\ c * d \in Int /\ c * b \in Int
    BY <1>1, <1>2, <1>3
  <2>3. (c * d) \div Modulus \in Int /\ (c * b) \div Modulus \in Int /\ c \div p \in Int
    BY <1>1, <1>3, <2>2, DivMod
  <2> QED
    BY <1>2, <1>3, <1>4, <2>1, <2>2, <2>3, AluIs
<1>5. CASE f \in {"slt", "sltu"}
  <2>1. 0 \in Register /\ 1 \in Register
    BY <1>1
  <2> QED
    BY <1>5, <2>1, AluIs DEF Truth
<1>6. CASE f \in {"srl", "divu", "remu"}
  <2>1. a \div p \in 0 .. a
    BY <1>1, <1>3, NotMore
  <2>2. b # 0 => a \div b \in 0 .. a /\ a % b \in 0 .. a
    BY <1>1, NotMore
  <2>3. 0 .. a \subseteq Register /\ Modulus - 1 \in Register
    BY <1>1
  <2> QED
    BY <1>3, <1>6, <2>1, <2>2, <2>3, AluIs
<1>7. CASE f = "mulhu"
  <2>1. a * b \in Int /\ Modulus * 0 <= a * b /\ a * b < Modulus * Modulus
    <3>1. /\ -(Modulus - 1) <= a /\ a <= Modulus - 1 /\ -(Modulus - 1) <= b /\ b <= Modulus - 1
          /\ Modulus - 1 \in Nat
      BY <1>1
    <3>2. a * b <= (Modulus - 1) * (Modulus - 1)
      BY <1>1, <3>1, Magnitudes
    <3>3. (Modulus - 1) * (Modulus - 1) = Modulus * Modulus - 2 * Modulus + 1
      BY <1>1
    <3>4. a * b \in Nat /\ Modulus * Modulus \in Nat /\ Modulus * 0 = 0
      BY <1>1
    <3> QED
      BY <1>1, <3>2, <3>3, <3>4
  <2>2. (a * b) \div Modulus \in 0 .. Modulus - 1
    <3>1. PICK n \in Int : n = a * b
      BY <2>1
    <3>2. Modulus * 0 <= n /\ n < Modulus * Modulus
      BY <2>1, <3>1
    <3>3. Modulus \in Nat \ {0} /\ 0 \in Int /\ Modulus \in Int
      BY <1>1
    <3>4. n \div Modulus \in 0 .. Modulus - 1
      BY <3>1, <3>2, <3>3, QuotientBetween
    <3> QED
      BY <3>1, <3>4
  <2> QED
    BY <1>7, <2>2, AluIs DEF Register
<1>8. CASE f \in {"div", "rem"}
  <2>1. d # 0 => Quotient(c, d) \in Int /\ Remainder(c, d) \in Int
    <3> SUFFICES ASSUME d # 0 PROVE Quotient(c, d) \in Int /\ Remainder(c, d) \in Int
      OBVIOUS
    <3>1. PICK m \in Nat, t \in Nat :
            /\ Quotient(c, d) = IF (c < 0) = (d < 0) THEN m ELSE -m
            /\ Remainder(c, d) = IF c < 0 THEN -t ELSE t
      BY QuotientIs
    <3> QED
      BY <3>1
  <2>2. b # 0 => d # 0
    BY <1>1, <1>2, ModulusIs DEF AsSigned
  <2>3. 0 \in Register /\ Modulus - 1 \in Register
    BY <1>1
  <2>4. Div(a, b) \in Register /\ Rem(a, b) \in Register
    BY <1>2, <2>1, <2>2, <2>3, AsUnsignedType DEF Div, Rem
  <2> QED
    BY <1>8, <2>4, AluIs
<1>9. CASE f \in {"min", "max", "minu", "maxu"}
  <2>1. Lesser(c, d) \in Int /\ Greater(c, d) \in Int /\ Lesser(a, b) \in {a, b} /\ Greater(a, b) \in {a, b}
    BY <1>2 DEF Lesser, Greater
  <2>2. AsUnsigned(Lesser(c, d)) \in Register /\ AsUnsigned(Greater(c, d)) \in Register
    BY <2>1, AsUnsignedType
  <2> QED
    BY <1>2, <1>9, <2>1, <2>2, AluIs
<1>10. CASE f \in {"and", "or", "xor"}
  <2>1. BitAnd(a, b) \in Register /\ BitOr(a, b) \in Register /\ BitXor(a, b) \in Register
    BY BitAssumption
  <2> QED
    BY <1>10, <2>1, AluIs
<1> QED
  BY <1>4, <1>5, <1>6, <1>7, <1>8, <1>9, <1>10 DEF AluFns

--------------------------------------------------------------------------------
(* The loads. *)

(* The bytes of an element make a number below its modulus.                *)
LEMMA JoinBounds ==
  ASSUME NEW T \in Widths, NEW v \in [0 .. T - 1 -> Byte]
  PROVE  Join(v) \in Nat /\ Join(v) < Place(T)
<1> DEFINE B == ByteMod
           C == ByteMod * ByteMod
           D == ByteMod * (ByteMod * ByteMod)
<1>1. B \in Nat \ {0} /\ C \in Nat /\ D \in Nat
      /\ Place(0) = 1 /\ Place(1) = B /\ Place(2) = C /\ Place(3) = D /\ Place(4) = C * C
  <2>1. B \in Nat \ {0}
    BY PlaceIs
  <2>2. C \in Nat
    BY <2>1
  <2>3. D \in Nat
    BY <2>1, <2>2
  <2> QED
    BY <2>1, <2>2, <2>3, PlaceIs
<1>2. C * C = D * B /\ C * B = D
  BY <1>1
<1>3. ASSUME NEW n \in Byte, NEW P \in Nat PROVE n * P \in Nat /\ n * P <= P * B - P
  <2>1. P * n <= P * (B - 1) /\ P * n = n * P /\ n \in Nat
    <3>1. n \in Int /\ n <= B - 1 /\ n >= 0 /\ B - 1 \in Int
      BY <1>1 DEF Byte
    <3> QED
      BY <3>1, Grows
  <2>2. P * (B - 1) = P * B - P /\ n * P \in Nat /\ P * B \in Nat
    BY <1>1, <2>1
  <2> QED
    BY <2>1, <2>2
<1> HIDE DEF B, C, D
<1> DEFINE part(k) == IF k \in DOMAIN v THEN v[k] * Place(k) ELSE 0
<1>4. Join(v) = part(0) + part(1) + part(2) + part(3)
  BY DEF Join
<1>5. DOMAIN v = 0 .. T - 1
  OBVIOUS
<1>6. CASE T = 1
  <2>1. part(0) = v[0] * 1 /\ part(1) = 0 /\ part(2) = 0 /\ part(3) = 0 /\ v[0] \in Byte
    BY <1>1, <1>5, <1>6
  <2> HIDE DEF part
  <2>2. v[0] * 1 \in Nat /\ v[0] * 1 <= 1 * B - 1
    BY <1>3, <2>1
  <2> QED
    BY <1>1, <1>4, <1>6, <2>1, <2>2
<1>7. CASE T = 2
  <2>1. part(0) = v[0] * 1 /\ part(1) = v[1] * B /\ part(2) = 0 /\ part(3) = 0
        /\ v[0] \in Byte /\ v[1] \in Byte
    BY <1>1, <1>5, <1>7
  <2> HIDE DEF part
  <2>2. v[0] * 1 \in Nat /\ v[0] * 1 <= 1 * B - 1 /\ v[1] * B \in Nat /\ v[1] * B <= C - B
    BY <1>1, <1>3, <2>1 DEF B, C
  <2>3. part(0) + part(1) + part(2) + part(3) \in Nat /\ part(0) + part(1) + part(2) + part(3) < C
    BY <1>1, <2>1, <2>2
  <2> QED
    BY <1>1, <1>4, <1>7, <2>3
<1>8. CASE T = 4
  <2>1. /\ part(0) = v[0] * 1 /\ part(1) = v[1] * B /\ part(2) = v[2] * C /\ part(3) = v[3] * D
        /\ v[0] \in Byte /\ v[1] \in Byte /\ v[2] \in Byte /\ v[3] \in Byte
    BY <1>1, <1>5, <1>8
  <2> HIDE DEF part
  <2>2. /\ v[0] * 1 \in Nat /\ v[0] * 1 <= 1 * B - 1 /\ v[1] * B \in Nat /\ v[1] * B <= B * B - B
        /\ v[2] * C \in Nat /\ v[2] * C <= C * B - C /\ v[3] * D \in Nat /\ v[3] * D <= D * B - D
    BY <1>1, <1>3, <2>1
  <2>3. B * B = C
    BY DEF B, C
  <2>4. PICK w \in Nat : w = D * B
    BY <1>1
  <2>5. PICK r \in Nat, s \in Nat, t \in Nat, u \in Nat :
          r = v[0] * 1 /\ s = v[1] * B /\ t = v[2] * C /\ u = v[3] * D
    BY <2>2
  <2>6. r <= B - 1 /\ s <= C - B /\ t <= D - C /\ u <= w - D
    <3>1. r <= 1 * B - 1 /\ s <= B * B - B /\ t <= C * B - C /\ u <= D * B - D
      BY <2>2, <2>5
    <3> QED
      BY <1>1, <1>2, <2>3, <2>4, <3>1
  <2>7. r + s + t + u \in Nat /\ r + s + t + u < w
    <3>1. r \in Nat /\ s \in Nat /\ t \in Nat /\ u \in Nat
      BY <2>5, Zenon
    <3>2. B \in Int /\ C \in Int /\ D \in Int /\ w \in Int
      BY <1>1, <2>4
    <3> QED
      BY <2>6, <3>1, <3>2
  <2>8. Join(v) = r + s + t + u
    BY <1>4, <2>1, <2>5
  <2> QED
    BY <1>1, <1>2, <1>8, <2>4, <2>7, <2>8
<1> QED
  BY <1>6, <1>7, <1>8 DEF Widths

(* Sign extension from a modulus within the width. *)
LEMMA SignExtended ==
  ASSUME NEW m \in Nat \ {0}, m % 2 = 0, m <= Modulus, NEW v \in 0 .. m - 1
  PROVE  LET w == SignExtend(v, m)
         IN  /\ w \in Register /\ (Sgn(w) - v) % m = 0
             /\ Sgn(w) \in -(m \div 2) .. (m \div 2) - 1
<1>1. PICK h \in Nat \ {0} : h = m \div 2 /\ m = 2 * h /\ h <= HalfWord
  BY ModulusIs
<1>2. v % m = v
  <2>1. (m * 0 + v) % m = v
    BY DivModUnique
  <2> QED
    BY <2>1
<1>3. CASE v >= h
  <2>1. SignExtend(v, m) = AsUnsigned(v - m)
    BY <1>1, <1>2, <1>3 DEF SignExtend
  <2>2. v - m \in SignedRange /\ v - m \in -h .. h - 1 /\ v - m \in Int
    BY <1>1, <1>3, ModulusIs DEF SignedRange
  <2>3. Sgn(AsUnsigned(v - m)) = v - m /\ AsUnsigned(v - m) \in Register
    BY <2>2, SgnOf, AsUnsignedType
  <2>4. ((v - m) - v) % m = 0
    <3>1. (m * (-1) + 0) % m = 0
      BY DivModUnique
    <3>2. (v - m) - v = m * (-1) + 0
      OBVIOUS
    <3> QED
      BY <3>1, <3>2
  <2> QED
    BY <1>1, <2>1, <2>2, <2>3, <2>4
<1>4. CASE v < h
  <2>1. SignExtend(v, m) = v
    BY <1>1, <1>2, <1>4 DEF SignExtend
  <2>2. v \in Register /\ Sgn(v) = v
    <3>1. v \in Register /\ ~(v >= HalfWord)
      BY <1>1, <1>4, ModulusIs DEF Register
    <3> QED
      BY <3>1, SgnFacts
  <2>3. v - v = 0 /\ v \in -h .. h - 1
    BY <1>1, <1>4
  <2> QED
    BY <1>1, <2>1, <2>2, <2>3, ZeroMod
<1> QED
  BY <1>1, <1>3, <1>4

LEMMA BytePlaces ==
  /\ Place(1) \in Nat \ {0} /\ Place(1) % 2 = 0 /\ Place(1) <= Modulus
  /\ Place(2) \in Nat \ {0} /\ Place(2) % 2 = 0 /\ Place(2) <= Modulus
  /\ Place(4) = Modulus
<1>1. PICK B \in Nat \ {0}, k \in Nat : B = ByteMod /\ B = 2 * k
  <2>1. ByteMod \in Nat \ {0} /\ ByteMod % 2 = 0
    BY PlaceIs
  <2>2. ByteMod \div 2 \in Nat /\ ByteMod = 2 * (ByteMod \div 2)
    BY <2>1
  <2> QED
    BY <2>1, <2>2
<1>2. PICK C \in Nat \ {0} : C = B * B /\ B <= C /\ C = 2 * (k * B)
  <2>1. B * 1 <= B * B /\ B * B = 2 * (k * B) /\ B * B \in Nat
    BY <1>1, Grows
  <2> QED
    BY <1>1, <2>1
<1>3. C <= C * C
  <2>1. C * 1 <= C * C
    BY <1>2, Grows
  <2> QED
    BY <1>2, <2>1
<1>4. C % 2 = 0 /\ B % 2 = 0
  <2>1. PICK n \in Nat : n = k * B
    BY <1>1
  <2>2. C = 2 * n
    BY <1>2, <2>1
  <2> QED
    BY <1>1, <1>2, <2>1, <2>2
<1>5. C * C \in Nat /\ Place(1) = B /\ Place(2) = C /\ Place(4) = C * C /\ Modulus = C * C
  BY <1>1, <1>2, PlaceIs
<1> QED
  BY <1>1, <1>2, <1>3, <1>4, <1>5

(* What a load leaves in the register, of each width and signedness.       *)
LEMMA LoadIs ==
  ASSUME NEW fn \in Loads, NEW v \in Nat, v < Place(WidthOf[fn])
  PROVE  LET w == LoadValue(fn, v)
             m == Place(WidthOf[fn])
         IN  /\ w \in Register
             /\ fn \in {"lw", "lbu", "lhu"} => w = v
             /\ fn \in {"lb", "lh"} =>
                  (Sgn(w) - v) % m = 0 /\ Sgn(w) \in -(m \div 2) .. (m \div 2) - 1
<1>1. /\ WidthOf["lb"] = 1 /\ WidthOf["lbu"] = 1 /\ WidthOf["lh"] = 2 /\ WidthOf["lhu"] = 2
      /\ WidthOf["lw"] = 4
  BY DEF WidthOf, Loads, Stores
<1>2. Pow2[XLen \div 4] = Place(1) /\ Pow2[XLen \div 2] = Place(2)
  BY PlaceIs
<1>3. /\ LoadValue("lb", v) = SignExtend(v, Place(1)) /\ LoadValue("lh", v) = SignExtend(v, Place(2))
      /\ LoadValue("lbu", v) = v % Place(1) /\ LoadValue("lhu", v) = v % Place(2)
      /\ LoadValue("lw", v) = v
  BY <1>2 DEF LoadValue
<1>4. ASSUME NEW m \in Nat \ {0}, v < m, m <= Modulus PROVE v % m = v /\ v \in Register
  <2>1. v \in 0 .. m - 1 /\ v \in Register
    BY <1>4, ModulusIs DEF Register
  <2>2. (m * 0 + v) % m = v
    BY <2>1, DivModUnique
  <2> QED
    BY <2>1, <2>2
<1>5. CASE fn \in {"lb", "lbu"}
  <2>1. v < Place(1) /\ v \in 0 .. Place(1) - 1
    BY <1>1, <1>5, BytePlaces
  <2>2. v % Place(1) = v /\ v \in Register
    BY <1>4, <2>1, BytePlaces
  <2> QED
    BY <1>1, <1>3, <1>5, <2>1, <2>2, BytePlaces, SignExtended
<1>6. CASE fn \in {"lh", "lhu"}
  <2>1. v < Place(2) /\ v \in 0 .. Place(2) - 1
    BY <1>1, <1>6, BytePlaces
  <2>2. v % Place(2) = v /\ v \in Register
    BY <1>4, <2>1, BytePlaces
  <2> QED
    BY <1>1, <1>3, <1>6, <2>1, <2>2, BytePlaces, SignExtended
<1>7. CASE fn = "lw"
  <2>1. v \in Register
    BY <1>1, <1>7, BytePlaces, ModulusIs DEF Register
  <2> QED
    BY <1>3, <1>7, <2>1
<1> QED
  BY <1>5, <1>6, <1>7 DEF Loads

--------------------------------------------------------------------------------
(* The steps.  A load that has just happened has left its bytes in answer  *)
(* and what they stand for in the register.                                *)

LoadDone ==
  executed \in Loads =>
    /\ answer \in [0 .. WidthOf[executed] - 1 -> Byte]
    /\ x[2] = LoadValue(executed, Join(answer))

DataInv == DataTypeOK /\ LoadDone

(* The words of which elements consist are bytes of the memory.            *)
LEMMA ElementTyped ==
  ASSUME memory \in [Offsets -> Byte], NEW T \in Widths, NEW a \in RamAddresses
  PROVE  Element(T, AddressToIndex(T, a)) \in [0 .. T - 1 -> Byte]
<1>1. \A k \in 0 .. T - 1 : T * AddressToIndex(T, a) + k \in Offsets
  BY AccessInBounds
<1> QED
  BY <1>1 DEF Element

LEMMA LoadKeeps ==
  ASSUME DataInv, NEW fn \in Loads, LoadRam(fn)
  PROVE  DataInv'
<1> DEFINE T == WidthOf[fn]
<1>1. T \in Widths /\ x[1] \in RamAddresses
  BY WidthsOfInstructions DEF LoadRam
<1>2. /\ answer' = Element(T, AddressToIndex(T, x[1])) /\ memory' = memory /\ executed' = fn
      /\ x' = [x EXCEPT ![2] = LoadValue(fn, Join(answer'))] /\ aborted' = aborted
  BY DEF LoadRam, Peek
<1>3. memory \in [Offsets -> Byte] /\ x \in [{1, 2} -> Register]
  BY DEF DataInv, DataTypeOK, RamTypeOK
<1>4. answer' \in [0 .. T - 1 -> Byte]
  BY <1>1, <1>2, <1>3, ElementTyped
<1>5. LoadValue(fn, Join(answer')) \in Register
  <2>1. PICK v : v = Join(answer')
    OBVIOUS
  <2>2. v \in Nat /\ v < Place(WidthOf[fn])
    BY <1>1, <1>4, <2>1, JoinBounds
  <2> QED
    BY <2>1, <2>2, LoadIs
<1> HIDE DEF T
<1>6. x' \in [{1, 2} -> Register] /\ x'[2] = LoadValue(fn, Join(answer'))
  BY <1>2, <1>3, <1>5
<1>7. RamTypeOK'
  BY <1>1, <1>2, <1>3, <1>4 DEF RamTypeOK
<1>8. DataTypeOK'
  BY <1>2, <1>6, <1>7 DEF DataInv, DataTypeOK
<1>9. LoadDone'
  BY <1>2, <1>4, <1>6 DEF LoadDone, T
<1> QED
  BY <1>8, <1>9 DEF DataInv

LEMMA StoreKeeps ==
  ASSUME DataInv, NEW fn \in Stores, StoreRam(fn)
  PROVE  DataInv'
<1> DEFINE T == WidthOf[fn]
           i == AddressToIndex(T, x[1])
<1>1. T \in Widths
  BY WidthsOfInstructions
<1>2. /\ memory' = [o \in Offsets |-> IF o \div T = i THEN Split(T, x[2])[o % T] ELSE memory[o]]
      /\ answer' = <<>> /\ executed' = fn /\ UNCHANGED <<x, aborted>>
  BY DEF StoreRam, Poke
<1>3. memory \in [Offsets -> Byte] /\ x \in [{1, 2} -> Register]
  BY DEF DataInv, DataTypeOK, RamTypeOK
<1>4. ASSUME NEW k \in 0 .. T - 1 PROVE Split(T, x[2])[k] \in Byte
  <2>1. k \in 0 .. 3
    BY <1>1 DEF Widths
  <2>2. Place(k) \in Nat \ {0}
    <3>1. k * (XLen \div 4) \in Nat
      BY <2>1, DataAssumption
    <3> QED
      BY <3>1, Pow2Type DEF Place
  <2>3. x[2] \in Int
    BY <1>3, ModulusIs DEF Register
  <2>4. x[2] \div Place(k) \in Int
    BY <2>2, <2>3, DivMod
  <2>5. ByteMod \in Nat \ {0}
    BY PlaceIs
  <2>6. (x[2] \div Place(k)) % ByteMod \in 0 .. ByteMod - 1
    BY <2>4, <2>5, DivMod
  <2> QED
    BY <2>6 DEF Split, Byte
<1>5. \A o \in Offsets : o % T \in 0 .. T - 1
  <2>1. T = 1 \/ T = 2 \/ T = 4
    BY <1>1 DEF Widths
  <2> HIDE DEF T
  <2> QED
    BY <2>1, RamAssumption DEF Offsets
<1> HIDE DEF T, i
<1>6. memory' \in [Offsets -> Byte]
  BY <1>2, <1>3, <1>4, <1>5
<1>7. DataTypeOK'
  BY <1>2, <1>6 DEF DataInv, DataTypeOK, RamTypeOK
<1>8. fn \notin Loads
  BY DEF Loads, Stores
<1> QED
  BY <1>2, <1>7, <1>8 DEF DataInv, LoadDone

(* Whatever leaves memory alone and registers in their range. *)
LEMMA QuietKeeps ==
  ASSUME DataInv, Untouched, executed' = "none", x' \in [{1, 2} -> Register], aborted' \in BOOLEAN
  PROVE  DataInv'
<1>1. "none" \notin Loads
  BY DEF Loads
<1> QED
  BY <1>1 DEF DataInv, DataTypeOK, RamTypeOK, LoadDone, Untouched

LEMMA ComputeKeeps ==
  ASSUME DataInv, NEW f \in AluFns, NEW rd \in {1, 2}, Compute(f, rd)
  PROVE  DataInv'
<1>1. x \in [{1, 2} -> Register] /\ aborted \in BOOLEAN
  BY DEF DataInv, DataTypeOK
<1>2. AluOp(f, x[1], x[2]) \in Register
  <2>1. x[1] \in Register /\ x[2] \in Register
    BY <1>1
  <2> QED
    BY <2>1, AluTyped
<1>3. x' \in [{1, 2} -> Register]
  BY <1>1, <1>2 DEF Compute
<1> QED
  BY <1>1, <1>3, QuietKeeps DEF Compute

LEMMA DataInvInit == DataInit => DataInv
<1> SUFFICES ASSUME DataInit PROVE DataInv
  OBVIOUS
<1>1. memory = [o \in Offsets |-> 0] /\ answer = <<>> /\ executed = "none"
      /\ x = [r \in {1, 2} |-> 0] /\ aborted = FALSE
  BY DEF DataInit, RamInit
<1>2. 0 \in Byte /\ 0 \in Register
  BY PlaceIs, ModulusIs DEF Byte, Register
<1>3. "none" \notin Loads
  BY DEF Loads
<1> QED
  BY <1>1, <1>2, <1>3 DEF DataInv, DataTypeOK, RamTypeOK, LoadDone

LEMMA DataInvStep == DataInv /\ [DataNext]_dataVars => DataInv'
<1> SUFFICES ASSUME DataInv, [DataNext]_dataVars PROVE DataInv'
  OBVIOUS
<1>1. x \in [{1, 2} -> Register] /\ aborted \in BOOLEAN
  BY DEF DataInv, DataTypeOK
<1>2. ASSUME NEW fn \in Loads \cup Stores, WordMmio(fn) PROVE DataInv'
  <2>1. x' \in [{1, 2} -> Register]
    BY <1>1, <1>2, DataAssumption DEF WordMmio
  <2> QED
    BY <1>1, <1>2, <2>1, QuietKeeps DEF WordMmio
<1>3. ASSUME NEW fn \in Loads \cup Stores, SubWordMmio(fn) PROVE DataInv'
  BY <1>1, <1>3, QuietKeeps DEF SubWordMmio
<1>4. CASE Fault
  BY <1>1, <1>4, QuietKeeps DEF Fault
<1>5. CASE UNCHANGED dataVars
  BY <1>5 DEF DataInv, DataTypeOK, RamTypeOK, LoadDone, dataVars, ramVars
<1> QED
  BY <1>2, <1>3, <1>4, <1>5, LoadKeeps, StoreKeeps, ComputeKeeps DEF DataNext

(* The invariant of a guest's data: the types, and that a load has just    *)
(* left in its register what its bytes stand for.                          *)
THEOREM DataInvariant == DataSpec => []DataInv
BY DataInvInit, DataInvStep, PTL DEF DataSpec

(* Registers stay words and memory stays bytes, whatever a guest computes, *)
(* loads and stores (CPU.cpp:145-245).                                     *)
THEOREM DataTypeCorrect == DataSpec => []DataTypeOK
BY DataInvariant, PTL DEF DataInv

(* For every pair of operands a guest can have in its registers, DIV and   *)
(* REM are the two parts of one truncating division, by zero and at its    *)
(* one overflow too, and DIVU and REMU of another (CPU.cpp:206-229).       *)
THEOREM DivisionIsRight == DataSpec => []DivisionContract
<1>1. DataInv => DivisionContract
  BY DivisionHolds DEF DataInv, DataTypeOK
<1> QED
  BY <1>1, DataInvariant, PTL

(* MUL and the three high products are the halves of the signed, the mixed *)
(* and the unsigned product of twice the width (CPU.cpp:202-205).          *)
THEOREM ProductsAreWide == DataSpec => []WideProducts
<1>1. DataInv => WideProducts
  BY WideProductsHold DEF DataInv, DataTypeOK
<1> QED
  BY <1>1, DataInvariant, PTL

(* Shifts lose only the bits that fall out, and every comparison and       *)
(* extremum agrees with the order it is of (CPU.cpp:234-243, 377-380).     *)
THEOREM ShiftsAndOrderAreRight == DataSpec => []ShiftsAndOrder
<1>1. DataInv => ShiftsAndOrder
  BY ShiftsHold DEF DataInv, DataTypeOK
<1> QED
  BY <1>1, DataInvariant, PTL

(* A load leaves the number its bytes stand for, read as a natural or in   *)
(* two's complement of their own width (CPU.cpp:151-159).                  *)
THEOREM LoadsAreRight == DataSpec => []LoadsMean
<1>1. ASSUME DataInv PROVE LoadsMean
  <2>1. CASE executed \in Loads
    <3>1. PICK v : v = Join(answer)
      OBVIOUS
    <3>2. x[2] = LoadValue(executed, v) /\ answer \in [0 .. WidthOf[executed] - 1 -> Byte]
      BY <1>1, <2>1, <3>1 DEF DataInv, LoadDone
    <3>3. v \in Nat /\ v < Place(WidthOf[executed])
      BY <2>1, <3>1, <3>2, WidthsOfInstructions, JoinBounds
    <3> QED
      BY <2>1, <3>1, <3>2, <3>3, LoadIs DEF LoadsMean
  <2>2. CASE executed \notin Loads
    BY <2>2 DEF LoadsMean, Loads
  <2> QED
    BY <2>1, <2>2
<1> QED
  BY <1>1, DataInvariant, PTL
================================================================================
