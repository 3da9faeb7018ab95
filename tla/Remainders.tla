----------------------------- MODULE Remainders ----------------------------
(***************************************************************************)
(* What the proofs use of arithmetic: division by a divisor that is not a  *)
(* number (the provers compute with constants only), the order of          *)
(* products, and induction over the naturals, for what a recursive         *)
(* function computes: the library's needs an operator, this one a set.     *)
(***************************************************************************)
EXTENDS Integers, WellFoundedInduction, TLAPS

(* Division with remainder.                                                *)
LEMMA DivMod ==
  ASSUME NEW a \in Int, NEW N \in Nat \ {0}
  PROVE  /\ a % N \in 0 .. N - 1
         /\ a \div N \in Int
         /\ a = (a \div N) * N + (a % N)
BY SMT

LEMMA Quotient ==
  ASSUME NEW a \in Int, NEW N \in Nat \ {0}
  PROVE  a % N \in Int /\ \E q \in Int : a = q * N + (a % N)
<1>1. a % N \in Int /\ a \div N \in Int /\ a = (a \div N) * N + (a % N)
  BY DivMod
<1> QED BY <1>1, Zenon

(* A multiple of N nearer to zero than N is zero.                          *)
LEMMA SmallMultiple ==
  ASSUME NEW d \in Int, NEW N \in Nat \ {0}, d * N < N, d * N > 0 - N
  PROVE  d = 0
<1>1. CASE d >= 1
  <2>1. d * N >= 1 * N BY <1>1, SMT
  <2> QED BY <2>1, SMT
<1>2. CASE d <= -1
  <2>1. d * N <= (-1) * N BY <1>2, SMT
  <2> QED BY <2>1, SMT
<1> QED BY <1>1, <1>2, SMT

(* The remainder is unique.                                                *)
LEMMA ModUnique ==
  ASSUME NEW a \in Int, NEW N \in Nat \ {0}, NEW q \in Int,
         NEW r \in 0 .. N - 1, a = q * N + r
  PROVE  a % N = r
<1> DEFINE p == a \div N
           s == a % N
<1>1. p \in Int /\ s \in 0 .. N - 1 /\ a = p * N + s BY DivMod
<1>2. (p - q) * N = r - s BY <1>1, SMT
<1>3. p - q = 0 BY <1>1, <1>2, SmallMultiple, SMT
<1> QED BY <1>1, <1>2, <1>3, SMT

(* Multiples of N do not change a remainder.                               *)
LEMMA ModShift ==
  ASSUME NEW a \in Int, NEW N \in Nat \ {0}, NEW q \in Int
  PROVE  (a + q * N) % N = a % N
<1> DEFINE p == a \div N
           r == a % N
           m == p + q
<1>1. p \in Int /\ r \in 0 .. N - 1 /\ a = p * N + r BY DivMod
<1>2. m \in Int /\ a + q * N = m * N + r BY <1>1, SMT
<1>3. a + q * N \in Int BY SMT
<1> HIDE DEF m, p, r
<1>4. (a + q * N) % N = r BY <1>1, <1>2, <1>3, ModUnique
<1> QED BY <1>4 DEF r
(* Products are ordered as their factors.                                  *)
LEMMA TimesOrder ==
  ASSUME NEW a \in Int, NEW b \in Int, NEW c \in Nat, a <= b
  PROVE  a * c <= b * c
<1>1. PICK d \in Nat : b = a + d
  <2>1. b - a \in Nat /\ b = a + (b - a) OBVIOUS
  <2> QED BY <2>1
<1>2. d * c >= 0 BY SMT
<1>3. b * c = a * c + d * c BY <1>1, SMT
<1> QED BY <1>2, <1>3

LEMMA TimesLess ==
  ASSUME NEW a \in Int, NEW b \in Int, NEW c \in Nat \ {0}, a * c < b * c
  PROVE  a < b
<1> SUFFICES ASSUME b <= a PROVE FALSE OBVIOUS
<1>1. b * c <= a * c BY TimesOrder
<1> QED BY <1>1

(* The quotient and the remainder are unique.                              *)
LEMMA DivUnique ==
  ASSUME NEW a \in Int, NEW N \in Nat \ {0}, NEW q \in Int,
         NEW r \in 0 .. N - 1, a = q * N + r
  PROVE  a % N = r /\ a \div N = q
<1>1. a % N = r BY ModUnique
<1> DEFINE p == a \div N
<1>2. p \in Int /\ a = p * N + r BY <1>1, DivMod
<1>3. (p - q) * N = 0 BY <1>2, SMT
<1>4. p - q = 0 BY <1>2, <1>3, SmallMultiple, SMT
<1> QED BY <1>1, <1>2, <1>4

-----------------------------------------------------------------------------
(* Induction: a set with zero and with each number's successor has all.    *)
LEMMA SetInduction ==
  ASSUME NEW S, 0 \in S, \A n \in Nat : n \in S => n + 1 \in S
  PROVE  Nat \subseteq S
<1> DEFINE R == OpToRel(<, Nat)
           T == Nat \ S
<1>1. IsWellFoundedOn(R, Nat) BY NatLessThanWellFounded
<1>2. R = {ss \in Nat \X Nat : ss[1] < ss[2]} BY DEF OpToRel
<1> HIDE DEF R
<1>3. ASSUME T # {} PROVE FALSE
  <2>1. PICK x \in T : \A y \in T : ~ (<<y, x>> \in R)
    BY <1>1, <1>3, WFMin
  <2>2. x # 0 /\ x - 1 \in Nat /\ x - 1 < x BY <2>1
  <2>3. x - 1 \in T BY <2>1, <2>2
  <2>4. <<x - 1, x>> \in R BY <1>2, <2>1, <2>2
  <2> QED BY <2>1, <2>3, <2>4
<1> QED BY <1>3
=============================================================================
