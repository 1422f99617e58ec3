------------------------- MODULE ModularArithmetic -------------------------
(***************************************************************************)
(* Facts about the remainder that RingBuffer::normalize() computes with,   *)
(* for every ring size S.                                                  *)
(***************************************************************************)
EXTENDS Integers, TLAPS

(* Division with remainder: normalize(a) lies in the ring, and a is whole   *)
(* turns of the ring plus normalize(a).                                     *)
LEMMA DivMod ==
    ASSUME NEW S \in Nat \ {0}, NEW a \in Nat
    PROVE  /\ a % S \in 0..(S-1)
           /\ a \div S \in Nat
           /\ a = S * (a \div S) + (a % S)
  BY Z3

(* The only multiple of S strictly between -S and S is zero. *)
LEMMA MultipleIsZero ==
    ASSUME NEW S \in Nat \ {0}, NEW q \in Int, NEW d \in Int, d = q * S, d > 0 - S, d < S
    PROVE  q = 0
<1>1. q <= 0 
   <2> SUFFICES ASSUME q >= 1 PROVE FALSE OBVIOUS
   <2>1. q * S >= S OBVIOUS
   <2> QED BY <2>1
<1>2. q >= 0
   <2> SUFFICES ASSUME q <= -1 PROVE FALSE OBVIOUS
   <2>1. (0-q) * S >= S OBVIOUS
   <2> QED BY <2>1
<1> QED BY <1>1, <1>2

(* Positions a whole number of turns apart are the same cell of the ring. *)
LEMMA SameCell ==
    ASSUME NEW S \in Nat \ {0}, NEW a \in Nat, NEW b \in Nat, NEW k \in Int, a = b + k * S
    PROVE  a % S = b % S
<1> DEFINE qa == a \div S
           qb == b \div S
           ra == a % S
           rb == b % S
<1>1. /\ ra \in 0..(S-1) /\ qa \in Nat /\ a = S * qa + ra
  BY DivMod
<1>2. /\ rb \in 0..(S-1) /\ qb \in Nat /\ b = S * qb + rb
  BY DivMod
<1> HIDE DEF qa, qb, ra, rb
<1>3. ra - rb = (k + qb - qa) * S
  <2>1. (k + qb - qa) * S = k * S + S * qb - S * qa
    BY <1>1, <1>2
  <2>2. S * qa \in Int /\ S * qb \in Int /\ k * S \in Int
    BY <1>1, <1>2
  <2> QED BY <1>1, <1>2, <2>1, <2>2
<1>4. k + qb - qa = 0
  BY <1>1, <1>2, <1>3, MultipleIsZero
<1>5. ra = rb
  BY <1>1, <1>2, <1>3, <1>4
<1> QED BY <1>5 DEF ra, rb

(* Positions less than one turn apart are different cells of the ring. *)
LEMMA DifferentCells ==
    ASSUME NEW S \in Nat \ {0}, NEW a \in Nat, NEW b \in Nat, a < b, b - a < S
    PROVE  a % S # b % S
<1> SUFFICES ASSUME a % S = b % S PROVE FALSE OBVIOUS
<1> DEFINE qa == a \div S
           qb == b \div S
           ra == a % S
<1>1. /\ ra \in 0..(S-1) /\ qa \in Nat /\ a = S * qa + ra
  BY DivMod
<1>2. /\ qb \in Nat /\ b = S * qb + ra
  BY DivMod
<1> HIDE DEF qa, qb, ra
<1>3. b - a = (qb - qa) * S
  <2>1. (qb - qa) * S = S * qb - S * qa
    BY <1>1, <1>2
  <2>2. S * qa \in Int /\ S * qb \in Int
    BY <1>1, <1>2
  <2> QED BY <1>1, <1>2, <2>1, <2>2
<1>4. qb - qa = 0
  BY <1>1, <1>2, <1>3, MultipleIsZero
<1> QED BY <1>3, <1>4

(* Adding to a sum before or after its reduction makes no difference. *)
LEMMA AddModulo ==
    ASSUME NEW S \in Nat \ {0}, NEW a \in Nat, NEW n \in Nat
    PROVE  ((a % S) + n) % S = (a + n) % S
<1> DEFINE q == a \div S
           r == a % S
<1>1. r \in Nat /\ q \in Nat /\ a = S * q + r
  BY DivMod
<1> HIDE DEF q, r
<1>2. S * q = q * S /\ q * S \in Nat
  BY <1>1
<1>3. a + n = (r + n) + q * S
  BY <1>1, <1>2
<1>4. (a + n) % S = (r + n) % S
  <2> DEFINE x == a + n
             y == r + n
  <2>1. x \in Nat /\ y \in Nat /\ q \in Int /\ x = y + q * S
    BY <1>1, <1>3
  <2> HIDE DEF x, y
  <2>2. x % S = y % S
    BY <2>1, SameCell
  <2> QED BY <2>2 DEF x, y
<1> QED BY <1>4 DEF r

(* The remainder of a number below one turn, and below two turns *)
LEMMA WordReduced ==
    ASSUME NEW S \in Nat \ {0}, NEW a \in Nat
    PROVE  /\ a < S => a % S = a
           /\ a >= S /\ a < 2 * S => a % S = a - S
<1> DEFINE q == a \div S
           r == a % S
<1>1. r \in 0..(S - 1) /\ q \in Nat /\ a = S * q + r
  BY DivMod
<1> HIDE DEF q, r
<1>2. ASSUME a < S PROVE r = a
  <2>1. a - r = q * S /\ a - r > 0 - S /\ a - r < S
    BY <1>1, <1>2
  <2>2. q = 0
    BY <1>1, <2>1, MultipleIsZero
  <2> QED BY <1>1, <2>2
<1>3. ASSUME a >= S, a < 2 * S PROVE r = a - S
  <2>1. (q - 1) * S = S * q - S /\ S * q \in Nat
    BY <1>1
  <2>2. a - S - r = (q - 1) * S /\ a - S - r > 0 - S /\ a - S - r < S
    BY <1>1, <1>3, <2>1
  <2>3. q - 1 = 0
    BY <1>1, <2>2, MultipleIsZero
  <2> QED BY <1>1, <2>2, <2>3
<1> QED BY <1>2, <1>3 DEF r

(* An addition that stays within the largest value W of an unsigned word *)
LEMMA WithinWidth ==
    ASSUME NEW W \in Nat, NEW a \in Nat, NEW n \in Nat, a + n <= W
    PROVE  (a + n) % (W + 1) = a + n
<1> DEFINE x == a + n
           S == W + 1
<1>1. x \in Nat /\ S \in Nat \ {0} /\ x < S
  OBVIOUS
<1> HIDE DEF x, S
<1>2. x % S = x
  BY <1>1, WordReduced
<1> QED BY <1>2 DEF x, S
=============================================================================
