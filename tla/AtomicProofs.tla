---------------------------- MODULE AtomicProofs ----------------------------
(***************************************************************************)
(* Proofs about Atomic, for every set of threads, width and arguments:     *)
(* Atomic32::addAndGet() implements the atomic counter, and no carry of    *)
(* Atomic64 is lost or made twice.                                         *)
(***************************************************************************)
EXTENDS Atomic, ModularArithmetic, FiniteSetTheorems

-----------------------------------------------------------------------------
(* The widths: one word, and two words multiplied. *)
LEMMA Widths ==
    /\ WordMax \in Nat /\ Word \in Nat \ {0} /\ Word = WordMax + 1
    /\ Word * Word \in Nat \ {0}
<1>1. WordMax \in Nat
  BY AtomicAssumption
<1>2. Word \in Nat \ {0} /\ Word = WordMax + 1
  BY <1>1 DEF Word
<1>3. \A w \in Nat \ {0} : w * w \in Nat \ {0}
  OBVIOUS
<1> QED BY <1>1, <1>2, <1>3

(* A remainder of the width fits in a word. *)
LEMMA InWord ==
    ASSUME NEW n \in Nat
    PROVE  n % Word \in 0..WordMax
<1>1. n % Word \in 0..(Word - 1)
  BY DivMod, Widths
<1> QED BY <1>1, Widths

(* The arguments are natural numbers of at most two words. *)
LEMMA Arguments ==
    ASSUME NEW n \in Adds
    PROVE  n \in Nat /\ n \in 0..(Word * Word - 1)
  BY AtomicAssumption, Widths

(* An initial value of two words has a high word that fits. *)
LEMMA HighFits ==
    ASSUME NEW n \in 0..(Word * Word - 1)
    PROVE  n \div Word \in 0..WordMax
<1> DEFINE q == n \div Word
           r == n % Word
<1>0. n \in Nat
  BY Widths
<1>1. q \in Nat /\ r \in 0..(Word - 1) /\ n = Word * q + r
  BY <1>0, DivMod, Widths
<1> HIDE DEF q, r
<1>2. q <= WordMax
  <2> SUFFICES ASSUME q >= Word PROVE FALSE
    BY <1>1, Widths
  <2>1. Word * q >= Word * Word
    BY <1>1, Widths
  <2>2. Word * q \in Nat
    BY <1>1, Widths
  <2> QED BY <1>1, <2>1, <2>2, Widths
<1> QED BY <1>1, <1>2, Widths DEF q

-----------------------------------------------------------------------------
(* The constructors establish the types. *)
LEMMA InitTypes == AtomicInit => AtomicTypes
<1> SUFFICES ASSUME AtomicInit PROVE AtomicTypes
  OBVIOUS
<1>1. PICK initial \in Adds :
        /\ value = initial % Word
        /\ low = initial % Word
        /\ high = initial \div Word
        /\ total = initial
  BY DEF AtomicInit
<1>2. initial \in Nat /\ initial \in 0..(Word * Word - 1)
  BY Arguments
<1>3. value \in 0..WordMax /\ low \in 0..WordMax
  BY <1>1, <1>2, InWord
<1>4. high \in 0..WordMax
  BY <1>1, <1>2, HighFits
<1> QED BY <1>1, <1>2, <1>3, <1>4, Widths DEF AtomicInit, AtomicTypes

(* Every step of addAndGet() preserves the types. *)
LEMMA StepTypes == AtomicTypes /\ [AtomicNext]_atomicVars => AtomicTypes'
<1> SUFFICES ASSUME AtomicTypes, [AtomicNext]_atomicVars PROVE AtomicTypes'
  OBVIOUS
<1> USE Widths
<1>1. ASSUME NEW t \in Adders, NEW n \in Adds, NEW first \in {"load", "low"},
             AddAndGet(t, n, first)
      PROVE  AtomicTypes'
  <2>1. n % Word \in 0..WordMax
    BY Arguments, InWord
  <2> QED BY <1>1, <2>1 DEF AddAndGet, AtomicTypes, Steps32, Steps64
<1>2. ASSUME NEW t \in Adders, LoadValue(t) PROVE AtomicTypes'
  BY <1>2 DEF LoadValue, AtomicTypes, Steps32, Steps64
<1>3. ASSUME NEW t \in Adders, CasValue(t) PROVE AtomicTypes'
  <2>1. current[t] + add[t] \in Nat
    BY DEF AtomicTypes
  <2>2. (current[t] + add[t]) % Word \in 0..WordMax
    BY <2>1, InWord
  <2>3. value' \in 0..WordMax /\ result' \in [Adders -> Nat]
    BY <1>3, <2>2 DEF CasValue, AtomicTypes
  <2> QED BY <1>3, <2>3 DEF CasValue, AtomicTypes, Steps32, Steps64
<1>4. ASSUME NEW t \in Adders, AddLow(t) PROVE AtomicTypes'
  <2>1. low + add[t] \in Nat /\ total + add[t] \in Nat
    BY DEF AtomicTypes
  <2>2. (low + add[t]) % Word \in 0..WordMax
    BY <2>1, InWord
  <2>3. (total + add[t]) % (Word * Word) \in 0..(Word * Word - 1)
    BY <2>1, DivMod
  <2>4. low' \in 0..WordMax /\ total' \in 0..(Word * Word - 1) /\ result' \in [Adders -> Nat]
    BY <1>4, <2>2, <2>3 DEF AddLow, AtomicTypes
  <2> QED BY <1>4, <2>4 DEF AddLow, AtomicTypes, Steps32, Steps64
<1>5. ASSUME NEW t \in Adders, AddHigh(t) PROVE AtomicTypes'
  <2>1. current[t] + add[t] \in Nat /\ high + 1 \in Nat
    BY DEF AtomicTypes
  <2>2. (current[t] + add[t]) % Word \in Nat /\ high' \in 0..WordMax
    BY <1>5, <2>1, InWord DEF AddHigh
  <2>3. high' * Word \in Nat
    <3>1. \A i, j \in Nat : i * j \in Nat
      OBVIOUS
    <3>2. high' \in Nat /\ Word \in Nat
      BY <2>2
    <3> QED BY <3>1, <3>2, Zenon
  <2>4. result' \in [Adders -> Nat]
    BY <1>5, <2>2, <2>3 DEF AddHigh, AtomicTypes
  <2> QED BY <1>5, <2>2, <2>4 DEF AddHigh, AtomicTypes, Steps32, Steps64
<1>6. ASSUME NEW t \in Adders, AddReturn(t) PROVE AtomicTypes'
  BY <1>6 DEF AddReturn, AtomicTypes, Steps32, Steps64
<1>7. ASSUME UNCHANGED atomicVars PROVE AtomicTypes'
  BY <1>7 DEF atomicVars, AtomicTypes
<1> QED BY <1>1, <1>2, <1>3, <1>4, <1>5, <1>6, <1>7 DEF AtomicNext

(* The types are an invariant. *)
LEMMA TypesInvariant == AtomicSpec => []AtomicTypes
  BY InitTypes, StepTypes, PTL DEF AtomicSpec

-----------------------------------------------------------------------------
(* The refinement mapping of Counter32: the call of each thread as the     *)
(* atomic counter sees it.                                                 *)
OpBar == [t \in Adders |-> CASE apc[t] \in {"load", "cas"} -> Call("pending", add[t])
                             [] apc[t] = "got" -> Call("done", result[t])
                             [] OTHER -> Call("idle", 0)]

(* What each step of addAndGet() of Atomic32 does to the mapped call; the  *)
(* steps of Atomic64 are not seen.                                         *)
LEMMA OpBarAt ==
    ASSUME NEW t \in Adders
    PROVE  /\ apc[t] \in {"load", "cas"} => OpBar[t] = Call("pending", add[t])
           /\ apc[t] = "got" => OpBar[t] = Call("done", result[t])
           /\ apc[t] \notin Steps32 => OpBar[t] = Call("idle", 0)
           /\ apc'[t] \in {"load", "cas"} => OpBar'[t] = Call("pending", add'[t])
           /\ apc'[t] = "got" => OpBar'[t] = Call("done", result'[t])
           /\ apc'[t] \notin Steps32 => OpBar'[t] = Call("idle", 0)
  BY DEF OpBar, Steps32

(* A step changes the mapped call of at most its own thread. *)
LEMMA OpBarOthers ==
    ASSUME NEW t \in Adders, NEW a, NEW b, NEW c,
           AtomicTypes,
           apc' = [apc EXCEPT ![t] = a],
           add' = add \/ add' = [add EXCEPT ![t] = b],
           result' = result \/ result' = [result EXCEPT ![t] = c]
    PROVE  OpBar' = [OpBar EXCEPT ![t] = OpBar'[t]]
<1>1. \A u \in Adders : u # t => apc'[u] = apc[u] /\ add'[u] = add[u] /\ result'[u] = result[u]
  BY DEF AtomicTypes
<1>2. \A u \in Adders : u # t => OpBar'[u] = OpBar[u]
  BY <1>1 DEF OpBar
<1> QED BY <1>2 DEF OpBar

(* Every step of the implementation is a step of the atomic counter or      *)
(* leaves the mapped state alone.                                           *)
LEMMA CounterStep == AtomicTypes /\ [AtomicNext]_atomicVars => [Counter32!Next]_<<value, OpBar>>
<1> SUFFICES ASSUME AtomicTypes, [AtomicNext]_atomicVars
             PROVE  [Counter32!Next]_<<value, OpBar>>
  OBVIOUS
<1>1. ASSUME NEW t \in Adders, NEW n \in Adds, AddAndGet(t, n, "load")
      PROVE  Counter32!Next
  <2>1. n % Word \in 0..(Word - 1)
    BY Arguments, DivMod, Widths
  <2>2. OpBar' = [OpBar EXCEPT ![t] = OpBar'[t]]
    BY <1>1, OpBarOthers DEF AddAndGet
  <2>3. apc[t] = "idle" /\ apc'[t] = "load" /\ add'[t] = n % Word
    BY <1>1 DEF AddAndGet, AtomicTypes
  <2>4. OpBar[t] = Call("idle", 0) /\ OpBar'[t] = Call("pending", n % Word)
    BY <2>3, OpBarAt DEF Steps32
  <2>5. Counter32!Invoke(t)
    BY <1>1, <2>1, <2>2, <2>4, ZenonT(60) DEF AddAndGet, Counter32!Invoke, Counter32!IdleOp, Call, OpBar
  <2> QED BY <2>5 DEF Counter32!Next
<1>2. ASSUME NEW t \in Adders, NEW n \in Adds, AddAndGet(t, n, "low")
      PROVE  UNCHANGED <<value, OpBar>>
  <2>1. OpBar' = [OpBar EXCEPT ![t] = OpBar'[t]]
    BY <1>2, OpBarOthers DEF AddAndGet
  <2>2. apc[t] = "idle" /\ apc'[t] = "low"
    BY <1>2 DEF AddAndGet, AtomicTypes
  <2>3. OpBar[t] = OpBar'[t]
    BY <2>2, OpBarAt DEF Steps32
  <2> QED BY <1>2, <2>1, <2>3 DEF AddAndGet, OpBar
<1>3. ASSUME NEW t \in Adders, LoadValue(t)
      PROVE  UNCHANGED <<value, OpBar>>
  <2>1. OpBar' = [OpBar EXCEPT ![t] = OpBar'[t]]
    BY <1>3, OpBarOthers DEF LoadValue
  <2>2. apc[t] = "load" /\ apc'[t] = "cas" /\ add' = add
    BY <1>3 DEF LoadValue, AtomicTypes
  <2>3. OpBar[t] = OpBar'[t]
    BY <2>2, OpBarAt
  <2> QED BY <1>3, <2>1, <2>3 DEF LoadValue, OpBar
<1>4. ASSUME NEW t \in Adders, CasValue(t), value = current[t]
      PROVE  Counter32!Next
  <2>1. OpBar' = [OpBar EXCEPT ![t] = OpBar'[t]]
    BY <1>4, OpBarOthers DEF CasValue
  <2>2. apc[t] = "cas" /\ apc'[t] = "got" /\ result'[t] = value'
        /\ value' = (value + add[t]) % Word
    BY <1>4 DEF CasValue, AtomicTypes
  <2>3. OpBar[t] = Call("pending", add[t]) /\ OpBar'[t] = Call("done", value')
    BY <2>2, OpBarAt
  <2>4. Counter32!Add(t)
    BY <2>1, <2>2, <2>3 DEF Counter32!Add, Call, OpBar
  <2> QED BY <2>4 DEF Counter32!Next
<1>5. ASSUME NEW t \in Adders, CasValue(t), value # current[t]
      PROVE  UNCHANGED <<value, OpBar>>
  <2>1. OpBar' = [OpBar EXCEPT ![t] = OpBar'[t]]
    BY <1>5, OpBarOthers DEF CasValue
  <2>2. apc[t] = "cas" /\ apc'[t] = "load" /\ add' = add
    BY <1>5 DEF CasValue, AtomicTypes
  <2>3. OpBar[t] = OpBar'[t]
    BY <2>2, OpBarAt
  <2> QED BY <1>5, <2>1, <2>3 DEF CasValue, OpBar
<1>6. ASSUME NEW t \in Adders, AddLow(t) \/ AddHigh(t)
      PROVE  UNCHANGED <<value, OpBar>>
  <2>1. OpBar' = [OpBar EXCEPT ![t] = OpBar'[t]]
    BY <1>6, OpBarOthers DEF AddLow, AddHigh
  <2>2. apc[t] \notin Steps32 /\ apc'[t] \notin Steps32
    BY <1>6 DEF AddLow, AddHigh, AtomicTypes, Steps32
  <2>3. OpBar[t] = OpBar'[t]
    BY <2>2, OpBarAt
  <2> QED BY <1>6, <2>1, <2>3 DEF AddLow, AddHigh, OpBar
<1>7. ASSUME NEW t \in Adders, AddReturn(t)
      PROVE  Counter32!Next \/ UNCHANGED <<value, OpBar>>
  <2>1. OpBar' = [OpBar EXCEPT ![t] = OpBar'[t]]
    BY <1>7, OpBarOthers DEF AddReturn
  <2>2. apc'[t] = "idle" /\ apc[t] \in {"got", "got64"} /\ value' = value
    BY <1>7 DEF AddReturn, AtomicTypes
  <2>3. OpBar'[t] = Call("idle", 0)
    BY <2>2, OpBarAt DEF Steps32
  <2>4. CASE apc[t] = "got"
    <3>1. OpBar[t] = Call("done", result[t])
      BY <2>4, OpBarAt
    <3>2. Counter32!Respond(t)
      BY <2>1, <2>2, <2>3, <3>1 DEF Counter32!Respond, Counter32!IdleOp, Call, OpBar
    <3> QED BY <3>2 DEF Counter32!Next
  <2>5. CASE apc[t] = "got64"
    <3>1. OpBar[t] = Call("idle", 0)
      BY <2>5, OpBarAt DEF Steps32
    <3> QED BY <2>1, <2>2, <2>3, <3>1 DEF OpBar
  <2> QED BY <2>2, <2>4, <2>5
<1>8. ASSUME UNCHANGED atomicVars
      PROVE  UNCHANGED <<value, OpBar>>
  BY <1>8 DEF atomicVars, OpBar
<1> QED BY <1>1, <1>2, <1>3, <1>4, <1>5, <1>6, <1>7, <1>8 DEF AtomicNext

(***************************************************************************)
(* Atomic32::addAndGet() implements the atomic counter, for every number   *)
(* of threads, width and arguments: load and compare-and-swap, however     *)
(* often they are retried, are one addition that returns its own result.   *)
(***************************************************************************)
THEOREM Counter32Refines == AtomicSpec => ImplementsCounter32
<1>1. AtomicInit => Counter32!Init
  <2> SUFFICES ASSUME AtomicInit PROVE Counter32!Init
    OBVIOUS
  <2>1. value \in 0..WordMax
    BY InitTypes DEF AtomicTypes
  <2>2. \A t \in Adders : apc[t] = "idle"
    BY DEF AtomicInit
  <2> QED BY <2>1, <2>2 DEF Counter32!Init, Counter32!IdleOp, Call
<1>2. AtomicTypes /\ [AtomicNext]_atomicVars => [Counter32!Next]_<<value, OpBar>>
  BY CounterStep
<1> QED
  BY <1>1, <1>2, TypesInvariant, PTL
  DEF AtomicSpec, ImplementsCounter32, Counter32!Spec, OpBar

-----------------------------------------------------------------------------
(* The threads whose carry the high word does not have yet *)
Carrying == {t \in Adders : apc[t] = "high"}

(* The number of pending carries is a number, before and after a step. *)
LEMMA CarryingFinite ==
    /\ IsFiniteSet(Carrying) /\ Cardinality(Carrying) \in Nat
    /\ IsFiniteSet(Carrying') /\ Cardinality(Carrying') \in Nat
  BY AtomicAssumption, FS_Subset, FS_CardinalityType DEF Carrying

(* The constructor has no carry pending and splits its argument. *)
LEMMA InitCarries == AtomicInit => CarriesAccounted
<1> SUFFICES ASSUME AtomicInit PROVE CarriesAccounted
  OBVIOUS
<1>1. PICK initial \in Adds :
        /\ low = initial % Word
        /\ high = initial \div Word
        /\ total = initial
  BY DEF AtomicInit
<1>2. initial \in Nat /\ initial < Word * Word
  BY Arguments, Widths
<1>3. Carrying = {}
  BY DEF AtomicInit, Carrying
<1>4. Cardinality(Carrying) = 0
  BY <1>3, FS_EmptySet
<1>5. high \in Nat /\ low \in Nat /\ initial = Word * high + low
  <2>1. /\ initial % Word \in 0..(Word - 1)
        /\ initial \div Word \in Nat
        /\ initial = Word * (initial \div Word) + (initial % Word)
    BY <1>2, DivMod, Widths
  <2> QED BY <1>1, <2>1, Widths
<1>6. Word * (high + Cardinality(Carrying)) + low = initial
  BY <1>4, <1>5
<1>7. initial % (Word * Word) = initial
  BY <1>2, WordReduced, Widths
<1> QED BY <1>1, <1>6, <1>7 DEF CarriesAccounted, Carrying

(* A step that moves neither word nor carries keeps them accounted for. *)
LEMMA OtherCarries ==
    ASSUME CarriesAccounted, Carrying' = Carrying, UNCHANGED <<low, high, total>>
    PROVE  CarriesAccounted'
  BY DEF CarriesAccounted, Carrying

(* The fetch-and-add on the low word: the carry test is exactly the overflow. *)
LEMMA LowCarries ==
    ASSUME AtomicTypes, CarriesAccounted, NEW t \in Adders, AddLow(t)
    PROVE  CarriesAccounted'
<1> DEFINE k == Cardinality(Carrying)
           M == Word * Word
           a == add[t]
           X == Word * (high + k) + low
<1>1. /\ low \in Nat /\ low <= WordMax /\ high \in Nat /\ a \in Nat /\ a <= WordMax
      /\ k \in Nat /\ apc \in [Adders -> {"idle"} \cup Steps32 \cup Steps64]
  BY CarryingFinite, Widths DEF AtomicTypes
<1>2. /\ apc[t] = "low" /\ high' = high /\ low' = (low + a) % Word /\ total' = (total + a) % M
      /\ apc' = [apc EXCEPT ![t] = IF WordMax - low < a THEN "high" ELSE "got64"]
  BY DEF AddLow, Carries
<1>3. X \in Nat /\ X % M = total
  <2>1. X \in Nat
    <3>1. \A i, j \in Nat : i * j \in Nat
      OBVIOUS
    <3>2. high + k \in Nat
      BY <1>1
    <3>3. Word * (high + k) \in Nat
      BY <3>1, <3>2, Widths, Zenon
    <3> QED BY <1>1, <3>3
  <2> QED BY <2>1 DEF CarriesAccounted, Carrying
<1>4. total' = (X + a) % M
  <2>1. ((X % M) + a) % M = (X + a) % M
    BY <1>1, <1>3, AddModulo, Widths, ZenonT(60)
  <2> QED BY <1>2, <1>3, <2>1
<1>5. Word * (high + Cardinality(Carrying')) + low' = X + a
  <2>1. CASE WordMax - low < a
    <3>1. Carrying' = Carrying \cup {t} /\ t \notin Carrying
      BY <1>1, <1>2, <2>1 DEF Carrying
    <3>2. Cardinality(Carrying') = k + 1
      BY <3>1, CarryingFinite, FS_AddElement
    <3>3. low' = (low + a) - Word
      <4>1. low + a \in Nat /\ low + a >= Word /\ low + a < 2 * Word
        BY <1>1, <2>1, Widths
      <4> DEFINE x == low + a
      <4> HIDE DEF x
      <4>2. x % Word = x - Word
        <5>1. x \in Nat /\ x >= Word /\ x < 2 * Word
          BY <4>1 DEF x
        <5> QED BY <5>1, WordReduced, Widths
      <4>3. low' = x % Word
        BY <1>2, Zenon DEF x
      <4>4. low' = x - Word
        BY <4>2, <4>3, Zenon
      <4> QED BY <4>4, Zenon DEF x
    <3>4. Word * (high + (k + 1)) = Word * (high + k) + Word
      BY <1>1, Widths
    <3>5. Word * (high + k) \in Int
      BY <1>1, Widths
    <3> QED BY <1>1, <3>2, <3>3, <3>4, <3>5, Widths
  <2>2. CASE ~(WordMax - low < a)
    <3>1. Carrying' = Carrying
      BY <1>1, <1>2, <2>2 DEF Carrying
    <3>2. low' = low + a
      <4>1. low + a \in Nat /\ low + a < Word
        BY <1>1, <2>2, Widths
      <4>2. (low + a) % Word = low + a
        BY <4>1, WordReduced, Widths
      <4> QED BY <1>2, <4>2
    <3>3. Word * (high + k) \in Int
      BY <1>1, Widths
    <3> QED BY <1>1, <3>1, <3>2, <3>3
  <2> QED BY <2>1, <2>2
<1> QED BY <1>2, <1>4, <1>5 DEF CarriesAccounted, Carrying

(* The increment of the high word takes one pending carry, modulo its width. *)
LEMMA HighCarries ==
    ASSUME AtomicTypes, CarriesAccounted, NEW t \in Adders, AddHigh(t)
    PROVE  CarriesAccounted'
<1> DEFINE k == Cardinality(Carrying')
           M == Word * Word
<1>1. /\ low \in Nat /\ high \in Nat /\ high <= WordMax /\ k \in Nat
      /\ apc \in [Adders -> {"idle"} \cup Steps32 \cup Steps64]
  BY CarryingFinite, Widths DEF AtomicTypes
<1>2. /\ apc[t] = "high" /\ high' = (high + 1) % Word /\ low' = low /\ total' = total
      /\ apc' = [apc EXCEPT ![t] = "got64"]
  BY DEF AddHigh
<1>3. Cardinality(Carrying) = k + 1
  <2>1. t \in Carrying /\ Carrying' = Carrying \ {t}
    BY <1>1, <1>2 DEF Carrying
  <2>2. k = Cardinality(Carrying) - 1
    BY <2>1, CarryingFinite, FS_RemoveElement
  <2> QED BY <2>2, CarryingFinite
<1> HIDE DEF k
<1>4. (Word * (high + (k + 1)) + low) % M = total
  BY <1>3 DEF CarriesAccounted, Carrying
<1>5. CASE high + 1 < Word
  <2>1. high' = high + 1
    BY <1>1, <1>2, <1>5, WordReduced, Widths
  <2>2. high' + k = high + (k + 1)
    BY <1>1, <2>1
  <2> QED BY <1>2, <1>4, <2>2 DEF CarriesAccounted, Carrying, k
<1>6. CASE high + 1 = Word
  <2>1. high' = 0
    BY <1>1, <1>2, <1>6, WordReduced, Widths
  <2>2. Word * (high + (k + 1)) + low = (Word * k + low) + 1 * M
    <3>1. high + (k + 1) = Word + k
      BY <1>1, <1>6, Widths
    <3>2. Word * (Word + k) = M + Word * k /\ Word * k \in Nat
      BY <1>1, Widths
    <3> QED BY <1>1, <3>1, <3>2, Widths
  <2>3. Word * k + low \in Nat
    BY <1>1, Widths
  <2>4. Word * (high + (k + 1)) + low \in Nat
    BY <2>2, <2>3, Widths
  <2>5. (Word * k + low) % M = total
    <3> DEFINE x == Word * (high + (k + 1)) + low
               y == Word * k + low
    <3>1. x \in Nat /\ y \in Nat /\ M \in Nat \ {0} /\ x = y + 1 * M /\ x % M = total
      BY <1>4, <2>2, <2>3, <2>4, Widths
    <3> HIDE DEF x, y, M
    <3>2. \A i \in Int : x = y + i * M => x % M = y % M
      BY <3>1, SameCell
    <3>3. 1 \in Int
      OBVIOUS
    <3>4. x % M = y % M
      BY <3>1, <3>2, <3>3
    <3> QED BY <3>1, <3>4 DEF y
  <2>6. high' + k = k
    BY <1>1, <2>1
  <2> QED BY <1>2, <2>5, <2>6 DEF CarriesAccounted, Carrying, k
<1> QED BY <1>1, <1>5, <1>6, Widths

(***************************************************************************)
(* No carry of Atomic64::addAndGet() is lost or made twice, for every      *)
(* number of threads, width and arguments.                                 *)
(***************************************************************************)
THEOREM CarriesInvariant == AtomicSpec => []CarriesAccounted
<1>1. AtomicTypes /\ CarriesAccounted /\ [AtomicNext]_atomicVars => CarriesAccounted'
  <2> SUFFICES ASSUME AtomicTypes, CarriesAccounted, [AtomicNext]_atomicVars
               PROVE  CarriesAccounted'
    OBVIOUS
  <2>1. ASSUME NEW t \in Adders, NEW n \in Adds,
               AddAndGet(t, n, "load") \/ AddAndGet(t, n, "low")
        PROVE  CarriesAccounted'
    <3>1. Carrying' = Carrying
      BY <2>1 DEF AddAndGet, Carrying, AtomicTypes
    <3> QED BY <2>1, <3>1, OtherCarries DEF AddAndGet
  <2>2. ASSUME NEW t \in Adders, LoadValue(t) \/ CasValue(t) \/ AddReturn(t)
        PROVE  CarriesAccounted'
    <3>1. Carrying' = Carrying
      BY <2>2 DEF LoadValue, CasValue, AddReturn, Carrying, AtomicTypes
    <3> QED BY <2>2, <3>1, OtherCarries DEF LoadValue, CasValue, AddReturn
  <2>3. ASSUME UNCHANGED atomicVars PROVE CarriesAccounted'
    BY <2>3 DEF atomicVars, CarriesAccounted
  <2> QED BY <2>1, <2>2, <2>3, LowCarries, HighCarries DEF AtomicNext
<1> QED BY <1>1, InitCarries, TypesInvariant, PTL DEF AtomicSpec

-----------------------------------------------------------------------------
(* The carry of a call works on the values its own fetch-and-add left. *)
LEMMA LowKeptInvariant == AtomicSpec => []LowKept
<1>1. AtomicInit => LowKept
  BY DEF AtomicInit, LowKept
<1>2. AtomicTypes /\ LowKept /\ [AtomicNext]_atomicVars => LowKept'
  <2> SUFFICES ASSUME AtomicTypes, LowKept, [AtomicNext]_atomicVars PROVE LowKept'
    OBVIOUS
  <2>1. ASSUME NEW t \in Adders, NEW n \in Adds, NEW first \in {"load", "low"},
               AddAndGet(t, n, first)
        PROVE  LowKept'
    BY <2>1 DEF AddAndGet, AtomicTypes, LowKept
  <2>2. ASSUME NEW t \in Adders, LoadValue(t) \/ CasValue(t) PROVE LowKept'
    BY <2>2 DEF LoadValue, CasValue, AtomicTypes, LowKept
  <2>3. ASSUME NEW t \in Adders, AddLow(t) \/ AddHigh(t) PROVE LowKept'
    BY <2>3 DEF AddLow, AddHigh, AtomicTypes, LowKept
  <2>4. ASSUME NEW t \in Adders, AddReturn(t) PROVE LowKept'
    BY <2>4 DEF AddReturn, AtomicTypes, LowKept
  <2>5. ASSUME UNCHANGED atomicVars PROVE LowKept'
    BY <2>5 DEF atomicVars, LowKept
  <2> QED BY <2>1, <2>2, <2>3, <2>4, <2>5 DEF AtomicNext
<1> QED BY <1>1, <1>2, TypesInvariant, PTL DEF AtomicSpec

(* A word added above a number does not change its low word. *)
LEMMA LowWord ==
    ASSUME NEW x \in 0..WordMax, NEW h \in Nat
    PROVE  x % Word = x /\ (h * Word + x) % Word = x
<1>1. x \in Nat /\ x < Word /\ h \in Int /\ h * Word \in Nat
  BY Widths
<1>2. x % Word = x
  BY <1>1, WordReduced, Widths
<1> DEFINE y == h * Word + x
<1>3. y \in Nat /\ y = x + h * Word
  BY <1>1
<1> HIDE DEF y
<1>4. y % Word = x % Word
  BY <1>1, <1>3, SameCell, Widths
<1> QED BY <1>2, <1>4 DEF y

(* The refinement mapping of Counter64Low: an Atomic64 call is done with    *)
(* the low word as soon as its fetch-and-add is, carry or not.              *)
LowBar == [t \in Adders |-> CASE apc[t] = "low" -> Call("pending", add[t])
                              [] apc[t] \in {"high", "got64"} -> Call("done", result[t] % Word)
                              [] OTHER -> Call("idle", 0)]

(* What each place in addAndGet() of Atomic64 means for the mapped call *)
LEMMA LowBarAt ==
    ASSUME NEW t \in Adders
    PROVE  /\ apc[t] = "low" => LowBar[t] = Call("pending", add[t])
           /\ apc[t] \in {"high", "got64"} => LowBar[t] = Call("done", result[t] % Word)
           /\ apc[t] \notin Steps64 => LowBar[t] = Call("idle", 0)
           /\ apc'[t] = "low" => LowBar'[t] = Call("pending", add'[t])
           /\ apc'[t] \in {"high", "got64"} => LowBar'[t] = Call("done", result'[t] % Word)
           /\ apc'[t] \notin Steps64 => LowBar'[t] = Call("idle", 0)
  BY DEF LowBar, Steps64

(* A step changes the mapped call of at most its own thread. *)
LEMMA LowBarOthers ==
    ASSUME NEW t \in Adders, NEW a, NEW b, NEW c,
           AtomicTypes,
           apc' = [apc EXCEPT ![t] = a],
           add' = add \/ add' = [add EXCEPT ![t] = b],
           result' = result \/ result' = [result EXCEPT ![t] = c]
    PROVE  LowBar' = [LowBar EXCEPT ![t] = LowBar'[t]]
<1>1. \A u \in Adders : u # t => apc'[u] = apc[u] /\ add'[u] = add[u] /\ result'[u] = result[u]
  BY DEF AtomicTypes
<1>2. \A u \in Adders : u # t => LowBar'[u] = LowBar[u]
  BY <1>1 DEF LowBar
<1> QED BY <1>2 DEF LowBar

(* Every step of addAndGet() of either class is a step of the counter that  *)
(* the low word implements, or leaves the mapped state alone.               *)
LEMMA LowCounterStep ==
    AtomicTypes /\ LowKept /\ [AtomicNext]_atomicVars => [Counter64Low!Next]_<<low, LowBar>>
<1> SUFFICES ASSUME AtomicTypes, LowKept, [AtomicNext]_atomicVars
             PROVE  [Counter64Low!Next]_<<low, LowBar>>
  OBVIOUS
<1>1. ASSUME NEW t \in Adders, NEW n \in Adds, AddAndGet(t, n, "low")
      PROVE  Counter64Low!Next
  <2>1. n % Word \in 0..(Word - 1)
    BY Arguments, DivMod, Widths
  <2>2. LowBar' = [LowBar EXCEPT ![t] = LowBar'[t]]
    BY <1>1, LowBarOthers DEF AddAndGet
  <2>3. apc[t] = "idle" /\ apc'[t] = "low" /\ add'[t] = n % Word
    BY <1>1 DEF AddAndGet, AtomicTypes
  <2>4. LowBar[t] = Call("idle", 0) /\ LowBar'[t] = Call("pending", n % Word)
    BY <2>3, LowBarAt DEF Steps64
  <2>5. Counter64Low!Invoke(t)
    BY <1>1, <2>1, <2>2, <2>4 DEF AddAndGet, Counter64Low!Invoke, Counter64Low!IdleOp, Call, LowBar
  <2> QED BY <2>5 DEF Counter64Low!Next
<1>2. ASSUME NEW t \in Adders, NEW n \in Adds, AddAndGet(t, n, "load")
      PROVE  UNCHANGED <<low, LowBar>>
  <2>1. LowBar' = [LowBar EXCEPT ![t] = LowBar'[t]]
    BY <1>2, LowBarOthers DEF AddAndGet
  <2>2. apc[t] = "idle" /\ apc'[t] = "load"
    BY <1>2 DEF AddAndGet, AtomicTypes
  <2>3. LowBar[t] = LowBar'[t]
    BY <2>2, LowBarAt DEF Steps64
  <2> QED BY <1>2, <2>1, <2>3 DEF AddAndGet, LowBar
<1>3. ASSUME NEW t \in Adders, LoadValue(t) \/ CasValue(t)
      PROVE  UNCHANGED <<low, LowBar>>
  <2>1. LowBar' = [LowBar EXCEPT ![t] = LowBar'[t]]
    BY <1>3, LowBarOthers DEF LoadValue, CasValue
  <2>2. apc[t] \notin Steps64 /\ apc'[t] \notin Steps64 /\ low' = low
    BY <1>3 DEF LoadValue, CasValue, AtomicTypes, Steps64
  <2>3. LowBar[t] = LowBar'[t]
    BY <2>2, LowBarAt
  <2> QED BY <2>1, <2>2, <2>3 DEF LowBar
<1>4. ASSUME NEW t \in Adders, AddLow(t)
      PROVE  Counter64Low!Next
  <2>1. LowBar' = [LowBar EXCEPT ![t] = LowBar'[t]]
    BY <1>4, LowBarOthers DEF AddLow
  <2>2. /\ apc[t] = "low" /\ apc'[t] \in {"high", "got64"} /\ result'[t] = low'
        /\ low' = (low + add[t]) % Word
    BY <1>4 DEF AddLow, AtomicTypes
  <2>3. low' % Word = low'
    <3>1. low + add[t] \in Nat
      BY Widths DEF AtomicTypes
    <3>2. low' \in 0..WordMax
      BY <2>2, <3>1, InWord
    <3> QED BY <3>2, LowWord
  <2>4. LowBar[t] = Call("pending", add[t]) /\ LowBar'[t] = Call("done", low')
    BY <2>2, <2>3, LowBarAt
  <2>5. Counter64Low!Add(t)
    BY <2>1, <2>2, <2>4 DEF Counter64Low!Add, Call, LowBar
  <2> QED BY <2>5 DEF Counter64Low!Next
<1>5. ASSUME NEW t \in Adders, AddHigh(t)
      PROVE  UNCHANGED <<low, LowBar>>
  <2>1. LowBar' = [LowBar EXCEPT ![t] = LowBar'[t]]
    BY <1>5, LowBarOthers DEF AddHigh
  <2> DEFINE x == (current[t] + add[t]) % Word
  <2>2. /\ apc[t] = "high" /\ apc'[t] = "got64" /\ low' = low
        /\ result[t] = x /\ result'[t] = high' * Word + x
    BY <1>5 DEF AddHigh, AtomicTypes, LowKept
  <2>3. x \in 0..WordMax /\ high' \in Nat
    <3>1. current[t] + add[t] \in Nat /\ high + 1 \in Nat
      BY Widths DEF AtomicTypes
    <3>2. (high + 1) % Word \in 0..WordMax
      BY <3>1, InWord
    <3> QED BY <1>5, <3>1, <3>2, InWord, Widths DEF AddHigh
  <2> HIDE DEF x
  <2>4. result'[t] % Word = result[t] % Word
    BY <2>2, <2>3, LowWord
  <2>5. LowBar[t] = LowBar'[t]
    BY <2>2, <2>4, LowBarAt
  <2> QED BY <2>1, <2>2, <2>5 DEF LowBar
<1>6. ASSUME NEW t \in Adders, AddReturn(t)
      PROVE  Counter64Low!Next \/ UNCHANGED <<low, LowBar>>
  <2>1. LowBar' = [LowBar EXCEPT ![t] = LowBar'[t]]
    BY <1>6, LowBarOthers DEF AddReturn
  <2>2. apc'[t] = "idle" /\ apc[t] \in {"got", "got64"} /\ low' = low
    BY <1>6 DEF AddReturn, AtomicTypes
  <2>3. LowBar'[t] = Call("idle", 0)
    BY <2>2, LowBarAt DEF Steps64
  <2>4. CASE apc[t] = "got64"
    <3>1. LowBar[t] = Call("done", result[t] % Word)
      BY <2>4, LowBarAt
    <3>2. Counter64Low!Respond(t)
      BY <2>1, <2>2, <2>3, <3>1 DEF Counter64Low!Respond, Counter64Low!IdleOp, Call, LowBar
    <3> QED BY <3>2 DEF Counter64Low!Next
  <2>5. CASE apc[t] = "got"
    <3>1. LowBar[t] = Call("idle", 0)
      BY <2>5, LowBarAt DEF Steps64
    <3> QED BY <2>1, <2>2, <2>3, <3>1 DEF LowBar
  <2> QED BY <2>2, <2>4, <2>5
<1>7. ASSUME UNCHANGED atomicVars
      PROVE  UNCHANGED <<low, LowBar>>
  BY <1>7 DEF atomicVars, LowBar
<1> QED BY <1>1, <1>2, <1>3, <1>4, <1>5, <1>6, <1>7 DEF AtomicNext

(***************************************************************************)
(* The low word of Atomic64 implements the atomic counter, for every       *)
(* number of threads, width and arguments, and a pending carry does not    *)
(* change the low word of what addAndGet() returns.                        *)
(***************************************************************************)
THEOREM Counter64LowRefines == AtomicSpec => ImplementsCounter64Low
<1>1. AtomicInit => Counter64Low!Init
  <2> SUFFICES ASSUME AtomicInit PROVE Counter64Low!Init
    OBVIOUS
  <2>1. low \in 0..WordMax
    BY InitTypes DEF AtomicTypes
  <2>2. \A t \in Adders : apc[t] = "idle"
    BY DEF AtomicInit
  <2> QED BY <2>1, <2>2 DEF Counter64Low!Init, Counter64Low!IdleOp, Call
<1>2. AtomicTypes /\ LowKept /\ [AtomicNext]_atomicVars => [Counter64Low!Next]_<<low, LowBar>>
  BY LowCounterStep
<1> QED
  BY <1>1, <1>2, TypesInvariant, LowKeptInvariant, PTL
  DEF AtomicSpec, ImplementsCounter64Low, Counter64Low!Spec, LowBar
=============================================================================
