------------------------------- MODULE Atomic -------------------------------
(***************************************************************************)
(* Atomic32 and Atomic64 (src/src/lib/atomic.cpp), one object of each that *)
(* several threads add to.  Atomic32 retries a compare-and-swap.  Atomic64 *)
(* keeps its value in two words: a fetch-and-add of the low one and, when  *)
(* that carried, an increment of the high one, as separate steps.          *)
(***************************************************************************)
EXTENDS Integers, FiniteSets

CONSTANTS Adders,     \* threads
          WordMax,    \* UINT32_MAX
          Adds,       \* arguments of addAndGet
          MaxAdds     \* bound: calls of addAndGet

Word == WordMax + 1

ASSUME AtomicAssumption ==
    /\ WordMax \in Nat
    /\ Adds \subseteq 0..(Word * Word - 1)
    /\ MaxAdds \in Nat
    /\ IsFiniteSet(Adders)

VARIABLES value,    \* Atomic32::value_
          low,      \* the words of Atomic64::value_
          high,
          apc,      \* where in addAndGet each thread is
          add,      \* parameter add (32) or n (64)
          current,  \* local currentValue or currentLow
          result,   \* what the call returns
          calls,    \* calls so far
          total     \* history: what Atomic64::value_ should be, modulo its width

atomicVars == <<value, low, high, apc, add, current, result, calls, total>>

(* The constructors *)
AtomicInit ==
    \E initial \in Adds :
        /\ value = initial % Word
        /\ low = initial % Word
        /\ high = initial \div Word
        /\ apc = [t \in Adders |-> "idle"]
        /\ add = [t \in Adders |-> 0]
        /\ current = [t \in Adders |-> 0]
        /\ result = [t \in Adders |-> 0]
        /\ calls = 0
        /\ total = initial

(* A call of addAndGet(n); both the parameter of Atomic32 and the one of   *)
(* atomic64Add have 32 bits.                                               *)
AddAndGet(t, n, first) ==
    /\ apc[t] = "idle" /\ calls < MaxAdds
    /\ apc' = [apc EXCEPT ![t] = first]
    /\ add' = [add EXCEPT ![t] = n % Word]
    /\ calls' = calls + 1
    /\ UNCHANGED <<value, low, high, current, result, total>>

(* currentValue = value_ *)
LoadValue(t) ==
    /\ apc[t] = "load"
    /\ apc' = [apc EXCEPT ![t] = "cas"]
    /\ current' = [current EXCEPT ![t] = value]
    /\ UNCHANGED <<value, low, high, add, result, calls, total>>

(* Mutant: the new value is stored whatever the counter is now *)
CasValue_store(t) ==
    /\ apc[t] = "cas"
    /\ value' = (current[t] + add[t]) % Word
    /\ apc' = [apc EXCEPT ![t] = "got"]
    /\ result' = [result EXCEPT ![t] = value']
    /\ UNCHANGED <<low, high, add, current, calls, total>>

(* __sync_bool_compare_and_swap(&value_, currentValue, newValue) *)
CasValue(t) ==
    /\ apc[t] = "cas"
    /\ \/ /\ value = current[t]
          /\ value' = (current[t] + add[t]) % Word
          /\ apc' = [apc EXCEPT ![t] = "got"]
          /\ result' = [result EXCEPT ![t] = value']
       \/ /\ value # current[t]
          /\ apc' = [apc EXCEPT ![t] = "load"]
          /\ UNCHANGED <<value, result>>
    /\ UNCHANGED <<low, high, add, current, calls, total>>

(* Mutant: a sum of exactly UINT32_MAX counts as a carry *)
Carries_early(currentLow, n) == WordMax - currentLow <= n

(* UINT32_MAX - currentLow < n *)
Carries(currentLow, n) == WordMax - currentLow < n

(* Mutant: the result is the value before the addition *)
AddLow_old(t) ==
    /\ apc[t] = "low"
    /\ current' = [current EXCEPT ![t] = low]
    /\ low' = (low + add[t]) % Word
    /\ total' = (total + add[t]) % (Word * Word)
    /\ apc' = [apc EXCEPT ![t] = IF Carries(low, add[t]) THEN "high" ELSE "got64"]
    /\ result' = [result EXCEPT ![t] = low]
    /\ UNCHANGED <<value, high, add, calls>>

(* currentLow = __sync_fetch_and_add(lowBit, n), then the carry test; without *)
(* a carry the high word of the result is 0.                                  *)
AddLow(t) ==
    /\ apc[t] = "low"
    /\ current' = [current EXCEPT ![t] = low]
    /\ low' = (low + add[t]) % Word
    /\ total' = (total + add[t]) % (Word * Word)
    /\ apc' = [apc EXCEPT ![t] = IF Carries(low, add[t]) THEN "high" ELSE "got64"]
    /\ result' = [result EXCEPT ![t] = (low + add[t]) % Word]
    /\ UNCHANGED <<value, high, add, calls>>

(* current_high = __sync_add_and_fetch(highBit, 1); result |= ... *)
AddHigh(t) ==
    /\ apc[t] = "high"
    /\ high' = (high + 1) % Word
    /\ apc' = [apc EXCEPT ![t] = "got64"]
    /\ result' = [result EXCEPT ![t] = high' * Word + ((current[t] + add[t]) % Word)]
    /\ UNCHANGED <<value, low, add, current, calls, total>>

AddReturn(t) ==
    /\ apc[t] \in {"got", "got64"}
    /\ apc' = [apc EXCEPT ![t] = "idle"]
    /\ add' = [add EXCEPT ![t] = 0]
    /\ current' = [current EXCEPT ![t] = 0]
    /\ result' = [result EXCEPT ![t] = 0]
    /\ UNCHANGED <<value, low, high, calls, total>>

AtomicNext ==
    \E t \in Adders :
        \/ \E n \in Adds : AddAndGet(t, n, "load") \/ AddAndGet(t, n, "low")
        \/ LoadValue(t)
        \/ CasValue(t)
        \/ AddLow(t)
        \/ AddHigh(t)
        \/ AddReturn(t)

AtomicSpec == AtomicInit /\ [][AtomicNext]_atomicVars

-----------------------------------------------------------------------------
Call(state, v) == [state |-> state, value |-> v]

Counter32 == INSTANCE AtomicCounter WITH
    Modulus <- Word, Initials <- 0..WordMax, counter <- value,
    op <- [t \in Adders |-> CASE apc[t] \in {"load", "cas"} -> Call("pending", add[t])
                              [] apc[t] = "got" -> Call("done", result[t])
                              [] OTHER -> Call("idle", 0)]

Counter64Low == INSTANCE AtomicCounter WITH
    Modulus <- Word, Initials <- 0..WordMax, counter <- low,
    op <- [t \in Adders |-> CASE apc[t] = "low" -> Call("pending", add[t])
                              [] apc[t] \in {"high", "got64"} -> Call("done", result[t] % Word)
                              [] OTHER -> Call("idle", 0)]

(* Atomic32::addAndGet() implements the atomic counter: its read and its   *)
(* compare-and-swap, retried or not, look like one addition, and it        *)
(* returns the value that addition gave.                                   *)
ImplementsCounter32 == Counter32!Spec

(* The low word of Atomic64 implements the same counter, carry pending or  *)
(* not; the high word of what addAndGet() returns promises nothing.        *)
ImplementsCounter64Low == Counter64Low!Spec

(* No carry of Atomic64 is lost or made twice: its two words, with the     *)
(* carries that threads still have to add to the high one, are the sum of  *)
(* all (32-bit) arguments; so they are that sum whenever no call is on.    *)
CarriesAccounted ==
    (Word * (high + Cardinality({t \in Adders : apc[t] = "high"})) + low) % (Word * Word) = total

-----------------------------------------------------------------------------
Steps32 == {"load", "cas", "got"}
Steps64 == {"low", "high", "got64"}

(* What the proofs need to know of the types *)
AtomicTypes ==
    /\ value \in 0..WordMax
    /\ low \in 0..WordMax
    /\ high \in 0..WordMax
    /\ apc \in [Adders -> {"idle"} \cup Steps32 \cup Steps64]
    /\ add \in [Adders -> 0..WordMax]
    /\ current \in [Adders -> 0..WordMax]
    /\ result \in [Adders -> Nat]
    /\ total \in 0..(Word * Word - 1)

(* A call that has yet to carry already has the low word of its result. *)
LowKept == \A t \in Adders : apc[t] = "high" => result[t] = (current[t] + add[t]) % Word
=============================================================================
