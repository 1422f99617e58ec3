--------------------------- MODULE AtomicCounter ----------------------------
(***************************************************************************)
(* What addAndGet() of the classes in src/src/lib/atomic.h promises: at    *)
(* one instant between call and return the counter grows by the argument,  *)
(* modulo its width, and the call returns what the counter was then.       *)
(***************************************************************************)
EXTENDS Integers

CONSTANTS Adders,   \* threads
          Modulus,  \* number of values of the counter
          Initials  \* arguments of the constructor

VARIABLES counter,
          op        \* each thread's call: idle, pending (add) or done (result)

IdleOp == [state |-> "idle", value |-> 0]

Init == counter \in Initials /\ op = [t \in Adders |-> IdleOp]

Invoke(t) ==
    /\ op[t] = IdleOp
    /\ \E n \in 0..(Modulus - 1) : op' = [op EXCEPT ![t] = [state |-> "pending", value |-> n]]
    /\ UNCHANGED counter

Add(t) ==
    /\ op[t].state = "pending"
    /\ counter' = (counter + op[t].value) % Modulus
    /\ op' = [op EXCEPT ![t] = [state |-> "done", value |-> counter']]

Respond(t) ==
    /\ op[t].state = "done"
    /\ op' = [op EXCEPT ![t] = IdleOp]
    /\ UNCHANGED counter

Next == \E t \in Adders : Invoke(t) \/ Add(t) \/ Respond(t)

Spec == Init /\ [][Next]_<<counter, op>>
=============================================================================
