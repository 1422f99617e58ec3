------------------------- MODULE RingBufferProofs --------------------------
(***************************************************************************)
(* RingBuffer::allocate() for every number of threads, ring size, index    *)
(* width and margin: as long as the margin covers one entry of the longest *)
(* length per thread (MarginCovers), the index never overflows, concurrent *)
(* regions are disjoint and allocate() implements RingAlloc.               *)
(***************************************************************************)
EXTENDS RingBuffer, ModularArithmetic, FiniteSetTheorems

USE RingBufferAssumption, SizeAssumption

-----------------------------------------------------------------------------
(* Counting the threads that are past the check. *)

(* The threads past the check are finitely many, at most all of them. *)
LEMMA CommittedFinite ==
    /\ IsFiniteSet(Committed)
    /\ Cardinality(Committed) \in Nat
    /\ Cardinality(Threads) \in Nat
    /\ Cardinality(Committed) <= Cardinality(Threads)
  BY FS_Subset, FS_CardinalityType DEF Committed

(* The same after a step. *)
LEMMA CommittedPrimeFinite ==
    /\ IsFiniteSet(Committed')
    /\ Cardinality(Committed)' \in Nat
    /\ Cardinality(Committed)' <= Cardinality(Threads)
  BY FS_Subset, FS_CardinalityType DEF Committed

(* A product with MaxLen is monotone, and grows by MaxLen per thread. *)
LEMMA LenTimes ==
    ASSUME NEW m \in Nat, NEW n \in Nat
    PROVE  /\ MaxLen * m \in Nat
           /\ m <= n => MaxLen * m <= MaxLen * n
           /\ MaxLen * (m + 1) = MaxLen * m + MaxLen
  OBVIOUS

(* An index outside the rolling-over zone leaves room for every thread. *)
LEMMA HeadroomBelowMargin ==
    ASSUME currentIndex' \in Nat, currentIndex' <= IndexMax - Margin
    PROVE  Headroom'
<1>1. MaxLen * Cardinality(Committed)' <= MaxLen * Cardinality(Threads)
  BY CommittedFinite, CommittedPrimeFinite, LenTimes
<1>2. MaxLen * Cardinality(Committed)' \in Nat /\ MaxLen * Cardinality(Threads) \in Nat
  BY CommittedFinite, CommittedPrimeFinite, LenTimes
<1> QED BY <1>1, <1>2 DEF Headroom

(* The fetch-and-add of a committed thread stays within the index's width. *)
LEMMA AddFits ==
    ASSUME MarginCovers, TypeOK, Headroom,
           NEW t \in Threads, pc[t] \in {"stats", "add"}
    PROVE  currentIndex + bufferLen[t] <= IndexMax
<1>1. Committed # {} /\ Cardinality(Committed) >= 1
  <2>1. t \in Committed
    BY DEF Committed
  <2>2. Cardinality(Committed) # 0
    BY <2>1, CommittedFinite, FS_EmptySet
  <2> QED BY <2>1, <2>2, CommittedFinite
<1>2. MaxLen * Cardinality(Committed) >= MaxLen
  BY <1>1, CommittedFinite, LenTimes
<1>3. MaxLen * Cardinality(Threads) <= Margin
  BY CommittedFinite DEF MarginCovers
<1>4. MaxLen * Cardinality(Committed) \in Nat /\ MaxLen * Cardinality(Threads) \in Nat
  BY CommittedFinite, LenTimes
<1>5. bufferLen[t] \in 0..MaxLen /\ currentIndex \in Nat
  BY DEF TypeOK
<1> QED BY <1>1, <1>2, <1>3, <1>4, <1>5 DEF Headroom

-----------------------------------------------------------------------------
(* The inductive invariant. *)

(* The inductive invariant holds initially, whatever the uninitialised     *)
(* index and wrap count hold.                                              *)
LEMMA InitIndInv == Init => IndInv
<1> SUFFICES ASSUME Init
             PROVE  IndInv
  OBVIOUS
<1>1. TypeOK
  BY DEF Init, TypeOK
<1>2. Committed = {} /\ Claimed = {}
  BY DEF Init, Committed, Claimed
<1>3. IndexFollowsHead
  <2>1. head = currentIndex + 0 * Size /\ 0 \in 0..head
    BY DEF Init
  <2> QED BY <2>1 DEF IndexFollowsHead
<1> QED
  BY <1>1, <1>2, <1>3
  DEF Init, IndInv, LenInLens, UnsafeUndivided, Headroom, ClaimFollowsHead, ClaimsInOrder

(* Folding an index back into the ring keeps it in step with head. *)
LEMMA NormalizeFollowsHead ==
    ASSUME TypeOK, IndexFollowsHead
    PROVE  \E k \in 0..head : head = normalize(currentIndex) + k * Size
<1> PICK k \in 0..head : head = currentIndex + k * Size
  BY DEF IndexFollowsHead
<1> DEFINE q == currentIndex \div Size
           r == normalize(currentIndex)
<1>0. currentIndex \in Nat
  BY DEF TypeOK
<1>1. r \in 0..(Size - 1) /\ q \in Nat /\ currentIndex = Size * q + r
  BY <1>0, DivMod DEF normalize
<1> HIDE DEF q, r
<1>2. head = r + (k + q) * Size
  <2>1. (k + q) * Size = k * Size + Size * q
    BY <1>1 DEF TypeOK
  <2>2. k * Size \in Int /\ Size * q \in Int
    BY <1>1 DEF TypeOK
  <2> QED BY <1>1, <2>1, <2>2 DEF TypeOK
<1>3. k + q <= (k + q) * Size
  BY <1>1 DEF TypeOK
<1>4. k + q \in 0..head
  BY <1>1, <1>2, <1>3 DEF TypeOK
<1> QED BY <1>2, <1>4 DEF r

(* A region claimed at an index in step with head is itself in step, lies   *)
(* after every region claimed before, and leaves the index in step.        *)
LEMMA ClaimKeepsOrder ==
    ASSUME TypeOK, ClaimFollowsHead, ClaimsInOrder,
           NEW t \in Threads, NEW len \in Nat, NEW index \in Nat,
           \E k \in 0..head : head = index + k * Size,
           pc[t] # "claimed",
           pc' = [pc EXCEPT ![t] = "claimed"],
           ret' = [ret EXCEPT ![t] = index],
           bufferLen' = [bufferLen EXCEPT ![t] = len],
           start' = [start EXCEPT ![t] = head],
           head' = head + len,
           currentIndex' = index + len
    PROVE  IndexFollowsHead' /\ ClaimFollowsHead' /\ ClaimsInOrder'
<1> PICK k \in 0..head : head = index + k * Size
  OBVIOUS
<1>1. Claimed' = Claimed \cup {t}
  BY DEF Claimed, TypeOK
<1>2. k * Size \in Int
  BY DEF TypeOK
<1>3. IndexFollowsHead'
  <2>1. head' = currentIndex' + k * Size /\ k \in 0..head'
    BY <1>2 DEF TypeOK
  <2> QED BY <2>1 DEF IndexFollowsHead
<1>4. \A u \in Claimed : /\ u # t
                         /\ start'[u] = start[u]
                         /\ bufferLen'[u] = bufferLen[u]
                         /\ ret'[u] = ret[u]
                         /\ start[u] + bufferLen[u] <= head
                         /\ u \in Threads
  BY DEF Claimed, TypeOK, ClaimFollowsHead
<1>5. start'[t] = head /\ bufferLen'[t] = len /\ ret'[t] = index
  BY DEF TypeOK
<1>6. ClaimFollowsHead'
  <2> SUFFICES ASSUME NEW u \in Claimed'
               PROVE  /\ \E j \in 0..start'[u] : start'[u] = ret'[u] + j * Size
                      /\ start'[u] + bufferLen'[u] <= head'
    BY DEF ClaimFollowsHead
  <2>1. CASE u = t
    <3>1. k \in 0..start'[t] /\ start'[t] = ret'[t] + k * Size
      BY <1>5
    <3>2. start'[t] + bufferLen'[t] <= head'
      BY <1>5 DEF TypeOK
    <3> QED BY <2>1, <3>1, <3>2
  <2>2. CASE u # t
    <3>1. u \in Claimed
      BY <2>2, <1>1
    <3> QED BY <3>1, <1>4 DEF ClaimFollowsHead, TypeOK
  <2> QED BY <2>1, <2>2
<1>7. ClaimsInOrder'
  <2> SUFFICES ASSUME NEW u \in Claimed', NEW v \in Claimed', u # v
               PROVE  \/ start'[u] + bufferLen'[u] <= start'[v]
                      \/ start'[v] + bufferLen'[v] <= start'[u]
    BY DEF ClaimsInOrder
  <2>1. CASE u = t
    BY <2>1, <1>1, <1>4, <1>5
  <2>2. CASE v = t
    BY <2>2, <1>1, <1>4, <1>5
  <2>3. CASE u # t /\ v # t
    <3>1. u \in Claimed /\ v \in Claimed
      BY <2>3, <1>1
    <3> QED BY <3>1, <1>4 DEF ClaimsInOrder
  <2> QED BY <2>1, <2>2, <2>3
<1> QED BY <1>3, <1>6, <1>7

(* A step that claims nothing and leaves index, head and the claimed        *)
(* regions alone keeps everything but the type and the headroom.           *)
LEMMA QuietStep ==
    ASSUME TypeOK, LenInLens, IndexFollowsHead, ClaimFollowsHead, ClaimsInOrder,
           UNCHANGED <<bufferLen, ret, head, start>>,
           \E k \in 0..head : head = currentIndex' + k * Size,
           Claimed' = Claimed
    PROVE  IndexFollowsHead' /\ ClaimFollowsHead' /\ ClaimsInOrder'
  BY DEF IndexFollowsHead, ClaimFollowsHead, ClaimsInOrder

(* Leaving Committed frees the headroom of one entry. *)
LEMMA HeadroomAfterAdd ==
    ASSUME MarginCovers, TypeOK, Headroom, NEW t \in Threads, pc[t] = "add",
           pc' = [pc EXCEPT ![t] = "claimed"],
           currentIndex' = currentIndex + bufferLen[t]
    PROVE  Headroom'
<1>1. Committed' = Committed \ {t} /\ t \in Committed
  BY DEF Committed, TypeOK
<1>2. Cardinality(Committed)' = Cardinality(Committed) - 1
  BY <1>1, CommittedFinite, FS_RemoveElement
<1> DEFINE n == Cardinality(Committed)'
<1>3. n \in Nat /\ Cardinality(Committed) = n + 1
  BY <1>2, CommittedFinite, CommittedPrimeFinite
<1>4. MaxLen * Cardinality(Committed) = MaxLen * n + MaxLen /\ MaxLen * n \in Nat
  BY <1>3, LenTimes
<1>5. MaxLen * Cardinality(Threads) \in Nat
  BY CommittedFinite, LenTimes
<1>6. bufferLen[t] \in 0..MaxLen /\ currentIndex \in Nat
  BY DEF TypeOK
<1>7. Committed # {}
  BY <1>1
<1> HIDE DEF n
<1>8. currentIndex' + MaxLen * n <= (IndexMax - Margin) + MaxLen * Cardinality(Threads)
  BY <1>4, <1>5, <1>6, <1>7 DEF Headroom
<1> QED BY <1>8 DEF Headroom, n

(* Every step of allocate() and of its caller preserves it. *)
LEMMA NextIndInv ==
    ASSUME MarginCovers, IndInv, [Next]_vars
    PROVE  IndInv'
<1> USE DEF IndInv
<1>0. \E k \in 0..head : head = currentIndex + k * Size
  BY DEF IndexFollowsHead
<1>1. ASSUME NEW t \in Threads, NEW len \in Lens, Allocate(t, len)
      PROVE  IndInv'
  <2>1. TypeOK' /\ LenInLens' /\ UnsafeUndivided'
    BY <1>1 DEF Allocate, Goto, TypeOK, LenInLens, UnsafeUndivided
  <2>2. Committed' = Committed /\ Claimed' = Claimed /\ t \notin Claimed
    BY <1>1 DEF Allocate, Goto, Committed, Claimed, TypeOK
  <2>3. Headroom' /\ IndexFollowsHead'
    BY <1>1, <2>2 DEF Allocate, Headroom, IndexFollowsHead
  <2>4. \A u \in Claimed : bufferLen'[u] = bufferLen[u]
    BY <1>1, <2>2 DEF Allocate, TypeOK, Claimed
  <2>5. ClaimFollowsHead' /\ ClaimsInOrder'
    BY <1>1, <2>2, <2>4 DEF Allocate, ClaimFollowsHead, ClaimsInOrder
  <2> QED BY <2>1, <2>3, <2>5
<1>2. ASSUME NEW t \in Threads, CheckRollingOver(t) \/ LoopTest(t)
      PROVE  IndInv'
  <2>1. TypeOK' /\ LenInLens' /\ UnsafeUndivided'
    BY <1>2 DEF CheckRollingOver, LoopTest, Goto, TypeOK, LenInLens, UnsafeUndivided, locals
  <2>2. Claimed' = Claimed /\ UNCHANGED <<currentIndex, bufferLen, ret, head, start>>
    BY <1>2 DEF CheckRollingOver, LoopTest, Goto, Claimed, TypeOK, locals
  <2>3. IndexFollowsHead' /\ ClaimFollowsHead' /\ ClaimsInOrder'
    BY <2>2, <1>0, QuietStep
  <2>4. Headroom'
    <3>1. CASE isIndexRollingOver(currentIndex)
      <4>1. Committed' = Committed
        BY <1>2, <3>1 DEF CheckRollingOver, LoopTest, Goto, Committed, TypeOK
      <4> QED BY <4>1, <2>2 DEF Headroom
    <3>2. CASE ~isIndexRollingOver(currentIndex)
      BY <3>2, <2>2, HeadroomBelowMargin DEF isIndexRollingOver, TypeOK
    <3> QED BY <3>1, <3>2
  <2> QED BY <2>1, <2>3, <2>4
<1>3. ASSUME NEW t \in Threads, ReadWrapCount(t) \/ LoadIndex(t) \/ StoreWrapCount(t)
      PROVE  IndInv'
  <2>1. TypeOK' /\ LenInLens' /\ UnsafeUndivided'
    <3>1. (indexWrapAroundCount + 1) % (IndexMax + 1) \in 0..IndexMax
      BY DivMod DEF TypeOK
    <3> QED
      BY <1>3, <3>1
      DEF ReadWrapCount, LoadIndex, StoreWrapCount, Goto, TypeOK, LenInLens, UnsafeUndivided, locals
  <2>2. /\ Claimed' = Claimed
        /\ Committed' = Committed
        /\ UNCHANGED <<currentIndex, bufferLen, ret, head, start>>
    BY <1>3 DEF ReadWrapCount, LoadIndex, StoreWrapCount, Goto, Claimed, Committed, TypeOK, locals
  <2>3. IndexFollowsHead' /\ ClaimFollowsHead' /\ ClaimsInOrder'
    BY <2>2, <1>0, QuietStep
  <2>4. Headroom'
    BY <2>2 DEF Headroom
  <2> QED BY <2>1, <2>3, <2>4
<1>4. ASSUME NEW t \in Threads, CompareAndSwap(t)
      PROVE  IndInv'
  <2>0. normalize(currentIndex) \in 0..(Size - 1)
    <3>1. currentIndex \in Nat
      BY DEF TypeOK
    <3> QED BY <3>1, DivMod DEF normalize
  <2>1. TypeOK' /\ LenInLens' /\ UnsafeUndivided'
    BY <1>4, <2>0 DEF CompareAndSwap, Goto, TypeOK, LenInLens, UnsafeUndivided, locals
  <2>2. Claimed' = Claimed /\ UNCHANGED <<bufferLen, ret, head, start>>
    BY <1>4 DEF CompareAndSwap, Goto, Claimed, TypeOK, locals
  <2>3. CASE currentIndex = seen[t]
    <3>1. currentIndex' = normalize(currentIndex)
      BY <1>4, <2>3 DEF CompareAndSwap
    <3>2. IndexFollowsHead' /\ ClaimFollowsHead' /\ ClaimsInOrder'
      BY <2>2, <3>1, NormalizeFollowsHead, QuietStep
    <3>3. Headroom'
      BY <2>0, <3>1, HeadroomBelowMargin
    <3> QED BY <2>1, <3>2, <3>3
  <2>4. CASE currentIndex # seen[t]
    <3>1. currentIndex' = currentIndex /\ Committed' = Committed
      BY <1>4, <2>4 DEF CompareAndSwap, Goto, Committed, TypeOK
    <3>2. IndexFollowsHead' /\ ClaimFollowsHead' /\ ClaimsInOrder'
      BY <2>2, <3>1, <1>0, QuietStep
    <3>3. Headroom'
      BY <3>1 DEF Headroom
    <3> QED BY <2>1, <3>2, <3>3
  <2> QED BY <2>3, <2>4
<1>5. ASSUME NEW t \in Threads, FetchAndAdd(t)
      PROVE  IndInv'
  <2>1. pc[t] = "add" /\ pc' = [pc EXCEPT ![t] = "claimed"]
    BY <1>5 DEF FetchAndAdd, Goto
  <2>2. /\ currentIndex \in Nat
        /\ bufferLen[t] \in 1..MaxLen
        /\ currentIndex + bufferLen[t] <= IndexMax
    BY <2>1, AddFits DEF TypeOK, LenInLens
  <2>3. currentIndex' = currentIndex + bufferLen[t]
    <3>1. currentIndex' = (currentIndex + bufferLen[t]) % (IndexMax + 1)
      BY <1>5 DEF FetchAndAdd
    <3> QED BY <2>2, <3>1
  <2>4. TypeOK' /\ LenInLens' /\ UnsafeUndivided'
    BY <1>5, <2>1, <2>2, <2>3 DEF FetchAndAdd, Goto, TypeOK, LenInLens, UnsafeUndivided
  <2>5. Headroom'
    BY <2>1, <2>3, HeadroomAfterAdd
  <2>6. /\ bufferLen' = [bufferLen EXCEPT ![t] = bufferLen[t]]
        /\ ret' = [ret EXCEPT ![t] = currentIndex]
        /\ start' = [start EXCEPT ![t] = head]
        /\ head' = head + bufferLen[t]
    BY <1>5 DEF FetchAndAdd, TypeOK
  <2>7. IndexFollowsHead' /\ ClaimFollowsHead' /\ ClaimsInOrder'
    <3>1. pc[t] # "claimed" /\ bufferLen[t] \in Nat
      BY <2>1, <2>2
    <3> QED BY <1>0, <2>1, <2>2, <2>3, <2>6, <3>1, ClaimKeepsOrder
  <2> QED BY <2>4, <2>5, <2>7
<1>6. ASSUME NEW t \in Threads, NEW len \in Lens, AllocateUnsafe(t, len)
      PROVE  IndInv'
  <2> DEFINE index == IF isIndexRollingOver(currentIndex) THEN normalize(currentIndex)
                                                          ELSE currentIndex
  <2>1. index \in Nat /\ index <= IndexMax - Margin
    <3>1. currentIndex \in Nat
      BY DEF TypeOK
    <3>2. normalize(currentIndex) \in 0..(Size - 1)
      BY <3>1, DivMod DEF normalize
    <3> QED BY <3>1, <3>2 DEF isIndexRollingOver
  <2>2. \E k \in 0..head : head = index + k * Size
    BY <1>0, NormalizeFollowsHead
  <2>3. ~threadSafe /\ threadSafe' = threadSafe /\ MaxLen <= Margin /\ len \in 1..MaxLen
    <3>1. ~threadSafe /\ threadSafe' = threadSafe
      BY <1>6 DEF AllocateUnsafe, Goto
    <3>2. Cardinality(Threads) \in Nat \ {0}
      BY CommittedFinite, FS_EmptySet
    <3>3. MaxLen <= MaxLen * Cardinality(Threads)
      BY <3>2, LenTimes
    <3>4. MaxLen * Cardinality(Threads) <= Margin
      BY <3>2 DEF MarginCovers
    <3> QED BY <3>1, <3>2, <3>3, <3>4
  <2>4. /\ pc[t] = "idle"
        /\ pc' = [pc EXCEPT ![t] = "claimed"]
        /\ ret' = [ret EXCEPT ![t] = index]
        /\ bufferLen' = [bufferLen EXCEPT ![t] = len]
        /\ start' = [start EXCEPT ![t] = head]
        /\ head' = head + len
        /\ currentIndex' = (index + len) % (IndexMax + 1)
        /\ UNCHANGED <<newWrapCount, seen>>
    BY <1>6 DEF AllocateUnsafe, Goto
  <2> HIDE DEF index
  <2>5. currentIndex' = index + len /\ index + len <= IndexMax
    BY <2>1, <2>3, <2>4
  <2>6. indexWrapAroundCount' \in 0..IndexMax
    <3>1. (indexWrapAroundCount + 1) % (IndexMax + 1) \in 0..IndexMax
      BY DivMod DEF TypeOK
    <3> QED BY <1>6, <3>1 DEF AllocateUnsafe, TypeOK
  <2>7. TypeOK'
    BY <2>1, <2>3, <2>4, <2>5, <2>6 DEF TypeOK
  <2>8. LenInLens' /\ UnsafeUndivided'
    BY <2>3, <2>4 DEF TypeOK, LenInLens, UnsafeUndivided
  <2>9. Headroom'
    <3>1. Committed' = {}
      BY <2>3, <2>8 DEF Committed, UnsafeUndivided
    <3> QED BY <3>1 DEF Headroom
  <2>10. IndexFollowsHead' /\ ClaimFollowsHead' /\ ClaimsInOrder'
    <3>1. pc[t] # "claimed" /\ len \in Nat
      BY <2>3, <2>4
    <3> QED BY <2>1, <2>2, <2>4, <2>5, <3>1, ClaimKeepsOrder
  <2> QED BY <2>7, <2>8, <2>9, <2>10
<1>7. ASSUME NEW t \in Threads, Filled(t)
      PROVE  IndInv'
  <2>1. TypeOK' /\ LenInLens' /\ UnsafeUndivided'
    BY <1>7 DEF Filled, Goto, TypeOK, LenInLens, UnsafeUndivided
  <2>2. Committed' = Committed /\ Claimed' = Claimed \ {t}
    BY <1>7 DEF Filled, Goto, Committed, Claimed, TypeOK
  <2>3. Headroom' /\ IndexFollowsHead'
    BY <1>7, <2>2 DEF Filled, Headroom, IndexFollowsHead
  <2>4. \A u \in Claimed' : /\ u \in Claimed
                            /\ start'[u] = start[u]
                            /\ bufferLen'[u] = bufferLen[u]
                            /\ ret'[u] = ret[u]
    BY <1>7, <2>2 DEF Filled, TypeOK, Claimed
  <2>5. ClaimFollowsHead' /\ ClaimsInOrder'
    BY <1>7, <2>4 DEF Filled, ClaimFollowsHead, ClaimsInOrder
  <2> QED BY <2>1, <2>3, <2>5
<1>8. CASE UNCHANGED vars
  <2>1. Committed' = Committed /\ Claimed' = Claimed
    BY <1>8 DEF vars, Committed, Claimed
  <2> QED
    BY <1>8, <2>1
    DEF vars, locals, TypeOK, LenInLens, UnsafeUndivided, Headroom, IndexFollowsHead,
        ClaimFollowsHead, ClaimsInOrder
<1> QED
  BY <1>1, <1>2, <1>3, <1>4, <1>5, <1>6, <1>7, <1>8 DEF Next, Allocating

(***************************************************************************)
(* The inductive invariant holds of every run of allocate() in which the   *)
(* margin of isIndexRollingOver covers one longest entry per thread.       *)
(***************************************************************************)
THEOREM AllocateInvariant == MarginCovers /\ Spec => []IndInv
<1>1. MarginCovers /\ IndInv /\ [Next]_vars => IndInv'
  BY NextIndInv
<1>2. Init => IndInv
  BY InitIndInv
<1>3. MarginCovers => []MarginCovers
  <2>1. MarginCovers => MarginCovers'
    BY DEF MarginCovers
  <2> QED BY <2>1, PTL
<1> QED BY <1>1, <1>2, <1>3, PTL DEF Spec

-----------------------------------------------------------------------------
(* With the headroom, a committed thread's addition stays in the width. *)
LEMMA IndInvNoOverflow ==
    ASSUME MarginCovers, IndInv
    PROVE  NoSilentOverflow
  BY AddFits DEF IndInv, NoSilentOverflow

(* The cell a claimed region's k-th byte lies in, from its absolute start. *)
LEMMA CellOfClaim ==
    ASSUME IndInv, NEW t \in Claimed, NEW k \in Nat
    PROVE  normalize(ret[t] + k) = (start[t] + k) % Size
<1>1. PICK m \in 0..start[t] : start[t] = ret[t] + m * Size
  BY DEF IndInv, ClaimFollowsHead
<1>2. start[t] \in Nat /\ ret[t] \in Nat
  BY DEF IndInv, TypeOK, Claimed
<1>3. m * Size \in Int /\ m \in Int
  BY <1>2
<1>4. start[t] + k = (ret[t] + k) + m * Size
  BY <1>1, <1>2, <1>3
<1>5. start[t] + k \in Nat /\ ret[t] + k \in Nat
  BY <1>2
<1> QED BY <1>3, <1>4, <1>5, SameCell DEF normalize

(* Claims in order, less than a turn apart, occupy different cells. *)
LEMMA IndInvDisjoint ==
    ASSUME IndInv
    PROVE  ClaimsDisjoint
<1> SUFFICES ASSUME NEW t \in Claimed, NEW u \in Claimed, t # u,
                    start[t] <= start[u],
                    start[u] + bufferLen[u] - start[t] <= Size,
                    NEW i \in 0..(bufferLen[t] - 1), NEW j \in 0..(bufferLen[u] - 1)
             PROVE  normalize(ret[t] + i) # normalize(ret[u] + j)
  BY DEF ClaimsDisjoint, Cells
<1>1. /\ start[t] \in Nat /\ bufferLen[t] \in 1..MaxLen
      /\ start[u] \in Nat /\ bufferLen[u] \in 1..MaxLen
  BY DEF IndInv, TypeOK, LenInLens, Claimed
<1>2. start[t] + bufferLen[t] <= start[u]
  BY <1>1 DEF IndInv, ClaimsInOrder
<1>3. i \in Nat /\ j \in Nat
  BY <1>1
<1>4. /\ start[t] + i \in Nat /\ start[u] + j \in Nat
      /\ start[t] + i < start[u] + j
      /\ (start[u] + j) - (start[t] + i) < Size
  BY <1>1, <1>2, <1>3
<1>5. (start[t] + i) % Size # (start[u] + j) % Size
  BY <1>4, DifferentCells
<1> QED BY <1>3, <1>5, CellOfClaim

(***************************************************************************)
(* For every number of threads the margin covers, no fetch-and-add of      *)
(* allocate() runs over the width of currentIndex_.                        *)
(***************************************************************************)
THEOREM NeverOverflows == MarginCovers /\ Spec => []NoSilentOverflow
<1>1. MarginCovers /\ IndInv => NoSilentOverflow
  BY IndInvNoOverflow
<1>2. MarginCovers => []MarginCovers
  <2>1. MarginCovers => MarginCovers'
    BY DEF MarginCovers
  <2> QED BY <2>1, PTL
<1> QED BY <1>1, <1>2, AllocateInvariant, PTL

(***************************************************************************)
(* For every number of threads the margin covers, two threads that are     *)
(* both between allocate() and the end of set() write disjoint bytes of    *)
(* the ring unless one is a whole turn of the ring behind.                 *)
(***************************************************************************)
THEOREM RegionsDisjoint == MarginCovers /\ Spec => []ClaimsDisjoint
<1>1. IndInv => ClaimsDisjoint
  BY IndInvDisjoint
<1> QED BY <1>1, AllocateInvariant, PTL

(* While the wrap count is below its maximum, every step keeps folds noted: *)
(* only a fold parts the index from the bytes handed out.                   *)
LEMMA StepFoldNoted ==
    ASSUME MarginCovers, IndInv, FoldNoted, indexWrapAroundCount < IndexMax, [Next]_vars
    PROVE  FoldNoted'
<1> USE DEF IndInv, hasWrappedAround
<1>0. indexWrapAroundCount \in Nat /\ (indexWrapAroundCount + 1) % (IndexMax + 1) = indexWrapAroundCount + 1
  <2>1. indexWrapAroundCount \in Nat /\ indexWrapAroundCount + 1 <= IndexMax
    BY DEF TypeOK
  <2> QED BY <2>1, WithinWidth
<1>1. ASSUME NEW t \in Threads,
             \/ \E len \in Lens : Allocate(t, len)
             \/ CheckRollingOver(t) \/ LoopTest(t) \/ LoadIndex(t) \/ Filled(t)
      PROVE  FoldNoted'
  BY <1>1
  DEF Allocate, CheckRollingOver, LoopTest, LoadIndex, Filled, Goto, locals, TypeOK, FoldNoted
<1>2. ASSUME NEW t \in Threads, ReadWrapCount(t) PROVE FoldNoted'
  <2>1. newWrapCount' = [newWrapCount EXCEPT ![t] = indexWrapAroundCount + 1]
    BY <1>0, <1>2 DEF ReadWrapCount
  <2> QED BY <1>0, <1>2, <2>1 DEF ReadWrapCount, Goto, TypeOK, FoldNoted
<1>3. ASSUME NEW t \in Threads, CompareAndSwap(t) PROVE FoldNoted'
  BY <1>3 DEF CompareAndSwap, Goto, locals, TypeOK, FoldNoted
<1>4. ASSUME NEW t \in Threads, StoreWrapCount(t) PROVE FoldNoted'
  BY <1>4 DEF StoreWrapCount, Goto, locals, TypeOK, FoldNoted
<1>5. ASSUME NEW t \in Threads, FetchAndAdd(t) PROVE FoldNoted'
  <2>1. currentIndex + bufferLen[t] <= IndexMax
    BY <1>5, AddFits DEF FetchAndAdd, Goto
  <2>2. currentIndex' = currentIndex + bufferLen[t]
    <3>1. currentIndex \in Nat /\ bufferLen[t] \in Nat
      BY DEF TypeOK
    <3>2. (currentIndex + bufferLen[t]) % (IndexMax + 1) = currentIndex + bufferLen[t]
      BY <2>1, <3>1, WithinWidth
    <3> QED BY <1>5, <3>2 DEF FetchAndAdd
  <2>3. head = currentIndex => head' = currentIndex'
    BY <1>5, <2>2 DEF FetchAndAdd
  <2> QED BY <1>5, <2>3 DEF FetchAndAdd, Goto, TypeOK, FoldNoted
<1>6. ASSUME NEW t \in Threads, NEW len \in Lens, AllocateUnsafe(t, len) PROVE FoldNoted'
  <2>1. CASE isIndexRollingOver(currentIndex)
    <3>1. indexWrapAroundCount' = indexWrapAroundCount + 1
      BY <1>0, <1>6, <2>1 DEF AllocateUnsafe
    <3>2. hasWrappedAround'
      BY <1>0, <3>1
    <3> QED BY <1>6, <3>2 DEF AllocateUnsafe, Goto, TypeOK, FoldNoted
  <2>2. CASE ~isIndexRollingOver(currentIndex)
    <3>1. Cardinality(Threads) \in Nat /\ Cardinality(Threads) >= 1
      BY FS_CardinalityType, FS_EmptySet
    <3>2. MaxLen * Cardinality(Threads) >= MaxLen /\ MaxLen * Cardinality(Threads) <= Margin
      BY <3>1, LenTimes DEF MarginCovers
    <3>3. currentIndex \in Nat /\ len \in Nat /\ currentIndex + len <= IndexMax
      BY <2>2, <3>1, <3>2, LenTimes DEF isIndexRollingOver, TypeOK
    <3>4. currentIndex' = currentIndex + len
      <4>1. (currentIndex + len) % (IndexMax + 1) = currentIndex + len
        BY <3>3, WithinWidth
      <4> QED BY <1>6, <2>2, <4>1 DEF AllocateUnsafe
    <3>5. head = currentIndex => head' = currentIndex'
      BY <1>6, <3>4 DEF AllocateUnsafe
    <3> QED BY <1>6, <2>2, <3>5 DEF AllocateUnsafe, Goto, TypeOK, FoldNoted
  <2> QED BY <2>1, <2>2
<1>7. CASE UNCHANGED vars
  BY <1>7 DEF vars, locals, FoldNoted
<1> QED BY <1>1, <1>2, <1>3, <1>4, <1>5, <1>6, <1>7 DEF Next, Allocating

(***************************************************************************)
(* For every number of threads the margin covers, Log::firstLine() can     *)
(* tell that the ring has been filled once, as long as the count of the    *)
(* folds, which starts with garbage, has not itself reached its maximum.   *)
(***************************************************************************)
THEOREM WrapsRemembered ==
    MarginCovers /\ Spec /\ [](indexWrapAroundCount < IndexMax) => []WrapRemembered
<1>1. Init => FoldNoted
  BY DEF Init, FoldNoted
<1>2. MarginCovers /\ IndInv /\ FoldNoted /\ (indexWrapAroundCount < IndexMax) /\ [Next]_vars
        => FoldNoted'
  BY StepFoldNoted
<1>3. FoldNoted => WrapRemembered
  BY DEF FoldNoted, WrapRemembered
<1>4. MarginCovers => []MarginCovers
  <2>1. MarginCovers => MarginCovers'
    BY DEF MarginCovers
  <2> QED BY <2>1, PTL
<1> QED BY <1>1, <1>2, <1>3, <1>4, AllocateInvariant, PTL DEF Spec

-----------------------------------------------------------------------------
(* Refinement: FetchAndAdd (and AllocateUnsafe) is Reserve, Filled is      *)
(* Release, and every other step of allocate() is invisible.               *)

claimBar == [t \in Threads |-> IF pc[t] = "claimed"
                               THEN [start |-> start[t], loc |-> normalize(ret[t]),
                                     len |-> bufferLen[t]]
                               ELSE [start |-> 0, loc |-> 0, len |-> 0]]

(* The step that claims a region is RingAlloc's Reserve. *)
LEMMA ReserveStep ==
    ASSUME TypeOK,
           NEW t \in Threads, NEW len \in Lens, NEW index \in Nat,
           \E k \in 0..head : head = index + k * Size,
           pc[t] # "claimed",
           pc' = [pc EXCEPT ![t] = "claimed"],
           ret' = [ret EXCEPT ![t] = index],
           bufferLen' = [bufferLen EXCEPT ![t] = len],
           start' = [start EXCEPT ![t] = head],
           head' = head + len
    PROVE  Abstract!Next
<1>1. normalize(index) = head % Size
  <2>1. PICK k \in 0..head : head = index + k * Size
    OBVIOUS
  <2>2. k \in Int /\ head \in Nat
    BY DEF TypeOK
  <2> QED BY <2>1, <2>2, SameCell DEF normalize
<1>2. claimBar[t] = Abstract!NoClaim
  BY DEF claimBar, Abstract!NoClaim
<1>3. claimBar' = [claimBar EXCEPT ![t] = [start |-> head, loc |-> head % Size, len |-> len]]
  BY <1>1 DEF claimBar, TypeOK
<1>4. Abstract!Reserve(t, len)
  BY <1>2, <1>3 DEF Abstract!Reserve, claimBar
<1> QED BY <1>4 DEF Abstract!Next

(* Every step of allocate() is a step of RingAlloc or changes nothing there. *)
LEMMA RefinementStep ==
    ASSUME MarginCovers, IndInv, [Next]_vars
    PROVE  Abstract!Next \/ UNCHANGED <<head, claimBar>>
<1> USE DEF IndInv
<1>0. \E k \in 0..head : head = currentIndex + k * Size
  BY DEF IndexFollowsHead
<1>1. ASSUME NEW t \in Threads,
             \/ \E len \in Lens : Allocate(t, len)
             \/ CheckRollingOver(t) \/ ReadWrapCount(t) \/ LoopTest(t)
             \/ LoadIndex(t) \/ CompareAndSwap(t) \/ StoreWrapCount(t)
      PROVE  UNCHANGED <<head, claimBar>>
  BY <1>1
  DEF Allocate, CheckRollingOver, ReadWrapCount, LoopTest, LoadIndex, CompareAndSwap,
      StoreWrapCount, Goto, claimBar, locals, TypeOK
<1>2. ASSUME NEW t \in Threads, FetchAndAdd(t)
      PROVE  Abstract!Next
  <2>1. /\ pc[t] = "add" /\ pc' = [pc EXCEPT ![t] = "claimed"]
        /\ bufferLen' = [bufferLen EXCEPT ![t] = bufferLen[t]]
        /\ ret' = [ret EXCEPT ![t] = currentIndex]
        /\ start' = [start EXCEPT ![t] = head]
        /\ head' = head + bufferLen[t]
    BY <1>2 DEF FetchAndAdd, Goto, TypeOK
  <2>2. bufferLen[t] \in Lens /\ currentIndex \in Nat /\ pc[t] # "claimed"
    BY <2>1 DEF LenInLens, TypeOK
  <2> QED BY <1>0, <2>1, <2>2, ReserveStep
<1>3. ASSUME NEW t \in Threads, NEW len \in Lens, AllocateUnsafe(t, len)
      PROVE  Abstract!Next
  <2> DEFINE index == IF isIndexRollingOver(currentIndex) THEN normalize(currentIndex)
                                                          ELSE currentIndex
  <2>1. index \in Nat
    <3>1. currentIndex \in Nat
      BY DEF TypeOK
    <3> QED BY <3>1, DivMod DEF normalize
  <2>2. \E k \in 0..head : head = index + k * Size
    BY <1>0, NormalizeFollowsHead
  <2>3. /\ pc[t] # "claimed"
        /\ pc' = [pc EXCEPT ![t] = "claimed"]
        /\ ret' = [ret EXCEPT ![t] = index]
        /\ bufferLen' = [bufferLen EXCEPT ![t] = len]
        /\ start' = [start EXCEPT ![t] = head]
        /\ head' = head + len
    BY <1>3 DEF AllocateUnsafe, Goto
  <2> HIDE DEF index
  <2> QED BY <2>1, <2>2, <2>3, ReserveStep
<1>4. ASSUME NEW t \in Threads, Filled(t)
      PROVE  Abstract!Next
  <2>1. pc[t] = "claimed" /\ bufferLen[t] \in 1..MaxLen
    BY <1>4 DEF Filled, Goto, LenInLens
  <2>2. claimBar[t] # Abstract!NoClaim
    BY <2>1 DEF claimBar, Abstract!NoClaim
  <2>3. claimBar' = [claimBar EXCEPT ![t] = Abstract!NoClaim] /\ head' = head
    BY <1>4 DEF Filled, Goto, claimBar, Abstract!NoClaim, TypeOK
  <2>4. Abstract!Release(t)
    BY <2>2, <2>3 DEF Abstract!Release, claimBar
  <2> QED BY <2>4 DEF Abstract!Next
<1>5. CASE UNCHANGED vars
  BY <1>5 DEF vars, locals, claimBar
<1> QED
  BY <1>1, <1>2, <1>3, <1>4, <1>5 DEF Next, Allocating

(***************************************************************************)
(* allocate() implements RingAlloc for every number of threads the margin  *)
(* covers: whatever the interleaving of checks, compare-and-swaps and      *)
(* additions, each region starts in the ring where the last one ended.     *)
(***************************************************************************)
THEOREM AllocateRefines == MarginCovers /\ Spec => ImplementsRingAlloc
<1>1. Init => Abstract!Init
  BY DEF Init, Abstract!Init, Abstract!NoClaim
<1>2. MarginCovers /\ IndInv /\ [Next]_vars => [Abstract!Next]_<<head, claimBar>>
  BY RefinementStep
<1>3. MarginCovers => []MarginCovers
  <2>1. MarginCovers => MarginCovers'
    BY DEF MarginCovers
  <2> QED BY <2>1, PTL
<1> QED
  BY <1>1, <1>2, <1>3, AllocateInvariant, PTL
  DEF Spec, ImplementsRingAlloc, Abstract!Spec, claimBar
=============================================================================
