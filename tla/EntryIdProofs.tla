--------------------------- MODULE EntryIdProofs ----------------------------
(***************************************************************************)
(* Proofs about allocateId(), for every number of threads, every width of  *)
(* the ids and any two patterns that are not neighbours: ids of calls that *)
(* did not overlap are different and, but for the first, never a pattern.  *)
(***************************************************************************)
EXTENDS EntryId, ModularArithmetic, SequenceTheorems

PatternIds == {StartPattern, EndPattern}
IdSet == 0..IdMax

(* The id after x, and how many ids after f it comes, going round *)
Succ(x) == IF x = IdMax THEN 0 ELSE x + 1
Off(f, x) == IF x >= f THEN x - f ELSE (x - f) + (IdMax + 1)

(* Has a walk of D ids from f stepped over p? *)
Passed(f, p, D) == IF Off(f, p) > 0 /\ Off(f, p) < D THEN 1 ELSE 0

(* The ids of s go once round at most, in the order of the calls, and all  *)
(* but the first keep clear of the patterns.                               *)
Rising(s) ==
    \A k \in 1..Len(s) :
        /\ \A j \in 1..Len(s) : j < k => Off(s[1], s[j]) < Off(s[1], s[k])
        /\ k > 1 => s[k] \notin PatternIds

(* g is the id that follows those of s: D ids after the first of them,     *)
(* where D counts a call for each and a pattern that was stepped over.     *)
Follows(s, g) ==
    s # <<>> => \E D \in 1..(IdMax + 1) :
        /\ D = Off(s[1], g) \/ (D = IdMax + 1 /\ g = s[1])
        /\ \A k \in 1..Len(s) : Off(s[1], s[k]) < D
        /\ D <= Len(s) + Passed(s[1], StartPattern, D) + Passed(s[1], EndPattern, D)
        /\ g \notin PatternIds

-----------------------------------------------------------------------------
(* The widths, and patterns that have an id between them *)
LEMMA Ids ==
    /\ IdMax \in Nat
    /\ StartPattern \in IdSet /\ EndPattern \in IdSet
    /\ MaxIds \in Nat /\ MaxIds <= IdMax - 1
  BY EntryIdAssumption DEF IdSet

(* An increment on a uint32_t *)
LEMMA Increment ==
    ASSUME NEW x \in IdSet
    PROVE  U(x + 1) = Succ(x) /\ Succ(x) \in IdSet /\ (IdMax > 0 => Succ(x) # x)
<1>1. IdMax \in Nat /\ x \in Nat /\ x <= IdMax
  BY Ids DEF IdSet
<1>2. CASE x = IdMax
  <2> DEFINE S == IdMax + 1
  <2>1. S \in Nat \ {0} /\ S >= S /\ S < 2 * S
    BY <1>1
  <2> HIDE DEF S
  <2>2. S % S = S - S
    BY <2>1, WordReduced
  <2> QED BY <1>1, <1>2, <2>2 DEF S, U, Succ, IdSet
<1>3. CASE x < IdMax
  <2>1. (x + 1) % (IdMax + 1) = x + 1
    BY <1>1, <1>3, WithinWidth
  <2> QED BY <1>1, <1>3, <2>1 DEF U, Succ, IdSet
<1> QED BY <1>1, <1>2, <1>3

(* The id after a pattern is no pattern. *)
LEMMA PatternsApart ==
    ASSUME NEW p \in PatternIds
    PROVE  Succ(p) \notin PatternIds
<1>1. p \in IdSet
  BY Ids DEF PatternIds
<1>2. U(p + 1) \notin PatternIds
  BY EntryIdAssumption DEF PatternIds, U
<1> QED BY <1>1, <1>2, Increment

(* Offsets are below the width, differ for different ids, and grow by one. *)
LEMMA Offsets ==
    ASSUME NEW f \in IdSet, NEW x \in IdSet
    PROVE  /\ Off(f, x) \in IdSet
           /\ Off(f, x) = 0 <=> x = f
           /\ Off(f, x) < IdMax => Off(f, Succ(x)) = Off(f, x) + 1
           /\ Off(f, x) = IdMax => Succ(x) = f
           /\ \A y \in IdSet : Off(f, x) = Off(f, y) => x = y
  BY Ids DEF Off, Succ, IdSet

(* A longer walk has stepped over no fewer patterns. *)
LEMMA PassedGrows ==
    ASSUME NEW f \in IdSet, NEW p \in IdSet, NEW D \in Nat, NEW E \in Nat, D <= E
    PROVE  /\ Passed(f, p, D) \in {0, 1} /\ Passed(f, p, E) \in {0, 1}
           /\ Passed(f, p, D) <= Passed(f, p, E)
           /\ p = f => Passed(f, p, D) = 0
           /\ Off(f, p) >= D /\ Off(f, p) > 0 /\ Off(f, p) < E
                => Passed(f, p, D) = 0 /\ Passed(f, p, E) = 1
<1>1. Off(f, p) \in Nat /\ (p = f => Off(f, p) = 0)
  BY Offsets, Ids DEF IdSet
<1> QED BY <1>1 DEF Passed

(* One more call: its id is g, and h is the id after g or, past a pattern, *)
(* the one after that.                                                     *)
LEMMA Extend ==
    ASSUME NEW s \in Seq(IdSet), NEW g \in IdSet, NEW h \in IdSet,
           Len(s) + 1 <= MaxIds,
           Rising(s), Follows(s, g),
           \/ h = Succ(g) /\ h \notin PatternIds
           \/ Succ(g) \in PatternIds /\ h = Succ(Succ(g))
    PROVE  Rising(Append(s, g)) /\ Follows(Append(s, g), h)
<1> DEFINE n == Len(s)
           r == Append(s, g)
           f == r[1]
<1>1. /\ n \in Nat /\ r \in Seq(IdSet) /\ Len(r) = n + 1 /\ r # <<>>
      /\ \A k \in 1..n : r[k] = s[k] /\ s[k] \in IdSet
      /\ r[n + 1] = g
  BY AppendProperties, LenProperties, ElementOfSeq
<1>2. IdMax \in Nat /\ MaxIds \in Nat /\ n + 1 <= IdMax - 1
  BY <1>1, Ids
<1>3. h \notin PatternIds
  BY PatternsApart
<1>4. f \in IdSet /\ 1 \in 1..(n + 1)
  BY <1>1
<1>5. ~(s = <<>>) => f = s[1] /\ n >= 1
  <2> HAVE ~(s = <<>>)
  <2>1. n # 0
    BY EmptySeq
  <2> QED BY <1>1, <2>1
<1>6. s = <<>> => n = 0 /\ f = g
  BY <1>1, EmptySeq
<1> HIDE DEF n, r, f
<1>7. \E D \in 0..IdMax :
        /\ D = Off(f, g)
        /\ \A k \in 1..n : Off(f, s[k]) < D
        /\ D <= n + Passed(f, StartPattern, D) + Passed(f, EndPattern, D)
        /\ n > 0 => g \notin PatternIds /\ D > 0
  <2>1. CASE s = <<>>
    <3>1. n = 0 /\ f = g /\ Off(f, g) = 0
      BY <1>4, <1>6, <2>1, Offsets
    <3>2. Passed(f, StartPattern, 0) \in {0, 1} /\ Passed(f, EndPattern, 0) \in {0, 1}
      BY <1>4, Ids, PassedGrows
    <3>3. 0 \in 0..IdMax /\ 0 <= n + Passed(f, StartPattern, 0) + Passed(f, EndPattern, 0)
      BY <1>2, <3>1, <3>2
    <3> QED BY <3>1, <3>3
  <2>2. CASE s # <<>>
    <3>1. PICK D \in 1..(IdMax + 1) :
             /\ D = Off(f, g) \/ (D = IdMax + 1 /\ g = f)
             /\ \A k \in 1..n : Off(f, s[k]) < D
             /\ D <= n + Passed(f, StartPattern, D) + Passed(f, EndPattern, D)
             /\ g \notin PatternIds
      BY <1>5, <2>2 DEF Follows, n
    <3>2. Passed(f, StartPattern, D) \in {0, 1} /\ Passed(f, EndPattern, D) \in {0, 1}
      BY <1>2, <1>4, Ids, PassedGrows
    <3>3. D <= IdMax
      BY <1>1, <1>2, <3>1, <3>2 DEF n
    <3>4. D = Off(f, g)
      BY <1>2, <3>1, <3>3
    <3> QED BY <1>2, <3>1, <3>3, <3>4
  <2> QED BY <2>1, <2>2
<1>8. PICK D \in 0..IdMax :
        /\ D = Off(f, g)
        /\ \A k \in 1..n : Off(f, s[k]) < D
        /\ D <= n + Passed(f, StartPattern, D) + Passed(f, EndPattern, D)
        /\ n > 0 => g \notin PatternIds /\ D > 0
  BY <1>7
<1>9. Rising(r)
  <2> SUFFICES ASSUME NEW k \in 1..(n + 1)
               PROVE  /\ \A j \in 1..(n + 1) : j < k => Off(f, r[j]) < Off(f, r[k])
                      /\ k > 1 => r[k] \notin PatternIds
    BY <1>1 DEF Rising, f, n
  <2>1. CASE k = n + 1
    <3>1. r[k] = g /\ (k > 1 => n > 0)
      BY <1>1, <2>1 DEF n
    <3>2. \A j \in 1..(n + 1) : j < k => j \in 1..n
      BY <1>1, <2>1 DEF n
    <3>3. \A j \in 1..n : Off(f, r[j]) < D
      BY <1>1, <1>8 DEF n
    <3> QED BY <1>8, <3>1, <3>2, <3>3
  <2>2. CASE k \in 1..n
    <3>1. r[k] = s[k] /\ s # <<>> /\ f = s[1]
      BY <1>1, <1>5, <1>6, <2>2 DEF n
    <3>2. \A j \in 1..(n + 1) : j < k => j \in 1..n /\ r[j] = s[j]
      BY <1>1, <2>2 DEF n
    <3> QED BY <2>2, <3>1, <3>2 DEF Rising, n
  <2> QED BY <1>1, <2>1, <2>2 DEF n
<1>10. ASSUME NEW E \in 1..(IdMax + 1), E > D,
              E = Off(f, h) \/ (E = IdMax + 1 /\ h = f),
              E <= (n + 1) + Passed(f, StartPattern, E) + Passed(f, EndPattern, E)
       PROVE  Follows(r, h)
  <2>1. \A k \in 1..(n + 1) : Off(f, r[k]) < E
    <3> TAKE k \in 1..(n + 1)
    <3>1. CASE k = n + 1
      BY <1>1, <1>2, <1>8, <1>10, <3>1 DEF n
    <3>2. CASE k \in 1..n
      <4>1. Off(f, r[k]) < D /\ Off(f, r[k]) \in IdSet
        BY <1>1, <1>4, <1>8, <3>2, Offsets DEF n
      <4> QED BY <1>2, <1>10, <4>1 DEF IdSet
    <3> QED BY <1>1, <3>1, <3>2 DEF n
  <2>2. \A k \in 1..Len(r) : Off(r[1], r[k]) < E
    BY <1>1, <2>1 DEF f, n
  <2>3. E <= Len(r) + Passed(r[1], StartPattern, E) + Passed(r[1], EndPattern, E)
    BY <1>1, <1>10 DEF f, n
  <2>4. E = Off(r[1], h) \/ (E = IdMax + 1 /\ h = r[1])
    BY <1>10 DEF f
  <2> QED BY <1>3, <1>10, <2>2, <2>3, <2>4 DEF Follows
<1>11. /\ Passed(f, StartPattern, D) \in {0, 1} /\ Passed(f, EndPattern, D) \in {0, 1}
       /\ n \in Nat /\ D \in Nat /\ D <= IdMax
  BY <1>1, <1>2, <1>4, <1>8, Ids, PassedGrows DEF n
<1>12. Succ(g) \in IdSet
  BY Increment
<1>13. CASE h = Succ(g) /\ h \notin PatternIds
  <2> DEFINE E == D + 1
  <2>1. E \in 1..(IdMax + 1) /\ E > D /\ E \in Nat
    BY <1>2, <1>11
  <2>2. E = Off(f, h) \/ (E = IdMax + 1 /\ h = f)
    BY <1>2, <1>4, <1>8, <1>11, <1>13, Offsets
  <2>3. /\ Passed(f, StartPattern, D) <= Passed(f, StartPattern, E)
        /\ Passed(f, EndPattern, D) <= Passed(f, EndPattern, E)
        /\ Passed(f, StartPattern, E) \in {0, 1} /\ Passed(f, EndPattern, E) \in {0, 1}
    BY <1>4, <1>11, <2>1, Ids, PassedGrows
  <2>4. E <= (n + 1) + Passed(f, StartPattern, E) + Passed(f, EndPattern, E)
    BY <1>8, <1>11, <2>3
  <2> HIDE DEF E
  <2>5. Follows(r, h)
    BY <1>10, <2>1, <2>2, <2>4
  <2> QED BY <1>9, <2>5 DEF r
<1>14. CASE Succ(g) \in PatternIds /\ h = Succ(Succ(g))
  <2> DEFINE p == Succ(g)
             E == D + 2
  <2>1. D < IdMax
    <3> SUFFICES ASSUME D = IdMax PROVE FALSE
      BY <1>2, <1>11
    <3>1. p = f
      BY <1>4, <1>8, Offsets
    <3>2. f = StartPattern \/ f = EndPattern
      BY <1>14, <3>1 DEF PatternIds
    <3>3. Passed(f, StartPattern, D) = 0 \/ Passed(f, EndPattern, D) = 0
      BY <1>4, <1>11, <3>2, Ids, PassedGrows
    <3> QED BY <1>2, <1>8, <1>11, <3>3
  <2>2. Off(f, p) = D + 1 /\ p \in IdSet
    BY <1>4, <1>8, <1>12, <2>1, Offsets
  <2>3. E \in 1..(IdMax + 1) /\ E > D /\ E \in Nat
    BY <1>2, <1>11, <2>1
  <2>4. E = Off(f, h) \/ (E = IdMax + 1 /\ h = f)
    <3> HIDE DEF p
    <3>1. h = Succ(p)
      BY <1>14 DEF p
    <3>2. CASE D + 1 < IdMax
      BY <1>4, <1>11, <2>2, <3>1, <3>2, Offsets
    <3>3. CASE D + 1 = IdMax
      BY <1>4, <1>11, <2>2, <3>1, <3>3, Offsets
    <3> QED BY <1>2, <1>11, <2>1, <3>2, <3>3
  <2>5. /\ Passed(f, StartPattern, D) <= Passed(f, StartPattern, E)
        /\ Passed(f, EndPattern, D) <= Passed(f, EndPattern, E)
        /\ Passed(f, StartPattern, E) \in {0, 1} /\ Passed(f, EndPattern, E) \in {0, 1}
    BY <1>4, <1>11, <2>3, Ids, PassedGrows
  <2>6. Passed(f, p, D) = 0 /\ Passed(f, p, E) = 1
    BY <1>4, <1>11, <2>2, <2>3, PassedGrows
  <2>7. p = StartPattern \/ p = EndPattern
    BY <1>14 DEF PatternIds
  <2>8. E <= (n + 1) + Passed(f, StartPattern, E) + Passed(f, EndPattern, E)
    <3>1. CASE p = StartPattern
      BY <1>8, <1>11, <2>5, <2>6, <3>1
    <3>2. CASE p = EndPattern
      BY <1>8, <1>11, <2>5, <2>6, <3>2
    <3> QED BY <2>7, <3>1, <3>2
  <2> HIDE DEF E
  <2>9. Follows(r, h)
    BY <1>10, <2>3, <2>4, <2>8
  <2> QED BY <1>9, <2>9 DEF r
<1> QED BY <1>13, <1>14

-----------------------------------------------------------------------------
IdTypes ==
    /\ globalId \in IdSet
    /\ ipc \in [Callers -> {"idle", "inc", "store", "start", "end", "inc2", "store2"}]
    /\ id \in [Callers -> IdSet]
    /\ reg \in [Callers -> IdSet]
    /\ ids \in 0..MaxIds
    /\ raced \in BOOLEAN
    /\ issued \in Seq(IdSet)

(* How far a call has come that nobody interfered with *)
Progress(t) ==
    LET next == Succ(id[t])
    IN  /\ ipc[t] = "inc" => reg[t] = id[t] /\ globalId = id[t]
        /\ ipc[t] = "store" => reg[t] = next /\ globalId = id[t]
        /\ ipc[t] \in {"start", "end", "inc2"} => reg[t] = next /\ globalId = next
        /\ ipc[t] = "end" => next # StartPattern
        /\ ipc[t] \in {"inc2", "store2"} => next \in PatternIds
        /\ ipc[t] = "store2" => reg[t] = Succ(next) /\ globalId = next

(* As long as calls do not overlap at most one is under way, and its id, or *)
(* globalId_ when there is none, follows those issued so far.               *)
Orderly ==
    ~raced =>
        /\ \A t, u \in Inside : t = u
        /\ Inside = {} => Follows(issued, globalId)
        /\ \A t \in Inside : /\ Len(issued) < ids
                             /\ Follows(issued, id[t])
                             /\ Progress(t)

IdInv == IdTypes /\ Len(issued) <= ids /\ Rising(issued) /\ Orderly

(* Memory before the first call: any value *)
LEMMA InitIds == IdInit => IdInv
<1> SUFFICES ASSUME IdInit PROVE IdInv
  OBVIOUS
<1>1. /\ issued = <<>> /\ ids = 0 /\ raced = FALSE /\ globalId \in IdSet
      /\ ipc = [t \in Callers |-> "idle"]
  BY DEF IdInit, IdSet
<1>2. <<>> \in Seq(IdSet) /\ Len(<<>>) = 0
  BY EmptySeq
<1>3. 0 \in IdSet /\ 0 \in 0..MaxIds
  BY Ids DEF IdSet
<1>4. IdTypes
  BY <1>1, <1>2, <1>3 DEF IdInit, IdTypes
<1>5. Rising(issued)
  BY <1>1, <1>2 DEF Rising
<1>6. Orderly
  BY <1>1 DEF Orderly, Inside, Follows
<1> QED BY <1>1, <1>2, <1>4, <1>5, <1>6 DEF IdInv

(* A step inside a call, between the load of the id and the return *)
LEMMA InnerStep ==
    ASSUME IdInv, NEW t \in Callers, IncId(t) \/ StoreId(t) \/ TestStart(t)
    PROVE  IdInv'
<1>0. /\ IdTypes /\ ipc[t] # "idle" /\ globalId \in IdSet /\ reg[t] \in IdSet /\ id[t] \in IdSet
      /\ ids' = ids /\ raced' = raced /\ issued' = issued /\ id' = id
  BY DEF IdInv, IdTypes, IncId, StoreId, TestStart
<1>1. Inside' = Inside /\ t \in Inside
  BY DEF IdInv, IdTypes, IncId, StoreId, TestStart, Inside
<1>2. \A g \in Seen(t) : g \in IdSet /\ U(g + 1) = Succ(g) /\ Succ(g) \in IdSet
  BY <1>0, Increment DEF Seen
<1>3. IdTypes'
  <2>1. CASE IncId(t)
    BY <1>2, <2>1 DEF IdInv, IdTypes, IncId
  <2>2. CASE StoreId(t)
    BY <1>0, <2>2 DEF IdInv, IdTypes, StoreId
  <2>3. CASE TestStart(t)
    BY <1>2, <2>3 DEF IdInv, IdTypes, TestStart
  <2> QED BY <2>1, <2>2, <2>3
<1>4. Rising(issued') /\ Len(issued') <= ids'
  BY <1>0 DEF IdInv
<1>5. Orderly'
  <2> SUFFICES ASSUME ~raced PROVE Orderly'
    BY <1>0 DEF Orderly
  <2>1. /\ \A u \in Inside : u = t
        /\ Len(issued) < ids /\ Follows(issued, id[t]) /\ Progress(t)
    BY <1>1 DEF IdInv, Orderly
  <2>2. Progress(t)'
    <3>1. CASE IncId(t)
      <4>1. \A g \in Seen(t) : g = globalId
        BY <2>1, <3>1 DEF IncId, Progress, Seen
      <4>2. reg'[t] = Succ(globalId) /\ globalId' = globalId
        BY <1>0, <1>2, <3>1, <4>1 DEF IncId, IdTypes
      <4>3. \/ ipc[t] = "inc" /\ ipc'[t] = "store"
            \/ ipc[t] = "inc2" /\ ipc'[t] = "store2"
        BY <1>0, <3>1 DEF IncId, IdTypes
      <4> QED BY <1>0, <2>1, <4>2, <4>3 DEF Progress
    <3>2. CASE StoreId(t)
      BY <1>0, <2>1, <3>2 DEF StoreId, IdTypes, Progress
    <3>3. CASE TestStart(t)
      <4>1. \A g \in Seen(t) : g = globalId
        BY <2>1, <3>3 DEF TestStart, Progress, Seen
      <4>2. /\ reg'[t] = globalId /\ globalId' = globalId
            /\ ipc[t] = "start"
            /\ ipc'[t] = IF globalId = StartPattern THEN "inc2" ELSE "end"
        BY <1>0, <3>3, <4>1 DEF TestStart, IdTypes
      <4> QED BY <1>0, <2>1, <4>2 DEF Progress, PatternIds
    <3> QED BY <3>1, <3>2, <3>3
  <2>3. /\ \A u \in Inside' : u = t
        /\ Len(issued') < ids' /\ Follows(issued', id'[t])
    BY <1>0, <1>1, <2>1
  <2> QED BY <1>1, <2>2, <2>3 DEF Orderly
<1> QED BY <1>3, <1>4, <1>5 DEF IdInv

(* A call begins, alone or beside others. *)
LEMMA LoadStep ==
    ASSUME IdInv, NEW t \in Callers, LoadId(t)
    PROVE  IdInv'
<1>0. /\ IdTypes /\ ids \in Nat /\ ids < MaxIds /\ ids' = ids + 1 /\ Len(issued) \in Nat
      /\ globalId \in IdSet /\ UNCHANGED <<globalId, issued>>
      /\ MaxIds \in Nat
  BY Ids, LenProperties DEF IdInv, IdTypes, LoadId
<1>1. raced' = (raced \/ Inside # {}) /\ t \notin Inside
  BY DEF LoadId, Inside
<1>2. IdTypes'
  <2>1. raced' \in BOOLEAN
    BY <1>1, Zenon
  <2>2. ids' \in 0..MaxIds
    BY <1>0
  <2> QED BY <1>0, <2>1, <2>2 DEF IdTypes, LoadId
<1>3. Rising(issued') /\ Len(issued') <= ids'
  BY <1>0 DEF IdInv
<1>4. Orderly'
  <2> SUFFICES ASSUME ~raced' PROVE Orderly'
    BY DEF Orderly
  <2>1. ~raced /\ Inside = {}
    BY <1>1, Zenon
  <2>2. Follows(issued, globalId)
    BY <2>1 DEF IdInv, Orderly
  <2>3. Inside' = {t}
    BY <1>0, <2>1 DEF IdTypes, LoadId, Inside
  <2>4. id'[t] = globalId /\ reg'[t] = globalId /\ ipc'[t] = "inc"
    BY <1>0 DEF IdTypes, LoadId
  <2>5. Progress(t)'
    BY <1>0, <2>4 DEF Progress
  <2>6. Len(issued') < ids' /\ Follows(issued', id'[t])
    BY <1>0, <2>2, <2>4 DEF IdInv
  <2> QED BY <2>3, <2>5, <2>6 DEF Orderly
<1> QED BY <1>2, <1>3, <1>4 DEF IdInv

(* A call returns: what it leaves in globalId_ follows its id, unless it   *)
(* has overlapped others.                                                  *)
LEMMA ReturnStep ==
    ASSUME IdInv, NEW t \in Callers, ipc[t] # "idle", Returned(t), globalId' \in IdSet,
           ~raced => \/ globalId' = Succ(id[t]) /\ globalId' \notin PatternIds
                     \/ Succ(id[t]) \in PatternIds /\ globalId' = Succ(Succ(id[t]))
    PROVE  IdInv'
<1>0. /\ IdTypes /\ issued \in Seq(IdSet) /\ id[t] \in IdSet /\ ids \in Nat /\ ids <= MaxIds
      /\ Len(issued) \in Nat /\ MaxIds \in Nat /\ <<>> \in Seq(IdSet) /\ Len(<<>>) = 0
  BY Ids, LenProperties, EmptySeq DEF IdInv, IdTypes
<1>1. /\ ids' = ids /\ raced' = (raced /\ Inside # {t})
      /\ issued' = IF raced THEN <<>> ELSE Append(issued, id[t])
      /\ t \in Inside
  BY DEF Returned, Inside
<1>2. Inside' = Inside \ {t}
  BY <1>0 DEF IdTypes, Returned, Inside
<1>3. CASE raced
  <2>1. issued' = <<>>
    BY <1>1, <1>3
  <2>2. IdTypes'
    <3>1. raced' \in BOOLEAN
      BY <1>1, Zenon
    <3>2. 0 \in IdSet
      BY Ids DEF IdSet
    <3> QED BY <1>0, <1>1, <2>1, <3>1, <3>2 DEF IdTypes, Returned
  <2>3. Rising(issued') /\ Len(issued') <= ids'
    BY <1>0, <1>1, <2>1 DEF Rising
  <2>4. Orderly'
    <3> SUFFICES ASSUME ~raced' PROVE Orderly'
      BY DEF Orderly
    <3>1. Inside = {t}
      BY <1>1, <1>3, Zenon
    <3>2. Inside' = {}
      BY <1>2, <3>1
    <3>3. Follows(issued', globalId')
      BY <2>1 DEF Follows
    <3> QED BY <3>2, <3>3 DEF Orderly
  <2> QED BY <2>2, <2>3, <2>4 DEF IdInv
<1>4. CASE ~raced
  <2>1. issued' = Append(issued, id[t]) /\ raced' = FALSE
    <3>1. issued' = Append(issued, id[t])
      BY <1>1, <1>4
    <3>2. raced' = FALSE
      BY <1>1, <1>4, Zenon
    <3> QED BY <3>1, <3>2
  <2>2. Len(issued) < ids /\ Follows(issued, id[t]) /\ \A u \in Inside : u = t
    BY <1>1, <1>4 DEF IdInv, Orderly
  <2>3. Inside' = {}
    BY <1>2, <2>2
  <2>4. issued' \in Seq(IdSet) /\ Len(issued') = Len(issued) + 1
    BY <1>0, <2>1, AppendProperties
  <2>5. IdTypes'
    <3>1. 0 \in IdSet
      BY Ids DEF IdSet
    <3> QED BY <1>0, <1>1, <2>1, <2>4, <3>1 DEF IdTypes, Returned
  <2>6. Len(issued') <= ids' /\ Len(issued) + 1 <= MaxIds
    BY <1>0, <1>1, <2>2, <2>4
  <2>7. Rising(issued') /\ Follows(issued', globalId')
    <3> DEFINE h == globalId'
    <3>1. /\ h \in IdSet /\ Rising(issued)
          /\ \/ h = Succ(id[t]) /\ h \notin PatternIds
             \/ Succ(id[t]) \in PatternIds /\ h = Succ(Succ(id[t]))
      BY <1>4 DEF IdInv
    <3> HIDE DEF h
    <3>2. Rising(Append(issued, id[t])) /\ Follows(Append(issued, id[t]), h)
      BY <1>0, <2>2, <2>6, <3>1, Extend
    <3> QED BY <2>1, <3>2 DEF h
  <2>8. Orderly'
    BY <2>3, <2>7 DEF Orderly
  <2> QED BY <2>5, <2>6, <2>7, <2>8 DEF IdInv
<1> QED BY <1>3, <1>4

(* Every step of allocateId() keeps the invariant. *)
LEMMA IdStep == IdInv /\ [IdNext]_idVars => IdInv'
<1> SUFFICES ASSUME IdInv, [IdNext]_idVars PROVE IdInv'
  OBVIOUS
<1>1. ASSUME NEW t \in Callers, TestEnd(t) PROVE IdInv'
  <2>0. /\ IdTypes /\ ipc[t] = "end" /\ globalId' = globalId /\ globalId \in IdSet
        /\ reg[t] \in IdSet /\ t \in Inside
    BY <1>1 DEF IdInv, IdTypes, TestEnd, Inside
  <2>1. ~raced => /\ globalId = Succ(id[t]) /\ reg[t] = globalId /\ globalId # StartPattern
                  /\ \A u \in Inside : u = t
                  /\ Len(issued) < ids /\ Follows(issued, id[t])
    BY <2>0 DEF IdInv, Orderly, Progress
  <2>2. PICK g \in Seen(t) :
          \/ /\ g = EndPattern
             /\ ipc' = [ipc EXCEPT ![t] = "inc2"]
             /\ reg' = [reg EXCEPT ![t] = g]
             /\ UNCHANGED <<id, ids, raced, issued>>
          \/ g # EndPattern /\ Returned(t)
    BY <1>1 DEF TestEnd
  <2>3. CASE g # EndPattern /\ Returned(t)
    <3>1. ~raced => globalId' = Succ(id[t]) /\ globalId' \notin PatternIds
      BY <2>0, <2>1, <2>2, <2>3 DEF Seen, PatternIds
    <3> QED BY <2>0, <2>3, <3>1, ReturnStep
  <2>4. CASE /\ g = EndPattern
             /\ ipc' = [ipc EXCEPT ![t] = "inc2"]
             /\ reg' = [reg EXCEPT ![t] = g]
             /\ UNCHANGED <<id, ids, raced, issued>>
    <3>1. g \in IdSet /\ Inside' = Inside
      BY <2>0, <2>2, <2>4 DEF Seen, IdTypes, Inside
    <3>2. IdTypes'
      BY <2>0, <2>4, <3>1 DEF IdTypes
    <3>3. Orderly'
      <4> SUFFICES ASSUME ~raced PROVE Orderly'
        BY <2>4 DEF Orderly
      <4>1. g = globalId /\ Succ(id[t]) \in PatternIds
        BY <2>1, <2>2, <2>4 DEF Seen, PatternIds
      <4>2. reg'[t] = g /\ ipc'[t] = "inc2"
        BY <2>0, <2>4 DEF IdTypes
      <4>3. Progress(t)'
        BY <2>0, <2>1, <2>4, <4>1, <4>2 DEF Progress
      <4> QED BY <2>0, <2>1, <2>4, <3>1, <4>3 DEF Orderly
    <3> QED BY <2>4, <3>2, <3>3 DEF IdInv
  <2> QED BY <2>2, <2>3, <2>4
<1>2. ASSUME NEW t \in Callers, StoreSkipped(t) PROVE IdInv'
  <2>1. /\ ipc[t] = "store2" /\ globalId' = reg[t] /\ Returned(t) /\ reg[t] \in IdSet /\ t \in Inside
    BY <1>2 DEF StoreSkipped, IdInv, IdTypes, Inside
  <2>2. ~raced => Succ(id[t]) \in PatternIds /\ globalId' = Succ(Succ(id[t]))
    BY <2>1 DEF IdInv, Orderly, Progress
  <2> QED BY <2>1, <2>2, ReturnStep
<1>3. CASE UNCHANGED idVars
  <2>1. UNCHANGED <<globalId, ipc, id, reg, ids, raced, issued>> /\ Inside' = Inside
    BY <1>3 DEF idVars, Inside
  <2>2. IdTypes'
    BY <2>1 DEF IdInv, IdTypes
  <2>3. Orderly'
    BY <2>1 DEF IdInv, Orderly, Progress
  <2> QED BY <2>1, <2>2, <2>3 DEF IdInv
<1> QED BY <1>1, <1>2, <1>3, InnerStep, LoadStep DEF IdNext

(* The inductive invariant of the ids *)
LEMMA IdInvariant == IdSpec => []IdInv
  BY InitIds, IdStep, PTL DEF IdSpec

(***************************************************************************)
(* The races of allocateId() heal: whatever value they left in globalId_,  *)
(* the ids of later calls that do not overlap are different, and none but  *)
(* the first is a pattern. For every number of threads and width of ids.   *)
(***************************************************************************)
THEOREM IdsSerial == IdSpec => []SerialIds
<1>1. IdInv => SerialIds
  <2> SUFFICES ASSUME IdInv, NEW j \in 1..Len(issued), NEW k \in 1..Len(issued), j < k
               PROVE  issued[j] # issued[k] /\ issued[k] \notin PatternIds
    BY DEF SerialIds, PatternIds
  <2>1. issued \in Seq(IdSet) /\ Len(issued) \in Nat
    BY LenProperties DEF IdInv, IdTypes
  <2>2. k > 1 /\ Off(issued[1], issued[j]) < Off(issued[1], issued[k]) /\ issued[k] \notin PatternIds
    BY <2>1 DEF IdInv, Rising
  <2>3. 1 \in 1..Len(issued)
    BY <2>1
  <2>4. issued[1] \in IdSet /\ issued[j] \in IdSet /\ issued[k] \in IdSet
    BY <2>1, <2>3, ElementOfSeq
  <2>5. Off(issued[1], issued[k]) \in IdSet
    BY <2>4, Offsets
  <2>6. Off(issued[1], issued[k]) \in Nat
    BY <2>5, Ids DEF IdSet
  <2> QED BY <2>2, <2>6
<1> QED BY <1>1, IdInvariant, PTL

=============================================================================
