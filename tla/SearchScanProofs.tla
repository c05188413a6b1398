-------------------------- MODULE SearchScanProofs --------------------------
(* What module SearchScan says of the answers of a query holds for any number *)
(* of entries, workers and matches, any cap and limit, and any order; and what *)
(* module Paging says of the pages cut from such answers.                     *)
EXTENDS SearchScan, Paging, FiniteSetTheorems, FunctionTheorems, SequenceTheorems, TLAPS

-----------------------------------------------------------------------------
(* The division of the entries among the workers.                          *)

\* What a quotient is.
LEMMA Quotient ==
  ASSUME NEW a \in Nat, NEW b \in Nat \ {0}
  PROVE  /\ a \div b \in Nat
         /\ b * (a \div b) <= a
         /\ a < b * (a \div b) + b
  OBVIOUS

LEMMA QuotientMonotone ==
  ASSUME NEW a \in Nat, NEW c \in Nat, NEW b \in Nat \ {0}, a <= c
  PROVE  a \div b <= c \div b
<1>1. a \div b \in Nat /\ c \div b \in Nat /\ b * (a \div b) <= a /\ c < b * (c \div b) + b
  BY Quotient
<1>2. ASSUME NEW p \in Nat, NEW q \in Nat, b * p <= a, c < b * q + b
      PROVE  p <= q
  <2>1. SUFFICES ASSUME p >= q + 1 PROVE FALSE
    OBVIOUS
  <2>2. b * p >= b * q + b
    BY <2>1
  <2> QED BY <1>2, <2>2
<1> QED BY <1>1, <1>2

\* The ranges of the workers are within the entries, ...
LEMMA RangesWithin ==
  ASSUME NEW t \in Workers
  PROVE  First(t) \in Nat /\ End(t) \in Nat /\ First(t) <= End(t) /\ End(t) <= N
<1>1. N \in Nat /\ T \in Nat \ {0} /\ t \in Nat /\ t + 1 <= T
  BY ScanAssumption DEF Workers
<1>2. N * t \in Nat /\ N * (t + 1) \in Nat /\ N * t <= N * (t + 1) /\ N * (t + 1) <= N * T
  BY <1>1
<1>3. N * T \in Nat /\ (N * T) \div T = N
  BY <1>1
<1> QED BY <1>1, <1>2, <1>3, Quotient, QuotientMonotone DEF First, End

\* ... do not overlap, ...
LEMMA RangesApart ==
  ASSUME NEW t \in Workers, NEW u \in Workers, t < u
  PROVE  End(t) <= First(u)
<1>1. N \in Nat /\ T \in Nat \ {0} /\ t \in Nat /\ u \in Nat /\ t + 1 <= u
  BY ScanAssumption DEF Workers
<1>2. N * (t + 1) \in Nat /\ N * u \in Nat /\ N * (t + 1) <= N * u
  BY <1>1
<1> QED BY <1>1, <1>2, QuotientMonotone DEF First, End

\* ... and leave nothing out: entry i is the one of worker ((i + 1) T - 1) / N.
LEMMA RangesCover ==
  ASSUME NEW i \in Positions
  PROVE  \E t \in Workers : First(t) <= i /\ i < End(t)
<1> DEFINE a == (i + 1) * T - 1
           t == a \div N
<1>1. N \in Nat \ {0} /\ T \in Nat \ {0} /\ i \in Nat /\ i + 1 <= N
  BY ScanAssumption DEF Positions
<1>2. (i + 1) * T >= 1 /\ (i + 1) * T <= N * T
  BY <1>1
<1>3. a \in Nat /\ a < N * T
  BY <1>1, <1>2
<1> HIDE DEF a
<1>4. t \in Nat /\ N * t <= a /\ a < N * t + N
  BY <1>1, <1>3, Quotient
<1> HIDE DEF t
<1>5. t < T
  <2>1. SUFFICES ASSUME t >= T PROVE FALSE
    BY <1>1, <1>4
  <2>2. N * t >= N * T
    BY <1>1, <1>4, <2>1
  <2> QED BY <1>1, <1>3, <1>4, <2>2
<1>6. N * t < (i + 1) * T /\ N * (t + 1) >= (i + 1) * T
  <2>1. N * (t + 1) = N * t + N
    BY <1>1, <1>4
  <2> QED BY <1>1, <1>4, <2>1 DEF a
<1>7. First(t) < i + 1
  <2>1. First(t) \in Nat /\ T * First(t) <= N * t
    BY <1>1, <1>4, Quotient DEF First
  <2>2. SUFFICES ASSUME First(t) >= i + 1 PROVE FALSE
    BY <1>1, <2>1
  <2>3. T * First(t) >= (i + 1) * T
    BY <1>1, <2>1, <2>2
  <2> QED BY <1>1, <1>4, <1>6, <2>1, <2>3
<1>8. End(t) >= i + 1
  <2>1. ((i + 1) * T) \div T = i + 1
    BY <1>1
  <2>2. (i + 1) * T \in Nat /\ N * (t + 1) \in Nat
    BY <1>1, <1>4
  <2> QED BY <1>1, <1>6, <2>1, <2>2, QuotientMonotone DEF End
<1>9. t \in Workers /\ First(t) \in Nat /\ End(t) \in Nat
  <2>1. t \in Workers BY <1>1, <1>4, <1>5 DEF Workers
  <2> QED BY <2>1, RangesWithin
<1> QED BY <1>1, <1>7, <1>8, <1>9

-----------------------------------------------------------------------------
(* The best of a set.                                                      *)

\* How many come before i.
Before(S, i) == {j \in S : Rank[j] < Rank[i]}

\* The first n of S are n, or all if there are fewer: the place in the order is a
\* bijection of S and 0..(|S| - 1).
LEMMA TopCardinality ==
  ASSUME NEW S \in SUBSET Positions, NEW n \in Nat
  PROVE  /\ IsFiniteSet(Top(S, n)) /\ Top(S, n) \subseteq S
         /\ Cardinality(Top(S, n)) = MinOf(Cardinality(S), n)
<1> DEFINE c     == Cardinality(S)
           place == [i \in S |-> Cardinality(Before(S, i))]
<1>1. IsFiniteSet(S) /\ c \in Nat
  <2>1. IsFiniteSet(Positions)
    BY ScanAssumption, FS_Interval DEF Positions
  <2> QED BY <2>1, FS_Subset, FS_CardinalityType
<1>2. \A i \in S : Rank[i] \in Nat
  BY ScanAssumption
<1>3. ASSUME NEW i \in S
      PROVE  IsFiniteSet(Before(S, i)) /\ Cardinality(Before(S, i)) \in 0..(c - 1)
  <2>1. Before(S, i) \in SUBSET S /\ i \notin Before(S, i)
    BY <1>2 DEF Before
  <2>2. Before(S, i) # S
    BY <2>1
  <2> QED BY <1>1, <2>1, <2>2, FS_Subset, FS_CardinalityType
<1>4. ASSUME NEW i \in S, NEW j \in S, Rank[i] < Rank[j]
      PROVE  Cardinality(Before(S, i)) < Cardinality(Before(S, j))
  <2>1. Before(S, i) \in SUBSET Before(S, j) /\ i \in Before(S, j) /\ i \notin Before(S, i)
    BY <1>2, <1>4 DEF Before
  <2>2. Before(S, i) # Before(S, j)
    BY <2>1
  <2> QED BY <1>3, <2>1, <2>2, FS_Subset, FS_CardinalityType
<1>5. \A i, j \in S : place[i] = place[j] => i = j
  <2> SUFFICES ASSUME NEW i \in S, NEW j \in S, i # j
               PROVE  Cardinality(Before(S, i)) # Cardinality(Before(S, j))
    OBVIOUS
  <2>1. Rank[i] # Rank[j]
    BY ScanAssumption
  <2>2. Rank[i] < Rank[j] \/ Rank[j] < Rank[i]
    BY <1>2, <2>1
  <2> QED BY <1>3, <1>4, <2>2
<1>6. place \in [S -> 0..(c - 1)]
  BY <1>3
<1> HIDE DEF place
<1>7. place \in Injection(S, 0..(c - 1))
  BY <1>5, <1>6 DEF Injection, IsInjective
<1>8. place \in Surjection(S, 0..(c - 1))
  <2>1. IsFiniteSet(0..(c - 1)) /\ Cardinality(0..(c - 1)) = c
    BY <1>1, FS_Interval
  <2> QED BY <1>1, <1>7, <2>1, FS_Injection
<1>9. Top(S, n) \subseteq S /\ Top(S, n) = {i \in S : place[i] < n}
  BY DEF Top, Before, place
<1> DEFINE few == MinOf(c, n)
<1>10. few \in Nat /\ 0..(few - 1) = {k \in 0..(c - 1) : k < n}
  BY <1>1 DEF MinOf
<1> DEFINE restricted == [i \in Top(S, n) |-> place[i]]
<1>11. restricted \in Injection(Top(S, n), 0..(few - 1)) /\ restricted \in Surjection(Top(S, n), 0..(few - 1))
  <2>1. restricted \in [Top(S, n) -> 0..(few - 1)]
    BY <1>6, <1>9, <1>10
  <2>2. \A i, j \in Top(S, n) : restricted[i] = restricted[j] => i = j
    BY <1>7, <1>9 DEF Injection, IsInjective
  <2>3. \A k \in 0..(few - 1) : \E i \in Top(S, n) : restricted[i] = k
    <3> SUFFICES ASSUME NEW k \in 0..(few - 1) PROVE \E i \in Top(S, n) : restricted[i] = k
      OBVIOUS
    <3>1. k \in 0..(c - 1) /\ k < n
      BY <1>10
    <3>2. PICK i \in S : place[i] = k
      BY <1>8, <3>1 DEF Surjection
    <3> QED BY <1>9, <3>1, <3>2
  <2> HIDE DEF restricted
  <2> QED BY <2>1, <2>2, <2>3 DEF Injection, Surjection, IsInjective
<1>12. IsFiniteSet(Top(S, n)) /\ Cardinality(Top(S, n)) = few
  <2> HIDE DEF few, restricted
  <2>1. IsFiniteSet(Top(S, n))
    BY <1>1, <1>9, FS_Subset
  <2>2. IsFiniteSet(0..(few - 1)) /\ Cardinality(0..(few - 1)) = few
    BY <1>10, FS_Interval
  <2> QED BY <1>11, <2>1, <2>2, FS_Injection
<1> QED BY <1>9, <1>12

-----------------------------------------------------------------------------
(* The invariant.                                                          *)

ScanTypes ==
  /\ op \in Ops /\ limit \in Limits /\ hits \in SUBSET Positions
  /\ count \in Nat /\ capped \in BOOLEAN
  /\ seen \in [Workers -> Nat]
  /\ at \in [Workers -> Nat]
  /\ pc \in [Workers -> {"load", "add", "done"}]

\* Each worker is in its range; a hit it is about to add is the one it is at.
InRange ==
  \A t \in Workers :
    /\ First(t) <= at[t] /\ at[t] <= End(t)
    /\ pc[t] = "add" => at[t] < End(t) /\ at[t] \in hits
    /\ seen[t] <= count

\* The matches that the workers have gone past.
Passed == {i \in hits : \E t \in Workers : First(t) <= i /\ i < at[t]}

\* What is gone past is what is collected, and is counted up to the cap.
Gathered ==
  /\ op # "countEx" => got = Passed
  /\ Cardinality(Passed) = IF op = "search" THEN count ELSE MinOf(count, Cap)

\* A worker stops when its range is done, or there is enough.
Stopped ==
  /\ capped => op # "search" /\ count >= Cap
  /\ \A t \in Workers : pc[t] = "done" =>
       at[t] = End(t) \/ (IF op = "search" THEN count >= Cap \/ count >= Limit ELSE capped)

\* What is returned is what the workers left.
Answered ==
  answer # None => answer = Outcome /\ \A t \in Workers : pc[t] = "done"

ScanInv == ScanTypes /\ InRange /\ Gathered /\ Stopped /\ Answered

\* Sets of positions are finite.
LEMMA PositionsFinite ==
  ASSUME NEW S \in SUBSET Positions
  PROVE  IsFiniteSet(S) /\ Cardinality(S) \in Nat
<1>1. IsFiniteSet(Positions)
  BY ScanAssumption, FS_Interval DEF Positions
<1> QED BY <1>1, FS_Subset, FS_CardinalityType

LEMMA InitInv == Init => ScanInv
<1> SUFFICES ASSUME Init PROVE ScanInv
  OBVIOUS
<1>1. ScanTypes
  BY RangesWithin DEF Init, ScanTypes
<1>2. InRange
  BY RangesWithin DEF Init, InRange
<1>3. Passed = {}
  <2>1. \A t \in Workers : at[t] = First(t) /\ First(t) \in Nat
    BY RangesWithin DEF Init
  <2>2. \A i \in hits : i \in Nat
    BY DEF Init, Positions
  <2> QED BY <2>1, <2>2 DEF Passed
<1>4. Gathered
  BY <1>3, FS_EmptySet, ScanAssumption DEF Init, Gathered, MinOf
<1>5. Stopped /\ Answered
  BY DEF Init, Stopped, Answered
<1> QED BY <1>1, <1>2, <1>4, <1>5 DEF ScanInv

\* A worker that goes past entry at[t] adds it to what is gone past if it matches.
LEMMA GoPast ==
  ASSUME ScanTypes, InRange, NEW t \in Workers, at[t] < End(t),
         at' = [at EXCEPT ![t] = @ + 1], hits' = hits
  PROVE  /\ Passed' = IF at[t] \in hits THEN Passed \cup {at[t]} ELSE Passed
         /\ at[t] \notin Passed
<1>0. /\ at[t] \in Nat /\ at'[t] = at[t] + 1 /\ \A u \in Workers \ {t} : at'[u] = at[u]
      /\ \A u \in Workers : at[u] \in Nat /\ First(u) \in Nat /\ End(u) \in Nat
    BY RangesWithin DEF ScanTypes
<1>1. \A i \in hits : i \in Nat
  BY DEF ScanTypes, Positions
<1>2. at[t] \notin Passed
  <2>1. SUFFICES ASSUME NEW u \in Workers, First(u) <= at[t], at[t] < at[u] PROVE FALSE
    BY DEF Passed
  <2>2. u # t
    BY <1>0, <2>1
  <2>3. u \in Int /\ t \in Int
    BY ScanAssumption DEF Workers
  <2>4. First(t) <= at[t] /\ at[u] <= End(u) /\ First(u) <= at[u]
    BY DEF InRange
  <2>5. CASE u < t
    <3>1. End(u) <= First(t) BY <2>5, RangesApart
    <3> QED BY <1>0, <2>1, <2>4, <3>1
  <2>6. CASE t < u
    <3>1. End(t) <= First(u) BY <2>6, RangesApart
    <3> QED BY <1>0, <2>1, <3>1
  <2> QED BY <2>2, <2>3, <2>5, <2>6
<1>3. ASSUME NEW i \in hits
      PROVE  (\E u \in Workers : First(u) <= i /\ i < at'[u])
               <=> i = at[t] \/ \E u \in Workers : First(u) <= i /\ i < at[u]
  <2>1. i < at[t] + 1 <=> i < at[t] \/ i = at[t]
    BY <1>0, <1>1
  <2>2. First(t) <= at[t]
    BY DEF InRange
  <2> QED BY <1>0, <2>1, <2>2
<1>4. Passed' = {i \in hits : \E u \in Workers : First(u) <= i /\ i < at'[u]}
  BY DEF Passed, First
<1> QED BY <1>2, <1>3, <1>4 DEF Passed

\* No worker moves once the call has returned.
LEMMA NotAnswered ==
  ASSUME Answered, NEW t \in Workers, pc[t] # "done", answer' = answer
  PROVE  Answered'
BY DEF Answered

LEMMA LoadInv ==
  ASSUME ScanInv, NEW t \in Workers, Load(t)
  PROVE  ScanInv'
<1> USE DEF ScanInv
<1>1. /\ pc[t] = "load" /\ at[t] < End(t)
      /\ op' = op /\ limit' = limit /\ hits' = hits
      /\ count' = count /\ got' = got /\ answer' = answer
  BY DEF Load, query
<1>2. PICK c \in seen[t]..count :
       /\ seen' = [seen EXCEPT ![t] = c]
       /\ IF Enough(c)
          THEN /\ pc' = [pc EXCEPT ![t] = "done"]
               /\ capped' = (capped \/ op # "search")
               /\ UNCHANGED at
          ELSE /\ IF at[t] \in hits
                  THEN pc' = [pc EXCEPT ![t] = "add"] /\ UNCHANGED at
                  ELSE at' = [at EXCEPT ![t] = @ + 1] /\ UNCHANGED pc
               /\ UNCHANGED capped
  BY DEF Load
<1>3. c \in Nat /\ c <= count
  BY DEF ScanTypes
<1>4. Answered'
  BY <1>1, NotAnswered
<1>5. \A u \in Workers : First(u)' = First(u) /\ End(u)' = End(u)
  BY DEF First, End
<1>6. CASE Enough(c)
  <2>1. pc' = [pc EXCEPT ![t] = "done"] /\ at' = at /\ capped' = (capped \/ op # "search")
    BY <1>2, <1>6
  <2>2. ScanTypes' BY <1>1, <1>2, <1>3, <2>1 DEF ScanTypes
  <2>3. InRange' BY <1>1, <1>2, <1>3, <1>5, <2>1 DEF ScanTypes, InRange
  <2>4. Passed' = Passed BY <1>1, <1>5, <2>1 DEF Passed
  <2>5. Gathered' BY <1>1, <2>4 DEF Gathered
  <2>6. count >= Cap \/ (op = "search" /\ count >= Limit)
    BY <1>3, <1>6, ScanAssumption DEF Enough, ScanTypes, Limit
  <2>7. Limit' = Limit BY <1>1 DEF Limit
  <2>8. Stopped'
    <3>1. capped' => op' # "search" /\ count' >= Cap
      BY <1>1, <2>1, <2>6 DEF Stopped
    <3>2. ASSUME NEW u \in Workers, pc'[u] = "done"
          PROVE  at'[u] = End(u) \/ (IF op' = "search" THEN count' >= Cap \/ count' >= Limit' ELSE capped')
      BY <1>1, <2>1, <2>6, <2>7, <3>2 DEF Stopped, ScanTypes
    <3> QED BY <1>5, <3>1, <3>2 DEF Stopped
  <2> QED BY <1>4, <2>2, <2>3, <2>5, <2>8
<1>7. CASE ~ Enough(c) /\ at[t] \in hits
  <2>1. pc' = [pc EXCEPT ![t] = "add"] /\ at' = at /\ capped' = capped
    BY <1>2, <1>7
  <2>2. ScanTypes' BY <1>1, <1>2, <1>3, <2>1 DEF ScanTypes
  <2>3. InRange' BY <1>1, <1>2, <1>3, <1>5, <1>7, <2>1 DEF ScanTypes, InRange
  <2>4. Passed' = Passed BY <1>1, <1>5, <2>1 DEF Passed
  <2>5. Gathered' BY <1>1, <2>4 DEF Gathered
  <2>6. Stopped' BY <1>1, <1>5, <2>1 DEF Stopped, ScanTypes, Limit
  <2> QED BY <1>4, <2>2, <2>3, <2>5, <2>6
<1>8. CASE ~ Enough(c) /\ at[t] \notin hits
  <2>1. pc' = pc /\ at' = [at EXCEPT ![t] = @ + 1] /\ capped' = capped
    BY <1>2, <1>8
  <2>2. ScanTypes' BY <1>1, <1>2, <1>3, <2>1 DEF ScanTypes
  <2>0. \A u \in Workers : First(u) \in Nat /\ End(u) \in Nat BY RangesWithin
  <2>3. InRange' BY <1>1, <1>2, <1>3, <1>5, <2>0, <2>1 DEF ScanTypes, InRange
  <2>4. Passed' = Passed BY <1>1, <1>8, <2>1, GoPast
  <2>5. Gathered' BY <1>1, <2>4 DEF Gathered
  <2>6. Stopped' BY <1>1, <1>5, <2>1 DEF Stopped, ScanTypes, Limit
  <2> QED BY <1>4, <2>2, <2>3, <2>5, <2>6
<1> QED BY <1>6, <1>7, <1>8

LEMMA PastEndInv ==
  ASSUME ScanInv, NEW t \in Workers, PastEnd(t)
  PROVE  ScanInv'
<1> USE DEF ScanInv
<1>1. /\ pc[t] = "load" /\ at[t] >= End(t) /\ pc' = [pc EXCEPT ![t] = "done"]
      /\ op' = op /\ limit' = limit /\ hits' = hits /\ capped' = capped
      /\ count' = count /\ got' = got /\ answer' = answer /\ seen' = seen /\ at' = at
  BY DEF PastEnd, query
<1>2. \A u \in Workers : First(u)' = First(u) /\ End(u)' = End(u)
  BY DEF First, End
<1>3. ScanTypes' BY <1>1 DEF ScanTypes
<1>4. InRange' BY <1>1, <1>2 DEF InRange, ScanTypes
<1>5. Passed' = Passed BY <1>1, <1>2 DEF Passed
<1>6. Gathered' BY <1>1, <1>5 DEF Gathered
<1>7. at[t] = End(t)
  BY <1>1, RangesWithin DEF InRange, ScanTypes
<1>8. Stopped' BY <1>1, <1>2, <1>7 DEF Stopped, ScanTypes, Limit
<1>9. Answered' BY <1>1, NotAnswered
<1> QED BY <1>3, <1>4, <1>6, <1>8, <1>9

LEMMA AddHitInv ==
  ASSUME ScanInv, NEW t \in Workers, AddHit(t)
  PROVE  ScanInv'
<1> USE DEF ScanInv
<1>1. /\ pc[t] = "add" /\ count' = count + 1 /\ seen' = [seen EXCEPT ![t] = count + 1]
      /\ op' = op /\ limit' = limit /\ hits' = hits /\ answer' = answer
  BY DEF AddHit, query
<1>2. \A u \in Workers : /\ First(u)' = First(u) /\ End(u)' = End(u)
                         /\ First(u) \in Nat /\ End(u) \in Nat
  BY RangesWithin DEF First, End
<1>3. Answered'
  BY <1>1, NotAnswered
<1>4. at[t] < End(t) /\ at[t] \in hits
  BY <1>1 DEF InRange
<1>5. IsFiniteSet(Passed) /\ Cardinality(Passed) \in Nat
  <2>1. Passed \in SUBSET Positions BY DEF Passed, ScanTypes
  <2> QED BY <2>1, PositionsFinite
<1>6. count \in Nat /\ Cap \in Nat /\ Limit \in Nat
  BY ScanAssumption DEF ScanTypes, Limit
<1>7. CASE HasSlot(count)
  <2>1. /\ got' = IF op = "countEx" THEN got ELSE got \cup {at[t]}
        /\ at' = [at EXCEPT ![t] = @ + 1]
        /\ pc' = [pc EXCEPT ![t] = "load"]
        /\ capped' = capped
    BY <1>7 DEF AddHit
  <2>2. ScanTypes' BY <1>1, <2>1 DEF ScanTypes
  <2>3. InRange' BY <1>1, <1>2, <1>4, <2>1 DEF ScanTypes, InRange
  <2>4. Passed' = Passed \cup {at[t]} /\ at[t] \notin Passed
    BY <1>1, <1>4, <2>1, GoPast
  <2>5. Cardinality(Passed') = Cardinality(Passed) + 1
    BY <1>5, <2>4, FS_AddElement
  <2>6. op = "search" \/ count < Cap
    BY <1>7 DEF HasSlot
  <2>7. Gathered'
    BY <1>1, <1>6, <2>1, <2>4, <2>5, <2>6 DEF Gathered, MinOf
  <2>8. Stopped'
    <3>1. capped' => op' # "search" /\ count' >= Cap
      BY <1>1, <1>6, <2>1 DEF Stopped
    <3>2. ASSUME NEW u \in Workers, pc'[u] = "done"
          PROVE  at'[u] = End(u) \/ (IF op' = "search" THEN count' >= Cap \/ count' >= Limit ELSE capped')
      <4>1. pc[u] = "done" /\ at'[u] = at[u]
        BY <2>1, <3>2 DEF ScanTypes
      <4>2. at[u] = End(u) \/ (IF op = "search" THEN count >= Cap \/ count >= Limit ELSE capped)
        BY <4>1 DEF Stopped
      <4>3. (count >= Cap => count' >= Cap) /\ (count >= Limit => count' >= Limit)
        BY <1>1, <1>6
      <4> QED BY <1>1, <2>1, <4>1, <4>2, <4>3
    <3>3. Limit' = Limit BY <1>1 DEF Limit
    <3> QED BY <1>2, <3>1, <3>2, <3>3 DEF Stopped
  <2> QED BY <1>3, <2>2, <2>3, <2>7, <2>8
<1>8. CASE ~ HasSlot(count)
  <2>1. pc' = [pc EXCEPT ![t] = "done"] /\ capped' = TRUE /\ got' = got /\ at' = at
    BY <1>8 DEF AddHit
  <2>2. op # "search" /\ count >= Cap
    BY <1>6, <1>8 DEF HasSlot
  <2>3. ScanTypes' BY <1>1, <2>1 DEF ScanTypes
  <2>4. InRange' BY <1>1, <1>2, <2>1 DEF ScanTypes, InRange
  <2>5. Passed' = Passed BY <1>1, <1>2, <2>1 DEF Passed
  <2>6. Gathered' BY <1>1, <1>6, <2>1, <2>2, <2>5 DEF Gathered, MinOf
  <2>7. Stopped' BY <1>1, <1>2, <1>6, <2>1, <2>2 DEF Stopped, ScanTypes
  <2> QED BY <1>3, <2>3, <2>4, <2>6, <2>7
<1> QED BY <1>7, <1>8

\* Nothing that the invariant is about changes when the call returns.
LEMMA SameScan ==
  ASSUME ScanInv, UNCHANGED <<query, count, capped, seen, at, pc, got>>,
         Answered'
  PROVE  ScanInv'
<1>1. /\ op' = op /\ limit' = limit /\ hits' = hits /\ count' = count /\ capped' = capped
      /\ seen' = seen /\ at' = at /\ pc' = pc /\ got' = got
  BY DEF query
<1>2. Passed' = Passed BY <1>1 DEF Passed, First
<1>3. ScanTypes' BY <1>1 DEF ScanInv, ScanTypes
<1>4. InRange' BY <1>1 DEF ScanInv, InRange, First, End
<1>5. Gathered' BY <1>1, <1>2 DEF ScanInv, Gathered
<1>6. Stopped' BY <1>1 DEF ScanInv, Stopped, Limit, End
<1> QED BY <1>3, <1>4, <1>5, <1>6 DEF ScanInv

LEMMA NextInv == ScanInv /\ [Next]_vars => ScanInv'
<1> SUFFICES ASSUME ScanInv, [Next]_vars PROVE ScanInv'
  OBVIOUS
<1>1. ASSUME NEW t \in Workers, Worker(t)
      PROVE  ScanInv'
  BY <1>1, LoadInv, PastEndInv, AddHitInv DEF Worker
<1>2. CASE JoinAll
  <2>1. UNCHANGED <<query, count, capped, seen, at, pc, got>>
    BY <1>2 DEF JoinAll
  <2>2. Outcome' = Outcome
    BY <2>1 DEF Outcome, Counted, Trimmed, Top, Limit, query
  <2>3. Answered'
    BY <1>2, <2>1, <2>2 DEF JoinAll, Answered
  <2> QED BY <2>1, <2>3, SameScan
<1>3. CASE Returned \/ UNCHANGED vars
  <2>1. UNCHANGED <<query, count, capped, seen, at, pc, got>> /\ answer' = answer
    BY <1>3 DEF Returned, vars
  <2>2. Outcome' = Outcome
    BY <2>1 DEF Outcome, Counted, Trimmed, Top, Limit, query
  <2>3. Answered'
    BY <2>1, <2>2 DEF ScanInv, Answered
  <2> QED BY <2>1, <2>3, SameScan
<1> QED BY <1>1, <1>2, <1>3 DEF Next

-----------------------------------------------------------------------------
(* What follows.                                                           *)

\* If no worker was stopped, every match is gone past.
LEMMA AllPassed ==
  ASSUME ScanInv, \A t \in Workers : pc[t] = "done" /\ at[t] = End(t)
  PROVE  Passed = hits
<1>1. ASSUME NEW i \in hits
      PROVE  \E t \in Workers : First(t) <= i /\ i < at[t]
  <2>1. i \in Positions BY DEF ScanInv, ScanTypes
  <2> QED BY <2>1, RangesCover
<1> QED BY <1>1 DEF Passed

\* How the number of matches gone past bounds the number of matches.
LEMMA Counts ==
  ASSUME ScanInv
  PROVE  /\ count \in Nat /\ Cap \in Nat /\ Cap > 0
         /\ Cardinality(Passed) \in Nat /\ Cardinality(hits) \in Nat
         /\ Passed \subseteq hits /\ Cardinality(Passed) <= Cardinality(hits)
         /\ Cardinality(Passed) = IF op = "search" THEN count ELSE MinOf(count, Cap)
<1>1. hits \in SUBSET Positions /\ Passed \in SUBSET hits /\ Passed \in SUBSET Positions
  BY DEF ScanInv, ScanTypes, Passed
<1>2. Cardinality(Passed) <= Cardinality(hits)
  BY <1>1, PositionsFinite, FS_Subset
<1> QED BY <1>1, <1>2, PositionsFinite, ScanAssumption DEF ScanInv, ScanTypes, Gathered

LEMMA SlotsFollow == ScanInv => SlotsExact
<1> SUFFICES ASSUME ScanInv, op = "searchEx" PROVE Cardinality(got) = MinOf(count, Cap)
  BY DEF SlotsExact
<1> QED BY DEF ScanInv, Gathered

LEMMA ExactFollows == ScanInv => ExactUnlessCapped
<1> SUFFICES ASSUME ScanInv, op = "searchEx", answer # None, ~ answer.capped
             PROVE  /\ answer.total = Cardinality(hits)
                    /\ answer.results = IF limit = 0 THEN hits ELSE Top(hits, limit)
  BY DEF ExactUnlessCapped
<1>1. answer.total = Cardinality(got) /\ answer.capped = capped /\ answer.results = Trimmed(got)
  BY DEF ScanInv, Answered, Outcome
<1>2. \A t \in Workers : pc[t] = "done" /\ at[t] = End(t)
  BY <1>1 DEF ScanInv, Answered, Stopped
<1>3. got = hits
  BY <1>2, AllPassed DEF ScanInv, Gathered
<1> QED BY <1>1, <1>3 DEF Trimmed, Limit

LEMMA LowerBoundFollows == ScanInv => CappedIsLowerBound
<1> SUFFICES ASSUME ScanInv, op # "search", answer # None, answer.capped
             PROVE  answer.total = Cap /\ Cap <= Cardinality(hits)
  BY DEF CappedIsLowerBound
<1>1. op \in {"searchEx", "countEx"}
  BY DEF ScanInv, ScanTypes, Ops
<1>2. count >= Cap
  <2>1. CASE op = "searchEx"
    <3>1. answer = [total |-> Cardinality(got), capped |-> capped, results |-> Trimmed(got)]
      BY <2>1 DEF ScanInv, Answered, Outcome
    <3> QED BY <3>1 DEF ScanInv, Stopped
  <2>2. CASE op = "countEx"
    <3>1. answer = [total |-> MinOf(count, Cap), capped |-> capped \/ count >= Cap, results |-> {}]
      BY <2>2 DEF ScanInv, Answered, Outcome, Counted
    <3> QED BY <3>1 DEF ScanInv, Stopped
  <2> QED BY <1>1, <2>1, <2>2
<1>3. Cardinality(Passed) = Cap
  BY <1>2, Counts DEF MinOf
<1>4. answer.total = Cap
  <2>1. CASE op = "searchEx"
    BY <1>3, <2>1 DEF ScanInv, Answered, Outcome, Gathered
  <2>2. CASE op = "countEx"
    BY <1>2, <2>2, Counts DEF ScanInv, Answered, Outcome, Counted, MinOf
  <2> QED BY <1>1, <2>1, <2>2
<1> QED BY <1>3, <1>4, Counts

LEMMA CountFollows == ScanInv => CountDetermined
<1> SUFFICES ASSUME ScanInv, op = "countEx", answer # None
             PROVE  /\ answer.total = MinOf(Cardinality(hits), Cap)
                    /\ answer.capped <=> Cardinality(hits) >= Cap
  BY DEF CountDetermined
<1>1. answer.total = MinOf(count, Cap) /\ answer.capped = (capped \/ count >= Cap)
  BY DEF ScanInv, Answered, Outcome, Counted
<1>2. CASE count >= Cap
  <2>1. Cardinality(Passed) = Cap BY <1>2, Counts DEF MinOf
  <2>2. Cardinality(hits) >= Cap BY <2>1, Counts
  <2>3. MinOf(count, Cap) = Cap /\ MinOf(Cardinality(hits), Cap) = Cap
    BY <1>2, <2>2, Counts DEF MinOf
  <2> QED BY <1>1, <1>2, <2>2, <2>3
<1>3. CASE ~ (count >= Cap)
  <2>1. ~ capped BY <1>3 DEF ScanInv, Stopped
  <2>2. \A t \in Workers : pc[t] = "done" /\ at[t] = End(t)
    BY <2>1 DEF ScanInv, Answered, Stopped
  <2>3. Cardinality(hits) = count
    BY <1>3, <2>2, AllPassed, Counts DEF MinOf
  <2> QED BY <1>1, <1>3, <2>1, <2>3, Counts DEF MinOf
<1> QED BY <1>2, <1>3

LEMMA LegacyFollows == ScanInv => LegacyAnswer
<1> DEFINE wanted == IF limit = 0 THEN Cap ELSE limit
<1> SUFFICES ASSUME ScanInv, op = "search", answer # None
             PROVE  /\ answer.results \subseteq hits
                    /\ Cardinality(answer.results) >= MinOf(Cardinality(hits), MinOf(wanted, Cap))
                    /\ Cardinality(answer.results) <= wanted
                    /\ answer.capped => Cardinality(hits) >= Cap
                    /\ wanted >= Cap /\ Cardinality(hits) >= Cap => answer.capped
  BY DEF LegacyAnswer
<1>1. wanted \in Nat /\ wanted # 0 /\ Limit = wanted
  BY ScanAssumption DEF ScanInv, ScanTypes, Limit
<1> HIDE DEF wanted
<1>2. got = Passed /\ Cardinality(got) = count /\ got \in SUBSET Positions
  BY Counts DEF ScanInv, ScanTypes, Gathered
<1>3. /\ answer.results = Top(got, wanted)
      /\ answer.capped = (Cardinality(got) >= Cap)
  BY <1>1 DEF ScanInv, Answered, Outcome, Trimmed
<1>4. /\ answer.results \subseteq got
      /\ Cardinality(answer.results) = MinOf(count, wanted)
  BY <1>1, <1>2, <1>3, TopCardinality
<1>5. count >= MinOf(Cardinality(hits), MinOf(wanted, Cap))
  <2>1. CASE \A t \in Workers : at[t] = End(t)
    <3>1. Passed = hits
      BY <2>1, AllPassed DEF ScanInv, Answered
    <3> QED BY <1>1, <1>2, <3>1, Counts DEF MinOf
  <2>2. CASE \E t \in Workers : at[t] # End(t)
    <3>1. count >= Cap \/ count >= wanted
      BY <1>1, <2>2 DEF ScanInv, Answered, Stopped
    <3> QED BY <1>1, <3>1, Counts DEF MinOf
  <2> QED BY <2>1, <2>2
<1>6. count <= Cardinality(hits)
  BY <1>2, Counts
<1>7. answer.results \subseteq hits
  BY <1>2, <1>4, Counts
<1>8. /\ MinOf(count, wanted) >= MinOf(Cardinality(hits), MinOf(wanted, Cap))
      /\ MinOf(count, wanted) <= wanted
  BY <1>1, <1>5, Counts DEF MinOf
<1>9. /\ answer.capped => Cardinality(hits) >= Cap
      /\ wanted >= Cap /\ Cardinality(hits) >= Cap => answer.capped
  <2>1. count >= Cap => Cardinality(hits) >= Cap
    BY <1>6, Counts
  <2>2. wanted >= Cap /\ Cardinality(hits) >= Cap => count >= Cap
    BY <1>1, <1>5, Counts DEF MinOf
  <2> QED BY <1>2, <1>3, <2>1, <2>2
<1> QED BY <1>4, <1>7, <1>8, <1>9

-----------------------------------------------------------------------------

LEMMA AlwaysScanInv == Spec => []ScanInv
  BY InitInv, NextInv, PTL DEF Spec

\* However many workers race for the last slots below the cap, searchEx collects
\* as many matches as were counted, and exactly the cap when there are more.
THEOREM SlotsAlwaysExact == Spec => []SlotsExact
  BY AlwaysScanInv, SlotsFollow, PTL

\* The answers of search, searchEx and countEx say nothing untrue, in any
\* interleaving and with loads of the count as stale as relaxed order allows.
THEOREM AnswersAlwaysTrue == Spec => []AnswersTrue
<1>1. ScanInv => AnswersTrue
  BY ExactFollows, LowerBoundFollows, CountFollows, LegacyFollows DEF AnswersTrue
<1> QED BY <1>1, AlwaysScanInv, PTL

-----------------------------------------------------------------------------
(* The pages of module Paging.                                              *)

LEMMA LeastOf ==
  ASSUME NEW a \in Nat, NEW b \in Nat
  PROVE  /\ Least(a, b) \in Nat /\ Least(a, b) <= a /\ Least(a, b) <= b
         /\ Least(a, b) = a \/ Least(a, b) = b
  BY DEF Least

LEMMA AllUpToIs ==
  ASSUME NEW n \in Nat
  PROVE  /\ AllUpTo(n) \in Seq(Nat) /\ Len(AllUpTo(n)) = n
         /\ \A i \in 1..n : AllUpTo(n)[i] = i
<1>1. AllUpTo(n) = [i \in 1..n |-> i]
  BY DEF AllUpTo
<1> QED BY <1>1, IsASeq, LenProperties

\* Of as many numbers as there are, each is where it belongs.
LEMMA SortedAll ==
  ASSUME NEW n \in Nat
  PROVE  Sorted(1..n) = AllUpTo(n)
<1>1. Cardinality(1..n) = n
  BY FS_Interval
<1>2. ASSUME NEW x \in 1..n
      PROVE  Cardinality({y \in 1..n : y <= x}) = x
  <2>1. {y \in 1..n : y <= x} = 1..x
    OBVIOUS
  <2>2. x \in Int /\ 1 \in Int /\ ~ (1 > x) /\ x - 1 + 1 = x
    OBVIOUS
  <2>3. Cardinality(1..x) = x
    BY <2>2, FS_Interval
  <2> QED BY <2>1, <2>3
<1>3. ASSUME NEW i \in 1..n
      PROVE  (CHOOSE x \in 1..n : Cardinality({y \in 1..n : y <= x}) = i) = i
  BY <1>2
<1> QED BY <1>1, <1>3 DEF Sorted, AllUpTo

LEMMA SortedIs ==
  ASSUME NEW S, IsFiniteSet(S)
  PROVE  \E X : Sorted(S) \in Seq(X) /\ Len(Sorted(S)) = Cardinality(S)
<1> DEFINE n == Cardinality(S)
           X == {Sorted(S)[i] : i \in 1..n}
<1>1. n \in Nat
  BY FS_CardinalityType
<1> DEFINE e(i) == CHOOSE x \in S : Cardinality({y \in S : y <= x}) = i
<1>a. Sorted(S) = [i \in 1..n |-> e(i)]
  BY DEF Sorted
<1> HIDE DEF n, e
<1>2. Sorted(S) = [i \in 1..n |-> Sorted(S)[i]]
  BY <1>a
<1>3. [i \in 1..n |-> Sorted(S)[i]] \in Seq(X)
  BY <1>1, IsASeq
<1>4. DOMAIN Sorted(S) = 1..n
  BY <1>2
<1>5. Sorted(S) \in Seq(X)
  BY <1>2, <1>3
<1> QED BY <1>1, <1>4, <1>5, LenProperties DEF n

LEMMA SliceIs ==
  ASSUME NEW X, NEW s \in Seq(X), NEW offset \in Nat, NEW size \in Nat
  PROVE  LET end == Least(offset + size, Len(s)) IN
         /\ Slice(s, offset, size) \in Seq(X)
         /\ Len(Slice(s, offset, size)) = IF offset < end THEN end - offset ELSE 0
         /\ \A i \in 1..(end - offset) : Slice(s, offset, size)[i] = s[offset + i]
<1> DEFINE end == Least(offset + size, Len(s))
<1>1. Len(s) \in Nat /\ \A i \in 1..Len(s) : s[i] \in X
  BY LenProperties, ElementOfSeq
<1>2. end \in Nat /\ end <= Len(s)
  BY <1>1 DEF Least
<1> HIDE DEF end
<1>3. \A i \in (offset + 1)..end : s[i] \in X
  BY <1>1, <1>2
<1>4. /\ SubSeq(s, offset + 1, end) \in Seq(X)
      /\ Len(SubSeq(s, offset + 1, end)) =
           IF offset + 1 <= end THEN end - (offset + 1) + 1 ELSE 0
      /\ \A i \in 1..(end - (offset + 1) + 1) :
           SubSeq(s, offset + 1, end)[i] = s[offset + 1 + i - 1]
  BY <1>2, <1>3, SubSeqProperties
<1>5. end - (offset + 1) + 1 = end - offset /\ (offset + 1 <= end <=> offset < end)
  BY <1>2
<1>6. \A i \in 1..(end - offset) : offset + 1 + i - 1 = offset + i
  BY <1>2
<1> QED BY <1>4, <1>5, <1>6 DEF Slice, end

LEMMA UpToIs ==
  ASSUME NEW s, Len(s) \in Nat, NEW n \in Nat
  PROVE  UpTo(s, n) = Slice(s, 0, n)
<1>1. 0 + n = n /\ 0 + 1 = 1
  OBVIOUS
<1>2. Slice(s, 0, n) = SubSeq(s, 1, Least(n, Len(s)))
  BY <1>1 DEF Slice
<1> QED BY <1>2 DEF UpTo

\* A search that brings the first k of all, cut to a page.
LEMMA PageOfAll ==
  ASSUME NEW offset \in Nat, NEW size \in Nat, NEW k \in Nat, offset <= k
  PROVE  LET items == Slice(AllUpTo(k), offset, size)
             end   == Least(offset + size, k)
         IN  /\ Len(items) = end - offset /\ end \in Nat /\ offset <= end /\ end <= k
             /\ AllUpTo(offset) \o items = AllUpTo(end)
<1> DEFINE items == Slice(AllUpTo(k), offset, size)
           end   == Least(offset + size, k)
<1>1. end \in Nat /\ offset <= end /\ end <= k
  BY LeastOf DEF Least
<1>2. AllUpTo(k) \in Seq(Nat) /\ Len(AllUpTo(k)) = k /\ \A i \in 1..k : AllUpTo(k)[i] = i
  BY AllUpToIs
<1>3. /\ items \in Seq(Nat) /\ Len(items) = IF offset < end THEN end - offset ELSE 0
      /\ \A i \in 1..(end - offset) : items[i] = AllUpTo(k)[offset + i]
  <2> DEFINE s == AllUpTo(k)
  <2>1. s \in Seq(Nat) /\ Len(s) = k
    BY <1>2
  <2> HIDE DEF s
  <2>2. LET top == Least(offset + size, Len(s)) IN
        /\ Slice(s, offset, size) \in Seq(Nat)
        /\ Len(Slice(s, offset, size)) = IF offset < top THEN top - offset ELSE 0
        /\ \A i \in 1..(top - offset) : Slice(s, offset, size)[i] = s[offset + i]
    BY <2>1, SliceIs
  <2> QED BY <2>1, <2>2 DEF s
<1>4. /\ AllUpTo(offset) \in Seq(Nat) /\ Len(AllUpTo(offset)) = offset
      /\ \A i \in 1..offset : AllUpTo(offset)[i] = i
      /\ AllUpTo(end) \in Seq(Nat) /\ Len(AllUpTo(end)) = end
      /\ \A i \in 1..end : AllUpTo(end)[i] = i
  BY <1>1, AllUpToIs
<1> HIDE DEF items, end
<1>5. Len(items) = end - offset
  BY <1>1, <1>3
<1>6. \A i \in 1..(end - offset) : items[i] = offset + i
  BY <1>1, <1>2, <1>3
<1> DEFINE z == AllUpTo(offset) \o items
<1>7. /\ z \in Seq(Nat) /\ Len(z) = offset + (end - offset)
      /\ \A i \in 1..(offset + (end - offset)) :
           z[i] = IF i <= offset THEN AllUpTo(offset)[i] ELSE items[i - offset]
  <2> DEFINE a == AllUpTo(offset)
  <2>1. a \in Seq(Nat) /\ Len(a) = offset
    BY <1>4
  <2> HIDE DEF a
  <2>2. /\ a \o items \in Seq(Nat)
        /\ Len(a \o items) = Len(a) + Len(items)
        /\ \A i \in 1 .. Len(a) + Len(items) : (a \o items)[i] =
             IF i <= Len(a) THEN a[i] ELSE items[i - Len(a)]
    BY <1>3, <2>1, ConcatProperties
  <2> QED BY <1>5, <2>1, <2>2 DEF a
<1> HIDE DEF z
<1>8. offset + (end - offset) = end
  BY <1>1
<1>9. ASSUME NEW i \in 1..end
      PROVE  z[i] = i
  <2>1. CASE i <= offset
    BY <1>4, <1>7, <1>8, <2>1
  <2>2. CASE i > offset
    <3>1. i - offset \in 1..(end - offset) /\ offset + (i - offset) = i
      BY <1>1, <2>2
    <3> QED BY <1>6, <1>7, <1>8, <2>2, <3>1
  <2> QED BY <2>1, <2>2
<1>10. z = AllUpTo(end)
  BY <1>4, <1>7, <1>8, <1>9, SeqEqual
<1> QED BY <1>1, <1>5, <1>10 DEF items, end, z

-----------------------------------------------------------------------------

\* What is known of the pages so far: with no more matches than the cap they
\* are the first of them, and with more the last page says that it is cut.
PagesInv ==
  /\ m \in Nat /\ page.offset \in Nat /\ Len(page.items) \in Nat
  /\ m <= PageCap =>
       /\ Offset <= m /\ pages = AllUpTo(Offset)
       /\ ~ page.hasMore /\ ~ page.truncated => Offset = m
  /\ m > PageCap => page.truncated \/ (page.hasMore /\ pages = <<>>)

LEMMA InitPages == PagingInit => PagesInv
<1> SUFFICES ASSUME PagingInit PROVE PagesInv
  OBVIOUS
<1>1. m \in Nat /\ pages = <<>>
  BY PagingAssumption DEF PagingInit
<1>2. page.offset = 0 /\ Len(page.items) = 0 /\ page.hasMore /\ ~ page.truncated
  BY DEF PagingInit
<1>3. Offset = 0
  BY <1>2 DEF Offset
<1>4. AllUpTo(0) = <<>>
  BY AllUpToIs, EmptySeq
<1> QED BY <1>1, <1>2, <1>3, <1>4 DEF PagesInv

\* A search among fewer matches than it may bring brings them all.
LEMMA AllOfThem ==
  ASSUME m \in Nat, NEW S \in kSubset(m, 1..m)
  PROVE  S = 1..m
<1>1. S \subseteq 1..m /\ Cardinality(S) = m
  BY DEF kSubset
<1>2. IsFiniteSet(1..m) /\ Cardinality(1..m) = m
  BY FS_Interval
<1> QED BY <1>1, <1>2, FS_Subset

LEMMA ExactKeeps ==
  ASSUME PagesInv, NEW size \in Nat \ {0}, ExactPage(Offset, size),
         pages' = pages \o page'.items, m' = m
  PROVE  PagesInv'
<1> DEFINE o == Offset
           n == o + size
<1>1. o \in Nat /\ n \in Nat /\ m \in Nat /\ PageCap \in Nat /\ o = page.offset + Len(page.items)
  BY PagingAssumption DEF PagesInv, Offset
<1>2. PICK S \in kSubset(Least(m, PageCap), 1..m), c \in BOOLEAN :
        /\ (m < PageCap => ~ c) /\ (m > PageCap => c)
        /\ page' = PaginateOutcome([results |-> UpTo(Sorted(S), n),
                                    total |-> Cardinality(S), capped |-> c], o, size)
  BY DEF ExactPage, Outcomes
<1> DEFINE r == UpTo(Sorted(S), n)
           items == Slice(r, o, size)
<1>3. /\ page'.offset = o /\ page'.items = items
      /\ page'.hasMore <=> ~ c /\ o + Len(items) < Cardinality(S)
      /\ page'.truncated <=> c
  BY <1>2 DEF PaginateOutcome, Total
<1> HIDE DEF o
<1>4. IsFiniteSet(S)
  <2>1. S \subseteq 1..m /\ IsFiniteSet(1..m)
    BY <1>1, FS_Interval DEF kSubset
  <2> QED BY <2>1, FS_Subset
<1>5. PICK X : Sorted(S) \in Seq(X)
  BY <1>4, SortedIs
<1>6. r \in Seq(X)
  <2>1. r = Slice(Sorted(S), 0, n)
    BY <1>1, <1>5, LenProperties, UpToIs
  <2>2. 0 \in Nat
    OBVIOUS
  <2> HIDE DEF r, n
  <2> QED BY <1>1, <1>5, <2>1, <2>2, SliceIs
<1>7. Len(items) \in Nat
  <2>1. items \in Seq(X)
    BY <1>1, <1>6, SliceIs
  <2> QED BY <2>1, LenProperties
<1>8. CASE m > PageCap
  <2>1. page'.truncated
    BY <1>2, <1>3, <1>8
  <2> QED BY <1>1, <1>3, <1>7, <1>8, <2>1 DEF PagesInv
<1>9. CASE m <= PageCap
  <2>1. Least(m, PageCap) = m
    BY <1>1, <1>9 DEF Least
  <2>2. S = 1..m
    BY <1>1, <1>2, <2>1, AllOfThem
  <2>3. Cardinality(S) = m /\ Sorted(S) = AllUpTo(m)
    BY <1>1, <2>2, FS_Interval, SortedAll
  <2> DEFINE k == Least(n, m)
  <2>4. o <= m /\ pages = AllUpTo(o)
    BY <1>9 DEF PagesInv, o
  <2>5. k \in Nat /\ k <= m /\ k <= n /\ o <= k /\ (k = n \/ k = m)
    BY <1>1, <2>4 DEF Least
  <2>6. r = AllUpTo(k)
    <3> HIDE DEF n
    <3>1. r = Slice(AllUpTo(m), 0, n)
      BY <1>1, <2>3, AllUpToIs, UpToIs
    <3>2. AllUpTo(0) = <<>>
      BY AllUpToIs, EmptySeq
    <3>3. AllUpTo(0) \o r = AllUpTo(Least(n, m))
      <4>1. 0 \in Nat /\ 0 <= m /\ 0 + n = n
        BY <1>1
      <4>2. n \in Nat
        BY <1>1
      <4>3. AllUpTo(0) \o Slice(AllUpTo(m), 0, n) = AllUpTo(Least(0 + n, m))
        BY <1>1, <4>1, <4>2, PageOfAll
      <4> HIDE DEF r
      <4> QED BY <3>1, <4>1, <4>3
    <3>4. <<>> \o r = r
      BY <1>6, ConcatEmptySeq
    <3> QED BY <3>2, <3>3, <3>4
  <2> HIDE DEF k, r
  <2>7. Least(o + size, k) = k
    BY <1>1, <2>5 DEF Least
  <2>8. Len(items) = k - o /\ AllUpTo(o) \o items = AllUpTo(k)
    <3>1. items = Slice(AllUpTo(k), o, size)
      BY <2>6
    <3>2. size \in Nat
      OBVIOUS
    <3> HIDE DEF items
    <3>3. /\ Len(Slice(AllUpTo(k), o, size)) = Least(o + size, k) - o
          /\ AllUpTo(o) \o Slice(AllUpTo(k), o, size) = AllUpTo(Least(o + size, k))
      <4>1. o \in Nat /\ k \in Nat /\ o <= k
        BY <1>1, <2>5
      <4> HIDE DEF n, o
      <4> QED BY <3>2, <4>1, PageOfAll
    <3> QED BY <2>7, <3>1, <3>3
  <2> HIDE DEF items
  <2>9. Offset' = k
    BY <1>1, <1>3, <2>5, <2>8 DEF Offset
  <2>10. pages' = AllUpTo(k)
    BY <1>3, <2>4, <2>8
  <2>11. ~ page'.hasMore /\ ~ page'.truncated => k = m
    <3>1. o + Len(items) = k
      BY <1>1, <2>5, <2>8
    <3>2. page'.hasMore <=> ~ c /\ k < m
      BY <1>3, <2>3, <3>1
    <3> QED BY <1>1, <1>3, <2>5, <3>2
  <2> QED BY <1>1, <1>3, <1>7, <1>9, <2>5, <2>9, <2>10, <2>11 DEF PagesInv
<1> QED BY <1>1, <1>8, <1>9

\* With no more matches than the cap, a legacy page is one of all of them,
\* whichever of the searches it is taken from.
LEMMA LegacyOfAll ==
  ASSUME m \in Nat, m <= PageCap, NEW o \in Nat, NEW size \in Nat \ {0}, LegacyPage(o, size)
  PROVE  page' = Paginate(AllUpTo(m), o, size)
<1> DEFINE n == OverFetch(o, size)
<1>1. n \in Nat /\ n <= PageCap /\ PageCap \in Nat
  <2>1. o + size \in Nat /\ PageCap \in Nat
    BY PagingAssumption
  <2>2. Least(o + size, PageCap) \in Nat /\ Least(o + size, PageCap) <= PageCap
    BY <2>1, LeastOf
  <2> QED BY <2>1, <2>2 DEF OverFetch
<1>2. \A S \in kSubset(m, 1..m) : Sorted(S) = AllUpTo(m)
  BY AllOfThem, SortedAll
<1>3. PICK S \in kSubset(Least(m, n), 1..m) :
        IF MustRefetch(Sorted(S), n)
        THEN \E R \in kSubset(Least(m, PageCap), 1..m) : page' = Paginate(Sorted(R), o, size)
        ELSE page' = Paginate(Sorted(S), o, size)
  BY DEF LegacyPage, Searches
<1> HIDE DEF n
<1>4. CASE MustRefetch(Sorted(S), n)
  <2>1. Least(m, PageCap) = m
    BY <1>1 DEF Least
  <2> QED BY <1>2, <1>3, <1>4, <2>1
<1>5. CASE ~ MustRefetch(Sorted(S), n)
  <2>1. S \subseteq 1..m /\ Cardinality(S) = Least(m, n)
    BY DEF kSubset
  <2>2. Len(Sorted(S)) = Least(m, n)
    <3>1. S \in SUBSET (1..m) /\ IsFiniteSet(1..m)
      BY <2>1, FS_Interval
    <3>2. IsFiniteSet(S)
      BY <3>1, FS_Subset
    <3> QED BY <2>1, <3>2, SortedIs
  <2>3. Least(m, n) = m
    BY <1>1, <1>5, <2>2 DEF MustRefetch, Least
  <2> QED BY <1>2, <1>3, <1>5, <2>3
<1> QED BY <1>4, <1>5

LEMMA LegacyCut ==
  ASSUME m \in Nat, m > PageCap, NEW o \in Nat, NEW size \in Nat \ {0}, LegacyPage(o, size)
  PROVE  page'.truncated /\ page'.offset = o /\ Len(page'.items) \in Nat
<1> DEFINE n == OverFetch(o, size)
<1>1. n \in Nat /\ n <= PageCap /\ PageCap \in Nat
  <2>1. o + size \in Nat /\ PageCap \in Nat
    BY PagingAssumption
  <2>2. Least(o + size, PageCap) \in Nat /\ Least(o + size, PageCap) <= PageCap
    BY <2>1, LeastOf
  <2> QED BY <2>1, <2>2 DEF OverFetch
<1>2. ASSUME NEW j \in Nat, j <= PageCap, NEW S \in kSubset(Least(m, j), 1..m)
      PROVE  /\ Len(Sorted(S)) = j
             /\ Len(Paginate(Sorted(S), o, size).items) \in Nat
             /\ Paginate(Sorted(S), o, size).offset = o
  <2>a. Least(m, j) = j
    BY <1>1, <1>2 DEF Least
  <2>1. S \in SUBSET (1..m) /\ Cardinality(S) = j
    BY <1>2, <2>a DEF kSubset
  <2>2. IsFiniteSet(S)
    <3>1. IsFiniteSet(1..m)
      BY FS_Interval
    <3> QED BY <2>1, <3>1, FS_Subset
  <2>3. PICK X : Sorted(S) \in Seq(X) /\ Len(Sorted(S)) = j
    BY <2>1, <2>2, SortedIs
  <2>4. Slice(Sorted(S), o, size) \in Seq(X) /\ <<>> \in Seq(X)
    BY <2>3, SliceIs
  <2>5. Len(Slice(Sorted(S), o, size)) \in Nat /\ Len(<<>>) \in Nat
    BY <2>4, LenProperties
  <2> QED BY <2>3, <2>5 DEF Paginate
<1>3. PICK S \in kSubset(Least(m, n), 1..m) :
        IF MustRefetch(Sorted(S), n)
        THEN \E R \in kSubset(Least(m, PageCap), 1..m) : page' = Paginate(Sorted(R), o, size)
        ELSE page' = Paginate(Sorted(S), o, size)
  BY DEF LegacyPage, Searches
<1> HIDE DEF n
<1>4. CASE MustRefetch(Sorted(S), n)
  <2>1. PICK R \in kSubset(Least(m, PageCap), 1..m) : page' = Paginate(Sorted(R), o, size)
    BY <1>3, <1>4
  <2>2. Len(Sorted(R)) >= PageCap
    BY <1>1, <1>2
  <2>3. Paginate(Sorted(R), o, size).truncated
    BY <2>2 DEF Paginate, AtCap
  <2> QED BY <1>1, <1>2, <2>1, <2>3
<1>5. CASE ~ MustRefetch(Sorted(S), n)
  <2>1. n >= PageCap
    BY <1>1, <1>2, <1>5 DEF MustRefetch
  <2>2. Paginate(Sorted(S), o, size).truncated
    BY <2>1 DEF Paginate, n
  <2> QED BY <1>1, <1>2, <1>3, <1>5, <2>2
<1> QED BY <1>4, <1>5

LEMMA LegacyKeeps ==
  ASSUME PagesInv, NEW size \in Nat \ {0}, LegacyPage(Offset, size),
         pages' = pages \o page'.items, m' = m
  PROVE  PagesInv'
<1> DEFINE o == Offset
<1>1. o \in Nat /\ m \in Nat /\ PageCap \in Nat
  BY PagingAssumption DEF PagesInv, Offset
<1>2. LegacyPage(o, size)
  OBVIOUS
<1>3. m <= PageCap => o <= m /\ pages = AllUpTo(o)
  BY DEF PagesInv
<1> HIDE DEF o
<1>4. CASE m > PageCap
  <2>1. page'.truncated /\ page'.offset = o /\ Len(page'.items) \in Nat
    BY <1>1, <1>2, <1>4, LegacyCut
  <2> QED BY <1>1, <1>4, <2>1 DEF PagesInv
<1>5. CASE m <= PageCap
  <2> DEFINE s == Slice(AllUpTo(m), o, size)
             items == IF o >= PageCap THEN <<>> ELSE s
             end == Least(o + size, m)
  <2>1. page' = Paginate(AllUpTo(m), o, size)
    BY <1>1, <1>2, <1>5, LegacyOfAll
  <2>2. /\ page'.offset = o /\ page'.items = items
        /\ page'.hasMore <=> o < PageCap /\ Len(items) = size
        /\ OverFetch(o, size) >= PageCap => page'.truncated
    BY <2>1 DEF Paginate, MoreIfFull
  <2>3. /\ Len(s) = end - o /\ end \in Nat /\ o <= end /\ end <= m
        /\ AllUpTo(o) \o s = AllUpTo(end)
    BY <1>1, <1>3, <1>5, PageOfAll
  <2>4. end < m => end = o + size
    BY <1>1 DEF Least
  <2> HIDE DEF s, end
  <2>5. CASE o < PageCap
    <3>1. items = s
      BY <1>1, <2>5
    <3> HIDE DEF items
    <3>2. Offset' = end /\ pages' = AllUpTo(end)
      BY <1>1, <1>3, <1>5, <2>2, <2>3, <3>1 DEF Offset
    <3>3. ~ page'.hasMore => end = m
      BY <1>1, <2>2, <2>3, <2>4, <2>5, <3>1
    <3>4. Len(page'.items) \in Nat /\ page'.offset \in Nat
      BY <1>1, <2>2, <2>3, <3>1
    <3> QED BY <1>1, <1>5, <2>3, <3>2, <3>3, <3>4 DEF PagesInv
  <2>6. CASE o >= PageCap
    <3>1. items = <<>> /\ Len(<<>>) = 0
      BY <2>6
    <3> HIDE DEF items
    <3>2. OverFetch(o, size) >= PageCap
      BY <1>1, <2>6 DEF OverFetch, Least
    <3>3. Offset' = o
      BY <1>1, <2>2, <3>1 DEF Offset
    <3>4. pages' = AllUpTo(o)
      <4>1. AllUpTo(o) \in Seq(Nat)
        BY <1>1, AllUpToIs
      <4>2. AllUpTo(o) \o <<>> = AllUpTo(o)
        BY <4>1, ConcatEmptySeq
      <4> QED BY <1>3, <1>5, <2>2, <3>1, <4>2
    <3>5. Len(page'.items) \in Nat /\ page'.offset \in Nat
      BY <1>1, <2>2, <3>1
    <3> QED BY <1>1, <1>3, <1>5, <2>2, <3>2, <3>3, <3>4, <3>5 DEF PagesInv
  <2> QED BY <1>1, <2>5, <2>6
<1> QED BY <1>1, <1>4, <1>5

LEMMA NextPages == PagesInv /\ [Turn]_pagingVars => PagesInv'
<1> SUFFICES ASSUME PagesInv, [Turn]_pagingVars PROVE PagesInv'
  OBVIOUS
<1>1. CASE Turn
  <2>1. PICK size \in PageLimits :
          IF exact THEN ExactPage(Offset, size) ELSE LegacyPage(Offset, size)
    BY <1>1 DEF Turn
  <2>2. size \in Nat \ {0} /\ pages' = pages \o page'.items /\ m' = m
    BY <1>1, PagingAssumption DEF Turn
  <2> QED BY <2>1, <2>2, ExactKeeps, LegacyKeeps
<1>2. CASE UNCHANGED pagingVars
  BY <1>2 DEF pagingVars, PagesInv, Offset
<1> QED BY <1>1, <1>2

\* For any number of matches, any cap and any limits, a reader of the pages gets
\* all matches in order, each once, or is told that they were cut short, though
\* each page is from a search of its own, which may bring other matches
\* (paginate, paginateOutcome, applyCapTruncation, doLegacyPage).
THEOREM PagesAlwaysRight == PagingSpec => []PagesRight
<1>1. PagesInv => PagesRight
  BY PagingAssumption DEF PagesInv, PagesRight, PagesFollow, EndIsTheEnd, CutIsSaid
<1> QED BY <1>1, InitPages, NextPages, PTL DEF PagingSpec
=============================================================================
