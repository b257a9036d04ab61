------------------------- MODULE StateManagerProofs -------------------------
(***************************************************************************)
(* What the pod-state algorithm of pkg/pod/state.go does, for any finite   *)
(* group of pods, any order the sorter gives them and any replicas wanted. *)
(* TLC goes through every labelling of four pods; the proofs below count   *)
(* pods in groups of any size.                                             *)
(*                                                                         *)
(* The argument has three layers.  First come facts about the beginning of *)
(* a set in an order: how many elements it has, and that its size          *)
(* determines it.  Then what one Pull and one Push do to the numbers, to   *)
(* the partition of the pods and to their order.  The theorems follow the  *)
(* three iterations of the loop, Online, Cutoff and Standby, from one to   *)
(* the next.                                                               *)
(***************************************************************************)
EXTENDS MCStateManager, FiniteSetTheorems, WellFoundedInduction, TLAPS

-----------------------------------------------------------------------------
(* The beginning of a set in an order. *)

\* Numbers that tell the elements of S apart.
OrderOf(S) == {r \in [S -> Int] : \A p, q \in S : r[p] = r[q] => p = q}

Below(r, S, p) == {q \in S : r[q] < r[p]}

\* The first count elements of S in the order r.
Start(r, count, S) == {p \in S : Cardinality(Below(r, S, p)) < count}

\* D holds with an element of S everything of S that comes before it.
BeginningOf(r, D, S) == D \subseteq S /\ \A p \in D, q \in S : r[q] < r[p] => q \in D

\* A set of numbers has a smallest one.
LEMMA SmallestNumber ==
  ASSUME NEW T \in SUBSET Nat, T # {}
  PROVE  \E n \in T : \A m \in T : n <= m
<1>1. PICK n \in T : \A m \in T : ~ (<<m, n>> \in OpToRel(<, Nat))
  BY WFMin, NatLessThanWellFounded
<1>2. ASSUME NEW m \in T PROVE n <= m
  <2>1. <<m, n>> \in Nat \X Nat /\ ~ (<<m, n>> \in OpToRel(<, Nat))
    BY <1>1
  <2>2. ~ (m < n)
    BY <2>1 DEF OpToRel
  <2>3. QED
    BY <2>2
<1>3. QED
  BY <1>2

\* The parts of a finite set are finite, and counting them gives numbers.
LEMMA PartsCount ==
  ASSUME NEW S, IsFiniteSet(S), NEW T, T \subseteq S
  PROVE  /\ IsFiniteSet(T)
         /\ Cardinality(T) \in Nat
         /\ Cardinality(T) <= Cardinality(S)
         /\ Cardinality(T) = Cardinality(S) => T = S
         /\ Cardinality(T) = 0 <=> T = {}
BY FS_Subset, FS_CardinalityType, FS_EmptySet

\* Two sets without a common element count as much as both.
LEMMA CountBoth ==
  ASSUME NEW S, NEW T, IsFiniteSet(S), IsFiniteSet(T), S \cap T = {}
  PROVE  /\ IsFiniteSet(S \union T)
         /\ Cardinality(S \union T) = Cardinality(S) + Cardinality(T)
<1>1. Cardinality(S \cap T) = 0
  BY FS_EmptySet
<1>2. QED
  BY <1>1, FS_Union, FS_CardinalityType

\* A nonempty finite set has a first element.
LEMMA FirstElement ==
  ASSUME NEW P, NEW r \in OrderOf(P), NEW S \in SUBSET P, IsFiniteSet(S), S # {}
  PROVE  \E p \in S : \A q \in S : q # p => r[p] < r[q]
<1> DEFINE pos == [p \in S |-> Cardinality(Below(r, S, p))]
           T == {pos[p] : p \in S}
<1>1. \A p \in S : Below(r, S, p) \subseteq S /\ Cardinality(Below(r, S, p)) \in Nat
  BY PartsCount DEF Below
<1>2. PICK n \in T : \A m \in T : n <= m
  <2>1. T \subseteq Nat /\ T # {}
    BY <1>1
  <2> HIDE DEF T
  <2>2. QED
    BY <2>1, SmallestNumber
<1>3. PICK p \in S : n = pos[p]
  OBVIOUS
<1>4. ASSUME NEW q \in S, r[q] < r[p] PROVE FALSE
  <2>1. Below(r, S, q) \subseteq Below(r, S, p)
    BY <1>4 DEF Below, OrderOf
  <2>2. q \in Below(r, S, p) /\ q \notin Below(r, S, q)
    BY <1>4 DEF Below, OrderOf
  <2>3. IsFiniteSet(Below(r, S, p))
    BY <1>1, PartsCount
  <2>4. /\ Cardinality(Below(r, S, q)) <= Cardinality(Below(r, S, p))
        /\ Cardinality(Below(r, S, q)) # Cardinality(Below(r, S, p))
    BY <2>1, <2>2, <2>3, PartsCount
  <2>5. pos[q] < pos[p]
    BY <1>1, <2>4
  <2>6. pos[q] \in T /\ pos[q] \in Nat /\ pos[p] \in Nat
    BY <1>1
  <2>7. QED
    BY <1>2, <1>3, <2>5, <2>6
<1>5. QED
  BY <1>4 DEF OrderOf

\* The first elements of a set come before all others.
LEMMA StartIsBeginning ==
  ASSUME NEW P, NEW r \in OrderOf(P), NEW S \in SUBSET P, IsFiniteSet(S), NEW count \in Int
  PROVE  BeginningOf(r, Start(r, count, S), S)
<1> SUFFICES ASSUME NEW p \in Start(r, count, S), NEW q \in S, r[q] < r[p]
             PROVE  q \in Start(r, count, S)
  BY DEF BeginningOf, Start
<1>1. Below(r, S, q) \subseteq Below(r, S, p) /\ Below(r, S, p) \subseteq S
  BY DEF Below, OrderOf, Start
<1>2. /\ Cardinality(Below(r, S, q)) \in Nat
      /\ Cardinality(Below(r, S, p)) \in Nat
      /\ Cardinality(Below(r, S, q)) <= Cardinality(Below(r, S, p))
  BY <1>1, PartsCount
<1>3. QED
  BY <1>2 DEF Start

\* Of two beginnings of a set one is part of the other.
LEMMA BeginningsNest ==
  ASSUME NEW P, NEW r \in OrderOf(P), NEW S \in SUBSET P, NEW D, NEW E,
         BeginningOf(r, D, S), BeginningOf(r, E, S)
  PROVE  D \subseteq E \/ E \subseteq D
<1> SUFFICES ASSUME NEW p \in D, p \notin E, NEW q \in E PROVE q \in D
  OBVIOUS
<1>1. p \in S /\ q \in S /\ p # q
  BY DEF BeginningOf
<1>2. r[p] < r[q] \/ r[q] < r[p]
  BY <1>1 DEF OrderOf
<1>3. QED
  BY <1>1, <1>2 DEF BeginningOf

\* So a beginning is known by its size.
LEMMA BeginningBySize ==
  ASSUME NEW P, NEW r \in OrderOf(P), NEW S \in SUBSET P, IsFiniteSet(S), NEW D, NEW E,
         BeginningOf(r, D, S), BeginningOf(r, E, S), Cardinality(D) = Cardinality(E)
  PROVE  D = E
<1>1. D \subseteq S /\ E \subseteq S
  BY DEF BeginningOf
<1>2. IsFiniteSet(D) /\ IsFiniteSet(E)
  BY <1>1, PartsCount
<1>3. D \subseteq E \/ E \subseteq D
  BY BeginningsNest
<1>4. QED
  BY <1>2, <1>3, PartsCount

\* The first count elements are count elements: the smallest count for which
\* they were not would follow one for which they are, and the first of the
\* other elements is what the step adds.
LEMMA StartCountUpTo ==
  ASSUME NEW P, NEW r \in OrderOf(P), NEW S \in SUBSET P, IsFiniteSet(S),
         NEW n \in Nat, n <= Cardinality(S)
  PROVE  Cardinality(Start(r, n, S)) = n
<1> DEFINE Wrong == {c \in Nat : c <= Cardinality(S) /\ Cardinality(Start(r, c, S)) # c}
<1> SUFFICES ASSUME Wrong # {} PROVE FALSE
  OBVIOUS
<1>1. PICK c \in Wrong : \A m \in Wrong : c <= m
  BY SmallestNumber
<1>2. \A p \in S : Below(r, S, p) \subseteq S /\ Cardinality(Below(r, S, p)) \in Nat
  BY PartsCount DEF Below
<1>3. c # 0
  <2>1. Start(r, 0, S) = {}
    BY <1>2 DEF Start
  <2>2. QED
    BY <2>1, FS_EmptySet
<1> DEFINE b == c - 1
           D == Start(r, b, S)
<1>4. b \in Nat /\ b < Cardinality(S) /\ Cardinality(D) = b
  BY <1>1, <1>3, FS_CardinalityType
<1>5. BeginningOf(r, D, S)
  BY <1>4, StartIsBeginning
<1>6. D \subseteq S /\ D # S
  BY <1>4, <1>5 DEF BeginningOf
<1>. /\ c \in Nat /\ b = c - 1 /\ Cardinality(Start(r, c, S)) # c
     /\ \A q \in S : q \in D <=> Cardinality(Below(r, S, q)) < b
  BY <1>1, <1>6 DEF Start
<1> HIDE DEF D, b, Wrong
<1>7. PICK p \in S \ D : \A q \in S \ D : q # p => r[p] < r[q]
  <2>1. S \ D # {} /\ IsFiniteSet(S \ D) /\ S \ D \in SUBSET P
    BY <1>6, PartsCount, S \ D \subseteq S
  <2>2. QED
    BY <2>1, FirstElement
<1>8. Below(r, S, p) = D
  <2>1. ASSUME NEW q \in Below(r, S, p) PROVE q \in D
    BY <1>7 DEF Below, OrderOf
  <2>2. ASSUME NEW q \in D PROVE q \in Below(r, S, p)
    <3>1. q \in S /\ q # p /\ ~ (r[p] < r[q])
      BY <1>5, <1>7 DEF BeginningOf
    <3>2. QED
      BY <3>1 DEF Below, OrderOf
  <2>3. QED
    BY <2>1, <2>2
<1>9. Start(r, c, S) = D \union {p}
  <2>1. ASSUME NEW q \in D PROVE q \in Start(r, c, S)
    BY <1>2, <1>4, <1>6 DEF Start
  <2>2. p \in Start(r, c, S)
    BY <1>4, <1>8 DEF Start
  <2>3. ASSUME NEW q \in Start(r, c, S), q \notin D PROVE q = p
    <3>1. q \in S /\ Cardinality(Below(r, S, q)) < c
      BY DEF Start
    <3>2. SUFFICES ASSUME q # p PROVE FALSE
      OBVIOUS
    <3>3. r[p] < r[q]
      BY <1>7, <2>3, <3>1, <3>2
    <3>4. Below(r, S, p) \subseteq Below(r, S, q) /\ p \in Below(r, S, q) /\ p \notin Below(r, S, p)
      BY <3>1, <3>3 DEF Below, OrderOf
    <3>5. IsFiniteSet(Below(r, S, q)) /\ Below(r, S, p) # Below(r, S, q)
      BY <1>2, <3>1, <3>4, PartsCount
    <3>6. /\ Cardinality(Below(r, S, p)) <= Cardinality(Below(r, S, q))
          /\ Cardinality(Below(r, S, p)) # Cardinality(Below(r, S, q))
      BY <3>4, <3>5, PartsCount
    <3>7. QED
      BY <1>2, <1>4, <1>8, <3>1, <3>6
  <2>4. QED
    BY <2>1, <2>2, <2>3
<1>10. Cardinality(D \union {p}) = b + 1
  <2>1. IsFiniteSet(D)
    BY <1>6, PartsCount
  <2>2. QED
    BY <1>4, <1>7, <2>1, FS_AddElement
<1>11. QED
  BY <1>9, <1>10

\* How many the first count elements are, for every count.
LEMMA StartCount ==
  ASSUME NEW P, NEW r \in OrderOf(P), NEW S \in SUBSET P, IsFiniteSet(S), NEW count \in Int
  PROVE  /\ Start(r, count, S) \subseteq S
         /\ Cardinality(Start(r, count, S)) =
              IF count <= 0 THEN 0 ELSE SmallerOf(count, Cardinality(S))
<1>1. \A p \in S : Below(r, S, p) \subseteq S /\ Cardinality(Below(r, S, p)) \in Nat
  BY PartsCount DEF Below
<1>2. CASE count <= 0
  <2>1. Start(r, count, S) = {}
    BY <1>1, <1>2 DEF Start
  <2>2. QED
    BY <1>2, <2>1, FS_EmptySet
<1>3. CASE count > 0 /\ count <= Cardinality(S)
  <2>1. count \in Nat
    BY <1>3
  <2>2. Cardinality(Start(r, count, S)) = count
    BY <1>3, <2>1, StartCountUpTo
  <2>3. QED
    BY <1>3, <2>2, FS_CardinalityType DEF SmallerOf, Start
<1>4. CASE count > 0 /\ count > Cardinality(S)
  <2>1. ASSUME NEW p \in S PROVE Cardinality(Below(r, S, p)) < count
    <3>1. Cardinality(Below(r, S, p)) <= Cardinality(S)
      BY <1>1, PartsCount
    <3>2. QED
      BY <1>1, <1>4, <3>1, FS_CardinalityType
  <2>2. Start(r, count, S) = S
    BY <2>1 DEF Start
  <2>3. QED
    BY <1>4, <2>2, FS_CardinalityType DEF SmallerOf
<1>5. QED
  BY <1>2, <1>3, <1>4, FS_CardinalityType

\* The sorter's order, and the same from its other end.
Upside == [p \in Pod |-> - Rank[p]]

LEMMA SorterOrders == Rank \in OrderOf(Pod) /\ Upside \in OrderOf(Pod)
BY RankAssumption DEF OrderOf, Upside

\* The pods that FirstSorted takes: how many, and that they come first.
LEMMA FirstTaken ==
  ASSUME NEW S \in SUBSET Pod, NEW count \in Int
  PROVE  /\ FirstSorted(count, S) = Start(Rank, count, S)
         /\ FirstSorted(count, S) \subseteq S
         /\ Cardinality(FirstSorted(count, S)) =
              IF count <= 0 THEN 0 ELSE SmallerOf(count, Cardinality(S))
         /\ \A p \in FirstSorted(count, S), q \in S :
              q \notin FirstSorted(count, S) => Rank[p] < Rank[q]
<1>1. IsFiniteSet(S)
  BY GroupAssumption, FS_Subset
<1>2. FirstSorted(count, S) = Start(Rank, count, S)
  BY DEF FirstSorted, Start, Below
<1>3. BeginningOf(Rank, Start(Rank, count, S), S)
  BY <1>1, SorterOrders, StartIsBeginning
<1>4. /\ Start(Rank, count, S) \subseteq S
      /\ Cardinality(Start(Rank, count, S)) =
           IF count <= 0 THEN 0 ELSE SmallerOf(count, Cardinality(S))
  BY <1>1, SorterOrders, StartCount
<1>5. ASSUME NEW p \in Start(Rank, count, S), NEW q \in S, q \notin Start(Rank, count, S)
      PROVE  Rank[p] < Rank[q]
  <2>1. p \in Pod /\ q \in Pod /\ p # q /\ ~ (Rank[q] < Rank[p])
    BY <1>3, <1>5 DEF BeginningOf
  <2>2. QED
    BY <2>1, RankAssumption
<1>6. QED
  BY <1>2, <1>4, <1>5

\* The pods that LastSorted takes: how many, and that they come last.
LEMMA LastTaken ==
  ASSUME NEW S \in SUBSET Pod, NEW count \in Int
  PROVE  /\ LastSorted(count, S) \subseteq S
         /\ Cardinality(LastSorted(count, S)) =
              IF count <= 0 THEN 0 ELSE SmallerOf(count, Cardinality(S))
         /\ \A p \in LastSorted(count, S), q \in S :
              q \notin LastSorted(count, S) => Rank[q] < Rank[p]
<1>1. IsFiniteSet(S)
  BY GroupAssumption, FS_Subset
<1>2. LastSorted(count, S) = Start(Upside, count, S)
  <2>1. ASSUME NEW p \in S PROVE {q \in S : Rank[q] > Rank[p]} = Below(Upside, S, p)
    BY RankAssumption DEF Below, Upside
  <2>2. QED
    BY <2>1 DEF LastSorted, Start
<1>3. BeginningOf(Upside, Start(Upside, count, S), S)
  BY <1>1, SorterOrders, StartIsBeginning
<1>4. /\ Start(Upside, count, S) \subseteq S
      /\ Cardinality(Start(Upside, count, S)) =
           IF count <= 0 THEN 0 ELSE SmallerOf(count, Cardinality(S))
  BY <1>1, SorterOrders, StartCount
<1>5. ASSUME NEW p \in Start(Upside, count, S), NEW q \in S, q \notin Start(Upside, count, S)
      PROVE  Rank[q] < Rank[p]
  <2>1. p \in Pod /\ q \in Pod /\ p # q /\ ~ (Upside[q] < Upside[p])
    BY <1>3, <1>4, <1>5 DEF BeginningOf
  <2>2. QED
    BY <2>1, RankAssumption DEF Upside
<1>6. QED
  BY <1>2, <1>4, <1>5

-----------------------------------------------------------------------------
(* What one Pull and one Push do. *)

Wanted == [RunningStates -> Nat]

\* No pod is in two places at once.
Apart(info) ==
  /\ \A s \in States : info[s].current \cap info[s].candidate = {}
  /\ \A s, t \in States : s # t => Placed(info, s) \cap Placed(info, t) = {}

SamePods(a, b) ==
  \A p \in Pod : (\E s \in States : p \in Placed(a, s)) <=> (\E s \in States : p \in Placed(b, s))

Count(info, s) == Cardinality(Placed(info, s))

Pulled(info, wanted, s, t) == LastSorted(- Diff(info, wanted, s), info[t].current)
Pushed(info, wanted, s) == FirstSorted(Diff(info, wanted, s), Placed(info, s))

\* How the numbers compare with what is wanted, when no pod is counted twice.
LEMMA DiffCounts ==
  ASSUME NEW info \in StatesInfo, Apart(info), NEW wanted \in Wanted, NEW s \in RunningStates
  PROVE  /\ Diff(info, wanted, s) = Count(info, s) - wanted[s]
         /\ Diff(info, wanted, s) \in Int
         /\ Count(info, s) \in Nat
<1>1. /\ info[s].current \subseteq Pod /\ info[s].candidate \subseteq Pod
      /\ info[s].current \cap info[s].candidate = {}
      /\ wanted[s] \in Nat
  BY DEF StatesInfo, StateInfo, Apart, States, Wanted
<1>2. /\ IsFiniteSet(info[s].current) /\ Cardinality(info[s].current) \in Nat
      /\ IsFiniteSet(info[s].candidate) /\ Cardinality(info[s].candidate) \in Nat
  BY <1>1, GroupAssumption, PartsCount
<1>3. Count(info, s) = Cardinality(info[s].current) + Cardinality(info[s].candidate)
  BY <1>1, <1>2, CountBoth DEF Count, Placed
<1>4. QED
  BY <1>1, <1>2, <1>3 DEF Diff

\* A pull moves the last pods of t that s lacks, and touches nothing else.
LEMMA PullEffect ==
  ASSUME NEW info \in StatesInfo, Apart(info), NEW wanted \in Wanted,
         NEW s \in RunningStates, NEW t \in RunningStates, s # t,
         NEW after, after = Pull(wanted, s, t)[info],
         NEW moved, moved = Pulled(info, wanted, s, t)
  PROVE  /\ after \in StatesInfo
         /\ moved \subseteq info[t].current
         /\ after[s].current = info[s].current
         /\ after[s].candidate = info[s].candidate \union moved
         /\ after[t].current = info[t].current \ moved
         /\ after[t].candidate = info[t].candidate
         /\ \A u \in States \ {s, t} : after[u] = info[u]
<1>1. moved \subseteq info[t].current
  BY DEF Pulled, LastSorted
<1>2. after = [info EXCEPT ![s].candidate = @ \union moved, ![t].current = @ \ moved]
  BY DEF Pull, Pulled
<1>3. s \in States /\ t \in States
  BY DEF States
<1>4. after \in StatesInfo
  BY <1>1, <1>2, <1>3 DEF StatesInfo, StateInfo
<1>5. info \in [States -> [current : SUBSET Pod, candidate : SUBSET Pod]]
  BY DEF StatesInfo, StateInfo
<1>6. /\ after[s] = [info[s] EXCEPT !.candidate = @ \union moved]
      /\ after[t] = [info[t] EXCEPT !.current = @ \ moved]
      /\ \A u \in States \ {s, t} : after[u] = info[u]
  BY <1>2, <1>3, <1>5
<1>7. QED
  BY <1>1, <1>3, <1>4, <1>5, <1>6

\* A push moves the first pods of s that are too many, and touches nothing else.
LEMMA PushEffect ==
  ASSUME NEW info \in StatesInfo, Apart(info), NEW wanted \in Wanted,
         NEW s \in RunningStates, NEW t \in States, s # t,
         NEW after, after = Push(wanted, s, t)[info],
         NEW moved, moved = Pushed(info, wanted, s)
  PROVE  /\ after \in StatesInfo
         /\ moved \subseteq Placed(info, s)
         /\ after[s].current = info[s].current \ moved
         /\ after[s].candidate = info[s].candidate \ moved
         /\ after[t].current = info[t].current
         /\ after[t].candidate = info[t].candidate \union moved
         /\ \A u \in States \ {s, t} : after[u] = info[u]
<1>1. moved \subseteq Placed(info, s)
  BY DEF Pushed, FirstSorted
<1>2. after = [info EXCEPT ![s].current = @ \ moved, ![s].candidate = @ \ moved,
                           ![t].candidate = @ \union moved]
  BY DEF Push, Pushed
<1>3. s \in States /\ t \in States
  BY DEF States
<1>4. moved \subseteq Pod
  BY <1>1, <1>3 DEF Placed, StatesInfo, StateInfo
<1>5. info \in [States -> [current : SUBSET Pod, candidate : SUBSET Pod]]
  BY DEF StatesInfo, StateInfo
<1>6. /\ after[s] = [info[s] EXCEPT !.current = @ \ moved, !.candidate = @ \ moved]
      /\ after[t] = [info[t] EXCEPT !.candidate = @ \union moved]
      /\ \A u \in States \ {s, t} : after[u] = info[u]
      /\ after = [u \in States |-> after[u]]
  BY <1>2, <1>3, <1>5
<1>7. ASSUME NEW u \in States
      PROVE  after[u] \in [current : SUBSET Pod, candidate : SUBSET Pod]
  <2>1. info[u] \in [current : SUBSET Pod, candidate : SUBSET Pod]
    BY <1>5
  <2>2. CASE u = s
    <3>1. after[u] = [info[u] EXCEPT !.current = @ \ moved, !.candidate = @ \ moved]
      BY <1>6, <2>2
    <3>2. info[u].current \ moved \in SUBSET Pod /\ info[u].candidate \ moved \in SUBSET Pod
      BY <2>1
    <3>3. QED
      BY <2>1, <3>1, <3>2
  <2>3. CASE u = t
    <3>1. after[u] = [info[u] EXCEPT !.candidate = @ \union moved]
      BY <1>6, <2>3
    <3>2. info[u].candidate \union moved \in SUBSET Pod
      BY <1>4, <2>1
    <3>3. QED
      BY <2>1, <3>1, <3>2
  <2>4. QED
    BY <1>6, <2>1, <2>2, <2>3
<1>8. after \in StatesInfo
  BY <1>6, <1>7 DEF StatesInfo, StateInfo
<1>9. QED
  BY <1>1, <1>3, <1>5, <1>6, <1>8

\* Whether pods are pulled or pushed, a move takes them from one state to
\* another: they stay apart, none is lost, and only the two numbers change.
LEMMA MoveKeepsPods ==
  ASSUME NEW info \in StatesInfo, Apart(info), NEW after \in StatesInfo,
         NEW from \in States, NEW to \in States, from # to,
         NEW moved, moved \subseteq Placed(info, from),
         after[from].current = info[from].current \ moved,
         after[from].candidate = info[from].candidate \ moved,
         after[to].current = info[to].current,
         after[to].candidate = info[to].candidate \union moved,
         \A u \in States \ {from, to} : after[u] = info[u]
  PROVE  /\ Apart(after)
         /\ SamePods(info, after)
         /\ \A s \in States : Count(info, s) \in Nat
         /\ Count(after, from) = Count(info, from) - Cardinality(moved)
         /\ Count(after, to) = Count(info, to) + Cardinality(moved)
         /\ \A u \in States \ {from, to} : Count(after, u) = Count(info, u)
         /\ Cardinality(moved) \in Nat
<1>1. /\ Placed(after, from) = Placed(info, from) \ moved
      /\ Placed(after, to) = Placed(info, to) \union moved
      /\ \A u \in States \ {from, to} : Placed(after, u) = Placed(info, u)
  BY DEF Placed
<1>2. \A s \in States : Placed(info, s) \subseteq Pod
  BY DEF Placed, StatesInfo, StateInfo
<1>3. Placed(info, from) \cap Placed(info, to) = {}
  BY DEF Apart
<1>4. \A s \in States : after[s].current \cap after[s].candidate = {}
  <2> SUFFICES ASSUME NEW s \in States PROVE after[s].current \cap after[s].candidate = {}
    OBVIOUS
  <2>1. info[s].current \cap info[s].candidate = {}
    BY DEF Apart
  <2>2. CASE s = to
    BY <1>3, <2>1, <2>2 DEF Placed
  <2>3. CASE s # to
    BY <2>1, <2>3
  <2>4. QED
    BY <2>2, <2>3
<1>5. \A s, t \in States : s # t => Placed(after, s) \cap Placed(after, t) = {}
  <2> SUFFICES ASSUME NEW s \in States, NEW t \in States, s # t
               PROVE  Placed(after, s) \cap Placed(after, t) = {}
    OBVIOUS
  <2>1. \A u, v \in States : u # v => Placed(info, u) \cap Placed(info, v) = {}
    BY DEF Apart
  <2>2. \A u \in States : u # to => Placed(after, u) \subseteq Placed(info, u)
    BY <1>1
  <2>3. \A u \in States : u # to => Placed(after, u) \cap Placed(after, to) = {}
    <3> SUFFICES ASSUME NEW u \in States, u # to PROVE Placed(after, u) \cap Placed(after, to) = {}
      OBVIOUS
    <3>1. CASE u = from
      BY <1>1, <1>3, <3>1
    <3>2. CASE u # from
      BY <1>1, <2>1, <3>2
    <3>3. QED
      BY <3>1, <3>2
  <2>4. QED
    BY <2>1, <2>2, <2>3
<1>6. SamePods(info, after)
  BY <1>1 DEF SamePods
<1>7. \A s \in States : IsFiniteSet(Placed(info, s)) /\ Count(info, s) \in Nat
  BY <1>2, GroupAssumption, PartsCount DEF Count
<1>8. IsFiniteSet(moved) /\ Cardinality(moved) \in Nat
  BY <1>7, PartsCount
<1>9. Count(after, from) = Count(info, from) - Cardinality(moved)
  <2>1. Placed(info, from) \cap moved = moved
    OBVIOUS
  <2>2. QED
    BY <1>1, <1>7, <2>1, FS_Difference DEF Count
<1>10. Count(after, to) = Count(info, to) + Cardinality(moved)
  <2>1. Placed(info, to) \cap moved = {}
    BY <1>3
  <2>2. QED
    BY <1>1, <1>7, <1>8, <2>1, CountBoth DEF Count
<1>11. \A u \in States \ {from, to} : Count(after, u) = Count(info, u)
  BY <1>1 DEF Count
<1>12. QED
  BY <1>4, <1>5, <1>6, <1>7, <1>8, <1>9, <1>10, <1>11 DEF Apart

\* Earlier states of the list hold the pods that the workload would scale down later.
InOrder(info) ==
  \A s, t \in States : Position[s] < Position[t] =>
    \A p \in Placed(info, s), q \in Placed(info, t) : Rank[p] < Rank[q]

\* The order survives a move of the pods next to the state they move to,
\* unless it would jump over a state with pods.
LEMMA MoveKeepsOrder ==
  ASSUME NEW info \in StatesInfo, NEW after \in StatesInfo, InOrder(info),
         NEW from \in States, NEW to \in States, from # to,
         NEW moved, moved \subseteq Placed(info, from),
         Placed(after, from) = Placed(info, from) \ moved,
         Placed(after, to) = Placed(info, to) \union moved,
         \A u \in States \ {from, to} : Placed(after, u) = Placed(info, u),
         \A p \in moved, q \in Placed(info, from) \ moved :
           /\ Position[from] < Position[to] => Rank[q] < Rank[p]
           /\ Position[to] < Position[from] => Rank[p] < Rank[q],
         \/ moved = {}
         \/ \A u \in States :
              \/ Position[from] < Position[u] /\ Position[u] < Position[to]
              \/ Position[to] < Position[u] /\ Position[u] < Position[from]
              => Placed(info, u) = {}
  PROVE  InOrder(after)
<1> SUFFICES ASSUME NEW x \in States, NEW y \in States, Position[x] < Position[y],
                    NEW p \in Placed(after, x), NEW q \in Placed(after, y)
             PROVE  Rank[p] < Rank[q]
  BY DEF InOrder
<1>1. /\ \A u \in States : Position[u] \in Int
      /\ \A u, v \in States : Position[u] = Position[v] => u = v
  BY DEF States, RunningStates, Position
<1>2. \A u, v \in States : Position[u] < Position[v] =>
        \A i \in Placed(info, u), j \in Placed(info, v) : Rank[i] < Rank[j]
  BY DEF InOrder
<1> HIDE DEF Position
<1>3. \A u \in States \ {to} : Placed(after, u) \subseteq Placed(info, u) \ moved \/ u # from
  OBVIOUS
<1>4. CASE x # to /\ y # to
  <2>1. p \in Placed(info, x) /\ q \in Placed(info, y)
    BY <1>4
  <2>2. QED
    BY <1>2, <2>1
<1>5. CASE x = to /\ p \in Placed(info, to)
  <2>1. q \in Placed(info, y)
    BY <1>1, <1>5
  <2>2. QED
    BY <1>2, <1>5, <2>1
<1>6. CASE y = to /\ q \in Placed(info, to)
  <2>1. p \in Placed(info, x)
    BY <1>1, <1>6
  <2>2. QED
    BY <1>2, <1>6, <2>1
<1>7. CASE x = to /\ p \in moved
  <2>1. q \in Placed(info, y) /\ y # to /\ (y = from => q \notin moved)
    BY <1>1, <1>7
  <2>2. CASE Position[from] < Position[y]
    BY <1>2, <1>7, <2>1, <2>2
  <2>3. CASE y = from
    BY <1>7, <2>1, <2>3
  <2>4. CASE Position[y] < Position[from]
    BY <1>7, <2>1, <2>4
  <2>5. QED
    BY <1>1, <2>2, <2>3, <2>4
<1>8. CASE y = to /\ q \in moved
  <2>1. p \in Placed(info, x) /\ x # to /\ (x = from => p \notin moved)
    BY <1>1, <1>8
  <2>2. CASE Position[x] < Position[from]
    BY <1>2, <1>8, <2>1, <2>2
  <2>3. CASE x = from
    BY <1>8, <2>1, <2>3
  <2>4. CASE Position[from] < Position[x]
    BY <1>8, <2>1, <2>4
  <2>5. QED
    BY <1>1, <2>2, <2>3, <2>4
<1>9. QED
  BY <1>4, <1>5, <1>6, <1>7, <1>8

\* What the calculation starts from: running pods, each in one state.
RunningPods == {running \in [RunningStates -> SUBSET Pod] :
                  \A s, t \in RunningStates : s # t => running[s] \cap running[t] = {}}

\* Pods that stay in a state were in it, pods on their way to it were not.
Origin(info, running) ==
  \A s \in RunningStates :
    /\ info[s].current \subseteq running[s]
    /\ info[s].candidate \cap running[s] = {}

\* What every move keeps.
Reaches(info, after, running) ==
  /\ after \in StatesInfo
  /\ Apart(after)
  /\ SamePods(info, after)
  /\ Origin(after, running)
  /\ InOrder(info) => InOrder(after)

LEMMA ReachesOn ==
  ASSUME NEW a, NEW b, NEW c, NEW running, Reaches(a, b, running), Reaches(b, c, running)
  PROVE  Reaches(a, c, running)
BY DEF Reaches, SamePods

\* A state can pull from a later one that no pod is on its way to, when it
\* needs nothing or jumps over no pods.
MayPull(info, wanted, running, s, t) ==
  /\ s \in RunningStates /\ t \in RunningStates /\ Position[t] < Position[s]
  /\ info \in StatesInfo /\ Apart(info) /\ Origin(info, running)
  /\ info[t].candidate = {}
  /\ \/ Count(info, s) >= wanted[s]
     \/ \A u \in States : Position[t] < Position[u] /\ Position[u] < Position[s]
          => Placed(info, u) = {}

\* A state that lacks pods takes as many as it lacks and the later state has.
LEMMA PullStep ==
  ASSUME NEW running \in RunningPods, NEW wanted \in Wanted,
         NEW info, NEW s, NEW t, MayPull(info, wanted, running, s, t),
         NEW after, after = Pull(wanted, s, t)[info],
         NEW m, m = Cardinality(Pulled(info, wanted, s, t))
  PROVE  /\ Reaches(info, after, running)
         /\ m \in Nat
         /\ m = IF Count(info, s) >= wanted[s] THEN 0
                ELSE SmallerOf(wanted[s] - Count(info, s), Count(info, t))
         /\ Count(after, s) = Count(info, s) + m
         /\ Count(after, t) = Count(info, t) - m
         /\ \A u \in States \ {s, t} : after[u] = info[u]
         /\ after[t].candidate = {}
         /\ after[t].current \subseteq info[t].current
         /\ m = 0 => after = info
<1> DEFINE moved == Pulled(info, wanted, s, t)
<1>. /\ info \in StatesInfo /\ Apart(info) /\ Origin(info, running)
     /\ s \in RunningStates /\ t \in RunningStates /\ Position[t] < Position[s]
     /\ info[t].candidate = {}
  BY DEF MayPull
<1>1. s # t /\ s \in States /\ t \in States
  BY DEF States, RunningStates, Position
<1>2. /\ after \in StatesInfo
      /\ moved \subseteq info[t].current
      /\ after[s].current = info[s].current
      /\ after[s].candidate = info[s].candidate \union moved
      /\ after[t].current = info[t].current \ moved
      /\ after[t].candidate = info[t].candidate
      /\ \A u \in States \ {s, t} : after[u] = info[u]
  BY <1>1, PullEffect
<1>3. /\ info[t].current \in SUBSET Pod
      /\ Placed(info, t) = info[t].current
      /\ Diff(info, wanted, s) = Count(info, s) - wanted[s]
      /\ Diff(info, wanted, s) \in Int
      /\ Count(info, s) \in Nat
      /\ Count(info, t) \in Nat
      /\ wanted[s] \in Nat
  BY <1>1, DiffCounts DEF Placed, StatesInfo, StateInfo, Wanted
<1>4. /\ m = IF - Diff(info, wanted, s) <= 0 THEN 0
             ELSE SmallerOf(- Diff(info, wanted, s), Cardinality(info[t].current))
      /\ \A p \in moved, q \in info[t].current : q \notin moved => Rank[q] < Rank[p]
  <2> DEFINE lacking == - Diff(info, wanted, s)
             pods == info[t].current
  <2>1. lacking \in Int /\ moved = LastSorted(lacking, pods) /\ pods \in SUBSET Pod
    BY <1>3 DEF Pulled
  <2> HIDE DEF lacking, pods, moved
  <2>2. /\ Cardinality(moved) = IF lacking <= 0 THEN 0 ELSE SmallerOf(lacking, Cardinality(pods))
        /\ \A p \in moved, q \in pods : q \notin moved => Rank[q] < Rank[p]
    BY <2>1, LastTaken
  <2>3. QED
    BY <2>2 DEF lacking, pods, moved
<1> HIDE DEF moved
<1>5. m = IF Count(info, s) >= wanted[s] THEN 0
          ELSE SmallerOf(wanted[s] - Count(info, s), Count(info, t))
  BY <1>3, <1>4 DEF Count
<1>6. /\ Apart(after)
      /\ SamePods(info, after)
      /\ Count(after, t) = Count(info, t) - m
      /\ Count(after, s) = Count(info, s) + m
      /\ m \in Nat
  <2>1. moved \subseteq Placed(info, t) /\ after[t].candidate = info[t].candidate \ moved
    BY <1>2, <1>3
  <2>2. QED
    BY <1>1, <1>2, <2>1, MoveKeepsPods DEF moved
<1>0. m = 0 => moved = {}
  <2>1. IsFiniteSet(info[t].current)
    BY <1>3, GroupAssumption, PartsCount
  <2>2. QED
    BY <1>2, <2>1, PartsCount DEF moved
<1>7. Origin(after, running)
  <2> SUFFICES ASSUME NEW u \in RunningStates
               PROVE  /\ after[u].current \subseteq running[u]
                      /\ after[u].candidate \cap running[u] = {}
    BY DEF Origin
  <2>1. \A v \in RunningStates : /\ info[v].current \subseteq running[v]
                                 /\ info[v].candidate \cap running[v] = {}
    BY DEF Origin
  <2>2. moved \cap running[s] = {}
    BY <1>1, <1>2, <2>1 DEF RunningPods
  <2>3. u \in States
    BY DEF States
  <2>4. CASE u = s
    BY <1>2, <2>1, <2>2, <2>4
  <2>5. CASE u = t
    BY <1>2, <2>1, <2>5
  <2>6. CASE u \notin {s, t}
    BY <1>2, <2>1, <2>3, <2>6
  <2>7. QED
    BY <2>4, <2>5, <2>6
<1>8. ASSUME InOrder(info) PROVE InOrder(after)
  <2>1. /\ Placed(after, t) = Placed(info, t) \ moved
        /\ Placed(after, s) = Placed(info, s) \union moved
        /\ \A u \in States \ {t, s} : Placed(after, u) = Placed(info, u)
    BY <1>1, <1>2 DEF Placed
  <2>2. \A p \in moved, q \in Placed(info, t) \ moved : Rank[q] < Rank[p]
    BY <1>3, <1>4
  <2>3. ~ (Position[s] < Position[t])
    BY <1>1 DEF States, RunningStates, Position
  <2>4. \A u \in States : Position[u] \in Int
    BY DEF States, RunningStates, Position
  <2>5. \/ moved = {}
        \/ \A u \in States :
             \/ Position[t] < Position[u] /\ Position[u] < Position[s]
             \/ Position[s] < Position[u] /\ Position[u] < Position[t]
             => Placed(info, u) = {}
    BY <1>0, <1>1, <1>5, <2>3, <2>4 DEF MayPull
  <2>6. moved \subseteq Placed(info, t)
    BY <1>2, <1>3
  <2> HIDE DEF Position
  <2>7. QED
    BY <1>1, <1>2, <1>8, <2>1, <2>2, <2>3, <2>5, <2>6, MoveKeepsOrder
<1>9. ASSUME m = 0 PROVE after = info
  <2>1. \A u \in States : after[u].current = info[u].current /\ after[u].candidate = info[u].candidate
    BY <1>0, <1>1, <1>2, <1>9
  <2>2. \A u \in States : after[u] = info[u]
    BY <1>2, <2>1 DEF StatesInfo, StateInfo
  <2>3. QED
    BY <1>2, <2>2 DEF StatesInfo
<1>10. QED
  BY <1>2, <1>5, <1>6, <1>7, <1>8, <1>9 DEF Reaches

\* A state with too many pods hands what is too much to the next state.
LEMMA PushStep ==
  ASSUME NEW running \in RunningPods, NEW wanted \in Wanted,
         NEW info \in StatesInfo, Apart(info), Origin(info, running),
         NEW s \in RunningStates, NEW t \in States, Position[s] = Position[t] + 1,
         t \in RunningStates /\ Count(info, s) > wanted[s] => Placed(info, s) \cap running[t] = {},
         NEW after, after = Push(wanted, s, t)[info],
         NEW m, m = Cardinality(Pushed(info, wanted, s))
  PROVE  /\ Reaches(info, after, running)
         /\ m \in Nat
         /\ m = IF Count(info, s) > wanted[s] THEN Count(info, s) - wanted[s] ELSE 0
         /\ Count(after, s) = Count(info, s) - m
         /\ Count(after, t) = Count(info, t) + m
         /\ \A u \in States \ {s, t} : after[u] = info[u]
         /\ after[t].current = info[t].current
         /\ after[t].candidate \subseteq info[t].candidate \union Placed(info, s)
         /\ m = 0 => after = info
<1> DEFINE moved == Pushed(info, wanted, s)
<1>1. s # t /\ s \in States
  BY DEF States, RunningStates, Position
<1>2. /\ after \in StatesInfo
      /\ moved \subseteq Placed(info, s)
      /\ after[s].current = info[s].current \ moved
      /\ after[s].candidate = info[s].candidate \ moved
      /\ after[t].current = info[t].current
      /\ after[t].candidate = info[t].candidate \union moved
      /\ \A u \in States \ {s, t} : after[u] = info[u]
  BY <1>1, PushEffect
<1>3. /\ Placed(info, s) \in SUBSET Pod
      /\ Diff(info, wanted, s) = Count(info, s) - wanted[s]
      /\ Diff(info, wanted, s) \in Int
      /\ Count(info, s) \in Nat
      /\ wanted[s] \in Nat
  BY <1>1, DiffCounts DEF Placed, StatesInfo, StateInfo, Wanted
<1>4. /\ m = IF Diff(info, wanted, s) <= 0 THEN 0
             ELSE SmallerOf(Diff(info, wanted, s), Count(info, s))
      /\ \A p \in moved, q \in Placed(info, s) : q \notin moved => Rank[p] < Rank[q]
  BY <1>3, FirstTaken DEF Pushed, Count
<1> HIDE DEF moved
<1>5. m = IF Count(info, s) > wanted[s] THEN Count(info, s) - wanted[s] ELSE 0
  BY <1>3, <1>4 DEF SmallerOf
<1>6. /\ Apart(after)
      /\ SamePods(info, after)
      /\ Count(after, s) = Count(info, s) - m
      /\ Count(after, t) = Count(info, t) + m
      /\ m \in Nat
  BY <1>1, <1>2, MoveKeepsPods DEF moved
<1>7. m = 0 => moved = {}
  <2>1. IsFiniteSet(Placed(info, s))
    BY <1>3, GroupAssumption, PartsCount
  <2>2. QED
    BY <1>2, <2>1, PartsCount DEF moved
<1>8. Origin(after, running)
  <2> SUFFICES ASSUME NEW u \in RunningStates
               PROVE  /\ after[u].current \subseteq running[u]
                      /\ after[u].candidate \cap running[u] = {}
    BY DEF Origin
  <2>1. \A v \in RunningStates : /\ info[v].current \subseteq running[v]
                                 /\ info[v].candidate \cap running[v] = {}
    BY DEF Origin
  <2>2. t \in RunningStates => moved \cap running[t] = {}
    <3>1. CASE Count(info, s) > wanted[s]
      BY <1>2, <3>1
    <3>2. CASE ~ (Count(info, s) > wanted[s])
      BY <1>5, <1>7, <3>2
    <3>3. QED
      BY <3>1, <3>2
  <2>3. u \in States
    BY DEF States
  <2>4. CASE u = s
    BY <1>2, <2>1, <2>4
  <2>5. CASE u = t
    BY <1>2, <2>1, <2>2, <2>5
  <2>6. CASE u \notin {s, t}
    BY <1>2, <2>1, <2>3, <2>6
  <2>7. QED
    BY <2>4, <2>5, <2>6
<1>9. ASSUME InOrder(info) PROVE InOrder(after)
  <2>1. /\ Placed(after, s) = Placed(info, s) \ moved
        /\ Placed(after, t) = Placed(info, t) \union moved
        /\ \A u \in States \ {s, t} : Placed(after, u) = Placed(info, u)
    BY <1>1, <1>2 DEF Placed
  <2>2. \A p \in moved, q \in Placed(info, s) \ moved : Rank[p] < Rank[q]
    BY <1>4
  <2>3. /\ ~ (Position[s] < Position[t])
        /\ \A u \in States :
             /\ ~ (Position[s] < Position[u] /\ Position[u] < Position[t])
             /\ ~ (Position[t] < Position[u] /\ Position[u] < Position[s])
    BY <1>1 DEF States, RunningStates, Position
  <2> HIDE DEF Position
  <2>4. QED
    BY <1>1, <1>2, <1>9, <2>1, <2>2, <2>3, MoveKeepsOrder
<1>10. ASSUME m = 0 PROVE after = info
  <2>1. \A u \in States : after[u].current = info[u].current /\ after[u].candidate = info[u].candidate
    BY <1>1, <1>2, <1>7, <1>10
  <2>2. \A u \in States : after[u] = info[u]
    BY <1>2, <2>1 DEF StatesInfo, StateInfo
  <2>3. QED
    BY <1>2, <2>2 DEF StatesInfo
<1>11. QED
  BY <1>2, <1>5, <1>6, <1>8, <1>9, <1>10 DEF Reaches

-----------------------------------------------------------------------------
(* The three iterations of the loop. *)

\* The positions of the states, for the steps below.
LEMMA Positions ==
  /\ Position["Online"] = 3 /\ Position["Cutoff"] = 2
  /\ Position["Standby"] = 1 /\ Position["Deleted"] = 0
  /\ "Online" \in RunningStates /\ "Cutoff" \in RunningStates /\ "Standby" \in RunningStates
  /\ "Deleted" \in States /\ "Deleted" \notin RunningStates /\ RunningStates \subseteq States
  /\ \A u \in States : u \in {"Online", "Cutoff", "Standby", "Deleted"}
BY DEF Position, States, RunningStates

\* No pods means nothing counted.
LEMMA NonePlaced ==
  ASSUME NEW info \in StatesInfo, NEW s \in States
  PROVE  /\ Count(info, s) \in Nat
         /\ Count(info, s) = 0 <=> Placed(info, s) = {}
         /\ Placed(info, s) \subseteq Pod
<1>1. Placed(info, s) \subseteq Pod
  BY DEF Placed, StatesInfo, StateInfo
<1>2. QED
  BY <1>1, GroupAssumption, PartsCount DEF Count

\* The first iteration: Online has what it wants, or all there is.
LEMMA OnlineSettles ==
  ASSUME NEW running \in RunningPods, NEW wanted \in Wanted,
         NEW info \in StatesInfo, Apart(info), Origin(info, running),
         info["Online"].candidate = {}, info["Cutoff"].candidate = {},
         info["Standby"].candidate = {},
         NEW n, n = Count(info, "Online") + Count(info, "Cutoff") + Count(info, "Standby"),
         NEW after, after = SettleOnline(info, wanted)
  PROVE  /\ Reaches(info, after, running)
         /\ Count(after, "Online") = SmallerOf(wanted["Online"], n)
         /\ Count(after, "Cutoff") + Count(after, "Standby") = n - Count(after, "Online")
         /\ after["Standby"].candidate = {}
         /\ after["Cutoff"].candidate \subseteq running["Online"]
         /\ after["Deleted"] = info["Deleted"]
         /\ \/ Count(info, "Online") = wanted["Online"]
            \/ /\ Count(info, "Online") < wanted["Online"]
               /\ Count(info, "Cutoff") = 0
               /\ Count(info, "Standby") = 0
            => after = info
<1> DEFINE one == Pull(wanted, "Online", "Cutoff")[info]
           two == Pull(wanted, "Online", "Standby")[one]
           m1 == Cardinality(Pulled(info, wanted, "Online", "Cutoff"))
           m2 == Cardinality(Pulled(one, wanted, "Online", "Standby"))
           m3 == Cardinality(Pushed(two, wanted, "Online"))
<1>0. after = Push(wanted, "Online", "Cutoff")[two]
  BY DEF SettleOnline
<1>1. /\ Reaches(info, one, running)
      /\ m1 \in Nat
      /\ m1 = IF Count(info, "Online") >= wanted["Online"] THEN 0
              ELSE SmallerOf(wanted["Online"] - Count(info, "Online"), Count(info, "Cutoff"))
      /\ Count(one, "Online") = Count(info, "Online") + m1
      /\ Count(one, "Cutoff") = Count(info, "Cutoff") - m1
      /\ \A u \in States \ {"Online", "Cutoff"} : one[u] = info[u]
      /\ one["Cutoff"].candidate = {}
      /\ m1 = 0 => one = info
  <2>1. MayPull(info, wanted, running, "Online", "Cutoff")
    BY Positions DEF MayPull
  <2> HIDE DEF m1, one
  <2>2. QED
    BY <2>1, PullStep DEF m1, one
<1> HIDE DEF m1, one
<1>2. /\ one \in StatesInfo /\ Apart(one) /\ Origin(one, running)
      /\ \A u \in States : Count(info, u) \in Nat /\ Count(one, u) \in Nat
      /\ Count(one, "Standby") = Count(info, "Standby")
      /\ one["Standby"].candidate = {}
      /\ wanted["Online"] \in Nat
      /\ \/ Count(one, "Online") >= wanted["Online"]
         \/ Placed(one, "Cutoff") = {}
  <2>1. one \in StatesInfo /\ Apart(one) /\ Origin(one, running)
    BY Positions, <1>1 DEF Reaches
  <2>2. \A u \in States : Count(info, u) \in Nat /\ Count(one, u) \in Nat
    BY Positions, <2>1, NonePlaced
  <2>3. Count(one, "Standby") = Count(info, "Standby") /\ one["Standby"].candidate = {}
    BY Positions, <1>1 DEF Count, Placed
  <2>4. wanted["Online"] \in Nat
    BY Positions DEF Wanted
  <2>5. Count(one, "Online") >= wanted["Online"] \/ Count(one, "Cutoff") = 0
    BY Positions, <1>1, <2>2, <2>4 DEF SmallerOf
  <2>6. QED
    BY Positions, <2>1, <2>2, <2>3, <2>4, <2>5, NonePlaced
<1>3. /\ Reaches(one, two, running)
      /\ m2 \in Nat
      /\ m2 = IF Count(one, "Online") >= wanted["Online"] THEN 0
              ELSE SmallerOf(wanted["Online"] - Count(one, "Online"), Count(one, "Standby"))
      /\ Count(two, "Online") = Count(one, "Online") + m2
      /\ Count(two, "Standby") = Count(one, "Standby") - m2
      /\ \A u \in States \ {"Online", "Standby"} : two[u] = one[u]
      /\ two["Standby"].candidate = {}
      /\ m2 = 0 => two = one
  <2>1. MayPull(one, wanted, running, "Online", "Standby")
    BY <1>2, Positions DEF MayPull
  <2> HIDE DEF m2, two
  <2>2. QED
    BY <2>1, PullStep DEF m2, two
<1> HIDE DEF m2, two
<1>4. /\ two \in StatesInfo /\ Apart(two) /\ Origin(two, running)
      /\ \A u \in States : Count(two, u) \in Nat
      /\ Count(two, "Cutoff") = Count(one, "Cutoff")
      /\ two["Cutoff"].candidate = {}
      /\ Count(two, "Online") > wanted["Online"] => m1 = 0 /\ m2 = 0
  <2>1. two \in StatesInfo /\ Apart(two) /\ Origin(two, running)
    BY Positions, <1>3 DEF Reaches
  <2>2. \A u \in States : Count(two, u) \in Nat
    BY Positions, <2>1, NonePlaced
  <2>3. Count(two, "Cutoff") = Count(one, "Cutoff") /\ two["Cutoff"].candidate = {}
    BY Positions, <1>1, <1>3 DEF Count, Placed
  <2>4. Count(two, "Online") > wanted["Online"] => m1 = 0 /\ m2 = 0
    BY Positions, <1>1, <1>2, <1>3 DEF SmallerOf
  <2>5. QED
    BY Positions, <2>1, <2>2, <2>3, <2>4
<1>5. Count(two, "Online") > wanted["Online"] => Placed(two, "Online") \subseteq running["Online"]
  BY Positions, <1>1, <1>3, <1>4 DEF Origin, Placed
<1>6. /\ Reaches(two, after, running)
      /\ m3 \in Nat
      /\ m3 = IF Count(two, "Online") > wanted["Online"]
              THEN Count(two, "Online") - wanted["Online"] ELSE 0
      /\ Count(after, "Online") = Count(two, "Online") - m3
      /\ Count(after, "Cutoff") = Count(two, "Cutoff") + m3
      /\ \A u \in States \ {"Online", "Cutoff"} : after[u] = two[u]
      /\ after["Cutoff"].candidate \subseteq two["Cutoff"].candidate \union Placed(two, "Online")
      /\ m3 = 0 => after = two
  <2>1. Count(two, "Online") > wanted["Online"] => Placed(two, "Online") \cap running["Cutoff"] = {}
    BY Positions, <1>5 DEF RunningPods
  <2> HIDE DEF m3
  <2>2. Position["Online"] = Position["Cutoff"] + 1
    BY Positions
  <2>3. QED
    BY Positions, <1>0, <1>4, <2>1, <2>2, PushStep DEF m3
<1> HIDE DEF m3
<1>7. Reaches(info, after, running)
  BY <1>1, <1>3, <1>6, ReachesOn
<1>8. Count(after, "Standby") = Count(two, "Standby")
  BY Positions, <1>6 DEF Count, Placed
<1>9. /\ Count(after, "Online") = SmallerOf(wanted["Online"], n)
      /\ Count(after, "Cutoff") + Count(after, "Standby") = n - Count(after, "Online")
  <2>1. /\ Count(info, "Online") \in Nat /\ Count(info, "Cutoff") \in Nat
        /\ Count(info, "Standby") \in Nat /\ wanted["Online"] \in Nat
    BY Positions, <1>2
  <2>2. /\ Count(after, "Online") = Count(info, "Online") + m1 + m2 - m3
        /\ Count(after, "Cutoff") = Count(info, "Cutoff") - m1 + m3
        /\ Count(after, "Standby") = Count(info, "Standby") - m2
    BY Positions, <1>1, <1>2, <1>3, <1>4, <1>6, <1>8, <2>1
  <2>3. Count(info, "Online") + m1 + m2 - m3 = SmallerOf(wanted["Online"], n)
    <3>1. CASE Count(info, "Online") >= wanted["Online"]
      BY Positions, <1>1, <1>2, <1>3, <1>4, <1>6, <2>1, <3>1 DEF SmallerOf
    <3>2. CASE Count(info, "Online") < wanted["Online"] /\ Count(one, "Online") >= wanted["Online"]
      <4>1. m2 = 0 /\ m1 = wanted["Online"] - Count(info, "Online")
        BY Positions, <1>1, <1>3, <2>1, <3>2 DEF SmallerOf
      <4>2. m3 = 0 /\ m1 <= Count(info, "Cutoff")
        BY Positions, <1>1, <1>3, <1>6, <2>1, <3>2, <4>1 DEF SmallerOf
      <4>3. QED
        BY Positions, <2>1, <4>1, <4>2 DEF SmallerOf
    <3>3. CASE Count(info, "Online") < wanted["Online"] /\ Count(one, "Online") < wanted["Online"]
      <4>1. m1 = Count(info, "Cutoff")
        BY Positions, <1>1, <2>1, <3>3 DEF SmallerOf
      <4>2. m2 = SmallerOf(wanted["Online"] - Count(info, "Online") - m1, Count(info, "Standby"))
        BY Positions, <1>1, <1>2, <1>3, <2>1, <3>3
      <4>3. m3 = 0
        BY Positions, <1>1, <1>3, <1>6, <2>1, <3>3, <4>1, <4>2 DEF SmallerOf
      <4>4. QED
        BY Positions, <2>1, <4>1, <4>2, <4>3 DEF SmallerOf
    <3>4. QED
      BY Positions, <1>1, <2>1, <3>1, <3>2, <3>3
  <2>4. QED
    BY Positions, <1>1, <1>3, <1>6, <2>1, <2>2, <2>3
<1>10. after["Cutoff"].candidate \subseteq running["Online"]
  BY Positions, <1>4, <1>5, <1>6
<1>11. after["Standby"].candidate = {} /\ after["Deleted"] = info["Deleted"]
  BY Positions, <1>1, <1>3, <1>6
<1>12. \/ Count(info, "Online") = wanted["Online"]
       \/ /\ Count(info, "Online") < wanted["Online"]
          /\ Count(info, "Cutoff") = 0
          /\ Count(info, "Standby") = 0
       => m1 = 0 /\ m2 = 0 /\ m3 = 0
  BY Positions, <1>1, <1>2, <1>3, <1>4, <1>6 DEF SmallerOf
<1>13. QED
  BY Positions, <1>1, <1>3, <1>6, <1>7, <1>9, <1>10, <1>11, <1>12

\* The second iteration: Cutoff has what it wants, or all that Online left.
LEMMA CutoffSettles ==
  ASSUME NEW running \in RunningPods, NEW wanted \in Wanted,
         NEW info \in StatesInfo, Apart(info), Origin(info, running),
         info["Standby"].candidate = {},
         info["Cutoff"].candidate \subseteq running["Online"],
         NEW n, n = Count(info, "Cutoff") + Count(info, "Standby"),
         NEW after, after = SettleCutoff(info, wanted)
  PROVE  /\ Reaches(info, after, running)
         /\ Count(after, "Online") = Count(info, "Online")
         /\ Count(after, "Cutoff") = SmallerOf(wanted["Cutoff"], n)
         /\ Count(after, "Standby") = n - Count(after, "Cutoff")
         /\ after["Deleted"] = info["Deleted"]
         /\ \/ Count(info, "Cutoff") = wanted["Cutoff"]
            \/ /\ Count(info, "Cutoff") < wanted["Cutoff"]
               /\ Count(info, "Standby") = 0
            => after = info
<1> DEFINE one == Pull(wanted, "Cutoff", "Standby")[info]
           m1 == Cardinality(Pulled(info, wanted, "Cutoff", "Standby"))
           m2 == Cardinality(Pushed(one, wanted, "Cutoff"))
<1>0. after = Push(wanted, "Cutoff", "Standby")[one]
  BY DEF SettleCutoff
<1>1. /\ Reaches(info, one, running)
      /\ m1 \in Nat
      /\ m1 = IF Count(info, "Cutoff") >= wanted["Cutoff"] THEN 0
              ELSE SmallerOf(wanted["Cutoff"] - Count(info, "Cutoff"), Count(info, "Standby"))
      /\ Count(one, "Cutoff") = Count(info, "Cutoff") + m1
      /\ Count(one, "Standby") = Count(info, "Standby") - m1
      /\ \A u \in States \ {"Cutoff", "Standby"} : one[u] = info[u]
      /\ m1 = 0 => one = info
  <2>1. MayPull(info, wanted, running, "Cutoff", "Standby")
    BY Positions DEF MayPull
  <2> HIDE DEF m1, one
  <2>2. QED
    BY <2>1, PullStep DEF m1, one
<1> HIDE DEF m1, one
<1>2. /\ one \in StatesInfo /\ Apart(one) /\ Origin(one, running)
      /\ \A u \in States : Count(info, u) \in Nat /\ Count(one, u) \in Nat
      /\ wanted["Cutoff"] \in Nat
  <2>1. one \in StatesInfo /\ Apart(one) /\ Origin(one, running)
    BY Positions, <1>1 DEF Reaches
  <2>2. QED
    BY Positions, <2>1, NonePlaced DEF Wanted
<1>3. Count(one, "Cutoff") > wanted["Cutoff"] => one = info
  BY Positions, <1>1, <1>2 DEF SmallerOf
<1>4. Count(one, "Cutoff") > wanted["Cutoff"] => Placed(one, "Cutoff") \cap running["Standby"] = {}
  <2> SUFFICES ASSUME Count(one, "Cutoff") > wanted["Cutoff"]
               PROVE  Placed(one, "Cutoff") \cap running["Standby"] = {}
    BY Positions
  <2>1. Placed(one, "Cutoff") \subseteq running["Cutoff"] \union running["Online"]
    BY Positions, <1>3 DEF Placed, Origin
  <2>2. /\ running["Cutoff"] \cap running["Standby"] = {}
        /\ running["Online"] \cap running["Standby"] = {}
    BY Positions DEF RunningPods
  <2>3. QED
    BY Positions, <2>1, <2>2
<1>5. /\ Reaches(one, after, running)
      /\ m2 \in Nat
      /\ m2 = IF Count(one, "Cutoff") > wanted["Cutoff"]
              THEN Count(one, "Cutoff") - wanted["Cutoff"] ELSE 0
      /\ Count(after, "Cutoff") = Count(one, "Cutoff") - m2
      /\ Count(after, "Standby") = Count(one, "Standby") + m2
      /\ \A u \in States \ {"Cutoff", "Standby"} : after[u] = one[u]
      /\ m2 = 0 => after = one
  <2> HIDE DEF m2
  <2>1. Position["Cutoff"] = Position["Standby"] + 1
    BY Positions
  <2>2. QED
    BY Positions, <1>0, <1>2, <1>4, <2>1, PushStep DEF m2
<1> HIDE DEF m2
<1>6. Reaches(info, after, running)
  BY <1>1, <1>5, ReachesOn
<1>7. after["Deleted"] = info["Deleted"] /\ after["Online"] = info["Online"]
  BY Positions, <1>1, <1>5
<1>8. Count(after, "Online") = Count(info, "Online")
  BY Positions, <1>7 DEF Count, Placed
<1>9. /\ Count(after, "Cutoff") = SmallerOf(wanted["Cutoff"], n)
      /\ Count(after, "Standby") = n - Count(after, "Cutoff")
  BY Positions, <1>1, <1>2, <1>5 DEF SmallerOf
<1>10. \/ Count(info, "Cutoff") = wanted["Cutoff"]
       \/ Count(info, "Cutoff") < wanted["Cutoff"] /\ Count(info, "Standby") = 0
       => m1 = 0 /\ m2 = 0
  BY Positions, <1>1, <1>2, <1>5 DEF SmallerOf
<1>11. QED
  BY Positions, <1>1, <1>5, <1>6, <1>7, <1>8, <1>9, <1>10

\* The last iteration: Standby keeps what it wants of the rest.
LEMMA StandbySettles ==
  ASSUME NEW running \in RunningPods, NEW wanted \in Wanted,
         NEW info \in StatesInfo, Apart(info), Origin(info, running),
         NEW after, after = SettleStandby(info, wanted)
  PROVE  /\ Reaches(info, after, running)
         /\ Count(after, "Online") = Count(info, "Online")
         /\ Count(after, "Cutoff") = Count(info, "Cutoff")
         /\ Count(after, "Standby") = SmallerOf(wanted["Standby"], Count(info, "Standby"))
         /\ Count(after, "Deleted") =
              Count(info, "Deleted") + Count(info, "Standby") - Count(after, "Standby")
         /\ after["Deleted"].current = info["Deleted"].current
         /\ Count(info, "Standby") <= wanted["Standby"] => after = info
<1> DEFINE m == Cardinality(Pushed(info, wanted, "Standby"))
<1>0. after = Push(wanted, "Standby", "Deleted")[info]
  BY DEF SettleStandby
<1>1. /\ Reaches(info, after, running)
      /\ m \in Nat
      /\ m = IF Count(info, "Standby") > wanted["Standby"]
             THEN Count(info, "Standby") - wanted["Standby"] ELSE 0
      /\ Count(after, "Standby") = Count(info, "Standby") - m
      /\ Count(after, "Deleted") = Count(info, "Deleted") + m
      /\ \A u \in States \ {"Standby", "Deleted"} : after[u] = info[u]
      /\ after["Deleted"].current = info["Deleted"].current
      /\ m = 0 => after = info
  <2> HIDE DEF m
  <2>1. Position["Standby"] = Position["Deleted"] + 1
    BY Positions
  <2>2. QED
    BY Positions, <1>0, <2>1, PushStep DEF m
<1> HIDE DEF m
<1>2. Count(info, "Standby") \in Nat /\ Count(info, "Deleted") \in Nat /\ wanted["Standby"] \in Nat
  BY Positions, NonePlaced DEF Wanted
<1>3. Count(after, "Online") = Count(info, "Online") /\ Count(after, "Cutoff") = Count(info, "Cutoff")
  BY Positions, <1>1 DEF Count, Placed
<1>4. /\ Count(after, "Standby") = SmallerOf(wanted["Standby"], Count(info, "Standby"))
      /\ Count(after, "Deleted") =
           Count(info, "Deleted") + Count(info, "Standby") - Count(after, "Standby")
  BY Positions, <1>1, <1>2 DEF SmallerOf
<1>5. Count(info, "Standby") <= wanted["Standby"] => m = 0
  BY Positions, <1>1, <1>2
<1>6. QED
  BY Positions, <1>1, <1>3, <1>4, <1>5

-----------------------------------------------------------------------------
(* The whole calculation, applied over and over. *)

\* The replicas wanted have room for all running pods.
Fits ==
  Cardinality(Running) <= desired["Online"] + desired["Cutoff"] + desired["Standby"]

\* The pods are spread as filling the states in order would spread them.
Balanced == \A s \in RunningStates : Cardinality(Current[s]) = Greedy[s]

(***************************************************************************)
(* The inductive invariant.  SettlesSoon alone says nothing of the states  *)
(* before: one round before the end the pods are ordered, or the first     *)
(* round has already removed all that is too much; at the end every state  *)
(* has what it is to have.                                                 *)
(***************************************************************************)
SettlingInv ==
  /\ TypeOK
  /\ Calculated => final = FinalInfo(Current, desired)
  /\ rounds = 1 => Ordered \/ Fits
  /\ rounds = 0 => Balanced

\* The labels give every running pod one state.
LEMMA CurrentTyped ==
  ASSUME TypeOK
  PROVE  /\ Current \in RunningPods
         /\ desired \in Wanted
         /\ Running \subseteq Pod
         /\ Running = Current["Online"] \union Current["Cutoff"] \union Current["Standby"]
<1>1. Current \in RunningPods
  BY DEF Current, RunningPods
<1>2. desired \in Wanted
  BY GroupAssumption DEF TypeOK, Wanted
<1>3. Running = Current["Online"] \union Current["Cutoff"] \union Current["Standby"]
  BY DEF TypeOK, Running, Current, States, RunningStates
<1>4. QED
  BY <1>1, <1>2, <1>3 DEF Running

\* The running pods are counted state by state.
LEMMA RunningCount ==
  ASSUME TypeOK
  PROVE  /\ IsFiniteSet(Running)
         /\ Cardinality(Running) \in Nat
         /\ \A s \in RunningStates : Cardinality(Current[s]) \in Nat
         /\ Cardinality(Running) = Cardinality(Current["Online"])
              + Cardinality(Current["Cutoff"]) + Cardinality(Current["Standby"])
<1>1. /\ Current \in RunningPods
      /\ Running = Current["Online"] \union Current["Cutoff"] \union Current["Standby"]
      /\ Running \subseteq Pod
  BY CurrentTyped
<1>2. \A s \in RunningStates : /\ IsFiniteSet(Current[s])
                               /\ Cardinality(Current[s]) \in Nat
  BY <1>1, GroupAssumption, PartsCount DEF RunningPods
<1>3. /\ Current["Online"] \cap Current["Cutoff"] = {}
      /\ (Current["Online"] \union Current["Cutoff"]) \cap Current["Standby"] = {}
  BY DEF Current, RunningStates
<1>4. /\ IsFiniteSet(Current["Online"] \union Current["Cutoff"])
      /\ Cardinality(Current["Online"] \union Current["Cutoff"]) =
           Cardinality(Current["Online"]) + Cardinality(Current["Cutoff"])
  BY <1>2, <1>3, Positions, CountBoth
<1>5. Cardinality(Running) =
        Cardinality(Current["Online"] \union Current["Cutoff"]) + Cardinality(Current["Standby"])
  BY <1>1, <1>2, <1>3, <1>4, Positions, CountBoth
<1>6. QED
  BY <1>1, <1>2, <1>4, <1>5, GroupAssumption, PartsCount

\* What the calculation starts with.
LEMMA StartingInfo ==
  ASSUME TypeOK, NEW info, info = NewStateInfo(Current)
  PROVE  /\ info \in StatesInfo
         /\ Apart(info)
         /\ Origin(info, Current)
         /\ \A s \in States : info[s].candidate = {}
         /\ info["Deleted"].current = {}
         /\ \A s \in RunningStates : /\ Placed(info, s) = Current[s]
                                     /\ Count(info, s) = Cardinality(Current[s])
         /\ Placed(info, "Deleted") = {}
         /\ Count(info, "Deleted") = 0
         /\ Ordered => InOrder(info)
<1>1. Current \in RunningPods
  BY CurrentTyped
<1>2. /\ info \in StatesInfo
      /\ \A s \in RunningStates : info[s].current = Current[s]
      /\ \A s \in States : info[s].candidate = {}
      /\ info["Deleted"].current = {}
  BY <1>1, Positions DEF NewStateInfo, StatesInfo, StateInfo, RunningPods
<1>3. \A s \in RunningStates : Placed(info, s) = Current[s] /\ Count(info, s) = Cardinality(Current[s])
  BY <1>2, Positions DEF Placed, Count
<1>4. Placed(info, "Deleted") = {} /\ Count(info, "Deleted") = 0
  BY <1>2, Positions, FS_EmptySet DEF Placed, Count
<1>5. Apart(info)
  BY <1>1, <1>2, <1>3, <1>4, Positions DEF Apart, RunningPods, States
<1>6. Origin(info, Current)
  BY <1>2, Positions DEF Origin
<1>7. ASSUME Ordered PROVE InOrder(info)
  <2> SUFFICES ASSUME NEW s \in States, NEW t \in States, Position[s] < Position[t],
                      NEW p \in Placed(info, s), NEW q \in Placed(info, t)
               PROVE  Rank[p] < Rank[q]
    BY DEF InOrder
  <2>1. s \in RunningStates /\ t \in RunningStates
    BY <1>4 DEF States
  <2>2. p \in Current[s] /\ q \in Current[t]
    BY <1>3, <2>1
  <2>3. p \in Running /\ q \in Running /\ state[p] = s /\ state[q] = t
    BY <2>1, <2>2, Positions DEF Current, Running
  <2>4. QED
    BY <1>7, <2>3 DEF Ordered
<1>8. QED
  BY <1>2, <1>3, <1>4, <1>5, <1>6, <1>7

\* What the calculation ends with.
LEMMA FinalFacts ==
  ASSUME TypeOK, NEW f, f = FinalInfo(Current, desired)
  PROVE  /\ f \in StatesInfo
         /\ Apart(f)
         /\ Origin(f, Current)
         /\ Ordered => InOrder(f)
         /\ f["Deleted"].current = {}
         /\ \A p \in Pod : p \in Running <=> \E s \in States : p \in Placed(f, s)
         /\ \A s \in States : Count(f, s) \in Nat /\ Count(f, s) = Greedy[s]
         /\ Balanced => \A s \in States : f[s].candidate = {}
<1> DEFINE zero == NewStateInfo(Current)
           one == SettleOnline(zero, desired)
           two == SettleCutoff(one, desired)
           n == Cardinality(Running)
           left == Count(one, "Cutoff") + Count(one, "Standby")
<1>1. f = SettleStandby(two, desired)
  BY DEF FinalInfo
<1>2. /\ zero \in StatesInfo /\ Apart(zero) /\ Origin(zero, Current)
      /\ \A s \in States : zero[s].candidate = {}
      /\ zero["Deleted"].current = {}
      /\ \A s \in RunningStates : /\ Placed(zero, s) = Current[s]
                                  /\ Count(zero, s) = Cardinality(Current[s])
      /\ Placed(zero, "Deleted") = {}
      /\ Count(zero, "Deleted") = 0
      /\ Ordered => InOrder(zero)
  <2> HIDE DEF zero
  <2>1. QED
    BY StartingInfo DEF zero
<1> HIDE DEF zero
<1>3. Current \in RunningPods /\ desired \in Wanted
  BY CurrentTyped
<1>4. /\ n \in Nat
      /\ n = Count(zero, "Online") + Count(zero, "Cutoff") + Count(zero, "Standby")
  BY <1>2, RunningCount, Positions
<1>5. /\ Reaches(zero, one, Current)
      /\ Count(one, "Online") = SmallerOf(desired["Online"], n)
      /\ left = n - Count(one, "Online")
      /\ one["Standby"].candidate = {}
      /\ one["Cutoff"].candidate \subseteq Current["Online"]
      /\ one["Deleted"] = zero["Deleted"]
      /\ \/ Count(zero, "Online") = desired["Online"]
         \/ /\ Count(zero, "Online") < desired["Online"]
            /\ Count(zero, "Cutoff") = 0
            /\ Count(zero, "Standby") = 0
         => one = zero
  <2>1. /\ zero["Online"].candidate = {} /\ zero["Cutoff"].candidate = {}
        /\ zero["Standby"].candidate = {}
    BY <1>2, Positions
  <2> HIDE DEF one, n
  <2>2. QED
    BY <1>2, <1>3, <1>4, <2>1, OnlineSettles DEF one
<1> HIDE DEF one
<1>6. one \in StatesInfo /\ Apart(one) /\ Origin(one, Current)
  BY <1>5 DEF Reaches
<1>7. /\ Reaches(one, two, Current)
      /\ Count(two, "Online") = Count(one, "Online")
      /\ Count(two, "Cutoff") = SmallerOf(desired["Cutoff"], left)
      /\ Count(two, "Standby") = left - Count(two, "Cutoff")
      /\ two["Deleted"] = one["Deleted"]
      /\ \/ Count(one, "Cutoff") = desired["Cutoff"]
         \/ /\ Count(one, "Cutoff") < desired["Cutoff"]
            /\ Count(one, "Standby") = 0
         => two = one
  <2>1. one["Standby"].candidate = {} /\ one["Cutoff"].candidate \subseteq Current["Online"]
    BY <1>5
  <2> HIDE DEF two
  <2>2. QED
    BY <1>3, <1>6, <2>1, CutoffSettles DEF two
<1> HIDE DEF two, left
<1>8. two \in StatesInfo /\ Apart(two) /\ Origin(two, Current)
  BY <1>7 DEF Reaches
<1>9. /\ Reaches(two, f, Current)
      /\ Count(f, "Online") = Count(two, "Online")
      /\ Count(f, "Cutoff") = Count(two, "Cutoff")
      /\ Count(f, "Standby") = SmallerOf(desired["Standby"], Count(two, "Standby"))
      /\ Count(f, "Deleted") = Count(two, "Deleted") + Count(two, "Standby") - Count(f, "Standby")
      /\ f["Deleted"].current = two["Deleted"].current
      /\ Count(two, "Standby") <= desired["Standby"] => f = two
  BY <1>1, <1>3, <1>8, StandbySettles
<1>10. Reaches(zero, f, Current)
  BY <1>5, <1>7, <1>9, ReachesOn
<1>11. /\ f \in StatesInfo /\ Apart(f) /\ Origin(f, Current)
       /\ Ordered => InOrder(f)
  BY <1>2, <1>10 DEF Reaches
<1>12. f["Deleted"].current = {} /\ Count(two, "Deleted") = 0
  BY <1>2, <1>5, <1>7, <1>9 DEF Count, Placed
<1>13. \A p \in Pod : p \in Running <=> \E s \in States : p \in Placed(f, s)
  <2>1. \A p \in Pod : p \in Running <=> \E s \in States : p \in Placed(zero, s)
    BY <1>2, CurrentTyped DEF States, RunningStates
  <2>2. QED
    BY <1>10, <2>1 DEF Reaches, SamePods
<1>14. /\ desired["Online"] \in Nat /\ desired["Cutoff"] \in Nat /\ desired["Standby"] \in Nat
       /\ \A s \in States : Count(f, s) \in Nat /\ Count(zero, s) \in Nat
  BY <1>2, <1>3, <1>11, NonePlaced, Positions DEF Wanted
<1>15. /\ Count(f, "Online") = SmallerOf(desired["Online"], n)
       /\ Count(f, "Cutoff") = SmallerOf(desired["Cutoff"], n - Count(f, "Online"))
       /\ Count(f, "Standby") = SmallerOf(desired["Standby"], n - Count(f, "Online") - Count(f, "Cutoff"))
       /\ Count(f, "Deleted") = n - Count(f, "Online") - Count(f, "Cutoff") - Count(f, "Standby")
  <2>1. Count(f, "Online") = SmallerOf(desired["Online"], n) /\ left = n - Count(f, "Online")
    BY <1>5, <1>7, <1>9
  <2>2. Count(f, "Cutoff") = SmallerOf(desired["Cutoff"], n - Count(f, "Online"))
    BY <1>7, <1>9, <2>1
  <2>3. Count(two, "Standby") = n - Count(f, "Online") - Count(f, "Cutoff")
    BY <1>7, <1>9, <2>1
  <2>4. Count(f, "Deleted") = 0 + Count(two, "Standby") - Count(f, "Standby")
    BY <1>9, <1>12
  <2>5. Count(f, "Online") \in Nat /\ Count(f, "Cutoff") \in Nat /\ Count(f, "Standby") \in Nat
    BY <1>14, Positions
  <2> HIDE DEF n
  <2>6. QED
    BY <1>4, <1>9, <2>1, <2>2, <2>3, <2>4, <2>5
<1>16. \A s \in States : Count(f, s) = Greedy[s]
  BY <1>15 DEF Greedy, States, RunningStates
<1>17. ASSUME Balanced PROVE \A s \in States : f[s].candidate = {}
  <2>1. /\ Count(zero, "Online") = SmallerOf(desired["Online"], n)
        /\ Count(zero, "Cutoff") = SmallerOf(desired["Cutoff"], n - Count(zero, "Online"))
        /\ Count(zero, "Standby") =
             SmallerOf(desired["Standby"], n - Count(zero, "Online") - Count(zero, "Cutoff"))
    BY <1>2, <1>17, Positions DEF Balanced, Greedy
  <2>2. Count(zero, "Online") \in Nat /\ Count(zero, "Cutoff") \in Nat /\ Count(zero, "Standby") \in Nat
    BY <1>14, Positions
  <2>3. one = zero
    BY <1>4, <1>5, <1>14, <2>1, <2>2 DEF SmallerOf
  <2>4. two = one
    BY <1>4, <1>7, <1>14, <2>1, <2>2, <2>3 DEF SmallerOf
  <2>5. f = two
    BY <1>4, <1>9, <1>14, <2>1, <2>2, <2>3, <2>4 DEF SmallerOf
  <2>6. QED
    BY <1>2, <2>3, <2>4, <2>5
<1>18. QED
  BY <1>11, <1>12, <1>13, <1>14, <1>16, <1>17

\* In ordered pods the calculation deletes those that come first.
LEMMA DeletedComeFirst ==
  ASSUME TypeOK, NEW f, f = FinalInfo(Current, desired), Ordered
  PROVE  FirstSorted(Cardinality(f["Deleted"].candidate), Running) = f["Deleted"].candidate
<1> DEFINE D == f["Deleted"].candidate
           c == Cardinality(D)
           first == FirstSorted(c, Running)
<1>1. /\ f \in StatesInfo /\ InOrder(f) /\ f["Deleted"].current = {}
      /\ \A p \in Pod : p \in Running <=> \E s \in States : p \in Placed(f, s)
  BY FinalFacts
<1>2. Running \in SUBSET Pod /\ IsFiniteSet(Running) /\ Cardinality(Running) \in Nat
  BY CurrentTyped, RunningCount
<1>3. Placed(f, "Deleted") = D
  BY <1>1 DEF Placed
<1>4. D \subseteq Running
  BY <1>1, <1>3, Positions DEF StatesInfo, StateInfo
<1>5. BeginningOf(Rank, D, Running)
  <2> SUFFICES ASSUME NEW p \in D, NEW q \in Running, Rank[q] < Rank[p] PROVE q \in D
    BY <1>4 DEF BeginningOf
  <2>1. p \in Pod /\ q \in Pod
    BY <1>2, <1>4
  <2>2. PICK s \in States : q \in Placed(f, s)
    BY <1>1, <2>1
  <2>3. CASE s = "Deleted"
    BY <1>3, <2>2, <2>3
  <2>4. CASE s # "Deleted"
    <3>1. Position["Deleted"] < Position[s]
      BY <2>4, Positions
    <3>2. Rank[p] < Rank[q]
      BY <1>1, <1>3, <2>2, <3>1, Positions DEF InOrder
    <3>3. QED
      BY <2>1, <3>2, RankAssumption
  <2>5. QED
    BY <2>3, <2>4
<1>6. c \in Nat /\ c <= Cardinality(Running)
  BY <1>2, <1>4, PartsCount
<1> HIDE DEF D, c
<1>7. first = Start(Rank, c, Running) /\ Cardinality(first) = c
  BY <1>2, <1>6, FirstTaken DEF SmallerOf
<1>8. BeginningOf(Rank, first, Running)
  BY <1>2, <1>6, <1>7, SorterOrders, StartIsBeginning
<1>9. first = D
  <2> HIDE DEF first
  <2>1. Cardinality(first) = Cardinality(D)
    BY <1>7 DEF c
  <2>2. QED
    BY <1>2, <1>5, <1>8, <2>1, SorterOrders, BeginningBySize
<1>10. QED
  BY <1>9 DEF D, c

\* Applying a change leaves as many pods as the states are to have, and when
\* the workload removes the pods the change names, each in its place.
LEMMA AppliedChange ==
  ASSUME SettlingInv, Apply
  PROVE  /\ state' \in [Pod -> States]
         /\ Cardinality(Running') = Cardinality(Running) - Greedy["Deleted"]
         /\ Ordered \/ Greedy["Deleted"] = 0
            => \A s \in RunningStates : Cardinality((Current[s])') = Greedy[s]
<1> DEFINE D == final["Deleted"].candidate
           removed == WorkloadRemoves(Cardinality(Change["Deleted"]))
<1>1. TypeOK /\ final = FinalInfo(Current, desired)
  BY DEF SettlingInv, Apply
<1>2. /\ final \in StatesInfo /\ Apart(final) /\ Origin(final, Current)
      /\ final["Deleted"].current = {}
      /\ \A p \in Pod : p \in Running <=> \E s \in States : p \in Placed(final, s)
      /\ \A s \in States : Count(final, s) \in Nat /\ Count(final, s) = Greedy[s]
  BY <1>1, FinalFacts
<1>3. Running \in SUBSET Pod /\ IsFiniteSet(Running) /\ Cardinality(Running) \in Nat
  BY <1>1, CurrentTyped, RunningCount
<1>4. /\ \A s \in States : Change[s] = final[s].candidate
      /\ Placed(final, "Deleted") = D
      /\ D \subseteq Running
      /\ Cardinality(D) = Greedy["Deleted"] /\ Cardinality(D) \in Nat
      /\ Cardinality(D) <= Cardinality(Running)
  <2>1. \A s \in States : Change[s] = final[s].candidate
    BY DEF Change
  <2>2. Placed(final, "Deleted") = D
    BY <1>2 DEF Placed
  <2>3. D \subseteq Running
    BY <1>2, <2>2, Positions DEF StatesInfo, StateInfo
  <2>4. Cardinality(D) = Greedy["Deleted"] /\ Cardinality(D) \in Nat
    BY <1>2, <2>2, Positions DEF Count
  <2>5. QED
    BY <1>3, <2>1, <2>2, <2>3, <2>4, PartsCount
<1>5. /\ removed = FirstSorted(Cardinality(D), Running)
      /\ removed \subseteq Running
      /\ Cardinality(removed) = Cardinality(D)
  <2>1. removed = FirstSorted(Cardinality(D), Running)
    BY <1>4, Positions DEF WorkloadRemoves
  <2> DEFINE c == Cardinality(D)
             n == Cardinality(Running)
  <2>2. c \in Nat /\ n \in Nat /\ c <= n
    BY <1>3, <1>4
  <2> HIDE DEF removed, c, n
  <2>3. removed \subseteq Running /\ Cardinality(removed) = IF c <= 0 THEN 0 ELSE SmallerOf(c, n)
    BY <1>3, <2>1, <2>2, FirstTaken DEF c, n
  <2>4. Cardinality(removed) = c
    BY <2>2, <2>3 DEF SmallerOf
  <2>5. QED
    BY <2>1, <2>3, <2>4 DEF c
<1>6. state' = [p \in Pod |->
        CASE p \in removed -> "Deleted"
          [] p \in Change["Online"] \ removed -> "Online"
          [] p \in Change["Cutoff"] \ removed -> "Cutoff"
          [] p \in Change["Standby"] \ removed -> "Standby"
          [] OTHER -> state[p]]
  BY DEF Apply
<1> HIDE DEF D, removed
<1>7. \A s, t \in States : s # t => Change[s] \cap Change[t] = {}
  BY <1>2, <1>4 DEF Apart, Placed
<1>8. \A p \in Pod :
        /\ p \in removed => state'[p] = "Deleted"
        /\ p \notin removed =>
             /\ \A s \in RunningStates : p \in Change[s] => state'[p] = s
             /\ (\A s \in RunningStates : p \notin Change[s]) => state'[p] = state[p]
  <2> SUFFICES ASSUME NEW p \in Pod
               PROVE  /\ p \in removed => state'[p] = "Deleted"
                      /\ p \notin removed =>
                           /\ \A s \in RunningStates : p \in Change[s] => state'[p] = s
                           /\ (\A s \in RunningStates : p \notin Change[s]) => state'[p] = state[p]
    OBVIOUS
  <2>1. /\ ~ (p \in Change["Online"] /\ p \in Change["Cutoff"])
        /\ ~ (p \in Change["Online"] /\ p \in Change["Standby"])
        /\ ~ (p \in Change["Cutoff"] /\ p \in Change["Standby"])
    BY <1>7, Positions
  <2>2. CASE p \in removed
    BY <1>6, <2>2
  <2>3. CASE p \notin removed
    BY <1>6, <2>1, <2>3 DEF RunningStates
  <2>4. QED
    BY <2>2, <2>3
<1>9. state' \in [Pod -> States]
  <2>1. \A p \in Pod : state'[p] \in States
    <3> SUFFICES ASSUME NEW p \in Pod PROVE state'[p] \in States
      OBVIOUS
    <3>1. state[p] \in States
      BY <1>1 DEF TypeOK
    <3>2. QED
      BY <1>8, <3>1, Positions
  <2>2. QED
    BY <1>6, <2>1
<1>10. \A s \in RunningStates : Change[s] \subseteq Running
  BY <1>2, <1>4, Positions DEF Placed, StatesInfo, StateInfo
<1>11. Running' = Running \ removed
  <2>1. \A p \in Pod : state'[p] # "Deleted" <=> state[p] # "Deleted" /\ p \notin removed
    <3> SUFFICES ASSUME NEW p \in Pod
                 PROVE  state'[p] # "Deleted" <=> state[p] # "Deleted" /\ p \notin removed
      OBVIOUS
    <3>1. CASE p \in removed
      BY <1>8, <3>1
    <3>2. CASE p \notin removed /\ \A s \in RunningStates : p \notin Change[s]
      BY <1>8, <3>2
    <3>3. CASE p \notin removed /\ \E s \in RunningStates : p \in Change[s]
      <4>1. PICK s \in RunningStates : p \in Change[s]
        BY <3>3
      <4>2. state'[p] = s
        BY <1>8, <3>3, <4>1
      <4>3. QED
        BY <1>10, <3>3, <4>1, <4>2, Positions DEF Running
    <3>4. QED
      BY <3>1, <3>2, <3>3
  <2>2. QED
    BY <2>1 DEF Running
<1>12. Cardinality(Running') = Cardinality(Running) - Greedy["Deleted"]
  <2>1. Running \cap removed = removed
    BY <1>5
  <2>2. QED
    BY <1>3, <1>4, <1>5, <1>11, <2>1, FS_Difference
<1>13. ASSUME Ordered \/ Greedy["Deleted"] = 0, NEW s \in RunningStates
       PROVE  Cardinality((Current[s])') = Greedy[s]
  <2>1. removed = D
    <3>1. CASE Ordered
      BY <1>1, <1>5, <3>1, DeletedComeFirst DEF D
    <3>2. CASE Greedy["Deleted"] = 0
      <4>1. IsFiniteSet(removed) /\ IsFiniteSet(D)
        BY <1>3, <1>4, <1>5, PartsCount
      <4>2. removed = {} /\ D = {}
        BY <1>4, <1>5, <3>2, <4>1, FS_EmptySet
      <4>3. QED
        BY <4>2
    <3>3. QED
      BY <1>13, <3>1, <3>2
  <2>2. (Current[s])' = {p \in Pod : state'[p] = s}
    BY DEF Current
  <2>3. \A p \in Pod : state'[p] = s <=> p \in Placed(final, s)
    <3> SUFFICES ASSUME NEW p \in Pod PROVE state'[p] = s <=> p \in Placed(final, s)
      OBVIOUS
    <3>1. \A t \in States : t # s => ~ (p \in Placed(final, s) /\ p \in Placed(final, t))
      BY <1>2, Positions DEF Apart
    <3>2. CASE p \in removed
      <4>1. p \in Placed(final, "Deleted") /\ state'[p] = "Deleted"
        BY <1>4, <1>8, <2>1, <3>2
      <4>2. QED
        BY <3>1, <4>1, Positions
    <3>3. CASE p \notin removed /\ \E t \in RunningStates : p \in Change[t]
      <4>1. PICK t \in RunningStates : p \in Change[t]
        BY <3>3
      <4>2. state'[p] = t /\ p \in Placed(final, t)
        BY <1>4, <1>8, <3>3, <4>1, Positions DEF Placed
      <4>3. QED
        BY <3>1, <4>2, Positions
    <3>4. CASE p \notin removed /\ \A t \in RunningStates : p \notin Change[t]
      <4>1. state'[p] = state[p]
        BY <1>8, <3>4
      <4>2. \A t \in RunningStates : p \in Placed(final, t) => p \in final[t].current /\ state[p] = t
        BY <1>2, <1>4, <3>4, Positions DEF Placed, Origin, Current
      <4>3. ASSUME state[p] = s PROVE p \in Placed(final, s)
        <5>1. p \in Running
          BY <4>3, Positions DEF Running
        <5>2. PICK t \in States : p \in Placed(final, t)
          BY <1>2, <5>1
        <5>3. t # "Deleted"
          BY <1>4, <2>1, <3>4, <5>2
        <5>4. t \in RunningStates
          BY <5>3 DEF States
        <5>5. QED
          BY <4>2, <4>3, <5>2, <5>4
      <4>4. QED
        BY <4>1, <4>2, <4>3
    <3>5. QED
      BY <3>2, <3>3, <3>4
  <2>4. Placed(final, s) \subseteq Pod
    BY <1>2, Positions DEF Placed, StatesInfo, StateInfo
  <2>5. (Current[s])' = Placed(final, s)
    BY <2>2, <2>3, <2>4
  <2>6. QED
    BY <1>2, <2>5, Positions DEF Count
<1>14. QED
  BY <1>9, <1>12, <1>13

\* The invariant holds at the beginning.
LEMMA SettlingInit == Init => SettlingInv
<1> SUFFICES ASSUME Init PROVE SettlingInv
  OBVIOUS
<1>1. final \in [States -> StateInfo] /\ ~ Calculated
  BY DEF Init, NothingYet, Calculated, StateInfo
<1>2. rounds \in 1..2 /\ (rounds = 1 => Ordered)
  BY DEF Init
<1>3. QED
  BY <1>1, <1>2 DEF Init, SettlingInv, TypeOK

\* A calculation changes no label.
LEMMA SettlingCalculate == SettlingInv /\ Calculate => SettlingInv'
<1> SUFFICES ASSUME SettlingInv, Calculate PROVE SettlingInv'
  OBVIOUS
<1>1. final' = FinalInfo(Current, desired) /\ UNCHANGED <<state, desired, rounds>>
  BY DEF Calculate
<1>2. Current' = Current /\ Running' = Running
  BY <1>1 DEF Current, Running
<1>3. (Ordered <=> Ordered') /\ (Fits <=> Fits') /\ (Balanced <=> Balanced')
  BY <1>1, <1>2 DEF Ordered, Fits, Balanced, Greedy
<1>4. final' \in StatesInfo
  BY <1>1, FinalFacts DEF SettlingInv
<1>5. TypeOK'
  BY <1>1, <1>4 DEF SettlingInv, TypeOK, StatesInfo
<1>6. QED
  BY <1>1, <1>2, <1>3, <1>5 DEF SettlingInv

\* An applied change leaves pods that fit, and balances pods that are ordered or fit.
LEMMA SettlingApply == SettlingInv /\ Apply => SettlingInv'
<1> SUFFICES ASSUME SettlingInv, Apply PROVE SettlingInv'
  OBVIOUS
<1> DEFINE n == Cardinality(Running)
           online == SmallerOf(desired["Online"], n)
           cutoff == SmallerOf(desired["Cutoff"], n - online)
           standby == SmallerOf(desired["Standby"], n - online - cutoff)
<1>1. TypeOK /\ Calculated /\ final = FinalInfo(Current, desired) /\ rounds \in 0..2
  BY DEF SettlingInv, Apply, TypeOK
<1>2. /\ final' = NothingYet /\ rounds' = rounds - 1 /\ desired' = desired
  BY DEF Apply
<1>3. rounds # 0
  <2>1. ASSUME rounds = 0 PROVE FALSE
    <3>1. \A s \in States : final[s].candidate = {}
      BY <1>1, <2>1, FinalFacts DEF SettlingInv
    <3>2. Settled
      BY <3>1 DEF Settled, Change
    <3>3. QED
      BY <3>2 DEF Apply
  <2>2. QED
    BY <2>1
<1>4. /\ state' \in [Pod -> States]
      /\ Cardinality(Running') = n - Greedy["Deleted"]
      /\ Ordered \/ Greedy["Deleted"] = 0
         => \A s \in RunningStates : Cardinality((Current[s])') = Greedy[s]
  BY AppliedChange
<1>5. TypeOK' /\ ~ Calculated'
  <2>1. final' \in [States -> StateInfo] /\ ~ Calculated'
    BY <1>2 DEF NothingYet, Calculated, StateInfo
  <2>2. QED
    BY <1>1, <1>2, <1>3, <1>4, <2>1 DEF TypeOK
<1>6. /\ n \in Nat
      /\ desired["Online"] \in Nat /\ desired["Cutoff"] \in Nat /\ desired["Standby"] \in Nat
  BY <1>1, RunningCount, CurrentTyped, Positions DEF Wanted
<1>7. /\ Greedy["Online"] = online /\ Greedy["Cutoff"] = cutoff /\ Greedy["Standby"] = standby
      /\ Greedy["Deleted"] = n - online - cutoff - standby
  BY DEF Greedy
<1>8. /\ online \in Nat /\ online <= n /\ online <= desired["Online"]
      /\ cutoff \in Nat /\ cutoff <= n - online /\ cutoff <= desired["Cutoff"]
      /\ standby \in Nat /\ standby <= n - online - cutoff /\ standby <= desired["Standby"]
  BY <1>6 DEF SmallerOf
<1>9. Cardinality(Running') = online + cutoff + standby
  <2> HIDE DEF n, online, cutoff, standby
  <2>1. QED
    BY <1>4, <1>6, <1>7, <1>8
<1>10. Fits'
  <2>1. Cardinality(Running') <= desired["Online"] + desired["Cutoff"] + desired["Standby"]
    <3> HIDE DEF n, online, cutoff, standby
    <3>1. QED
      BY <1>6, <1>8, <1>9
  <2>2. QED
    BY <1>2, <2>1 DEF Fits
<1>11. ASSUME rounds = 1 PROVE Balanced'
  <2>1. Ordered \/ Greedy["Deleted"] = 0
    <3>1. ASSUME Fits PROVE n - online - cutoff - standby = 0
      BY <1>6, <3>1 DEF Fits, SmallerOf
    <3>2. QED
      BY <1>7, <1>11, <3>1 DEF SettlingInv
  <2>2. /\ (Cardinality(Current["Online"]))' = online
        /\ (Cardinality(Current["Cutoff"]))' = cutoff
        /\ (Cardinality(Current["Standby"]))' = standby
    BY <1>4, <1>7, <2>1, Positions
  <2>3. /\ online = SmallerOf(desired["Online"], Cardinality(Running'))
        /\ cutoff = SmallerOf(desired["Cutoff"], Cardinality(Running') - online)
        /\ standby = SmallerOf(desired["Standby"], Cardinality(Running') - online - cutoff)
    <3>1. /\ online = desired["Online"] \/ online = n
          /\ cutoff = desired["Cutoff"] \/ cutoff = n - online
          /\ standby = desired["Standby"] \/ standby = n - online - cutoff
      BY DEF SmallerOf
    <3> HIDE DEF n, online, cutoff, standby
    <3>2. online = SmallerOf(desired["Online"], Cardinality(Running'))
      BY <1>6, <1>8, <1>9, <3>1 DEF SmallerOf
    <3>3. Cardinality(Running') - online = cutoff + standby
      BY <1>8, <1>9
    <3>4. cutoff = SmallerOf(desired["Cutoff"], Cardinality(Running') - online)
      BY <1>6, <1>8, <3>1, <3>3 DEF SmallerOf
    <3>5. Cardinality(Running') - online - cutoff = standby
      BY <1>8, <1>9
    <3>6. standby = SmallerOf(desired["Standby"], Cardinality(Running') - online - cutoff)
      BY <1>6, <1>8, <3>5 DEF SmallerOf
    <3>7. QED
      BY <3>2, <3>4, <3>6
  <2> HIDE DEF n, online, cutoff, standby
  <2>4. /\ (Greedy["Online"])' = online
        /\ (Greedy["Cutoff"])' = cutoff
        /\ (Greedy["Standby"])' = standby
    BY <1>2, <2>3 DEF Greedy
  <2>5. QED
    BY <2>2, <2>4 DEF Balanced, RunningStates
<1>12. QED
  BY <1>1, <1>2, <1>3, <1>5, <1>10, <1>11 DEF SettlingInv

(***************************************************************************)
(* Whatever the labels at first: with one round to go the pods are ordered *)
(* or nothing is too much, with none to go every state has what filling    *)
(* them in order gives it, and a calculation was made of the labels there  *)
(* are.                                                                    *)
(***************************************************************************)
THEOREM SettlingInvariant == Spec => []SettlingInv
<1>1. SettlingInv /\ [Next]_vars => SettlingInv'
  <2> SUFFICES ASSUME SettlingInv, [Next]_vars PROVE SettlingInv'
    OBVIOUS
  <2>1. CASE Calculate
    BY <2>1, SettlingCalculate
  <2>2. CASE Apply
    BY <2>2, SettlingApply
  <2>3. CASE UNCHANGED vars
    <3>1. state' = state /\ desired' = desired /\ final' = final /\ rounds' = rounds
      BY <2>3 DEF vars
    <3>2. Current' = Current /\ Running' = Running
      BY <3>1 DEF Current, Running
    <3>3. /\ Ordered <=> Ordered'
          /\ Fits <=> Fits'
          /\ Balanced <=> Balanced'
          /\ Calculated <=> Calculated'
          /\ TypeOK <=> TypeOK'
      BY <3>1, <3>2 DEF Ordered, Fits, Balanced, Greedy, Calculated, TypeOK
    <3>4. QED
      BY <3>1, <3>2, <3>3 DEF SettlingInv
  <2>4. QED
    BY <2>1, <2>2, <2>3 DEF Next
<1>2. QED
  BY <1>1, SettlingInit, PTL DEF Spec

-----------------------------------------------------------------------------
(* The theorems. *)

(***************************************************************************)
(* For any group, order and replicas wanted, the loop of                   *)
(* CalculateStateChange leaves in every state as many pods as filling the  *)
(* states in order would, and deletes only what no state wants.            *)
(***************************************************************************)
THEOREM FillsGreedily == Spec => []GreedyFill
<1>1. SettlingInv => GreedyFill
  BY FinalFacts DEF SettlingInv, GreedyFill, Count
<1>2. QED
  BY <1>1, SettlingInvariant, PTL

(***************************************************************************)
(* However often a pod is handed on within one calculation, it ends up in  *)
(* one state, no pod is lost, and none is told to change to the state it   *)
(* is already in.                                                          *)
(***************************************************************************)
THEOREM PlacesEachPodOnce == Spec => []EachPodPlacedOnce
<1>1. SettlingInv => EachPodPlacedOnce
  <2> SUFFICES ASSUME SettlingInv, Calculated
               PROVE  /\ Running = UNION {Placed(final, s) : s \in States}
                      /\ \A s, t \in States : s # t => Placed(final, s) \cap Placed(final, t) = {}
                      /\ \A s \in RunningStates : Change[s] \cap Current[s] = {}
    BY DEF EachPodPlacedOnce
  <2>1. /\ final \in StatesInfo /\ Apart(final) /\ Origin(final, Current)
        /\ \A p \in Pod : p \in Running <=> \E s \in States : p \in Placed(final, s)
    BY FinalFacts DEF SettlingInv
  <2>2. Running = UNION {Placed(final, s) : s \in States}
    <3>1. Running \subseteq Pod
      BY DEF Running
    <3>2. \A s \in States : Placed(final, s) \subseteq Pod
      BY <2>1 DEF Placed, StatesInfo, StateInfo
    <3>3. QED
      BY <2>1, <3>1, <3>2
  <2>3. \A s \in RunningStates : Change[s] \cap Current[s] = {}
    BY <2>1, Positions DEF Origin, Change
  <2>4. QED
    BY <2>1, <2>2, <2>3 DEF Apart
<1>2. QED
  BY <1>1, SettlingInvariant, PTL

(***************************************************************************)
(* The pods the change wants deleted are those the workload removes when   *)
(* it only loses replicas, whenever the pods are in the sorter's order:    *)
(* what the controller relies on by never sending the Delete part of the   *)
(* change anywhere.                                                        *)
(***************************************************************************)
THEOREM WorkloadDeletesWhatIsWanted == Spec => []WorkloadDeletesTheRightPods
<1>1. SettlingInv => WorkloadDeletesTheRightPods
  <2> SUFFICES ASSUME SettlingInv, Calculated, Ordered
               PROVE  WorkloadRemoves(Cardinality(Change["Deleted"])) = Change["Deleted"]
    BY DEF WorkloadDeletesTheRightPods
  <2>1. Change["Deleted"] = final["Deleted"].candidate
    BY Positions DEF Change
  <2>2. QED
    BY <2>1, DeletedComeFirst DEF SettlingInv, WorkloadRemoves
<1>2. QED
  BY <1>1, SettlingInvariant, PTL

(***************************************************************************)
(* The controller does not flap: from any labelling of the pods two        *)
(* changes, and one for ordered pods, leave nothing to change.             *)
(***************************************************************************)
THEOREM SettlesInTwoRounds == Spec => []SettlesSoon
<1>1. SettlingInv => SettlesSoon
  <2> SUFFICES ASSUME SettlingInv, rounds = 0, Calculated PROVE Settled
    BY DEF SettlesSoon
  <2>1. \A s \in States : final[s].candidate = {}
    BY FinalFacts DEF SettlingInv
  <2>2. QED
    BY <2>1 DEF Settled, Change
<1>2. QED
  BY <1>1, SettlingInvariant, PTL
=============================================================================
