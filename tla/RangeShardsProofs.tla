--------------------------- MODULE RangeShardsProofs ---------------------------
(***************************************************************************)
(* That the shards of a range ask for each of its steps once, whatever the *)
(* range and the limit are.                                                *)
(*                                                                         *)
(* The points a shard may start at are those that are some number of steps *)
(* after the start of the range.  The invariant says that the shards so    *)
(* far start at such points, one after the end of the other, and have all  *)
(* such points before the next start.                                      *)
(***************************************************************************)
EXTENDS RangeShards, TLAPS

Shards == [start : Int, end : Int]

ShardTypeOK ==
  /\ range \in Ranges \union {Nil}
  /\ shards \in Seq(Shards)
  /\ shardStart \in Int
  /\ complete \in BOOLEAN
  /\ range = Nil => complete /\ shards = <<>>

OnGrid(t) == \E k \in Nat : t = range.start + k * range.step

Holds(s, t) == s.start <= t /\ t <= s.end

\* Where the loop is when it goes on.
NextOnGrid ==
  range # Nil /\ ~ complete =>
    /\ OnGrid(shardStart)
    /\ shards = <<>> \/ shardStart <= range.end

\* The shards there are.
ShardsOnGrid ==
  \A i \in DOMAIN shards :
    /\ OnGrid(shards[i].start)
    /\ shards[i].end <= range.end
    /\ shards[i].end < shardStart

ShardsApart == \A i, j \in DOMAIN shards : i < j => shards[i].end < shards[j].start

Covered ==
  range # Nil =>
    \A t \in Int :
      OnGrid(t) /\ t <= range.end /\ (complete \/ t < shardStart)
        => \E i \in DOMAIN shards : Holds(shards[i], t)

ShardInv ==
  ShardTypeOK /\ NextOnGrid /\ ShardsOnGrid /\ ShardsApart /\ Covered /\ WithinLimit

-----------------------------------------------------------------------------
(***************************************************************************)
(* Arithmetic of steps.                                                    *)
(***************************************************************************)
LEMMA Monotone ==
  ASSUME NEW a \in Int, NEW b \in Int, NEW s \in Nat \ {0}, a * s < b * s + s
  PROVE  a <= b
<1> SUFFICES ASSUME a >= b + 1 PROVE FALSE
  OBVIOUS
<1>1. PICK d \in Nat : a = b + 1 + d
  BY SMT
<1>2. a * s = b * s + s + d * s
  BY <1>1, SMT
<1>3. d * s >= 0
  BY SMT
<1> QED
  BY <1>2, <1>3, SMT

LEMMA AtMostItsSteps ==
  ASSUME NEW k \in Nat, NEW s \in Nat \ {0}
  PROVE  k <= k * s
<1>1. PICK d \in Nat : s = d + 1
  BY SMT
<1>2. k * s = k * d + k /\ k * d >= 0
  BY <1>1, SMT
<1> QED
  BY <1>2, SMT

LEMMA LastStep ==
  ASSUME NEW x \in Int, NEW n \in Nat, NEW k \in Nat, NEW m \in Nat, NEW s \in Nat \ {0},
         x + k * s < (x + n * s) + m * s + s
  PROVE  x + k * s <= (x + n * s) + m * s
<1>1. k * s \in Int /\ n * s \in Int /\ m * s \in Int /\ (n + m) * s = n * s + m * s
  BY SMT
<1>2. k <= n + m
  BY <1>1, Monotone, SMT
<1>3. PICK d \in Nat : n + m = k + d
  BY <1>2, SMT
<1>4. (k + d) * s = k * s + d * s /\ d * s >= 0
  BY SMT
<1> QED
  BY <1>1, <1>3, <1>4, SMT

LEMMA NextStep ==
  ASSUME NEW x \in Int, NEW n \in Nat, NEW m \in Nat, NEW s \in Nat
  PROVE  (x + n * s) + m * s + s = x + (n + m + 1) * s
  BY SMT

-----------------------------------------------------------------------------
(***************************************************************************)
(* The shard that is added starts on the grid and ends before the next     *)
(* one would start.  Every point of the grid that it passes is in it.      *)
(***************************************************************************)
ShardEnd == IF FullEnd < range.end THEN FullEnd ELSE range.end

LEMMA Added ==
  ASSUME ShardInv, AddShard
  PROVE  /\ range \in Ranges
         /\ range' = range
         /\ ShardEnd \in Int
         /\ shards' = Append(shards, [start |-> shardStart, end |-> ShardEnd])
         /\ shardStart' = ShardEnd + range.step
         /\ complete' <=> FullEnd >= range.end \/ ShardEnd + range.step > range.end
         /\ complete' \in BOOLEAN
         /\ range.start \in Int /\ range.end \in Int /\ range.step \in Nat \ {0}
         /\ FullEnd = shardStart + MaxPoints * range.step
         /\ FullEnd \in Int /\ FullEnd >= shardStart
<1>1. range \in Ranges /\ shardStart \in Int
  BY DEF ShardInv, ShardTypeOK, AddShard
<1>2. range.start \in Int /\ range.end \in Int /\ range.step \in Nat \ {0} /\ MaxPoints \in Nat
  BY <1>1, RangesAssumption
<1>3. FullEnd = shardStart + MaxPoints * range.step
  BY <1>1, <1>2, SMT DEF FullEnd
<1>4. MaxPoints * range.step \in Nat
  BY <1>2, SMT
<1>5. FullEnd \in Int /\ FullEnd >= shardStart
  BY <1>1, <1>3, <1>4, SMT
<1>6. ShardEnd \in Int
  BY <1>2, <1>5 DEF ShardEnd
<1> QED
  BY <1>1, <1>2, <1>3, <1>5, <1>6 DEF AddShard, ShardEnd, NextStart

LEMMA Passed ==
  ASSUME ShardInv, AddShard, NEW t \in Int,
         OnGrid(t), t <= range.end, shardStart <= t, complete' \/ t < shardStart'
  PROVE  t <= ShardEnd
<1>1. CASE FullEnd >= range.end
  BY <1>1, Added DEF ShardEnd
<1>2. CASE FullEnd < range.end
  <2>1. ShardEnd = FullEnd /\ t < FullEnd + range.step
    BY <1>2, Added DEF ShardEnd
  <2>2. PICK n \in Nat : shardStart = range.start + n * range.step
    BY DEF ShardInv, NextOnGrid, AddShard, OnGrid, ShardTypeOK
  <2>3. PICK k \in Nat : t = range.start + k * range.step
    BY DEF OnGrid
  <2>4. range.start + k * range.step < (range.start + n * range.step) + MaxPoints * range.step + range.step
    BY <2>1, <2>2, <2>3, Added
  <2>5. range.start + k * range.step <= (range.start + n * range.step) + MaxPoints * range.step
    <3>1. range.start \in Int /\ range.step \in Nat \ {0} /\ MaxPoints \in Nat
      BY Added, RangesAssumption
    <3> QED
      BY <2>4, <3>1, LastStep
  <2>6. t <= FullEnd
    BY <2>2, <2>3, <2>5, Added
  <2> QED
    BY <2>1, <2>6
<1> QED
  BY <1>1, <1>2, Added

\* Where the next shard starts, if there is one: on the grid.
LEMMA GoesOnOnGrid ==
  ASSUME ShardInv, AddShard, ~ complete'
  PROVE  OnGrid(shardStart') /\ shardStart' <= range.end
<1>1. ShardEnd = FullEnd /\ shardStart' <= range.end
  BY Added DEF ShardEnd
<1>2. PICK n \in Nat : shardStart = range.start + n * range.step
  BY DEF ShardInv, NextOnGrid, AddShard, OnGrid, ShardTypeOK
<1>3. range.start \in Int /\ range.step \in Nat \ {0} /\ MaxPoints \in Nat
  BY Added, RangesAssumption
<1>4. (range.start + n * range.step) + MaxPoints * range.step + range.step
        = range.start + (n + MaxPoints + 1) * range.step
  BY <1>3, NextStep
<1>5. shardStart' = range.start + (n + MaxPoints + 1) * range.step
  BY <1>1, <1>2, <1>4, Added
<1>6. n + MaxPoints + 1 \in Nat
  BY <1>3
<1> QED
  BY <1>1, <1>5, <1>6 DEF OnGrid

-----------------------------------------------------------------------------
LEMMA InitShardInv == ShardInit => ShardInv
  BY RangesAssumption
     DEF ShardInit, ShardInv, ShardTypeOK, NextOnGrid, ShardsOnGrid, ShardsApart, Covered, WithinLimit

LEMMA BeginKeepsShardInv ==
  ASSUME NEW r \in Ranges, BeginSharding(r)
  PROVE  ShardInv'
<1>1. r.start \in Int /\ r.end \in Int /\ r.step \in Nat \ {0} /\ r # Nil
  BY RangesAssumption
<1>2. ShardTypeOK'
  <2>1. range' \in Ranges /\ range' # Nil /\ shardStart' \in Int /\ complete' \in BOOLEAN
    BY <1>1 DEF BeginSharding
  <2>2. shards' \in Seq(Shards)
    BY DEF BeginSharding
  <2> QED
    BY <2>1, <2>2 DEF ShardTypeOK
<1>3. DOMAIN shards' = {}
  BY DEF BeginSharding
<1>4. ShardsOnGrid' /\ ShardsApart' /\ WithinLimit'
  BY <1>3 DEF ShardsOnGrid, ShardsApart, WithinLimit
<1>5. r.start = r.start + 0 * r.step
  BY <1>1, SMT
<1>6. NextOnGrid'
  BY <1>5 DEF BeginSharding, NextOnGrid, OnGrid
<1>7. ASSUME NEW t \in Int, NEW k \in Nat, t = r.start + k * r.step
      PROVE  t >= r.start
  BY <1>1, <1>7, AtMostItsSteps, SMT
<1>8. Covered'
  BY <1>1, <1>7 DEF BeginSharding, Covered, OnGrid
<1> QED
  BY <1>2, <1>4, <1>6, <1>8 DEF ShardInv

LEMMA AddKeepsShardInv ==
  ASSUME ShardInv, AddShard
  PROVE  ShardInv'
<1> DEFINE new == [start |-> shardStart, end |-> ShardEnd]
           last == Len(shards) + 1
<1>1. shards \in Seq(Shards) /\ shardStart \in Int /\ range # Nil /\ ~ complete
  BY Added, RangesAssumption DEF ShardInv, ShardTypeOK, AddShard
<1>2. /\ DOMAIN shards' = 1 .. last
      /\ shards'[last] = new
      /\ \A i \in DOMAIN shards : i \in 1 .. Len(shards) /\ shards'[i] = shards[i]
      /\ last \in Nat
      /\ DOMAIN shards = 1 .. Len(shards)
  <2>1. shards' = Append(shards, new)
    BY Added
  <2>2. Len(shards) \in Nat /\ DOMAIN shards = 1 .. Len(shards)
    BY <1>1
  <2> HIDE DEF new
  <2>3. /\ DOMAIN shards' = 1 .. last
        /\ shards'[last] = new
        /\ \A i \in 1 .. Len(shards) : shards'[i] = shards[i]
    BY <1>1, <2>1, <2>2
  <2>4. QED
    BY <2>2, <2>3
<1>3. new.start = shardStart /\ new.end = ShardEnd /\ new \in Shards
  BY <1>1, Added DEF Shards
<1>4. ShardEnd <= range.end /\ ShardEnd < shardStart' /\ ShardEnd <= FullEnd
  BY Added DEF ShardEnd
<1>5. shards # <<>> => shardStart <= shardStart'
  BY <1>1, Added DEF ShardInv, NextOnGrid, ShardEnd
<1>6. ASSUME NEW i \in DOMAIN shards
      PROVE  shards[i].start \in Int /\ shards[i].end \in Int /\ shards # <<>>
  <2>1. shards[i] \in Shards /\ shards # <<>>
    BY <1>1
  <2> QED
    BY <2>1 DEF Shards
<1>7. ShardTypeOK'
  <2>1. shards' \in Seq(Shards)
    <3>1. shards' = Append(shards, new)
      BY Added
    <3> HIDE DEF new
    <3>2. QED
      BY <1>1, <1>3, <3>1
  <2>2. range' \in Ranges /\ range' # Nil /\ shardStart' \in Int /\ complete' \in BOOLEAN
    BY <1>1, Added
  <2> QED
    BY <2>1, <2>2 DEF ShardTypeOK
<1>8. \A t : OnGrid(t)' <=> OnGrid(t)
  BY Added DEF OnGrid
<1>9. NextOnGrid'
  <2> SUFFICES ASSUME ~ complete'
               PROVE  OnGrid(shardStart') /\ shardStart' <= range.end
    BY <1>8, Added DEF NextOnGrid
  <2> QED
    BY GoesOnOnGrid
<1>10. ShardsOnGrid'
  <2> SUFFICES ASSUME NEW i \in 1 .. last
               PROVE  /\ \E k \in Nat : shards'[i].start = range.start + k * range.step
                      /\ shards'[i].end <= range.end
                      /\ shards'[i].end < shardStart'
    BY <1>2, Added DEF ShardsOnGrid, OnGrid
  <2>1. CASE i = last
    BY <1>1, <1>2, <1>3, <1>4, <2>1 DEF ShardInv, NextOnGrid, OnGrid
  <2>2. CASE i # last
    <3>1. i \in DOMAIN shards
      BY <1>2, <2>2
    <3>2. shards'[i] = shards[i] /\ shards[i].end \in Int /\ shardStart <= shardStart'
      BY <1>2, <1>5, <1>6, <3>1
    <3>3. OnGrid(shards[i].start) /\ shards[i].end <= range.end /\ shards[i].end < shardStart
      BY <3>1 DEF ShardInv, ShardsOnGrid
    <3>4. shardStart \in Int /\ shardStart' \in Int
      BY <1>1, Added
    <3>5. shards[i].end < shardStart'
      BY <3>2, <3>3, <3>4
    <3> QED
      BY <3>2, <3>3, <3>5 DEF OnGrid
  <2> QED
    BY <2>1, <2>2
<1>11. ShardsApart'
  <2> SUFFICES ASSUME NEW i \in 1 .. last, NEW j \in 1 .. last, i < j
               PROVE  shards'[i].end < shards'[j].start
    BY <1>2 DEF ShardsApart
  <2>1. i \in DOMAIN shards
    BY <1>2
  <2>2. CASE j = last
    BY <1>2, <1>3, <2>1, <2>2 DEF ShardInv, ShardsOnGrid
  <2>3. CASE j # last
    BY <1>2, <2>1, <2>3 DEF ShardInv, ShardsApart
  <2> QED
    BY <2>2, <2>3
<1>12. Covered'
  <2> SUFFICES ASSUME NEW t \in Int, OnGrid(t), t <= range.end, complete' \/ t < shardStart'
               PROVE  \E i \in 1 .. last : Holds(shards'[i], t)
    BY <1>2, <1>8, Added DEF Covered
  <2>1. CASE t < shardStart
    <3>1. PICK i \in DOMAIN shards : Holds(shards[i], t)
      BY <1>1, <2>1 DEF ShardInv, Covered
    <3> QED
      BY <1>2, <3>1
  <2>2. CASE shardStart <= t
    <3>1. t <= ShardEnd
      BY <2>2, Passed
    <3> QED
      BY <1>2, <1>3, <2>2, <3>1 DEF Holds
  <2> QED
    BY <1>1, <2>1, <2>2
<1>13. WithinLimit'
  <2> SUFFICES ASSUME NEW i \in 1 .. last
               PROVE  shards'[i].end - shards'[i].start <= MaxPoints * range.step
    BY <1>2, Added DEF WithinLimit
  <2>1. CASE i = last
    <3>1. MaxPoints * range.step \in Int
      BY Added, RangesAssumption, SMT
    <3> QED
      BY <1>1, <1>2, <1>3, <1>4, <2>1, <3>1, Added
  <2>2. CASE i # last
    BY <1>2, <2>2 DEF ShardInv, WithinLimit
  <2> QED
    BY <2>1, <2>2
<1> QED
  BY <1>7, <1>9, <1>10, <1>11, <1>12, <1>13 DEF ShardInv

LEMMA StutterKeepsShardInv ==
  ASSUME ShardInv, UNCHANGED shardVars
  PROVE  ShardInv'
<1>1. range' = range /\ shards' = shards /\ shardStart' = shardStart /\ complete' = complete
  BY DEF shardVars
<1> QED
  BY <1>1
     DEF ShardInv, ShardTypeOK, NextOnGrid, ShardsOnGrid, ShardsApart, Covered, WithinLimit, OnGrid, Holds

LEMMA ShardInvHolds == ShardSpec => []ShardInv
<1>1. ShardInv /\ [ShardNext]_shardVars => ShardInv'
  BY BeginKeepsShardInv, AddKeepsShardInv, StutterKeepsShardInv DEF ShardNext
<1> QED
  BY <1>1, InitShardInv, PTL DEF ShardSpec

-----------------------------------------------------------------------------
(***************************************************************************)
(* The steps of a range, and of a shard that starts on its grid.           *)
(***************************************************************************)
LEMMA StepsAreOnGrid ==
  ASSUME NEW r \in Ranges, NEW n \in Nat, NEW end \in Int, end <= r.end, NEW t \in Int
  PROVE  t \in Steps(r.start + n * r.step, end, r.step)
           <=> /\ r.start + n * r.step <= t /\ t <= end
               /\ \E k \in Nat : t = r.start + k * r.step
<1> DEFINE from == r.start + n * r.step
<1>1. r.start \in Int /\ r.end \in Int /\ r.step \in Nat \ {0}
  BY RangesAssumption
<1>2. n * r.step \in Nat /\ from \in Int /\ r.start <= from
  BY <1>1, SMT
<1>3. ASSUME NEW m \in 0 .. (end - from), t = from + m * r.step
      PROVE  \E k \in Nat : t = r.start + k * r.step
  <2>1. m \in Nat
    BY <1>2
  <2>2. t = r.start + (n + m) * r.step
    BY <1>1, <1>3, <2>1, SMT
  <2> QED
    BY <2>1, <2>2
<1>4. ASSUME NEW k \in Nat, t = r.start + k * r.step, from <= t, t <= end
      PROVE  \E m \in 0 .. (end - from) : t = from + m * r.step
  <2>1. n * r.step \in Int /\ k * r.step \in Int
    BY <1>1, SMT
  <2>2. n * r.step < k * r.step + r.step
    BY <1>1, <1>4, <2>1, SMT
  <2>3. n <= k
    BY <1>1, <2>2, Monotone
  <2>4. PICK m \in Nat : k = n + m
    BY <2>3, SMT
  <2>5. (n + m) * r.step = n * r.step + m * r.step /\ m * r.step \in Int
    BY <1>1, SMT
  <2>6. t = from + m * r.step
    BY <1>1, <1>4, <2>1, <2>4, <2>5, SMT
  <2>7. m <= m * r.step
    BY <1>1, AtMostItsSteps
  <2>8. m <= end - from
    BY <1>2, <1>4, <2>5, <2>6, <2>7
  <2> QED
    BY <1>2, <2>6, <2>8
<1> QED
  BY <1>2, <1>3, <1>4 DEF Steps

LEMMA CoveredOnce ==
  ASSUME ShardInv
  PROVE  EachStepOnce
<1> SUFFICES ASSUME range # Nil, complete
             PROVE  EachStepOnce
  BY DEF EachStepOnce
<1>1. range \in Ranges
  BY DEF ShardInv, ShardTypeOK
<1>2. range.start \in Int /\ range.end \in Int /\ range.step \in Nat \ {0}
  BY <1>1, RangesAssumption
<1>3. ASSUME NEW i \in DOMAIN shards
      PROVE  /\ shards[i].end \in Int /\ shards[i].end <= range.end
             /\ \E n \in Nat : shards[i].start = range.start + n * range.step
             /\ range.start <= shards[i].start
  <2>1. shards[i] \in Shards
    BY DEF ShardInv, ShardTypeOK
  <2>2. PICK n \in Nat : shards[i].start = range.start + n * range.step
    BY DEF ShardInv, ShardsOnGrid, OnGrid
  <2>3. n * range.step \in Nat
    BY <1>2, SMT
  <2> QED
    BY <1>2, <2>1, <2>2, <2>3 DEF Shards, ShardInv, ShardsOnGrid
<1>4. ASSUME NEW t \in range.start .. range.end
      PROVE  t \in Steps(range.start, range.end, range.step) <=> OnGrid(t)
  <2>1. PICK n \in Nat : n = 0
    OBVIOUS
  <2>2. range.start + n * range.step = range.start
    BY <1>2, <2>1, SMT
  <2>3. t \in Int /\ range.end <= range.end
    BY <1>2
  <2>4. t \in Steps(range.start + n * range.step, range.end, range.step)
          <=> /\ range.start + n * range.step <= t /\ t <= range.end
              /\ \E k \in Nat : t = range.start + k * range.step
    BY <1>1, <1>2, <2>3, StepsAreOnGrid
  <2> QED
    BY <1>2, <2>2, <2>4 DEF OnGrid
<1>5. ASSUME NEW t \in Int, NEW i \in DOMAIN shards
      PROVE  t \in ShardSteps(i) <=> Holds(shards[i], t) /\ OnGrid(t)
  <2>1. PICK n \in Nat : shards[i].start = range.start + n * range.step
    BY <1>3
  <2>2. t \in Steps(range.start + n * range.step, shards[i].end, range.step)
          <=> /\ range.start + n * range.step <= t /\ t <= shards[i].end
              /\ \E k \in Nat : t = range.start + k * range.step
    BY <1>1, <1>3, StepsAreOnGrid
  <2> QED
    BY <2>1, <2>2 DEF ShardSteps, Holds, OnGrid
<1>6. ASSUME NEW t \in range.start .. range.end
      PROVE  OnGrid(t) => \E i \in DOMAIN shards : Holds(shards[i], t)
  BY <1>2 DEF ShardInv, Covered
<1>7. \A t \in range.start .. range.end :
        t \in Steps(range.start, range.end, range.step)
          <=> \E i \in DOMAIN shards : t \in ShardSteps(i)
  BY <1>2, <1>4, <1>5, <1>6
<1> QED
  BY <1>3, <1>7 DEF EachStepOnce, ShardInv, ShardsApart

-----------------------------------------------------------------------------
(***************************************************************************)
(* Whatever the range and the limit, the shards of a range together ask    *)
(* for each of its steps and for nothing else, and they do not touch       *)
(* (promQueryRangeSharding).                                               *)
(***************************************************************************)
THEOREM EachStepIsAskedOnce == ShardSpec => []EachStepOnce
<1>1. ShardInv => EachStepOnce
  BY CoveredOnce
<1> QED
  BY <1>1, ShardInvHolds, PTL

(***************************************************************************)
(* And none of them has more points than Prometheus allows                 *)
(* (maxPointsPerPromTimeSeries).                                           *)
(***************************************************************************)
THEOREM ShardsAreWithinLimit == ShardSpec => []WithinLimit
<1>1. ShardInv => WithinLimit
  BY DEF ShardInv
<1> QED
  BY <1>1, ShardInvHolds, PTL
=============================================================================
