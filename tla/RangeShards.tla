------------------------------ MODULE RangeShards ------------------------------
(***************************************************************************)
(* How a query over a range of time is cut into shards                     *)
(* (promQueryRangeSharding): Prometheus refuses to answer with more than   *)
(* so many points of a series at once.  One step is one iteration of the   *)
(* loop.                                                                   *)
(***************************************************************************)
EXTENDS Integers, Sequences

CONSTANTS
  Nil,
  Ranges,    \* ranges that are asked for
  MaxPoints  \* maxPointsPerPromTimeSeries, 11000

\* A step of zero would keep the loop going for ever.
ASSUME RangesAssumption ==
  /\ Ranges \subseteq [start : Int, end : Int, step : Nat \ {0}]
  /\ MaxPoints \in Nat
  /\ Nil \notin Ranges

VARIABLES
  range,      \* the range that was asked for last, Nil if none was
  shards,     \* the shards so far
  shardStart, \* where the next one starts
  complete    \* there is no next one

shardVars == <<range, shards, shardStart, complete>>

ShardInit ==
  /\ range = Nil
  /\ shards = <<>>
  /\ shardStart = 0
  /\ complete = TRUE

BeginSharding(r) ==
  /\ range' = r
  /\ shards' = <<>>
  /\ shardStart' = r.start
  /\ complete' = FALSE

\* A slip: the point one shard ends with is asked for again by the next.
NextStartAgain(end) == end

NextStart(end) == end + range.step

\* A slip: the end of a shard is a point of it, too.
FullEndBeyond == shardStart + range.step * MaxPoints + range.step

FullEnd == shardStart + range.step * MaxPoints

AddShard ==
  /\ ~ complete
  /\ LET end == IF FullEnd < range.end THEN FullEnd ELSE range.end
     IN /\ shards' = Append(shards, [start |-> shardStart, end |-> end])
        /\ shardStart' = NextStart(end)
        /\ complete' = (FullEnd >= range.end \/ shardStart' > range.end)
  /\ UNCHANGED range

ShardNext ==
  \/ complete /\ \E r \in Ranges : BeginSharding(r)
  \/ AddShard

ShardSpec == ShardInit /\ [][ShardNext]_shardVars

-----------------------------------------------------------------------------
\* The points of a range, as Prometheus evaluates it.
Steps(start, end, step) ==
  {t \in start .. end : \E k \in 0 .. (end - start) : t = start + k * step}

(***************************************************************************)
(* Together the shards ask for every step of the range and for nothing     *)
(* else, and they follow each other without touching, so that their        *)
(* results can be put one after another (the comment "query range by       *)
(* shards" in Query, and the merge there).                                 *)
(***************************************************************************)
ShardSteps(i) == Steps(shards[i].start, shards[i].end, range.step)

EachStepOnce ==
  range # Nil /\ complete =>
    /\ \A t \in range.start .. range.end :
         t \in Steps(range.start, range.end, range.step)
           <=> \E i \in DOMAIN shards : t \in ShardSteps(i)
    /\ \A i, j \in DOMAIN shards : i < j => shards[i].end < shards[j].start
    /\ \A i \in DOMAIN shards : range.start <= shards[i].start /\ shards[i].end <= range.end

(***************************************************************************)
(* No shard is refused: Prometheus allows an end that is at most so many   *)
(* steps after the start ("to avoid exceeding maximum points limitation    *)
(* per timeseries of prometheus api").                                     *)
(***************************************************************************)
WithinLimit == \A i \in DOMAIN shards : shards[i].end - shards[i].start <= MaxPoints * range.step
=============================================================================
