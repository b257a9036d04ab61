---------------------------- MODULE MCGrayChange ----------------------------
(***************************************************************************)
(* A harness that takes one change of the portrait value from its first    *)
(* gray step to its end: from every previous and current value, for every  *)
(* strategy in either direction, reconciling as often as it likes.         *)
(***************************************************************************)
EXTENDS GrayChange

CONSTANTS
  MaxReplicas,  \* bound on the replicas of a portrait value
  Percents      \* the change percentages of the strategies

ASSUME BoundsAssumption == MaxReplicas \in Nat /\ Percents \subseteq 1 .. 100

Strategies ==
  {Nil} \union [state : {"Online", "Cutoff", "Standby", "Deleted"}, interval : {MaxAge},
                percent : Percents, observation : {0, MaxAge}]

SpecWith(least, most, up, down) ==
  [min |-> least, max |-> most, paused |-> FALSE, mode |-> "Auto", profile |-> "Default",
   up |-> [disabled |-> FALSE, gray |-> up], down |-> [disabled |-> FALSE, gray |-> down]]

Value(n) == [replicas |-> n, from |-> "forever"]

VARIABLES
  spec,    \* the autoscaler's spec
  status,  \* its status: previous and current value, gray status
  data     \* the replicas last asked for: at first those of the previous value

vars == <<spec, status, data>>

\* A value that was stored was within the bounds; a new one need not be.
Changed(previous, current) ==
  [NoStatus EXCEPT !.previous = Value(previous), !.current = Value(current)]

Init ==
  /\ \E least, most, previous, current \in 0 .. MaxReplicas, strategy \in Strategies :
       /\ least <= previous /\ previous <= most
       /\ spec = IF current > previous THEN SpecWith(least, most, strategy, Nil)
                                       ELSE SpecWith(least, most, Nil, strategy)
       /\ status = Changed(previous, current)
  /\ data = [online |-> status.previous.replicas, cutoff |-> 0, standby |-> 0]

\* The value is new: a gray change starts.
Adopt ==
  /\ status.gray = Nil
  /\ IsGrayActive(spec, status)
  /\ status' = [status EXCEPT !.gray = [percent |-> 0, age |-> 0]]
  /\ UNCHANGED <<spec, data>>

Reconcile ==
  /\ status.gray = Nil => ~ IsGrayActive(spec, status)
  /\ \E capped \in {CappedStatus(spec, status)} :
       \E generated \in {GenerateReplicaData(spec, capped)} :
         /\ status' = [capped EXCEPT !.gray = generated.gray]
         /\ data' = generated.data
  /\ UNCHANGED spec

Tick ==
  /\ status.gray # Nil
  /\ status.gray.age < MaxAge
  /\ status' = [status EXCEPT !.gray.age = @ + 1]
  /\ UNCHANGED <<spec, data>>

Next == Adopt \/ Reconcile \/ Tick

Spec == Init /\ [][Next]_vars /\ WF_vars(Adopt) /\ WF_vars(Reconcile) /\ WF_vars(Tick)

-----------------------------------------------------------------------------
TypeOK ==
  /\ spec \in IHPASpec
  /\ status \in IHPAStatus
  /\ data \in ReplicaData

Target == Capped(spec, status.current.replicas)
Total(d) == d.online + d.cutoff + d.standby
Strategy == CurrentGrayStrategy(spec, CappedStatus(spec, status))

\* The smallest number of pods that is at least the given share of n.
ShareOf(percent, n) == (n * percent + 99) \div 100

(***************************************************************************)
(* A gray change moves the online replicas from the previous value to the  *)
(* current one without turning back or going beyond it, whatever the       *)
(* rounding of the shares (generateIHPAReplicaData).                       *)
(***************************************************************************)
NeverTurnsBack ==
  [][IF Target >= status.previous.replicas
     THEN data.online <= data'.online /\ data'.online <= Target
     ELSE data.online >= data'.online /\ data'.online >= Target]_vars

(***************************************************************************)
(* A step changes at most the share of the total change that the strategy  *)
(* gives to a step, rounded up to whole pods, and a step after the first   *)
(* comes no earlier than the interval after it (ChangePercent and          *)
(* ChangeIntervalSeconds).                                                 *)
(***************************************************************************)
StepByStep ==
  [][data'.online # data.online /\ Strategy # Nil =>
       /\ AbsOf(data'.online - data.online)
            <= ShareOf(Strategy.percent, AbsOf(Target - status.previous.replicas))
       /\ data.online # status.previous.replicas => status.gray.age >= Strategy.interval]_vars

(***************************************************************************)
(* Scaling down through Cutoff or Standby, no pod is given up before all   *)
(* the pods to go are in that state and have been observed long enough     *)
(* (ObservationSeconds).                                                   *)
(***************************************************************************)
KeptUntilObserved ==
  [][Strategy # Nil /\ Strategy.state \in {"Cutoff", "Standby"} /\ Total(data') < Total(data) =>
       /\ data.online = Target
       /\ status.gray.percent = 100 /\ status.gray.age >= Strategy.observation]_vars

\* Reconciled often enough, the change comes to an end and stays there.
ComesToAnEnd == <>[](data = [online |-> Target, cutoff |-> 0, standby |-> 0])
=============================================================================
