---------------------------- MODULE StateManager ----------------------------
(***************************************************************************)
(* The pure pod-state algorithm of pkg/pod/state.go: which pods have to    *)
(* change to which state so that the running pods meet the desired         *)
(* replicas of every state.  Pods are moved along the ordered list         *)
(*                                                                         *)
(*        Online -> Cutoff -> Standby -> Deleted                           *)
(*                                                                         *)
(* A state with too few pods pulls from the later states, a state with too *)
(* many pushes its surplus to the next one.  The order in which pods are   *)
(* chosen is the sorter's: Rank[p] is the position of p in the order in    *)
(* which the workload itself would scale pods down, lowest first.          *)
(***************************************************************************)
EXTENDS Integers, FiniteSets

CONSTANTS
  Pod,    \* names of pods
  Rank    \* position of every pod in the sorter's order

ASSUME RankAssumption ==
  /\ Rank \in [Pod -> Int]
  /\ \A p, q \in Pod : Rank[p] = Rank[q] => p = q

RunningStates == {"Online", "Cutoff", "Standby"}
States == RunningStates \union {"Deleted"}

(***************************************************************************)
(* What the code keeps per state: the pods that are in the state and stay, *)
(* and the pods that are to be brought into it.                            *)
(***************************************************************************)
StateInfo == [current : SUBSET Pod, candidate : SUBSET Pod]
StatesInfo == [States -> StateInfo]

\* A slip: one pod too many.
FirstSortedTooMany(count, S) ==
  {p \in S : Cardinality({q \in S : Rank[q] < Rank[p]}) <= count}

\* A slip: the pods the workload would scale down last are taken first.
FirstSortedReversed(count, S) ==
  {p \in S : Cardinality({q \in S : Rank[q] > Rank[p]}) < count}

\* The count first pods of S in the sorter's order, all of S if there are fewer.
FirstSorted(count, S) ==
  {p \in S : Cardinality({q \in S : Rank[q] < Rank[p]}) < count}

\* A slip: pods to scale up are not taken in reverse order.
LastSortedUnreversed(count, S) == FirstSorted(count, S)

\* The count last pods of S in the sorter's order.
LastSorted(count, S) ==
  {p \in S : Cardinality({q \in S : Rank[q] > Rank[p]}) < count}

NewStateInfo(running) ==
  [s \in States |->
     [current   |-> IF s \in RunningStates THEN running[s] ELSE {},
      candidate |-> {}]]

Placed(info, s) == info[s].current \union info[s].candidate

\* Pods in or on their way to s beyond what s wants; negative when s lacks pods.
Diff(info, desired, s) ==
  Cardinality(info[s].current) + Cardinality(info[s].candidate) - desired[s]

(***************************************************************************)
(* State s takes what it still lacks from the pods that are in the later   *)
(* state t, those that would be scaled down last coming first.  Nothing    *)
(* moves when s lacks nothing.                                             *)
(***************************************************************************)
Pull(desired, s, t) ==
  [info \in StatesInfo |->
     LET moved == LastSorted(- Diff(info, desired, s), info[t].current)
     IN  [info EXCEPT ![s].candidate = @ \union moved,
                      ![t].current   = @ \ moved]]

\* A slip: pods that were only on their way to s stay on their way to it.
PushKeepingCandidates(desired, s, t) ==
  [info \in StatesInfo |->
     LET moved == FirstSorted(Diff(info, desired, s), Placed(info, s))
     IN  [info EXCEPT ![s].current   = @ \ moved,
                      ![t].candidate = @ \union moved]]

(***************************************************************************)
(* State s hands its surplus, in the sorter's order, to the next state t.  *)
(* Nothing moves when s has no surplus.                                    *)
(***************************************************************************)
Push(desired, s, t) ==
  [info \in StatesInfo |->
     LET moved == FirstSorted(Diff(info, desired, s), Placed(info, s))
     IN  [info EXCEPT ![s].current   = @ \ moved,
                      ![s].candidate = @ \ moved,
                      ![t].candidate = @ \union moved]]

(***************************************************************************)
(* One iteration of the loop per state, in order.  Deleted only receives.  *)
(***************************************************************************)
SettleOnline(info, desired) ==
  Push(desired, "Online", "Cutoff")[
    Pull(desired, "Online", "Standby")[
      Pull(desired, "Online", "Cutoff")[info]]]

SettleCutoff(info, desired) ==
  Push(desired, "Cutoff", "Standby")[Pull(desired, "Cutoff", "Standby")[info]]

SettleStandby(info, desired) == Push(desired, "Standby", "Deleted")[info]

FinalInfo(running, desired) ==
  SettleStandby(
    SettleCutoff(
      SettleOnline(NewStateInfo(running), desired), desired), desired)

\* The pods to change, by the state they change to.
CalculateStateChange(running, desired) ==
  LET final == FinalInfo(running, desired)
  IN  [s \in States |-> final[s].candidate]
=============================================================================
