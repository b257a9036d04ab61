--------------------------- MODULE MCStateManager ---------------------------
(***************************************************************************)
(* A harness that applies the state change over and over to one group of   *)
(* pods.  From every labelling of the pods and every desired profile it    *)
(* applies the calculated change: pods take the state they were chosen     *)
(* for, and the workload, which cannot be told which pods to remove, drops *)
(* as many of the pods it would scale down first as the change deletes.    *)
(***************************************************************************)
EXTENDS StateManager

CONSTANTS
  MaxReplicas   \* bound on each desired replica number

\* A group has finitely many pods, and the replicas wanted are numbers.
ASSUME GroupAssumption ==
  /\ IsFiniteSet(Pod)
  /\ MaxReplicas \in Nat

\* A StatefulSet's order: the pod with the highest ordinal goes first.
MCRank == [p \in Pod |-> - p]

VARIABLES
  state,     \* state[p]: the state of pod p, "Deleted" when it is gone
  desired,   \* desired[s]: the replicas wanted in running state s
  final,     \* what the last calculation ended with, for every state
  rounds     \* changes that may still be applied before nothing is left to do

vars == <<state, desired, final, rounds>>

Running == {p \in Pod : state[p] # "Deleted"}
Current == [s \in RunningStates |-> {p \in Pod : state[p] = s}]
NothingYet == [s \in States |-> [current |-> {}, candidate |-> {}]]

\* Online pods are the last the workload would remove, then Cutoff, then Standby.
Position == [Online |-> 3, Cutoff |-> 2, Standby |-> 1, Deleted |-> 0]
Ordered ==
  \A p, q \in Running :
    Position[state[p]] < Position[state[q]] => Rank[p] < Rank[q]

Init ==
  /\ state \in [Pod -> States]
  /\ desired \in [RunningStates -> 0..MaxReplicas]
  /\ final = NothingYet
  /\ rounds = IF Ordered THEN 1 ELSE 2

Calculated == final # NothingYet
Change == [s \in States |-> final[s].candidate]
Settled == \A s \in States : Change[s] = {}

\* The pods the workload removes when it loses n replicas.
WorkloadRemoves(n) == FirstSorted(n, Running)

Calculate ==
  /\ ~ Calculated
  /\ Running # {}
  /\ final' = FinalInfo(Current, desired)
  /\ UNCHANGED <<state, desired, rounds>>

Apply ==
  /\ Calculated
  /\ ~ Settled
  /\ \E removed \in {WorkloadRemoves(Cardinality(Change["Deleted"]))} :
       state' = [p \in Pod |->
         CASE p \in removed -> "Deleted"
           [] p \in Change["Online"] \ removed -> "Online"
           [] p \in Change["Cutoff"] \ removed -> "Cutoff"
           [] p \in Change["Standby"] \ removed -> "Standby"
           [] OTHER -> state[p]]
  /\ final' = NothingYet
  /\ rounds' = rounds - 1
  /\ UNCHANGED desired

Next == Calculate \/ Apply

Spec == Init /\ [][Next]_vars

-----------------------------------------------------------------------------

TypeOK ==
  /\ state \in [Pod -> States]
  /\ desired \in [RunningStates -> 0..MaxReplicas]
  /\ final \in [States -> StateInfo]
  /\ rounds \in 0..2

SmallerOf(a, b) == IF a < b THEN a ELSE b

\* Reference: fill Online first, then Cutoff, then Standby; delete the rest.
Greedy ==
  LET n == Cardinality(Running)
      online  == SmallerOf(desired["Online"], n)
      cutoff  == SmallerOf(desired["Cutoff"], n - online)
      standby == SmallerOf(desired["Standby"], n - online - cutoff)
  IN  [Online  |-> online, Cutoff |-> cutoff, Standby |-> standby,
       Deleted |-> n - online - cutoff - standby]

(***************************************************************************)
(* Whatever the current states of the pods, the pods that end up in each   *)
(* state are exactly as many as filling the states in order would give:    *)
(* the pulls and pushes of CalculateStateChange neither starve an earlier  *)
(* state while a later one has pods nor delete a pod some state still      *)
(* lacks.                                                                  *)
(***************************************************************************)
GreedyFill ==
  Calculated => \A s \in States : Cardinality(Placed(final, s)) = Greedy[s]

(***************************************************************************)
(* No pod is lost, duplicated between two states, or told to change to the *)
(* state it is already in, although pods are handed on from state to state *)
(* several times in one calculation.                                       *)
(***************************************************************************)
EachPodPlacedOnce ==
  Calculated =>
    /\ Running = UNION {Placed(final, s) : s \in States}
    /\ \A s, t \in States : s # t => Placed(final, s) \cap Placed(final, t) = {}
    /\ \A s \in RunningStates : Change[s] \cap Current[s] = {}

(***************************************************************************)
(* Once the pods are ordered, the pods the change wants deleted are those  *)
(* the workload removes by itself when its replicas are lowered.  The      *)
(* controller relies on it: no supported workload can select the pods to   *)
(* scale down (CanSelectPodsToScaleDown), so the Delete part of the change *)
(* is never sent anywhere.                                                 *)
(***************************************************************************)
WorkloadDeletesTheRightPods ==
  Calculated /\ Ordered =>
    WorkloadRemoves(Cardinality(Change["Deleted"])) = Change["Deleted"]

(***************************************************************************)
(* From any labelling of the pods, applying the change twice leaves        *)
(* nothing to change, and once is enough for pods that are ordered: the    *)
(* controller does not flap between two labellings.                        *)
(***************************************************************************)
SettlesSoon == rounds = 0 /\ Calculated => Settled
=============================================================================
