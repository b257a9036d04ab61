-------------------------- MODULE MCReplicaProfile --------------------------
EXTENDS ReplicaProfile

S(online, cutoff, standby) ==
  [online |-> online, cutoff |-> cutoff, standby |-> standby, paused |-> FALSE,
   direction |-> "Both", sorter |-> "WorkloadDefault", traffic |-> "ReadinessGate"]

T(edits, failures, crashes, evictions, userScales) ==
  [edit |-> edits, failure |-> failures, crash |-> crashes, eviction |-> evictions,
   userScale |-> userScales]

\* Gray: pods move between Online and Cutoff, the total does not change.
GraySpecs == {S(3, 0, 0), S(2, 1, 0), S(1, 2, 0)}
GrayTroubles == T(2, 1, 1, 0, 0)

\* Lifecycle: the profile is deleted and created again, the manager restarts,
\* somebody else scales the workload, and the order of its pods may panic.
LifecycleSpecs == {S(1, 0, 0), S(0, 1, 0)}
LifecycleTroubles == T(2, 1, 1, 0, 1)

\* Modes: scaling down, paused profiles, every direction, what is not supported.
ModeSpecs ==
  {S(1, 0, 0), S(1, 0, 1), [S(1, 1, 0) EXCEPT !.paused = TRUE],
   [S(1, 1, 0) EXCEPT !.direction = "Up"], [S(1, 1, 0) EXCEPT !.direction = "Down"],
   [S(2, 0, 0) EXCEPT !.direction = "Neither"],
   [S(1, 1, 0) EXCEPT !.sorter = "External"],
   [S(1, 1, 0) EXCEPT !.traffic = "External"]}
ModeTroubles == T(2, 1, 0, 0, 0)

\* Convergence, with an edit, a failure and a pod that is lost.
LiveSpecs == {S(2, 0, 0), S(1, 1, 0)}
LiveTroubles == T(1, 1, 0, 1, 0)

\* The total of the pods changes, and nothing but the spec does.
TotalSpecs == {S(2, 0, 0), S(1, 0, 0), S(1, 1, 0)}
EditTroubles == T(2, 0, 0, 0, 0)

\* A pod is lost while a direction forbids scaling down.
DirectionSpecs == {S(2, 1, 0), [S(1, 0, 0) EXCEPT !.direction = "Up"]}
EvictionTroubles == T(1, 0, 0, 1, 0)
=============================================================================
