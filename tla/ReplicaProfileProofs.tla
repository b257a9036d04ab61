------------------------ MODULE ReplicaProfileProofs ------------------------
(***************************************************************************)
(* What is proved of the ReplicaProfile controller, for every number of    *)
(* pods, every set of specs and any number of disturbances: the types,     *)
(* that the selector kept in memory never outlives the profile, that no    *)
(* scaling by somebody else is overwritten, that at rest the conditions    *)
(* were written for the latest spec, that no pod is sent against the       *)
(* direction of the profile, that enough pods stay in service, and that    *)
(* during gray changes the traffic of a pod is switched before its label.  *)
(***************************************************************************)
EXTENDS ReplicaProfile, TLAPS, FiniteSetTheorems

-----------------------------------------------------------------------------
(***************************************************************************)
(* The values the variables are given.                                     *)
(***************************************************************************)

\* The constants of the module are well typed.
LEMMA ConstantsTyped ==
  /\ NoStatus \in ReplicaProfileStatus
  /\ NoProfile \in Profile
  /\ AbsentPod \in PodObject
  /\ NoPods \in [Ordinal -> PodObject]
  /\ InitialPods \in [Ordinal -> PodObject]
  /\ NoPlan \in [Phases -> SUBSET Ordinal]
<1>1. NoCondition \in Condition
  BY DEF NoCondition, Condition, Reasons
<1>2. NoStatus \in ReplicaProfileStatus
  BY <1>1 DEF NoStatus, ReplicaProfileStatus
<1>3. NoProfile \in Profile
  BY <1>2 DEF NoProfile, Profile, ReplicaProfileSpec, ScalingDirections
<1>4. AbsentPod \in PodObject
  BY DEF AbsentPod, PodObject, RunningStates, SM!RunningStates
<1>5. [AbsentPod EXCEPT !.phase = "Running"] \in PodObject
  BY DEF AbsentPod, PodObject, RunningStates, SM!RunningStates
<1>6. NoPods \in [Ordinal -> PodObject] /\ InitialPods \in [Ordinal -> PodObject]
  BY <1>4, <1>5 DEF NoPods, InitialPods
<1>7. NoPlan \in [Phases -> SUBSET Ordinal]
  BY DEF NoPlan
<1>8. QED
  BY <1>2, <1>3, <1>4, <1>6, <1>7

\* A new profile is well typed.
LEMMA NewProfileTyped ==
  ASSUME NEW g \in Nat, NEW s \in ReplicaProfileSpec
  PROVE  NewProfile(g, s) \in Profile
BY ConstantsTyped DEF NewProfile, Profile

\* A condition set on a status leaves a status.
LEMMA WithConditionTyped ==
  ASSUME NEW status \in ReplicaProfileStatus, NEW type \in {"ensured", "applied"},
         NEW reason \in Reasons, rp \in Profile
  PROVE  WithCondition(status, type, reason) \in ReplicaProfileStatus
<1>1. [reason |-> reason, generation |-> rp.generation] \in Condition
  BY DEF Condition, Profile
<1>2. QED
  BY <1>1 DEF WithCondition, ReplicaProfileStatus

\* The sets of pods that are counted are finite, so their sizes are numbers.
LEMMA CountsTyped ==
  ASSUME NEW podsSeen, NEW s
  PROVE  Cardinality(RunningIn(podsSeen, s)) \in Nat
<1>1. IsFiniteSet(Ordinal)
  <2>1. 0 \in Int /\ MaxPods - 1 \in Int
    BY ConstantsAssumption DEF ConstantsAssumption
  <2>2. QED
    BY <2>1, FS_Interval DEF Ordinal
<1>2. IsFiniteSet(RunningIn(podsSeen, s))
  BY <1>1, FS_Subset DEF RunningIn
<1>3. QED
  BY <1>2, FS_CardinalityType

-----------------------------------------------------------------------------
(***************************************************************************)
(* The state change only ever names pods it was given.                     *)
(***************************************************************************)
LEMMA PullTyped ==
  ASSUME NEW desired, NEW s \in SM!States, NEW t \in SM!States, NEW info \in SM!StatesInfo
  PROVE  SM!Pull(desired, s, t)[info] \in SM!StatesInfo
<1> DEFINE moved == SM!LastSorted(- SM!Diff(info, desired, s), info[t].current)
<1>1. moved \subseteq Ordinal
  BY DEF SM!LastSorted, SM!StatesInfo, SM!StateInfo
<1> HIDE DEF moved
<1>2. SM!Pull(desired, s, t)[info] =
        [info EXCEPT ![s].candidate = @ \union moved, ![t].current = @ \ moved]
  BY DEF SM!Pull, moved
<1>3. QED
  BY <1>1, <1>2 DEF SM!StatesInfo, SM!StateInfo

\* What is pushed on was in the state, so it is a pod.
LEMMA PushTyped ==
  ASSUME NEW desired, NEW s \in SM!States, NEW t \in SM!States, NEW info \in SM!StatesInfo
  PROVE  SM!Push(desired, s, t)[info] \in SM!StatesInfo
<1> DEFINE moved == SM!FirstSorted(SM!Diff(info, desired, s), SM!Placed(info, s))
<1>1. moved \subseteq Ordinal
  BY DEF SM!FirstSorted, SM!Placed, SM!StatesInfo, SM!StateInfo
<1> HIDE DEF moved
<1>2. SM!Push(desired, s, t)[info] =
        [info EXCEPT ![s].current = @ \ moved, ![s].candidate = @ \ moved,
                     ![t].candidate = @ \union moved]
  BY DEF SM!Push, moved
<1>3. QED
  BY <1>1, <1>2 DEF SM!StatesInfo, SM!StateInfo

\* The whole state change names pods of the workload.
LEMMA StateChangeTyped == StateChange \in [SM!States -> SUBSET Ordinal]
<1> DEFINE desired == [Online |-> DesiredOnline, Cutoff |-> rp.spec.cutoff,
                       Standby |-> rp.spec.standby]
           info == SM!NewStateInfo(FilterAndClassify(listed))
<1>1. info \in SM!StatesInfo
  BY DEF SM!NewStateInfo, SM!StatesInfo, SM!StateInfo, SM!RunningStates, RunningStates,
         FilterAndClassify, RunningIn
<1> HIDE DEF desired, info
<1>2. {"Online", "Cutoff", "Standby", "Deleted"} \subseteq SM!States
  BY DEF SM!States, SM!RunningStates
<1>3. SM!SettleOnline(info, desired) \in SM!StatesInfo
  BY <1>1, <1>2, PullTyped, PushTyped DEF SM!SettleOnline
<1>4. SM!SettleCutoff(SM!SettleOnline(info, desired), desired) \in SM!StatesInfo
  BY <1>2, <1>3, PullTyped, PushTyped DEF SM!SettleCutoff
<1>5. SM!FinalInfo(FilterAndClassify(listed), desired) \in SM!StatesInfo
  BY <1>2, <1>4, PushTyped DEF SM!FinalInfo, SM!SettleStandby, info
<1>6. QED
  BY <1>5 DEF StateChange, SM!CalculateStateChange, SM!StatesInfo, SM!StateInfo, desired

\* The plan of a reconcile names pods of the workload.
LEMMA PlanTyped == PlanFor(StateChange) \in [Phases -> SUBSET Ordinal]
BY StateChangeTyped DEF PlanFor, Phases, SM!States, SM!RunningStates

\* The numbers a reconcile asks for.
LEMMA DesiredTyped ==
  ASSUME rp \in Profile
  PROVE  DesiredReplicas \in Nat
BY DEF DesiredReplicas, DesiredOnline, GreaterOf, LesserOf, Profile, ReplicaProfileSpec,
       ReplicaProfileStatus, ScalingDirections

\* What a reconcile reflects is a status.
LEMMA ReflectedTyped ==
  ASSUME rp \in Profile, NEW podsSeen
  PROVE  Reflected(podsSeen) \in ReplicaProfileStatus
<1> DEFINE counted == [rp.status EXCEPT
                         !.online  = Cardinality(RunningIn(podsSeen, "Online")),
                         !.cutoff  = Cardinality(RunningIn(podsSeen, "Cutoff")),
                         !.standby = Cardinality(RunningIn(podsSeen, "Standby"))]
           reason == IF IsEnsured(rp.spec, counted) THEN "Ensured" ELSE "NotSatisfied"
<1>1. counted \in ReplicaProfileStatus
  BY CountsTyped DEF Profile, ReplicaProfileStatus
<1>2. reason \in Reasons
  BY DEF Reasons
<1> HIDE DEF counted, reason
<1>3. WithCondition(counted, "ensured", reason) \in ReplicaProfileStatus
  BY <1>1, <1>2, WithConditionTyped
<1>4. QED
  BY <1>3 DEF Reflected, counted, reason

-----------------------------------------------------------------------------
(***************************************************************************)
(* How reconciles end.                                                     *)
(***************************************************************************)
LEMMA IdleTyped ==
  ASSUME IdleLocals
  PROVE  LocalTypeOK'
<1>1. pc' \in ProgramCounters /\ scale' \in Nat
  BY DEF IdleLocals, ProgramCounters
<1>2. conflict' \in BOOLEAN /\ scaleConflict' \in BOOLEAN
  BY DEF IdleLocals
<1>3. /\ rp' \in Profile /\ original' \in ReplicaProfileStatus
      /\ listed' \in [Ordinal -> PodObject] /\ plan' \in [Phases -> SUBSET Ordinal]
  BY ConstantsTyped DEF IdleLocals
<1>4. QED
  BY <1>1, <1>2, <1>3 DEF LocalTypeOK

\* A reconcile that ends leaves typed locals and a typed queue.
LEMMA EndTyped ==
  ASSUME queued \in BOOLEAN, Done \/ Retry
  PROVE  LocalTypeOK' /\ queued' \in BOOLEAN
BY IdleTyped DEF Done, Retry

\* A stored status leaves a profile.
LEMMA StoreStatusTyped ==
  ASSUME profile \in Profile, NEW status \in ReplicaProfileStatus, StoreStatus(status)
  PROVE  profile' \in Profile /\ lagging' \in BOOLEAN
BY DEF StoreStatus, Profile

\* So does a recorded failure,
LEMMA ErrorOutTyped ==
  ASSUME TypeOK, NEW status \in ReplicaProfileStatus, ErrorOut(status)
  PROVE  profile' \in Profile /\ lagging' \in BOOLEAN
BY StoreStatusTyped DEF ErrorOut, LeaveStatus, TypeOK, ServerTypeOK, CacheTypeOK

\* and a status update that ends the reconcile.
LEMMA StoreStatusAndReturnTyped ==
  ASSUME TypeOK, NEW status \in ReplicaProfileStatus, StoreStatusAndReturn(status)
  PROVE  /\ profile' \in Profile /\ lagging' \in BOOLEAN
         /\ LocalTypeOK' /\ queued' \in BOOLEAN
BY StoreStatusTyped, EndTyped
DEF StoreStatusAndReturn, LeaveStatus, TypeOK, ServerTypeOK, CacheTypeOK

\* The statuses a reconcile stores.
LEMMA StatusesTyped ==
  ASSUME rp \in Profile
  PROVE  /\ EnsuredFailed \in ReplicaProfileStatus
         /\ AppliedFailed \in ReplicaProfileStatus
         /\ PausedStatus \in ReplicaProfileStatus
         /\ FinalStatus \in ReplicaProfileStatus
         /\ WithCondition(rp.status, "applied", "Unsupported") \in ReplicaProfileStatus
<1>1. rp.status \in ReplicaProfileStatus
  BY DEF Profile
<1>2. {"Failed", "Paused", "Skipped", "Applied", "Unsupported"} \subseteq Reasons
  BY DEF Reasons
<1>3. (IF NeedStateChange /\ ~ CanDoStateChange THEN "Skipped" ELSE "Applied") \in Reasons
  BY <1>2
<1>4. QED
  BY <1>1, <1>2, <1>3, WithConditionTyped
  DEF EnsuredFailed, AppliedFailed, PausedStatus, FinalStatus

-----------------------------------------------------------------------------
(***************************************************************************)
(* Every step keeps the types, one action after the other.                 *)
(***************************************************************************)
LEMMA BeginTyped ==
  ASSUME TypeOK, BeginNothingToDo \/ BeginDeletion \/ BeginFirst \/ BeginAgain
  PROVE  TypeOK'
<1> USE DEF TypeOK, ServerTypeOK, CacheTypeOK, BoundTypeOK, LocalTypeOK, Begin, serverVars,
            cacheVars, podCache, localVars, ProgramCounters
<1>1. CASE BeginNothingToDo
  BY <1>1 DEF BeginNothingToDo
<1>2. cachedProfile.status \in ReplicaProfileStatus
  BY DEF Profile
<1>3. CASE BeginDeletion
  BY <1>2, <1>3 DEF BeginDeletion, Take
<1>4. CASE BeginFirst
  BY <1>2, <1>4 DEF BeginFirst, Take
<1>5. CASE BeginAgain
  BY <1>2, <1>5 DEF BeginAgain, Take, AfterFinalizer
<1>6. QED
  BY <1>1, <1>3, <1>4, <1>5

\* The patches of the finalizer.
LEMMA FinalizerTyped ==
  ASSUME TypeOK, RemoveFinalizer \/ AddFinalizer \/ FinalizerPatchMisses
  PROVE  TypeOK'
<1> USE DEF TypeOK, ServerTypeOK, CacheTypeOK, BoundTypeOK, serverVars, cacheVars, podCache
<1>1. CASE RemoveFinalizer
  <2>1. profile' \in Profile
    BY <1>1, ConstantsTyped DEF RemoveFinalizer, Profile
  <2>2. QED
    BY <1>1, <2>1, EndTyped DEF RemoveFinalizer
<1>2. CASE AddFinalizer
  <2> DEFINE stored == [profile EXCEPT !.finalizer = TRUE]
  <2>1. stored \in Profile /\ stored.status \in ReplicaProfileStatus
    BY DEF Profile
  <2>2. /\ profile' = stored /\ rp' = stored /\ original' = stored.status
        /\ pc' = AfterFinalizer(stored)
    BY <1>2 DEF AddFinalizer
  <2> HIDE DEF stored
  <2>3. QED
    BY <1>2, <2>1, <2>2 DEF AddFinalizer, AfterFinalizer, LocalTypeOK, ProgramCounters
<1>3. CASE FinalizerPatchMisses
  BY <1>3, EndTyped DEF FinalizerPatchMisses
<1>4. QED
  BY <1>1, <1>2, <1>3

\* The pause, the scale, the pods and the status they make.
LEMMA ObserveTyped ==
  ASSUME TypeOK, Pause \/ GetScale \/ List \/ Reflect \/ ReflectConflict
  PROVE  TypeOK'
<1> USE DEF TypeOK, ServerTypeOK, CacheTypeOK, BoundTypeOK, serverVars, cacheVars, podCache
<1>1. rp \in Profile /\ rp.status \in ReplicaProfileStatus
  BY DEF LocalTypeOK, Profile
<1>2. CASE Pause
  BY <1>1, <1>2, StatusesTyped, StoreStatusAndReturnTyped DEF Pause
<1>3. CASE GetScale
  BY <1>3 DEF GetScale, LocalTypeOK, ProgramCounters
<1>4. CASE List
  <2>1. rp' \in Profile
    BY <1>1, <1>4, ReflectedTyped DEF List, Profile
  <2>2. QED
    BY <1>4, <2>1 DEF List, LocalTypeOK, ProgramCounters
<1>5. CASE Reflect
  <2>1. profile' \in Profile /\ lagging' \in BOOLEAN
    BY <1>1, <1>5, StoreStatusTyped DEF Reflect, LeaveStatus
  <2>2. LocalTypeOK' /\ queued' \in BOOLEAN
    <3>1. CASE IsEnsured(rp.spec, rp.status)
      BY <1>5, <3>1, EndTyped DEF Reflect
    <3>2. CASE ~ IsEnsured(rp.spec, rp.status)
      BY <1>1, <1>5, <3>2 DEF Reflect, LocalTypeOK, ProgramCounters
    <3>3. QED
      BY <3>1, <3>2
  <2>3. QED
    BY <1>5, <2>1, <2>2 DEF Reflect
<1>6. CASE ReflectConflict
  BY <1>6, EndTyped DEF ReflectConflict
<1>7. QED
  BY <1>2, <1>3, <1>4, <1>5, <1>6

\* The decision.
LEMMA PrepareTyped ==
  ASSUME TypeOK,
         \/ SkipStateChange \/ SorterUnsupported \/ PrepareFails
         \/ PlanStateChange \/ PlanPanics
  PROVE  TypeOK'
<1> USE DEF TypeOK, ServerTypeOK, CacheTypeOK, BoundTypeOK, serverVars, cacheVars, podCache
<1>1. rp \in Profile
  BY DEF LocalTypeOK
<1>2. CASE SkipStateChange
  BY <1>2 DEF SkipStateChange, LocalTypeOK, ProgramCounters
<1>3. CASE SorterUnsupported
  BY <1>1, <1>3, StatusesTyped, ErrorOutTyped, EndTyped DEF SorterUnsupported
<1>4. CASE PrepareFails
  BY <1>1, <1>4, StatusesTyped, ErrorOutTyped, EndTyped DEF PrepareFails
<1>5. CASE PlanStateChange
  <2>1. plan' \in [Phases -> SUBSET Ordinal]
    BY <1>5, PlanTyped DEF PlanStateChange
  <2>2. QED
    BY <1>5, <2>1 DEF PlanStateChange, LocalTypeOK, ProgramCounters
<1>6. CASE PlanPanics
  BY <1>6, EndTyped DEF PlanPanics
<1>7. QED
  BY <1>2, <1>3, <1>4, <1>5, <1>6

\* A pod that is changed remains a pod.
LEMMA PodTyped ==
  ASSUME NEW pod \in PodObject
  PROVE  /\ \A open \in BOOLEAN : [pod EXCEPT !.traffic = open] \in PodObject
         /\ \A s \in RunningStates : [pod EXCEPT !.state = s] \in PodObject
         /\ [pod EXCEPT !.phase = "Running"] \in PodObject
         /\ [pod EXCEPT !.phase = "Pending"] \in PodObject
BY DEF PodObject

\* A pod whose traffic is switched.
LEMMA SetTrafficTyped ==
  ASSUME TypeOK, NEW phase \in Phases, NEW i \in Ordinal, NEW open \in BOOLEAN,
         SetTraffic(phase, i, open)
  PROVE  TypeOK'
<1> USE DEF TypeOK, ServerTypeOK, CacheTypeOK, BoundTypeOK, LocalTypeOK, cacheVars, podCache
<1>1. plan' \in [Phases -> SUBSET Ordinal]
  BY DEF SetTraffic, Finished
<1>2. pods' \in [Ordinal -> PodObject] /\ listed' \in [Ordinal -> PodObject]
  <2>1. pods[i] \in PodObject
    OBVIOUS
  <2>2. [pods[i] EXCEPT !.traffic = open] \in PodObject
    BY <2>1, PodTyped
  <2>3. QED
    BY <2>2 DEF SetTraffic
<1>3. QED
  BY <1>1, <1>2 DEF SetTraffic

\* A pod whose label is changed.
LEMMA SetPodStateTyped ==
  ASSUME TypeOK, NEW phase \in Phases, NEW i \in Ordinal, NEW s \in RunningStates,
         SetPodState(phase, i, s)
  PROVE  TypeOK'
<1> USE DEF TypeOK, ServerTypeOK, CacheTypeOK, BoundTypeOK, LocalTypeOK, cacheVars, podCache
<1>1. plan' \in [Phases -> SUBSET Ordinal]
  BY DEF SetPodState, Finished
<1>2. pods' \in [Ordinal -> PodObject]
  <2>1. pods[i] \in PodObject
    OBVIOUS
  <2>2. [pods[i] EXCEPT !.state = s] \in PodObject
    BY <2>1, PodTyped
  <2>3. QED
    BY <2>2 DEF SetPodState
<1>3. QED
  BY <1>1, <1>2 DEF SetPodState

\* The five phases of the state change.
LEMMA ApplyTyped ==
  ASSUME TypeOK, NEW i \in Ordinal,
         \/ TrafficOn(i) \/ LabelOnline(i) \/ TrafficOff(i) \/ LabelCutoff(i)
         \/ LabelStandby(i)
  PROVE  TypeOK'
<1>1. {"Online", "Cutoff", "Standby"} \subseteq RunningStates
  BY DEF RunningStates, SM!RunningStates
<1>2. QED
  BY <1>1, SetTrafficTyped, SetPodStateTyped
  DEF TrafficOn, TrafficOff, LabelOnline, LabelCutoff, LabelStandby, Phases

\* The scale update, its failures and the last status.
LEMMA EndingTyped ==
  ASSUME TypeOK,
         \/ \E f \in Phases, i \in Ordinal : PodPatchMisses(f, i)
         \/ UpdateScale \/ ScaleConflict \/ Finish
  PROVE  TypeOK'
<1> USE DEF TypeOK, ServerTypeOK, CacheTypeOK, BoundTypeOK, serverVars, cacheVars, podCache
<1>1. rp \in Profile
  BY DEF LocalTypeOK
<1>2. ASSUME NEW f \in Phases, NEW i \in Ordinal, PodPatchMisses(f, i)
      PROVE  TypeOK'
  BY <1>1, <1>2, StatusesTyped, ErrorOutTyped, EndTyped DEF PodPatchMisses
<1>3. CASE UpdateScale
  BY <1>1, <1>3, DesiredTyped DEF UpdateScale, LocalTypeOK, ProgramCounters
<1>4. CASE ScaleConflict
  BY <1>1, <1>4, StatusesTyped, ErrorOutTyped, EndTyped DEF ScaleConflict
<1>5. CASE Finish
  BY <1>1, <1>5, StatusesTyped, StoreStatusAndReturnTyped DEF Finish
<1>6. QED
  BY <1>2, <1>3, <1>4, <1>5

\* All of the reconcile.
LEMMA ReconcileTyped ==
  ASSUME TypeOK, Reconcile
  PROVE  TypeOK'
BY BeginTyped, FinalizerTyped, ObserveTyped, PrepareTyped, ApplyTyped, EndingTyped
DEF Reconcile

\* What is left after a disturbance, and the generation of the next edit.
LEMMA SpendTyped ==
  ASSUME TypeOK, NEW kind \in TroubleKinds, Spend(kind)
  PROVE  BoundTypeOK'
<1>1. left \in [TroubleKinds -> Nat] /\ Troubles \in [TroubleKinds -> Nat]
  BY ConstantsAssumption DEF ConstantsAssumption, TypeOK, BoundTypeOK
<1>2. left[kind] - 1 \in Nat /\ left[kind] - 1 <= left[kind]
  BY <1>1 DEF Spend
<1>3. left' = [left EXCEPT ![kind] = left[kind] - 1]
  BY DEF Spend
<1>4. left' \in [TroubleKinds -> Nat]
  BY <1>1, <1>2, <1>3
<1>5. ASSUME NEW k \in TroubleKinds
      PROVE  left'[k] <= Troubles[k]
  <2>1. left[k] \in Nat /\ Troubles[k] \in Nat /\ left[k] <= Troubles[k]
    BY <1>1 DEF TypeOK, BoundTypeOK
  <2>2. CASE k = kind
    BY <1>1, <1>2, <1>3, <2>1, <2>2
  <2>3. CASE k # kind
    BY <1>1, <1>3, <2>1, <2>3
  <2>4. QED
    BY <2>2, <2>3
<1>6. QED
  BY <1>4, <1>5 DEF BoundTypeOK

\* Edits leave a positive generation.
LEMMA NextGenerationTyped ==
  ASSUME TypeOK
  PROVE  NextGeneration \in Nat
<1>1. Troubles["edit"] \in Nat /\ left["edit"] \in Nat /\ left["edit"] <= Troubles["edit"]
  BY ConstantsAssumption DEF ConstantsAssumption, TypeOK, BoundTypeOK, TroubleKinds
<1>2. QED
  BY <1>1 DEF NextGeneration

\* A failed call only spends one disturbance and ends the reconcile.
LEMMA CallFailsTyped ==
  ASSUME TypeOK, CallFails
  PROVE  TypeOK'
<1>1. EnsuredFailed \in ReplicaProfileStatus /\ AppliedFailed \in ReplicaProfileStatus
  BY StatusesTyped DEF TypeOK, LocalTypeOK
<1>2. profile' \in Profile /\ lagging' \in BOOLEAN
  BY <1>1, ErrorOutTyped
  DEF CallFails, LeaveStatus, TypeOK, ServerTypeOK, CacheTypeOK
<1>3. BoundTypeOK'
  BY SpendTyped DEF CallFails, TroubleKinds
<1>4. LocalTypeOK' /\ queued' \in BOOLEAN
  BY EndTyped DEF CallFails, TypeOK
<1>5. QED
  BY <1>2, <1>3, <1>4 DEF CallFails, TypeOK, ServerTypeOK, CacheTypeOK, podCache

\* A restart fills the caches with what is stored.
LEMMA RestartTyped ==
  ASSUME TypeOK, Restart
  PROVE  TypeOK'
<1>1. BoundTypeOK'
  BY SpendTyped DEF Restart, TroubleKinds
<1>2. LocalTypeOK'
  BY IdleTyped DEF Restart
<1>3. profile.exists \in BOOLEAN
  BY DEF TypeOK, ServerTypeOK, Profile
<1>4. QED
  BY <1>1, <1>2, <1>3 DEF Restart, TypeOK, ServerTypeOK, CacheTypeOK, serverVars

\* The watches copy what is stored.
LEMMA DeliverTyped ==
  ASSUME TypeOK, DeliverProfile \/ \E i \in Ordinal : DeliverPod(i)
  PROVE  TypeOK'
<1> USE DEF TypeOK, ServerTypeOK, CacheTypeOK, BoundTypeOK, LocalTypeOK, serverVars,
            localVars, podCache
<1>1. CASE DeliverProfile
  BY <1>1 DEF DeliverProfile
<1>2. ASSUME NEW i \in Ordinal, DeliverPod(i)
      PROVE  TypeOK'
  <2> DEFINE new == IF i \in unseenDeletions THEN AbsentPod ELSE pods[i]
  <2>1. new \in PodObject
    BY ConstantsTyped
  <2>2. /\ cachedPods' = [cachedPods EXCEPT ![i] = new]
        /\ queued' = (queued \/ (PodEvent(cachedPods[i], new) /\ WakesForPods))
    BY <1>2 DEF DeliverPod
  <2> HIDE DEF new
  <2>3. cachedPods' \in [Ordinal -> PodObject] /\ queued' \in BOOLEAN
    BY <2>1, <2>2
  <2>4. QED
    BY <1>2, <2>3 DEF DeliverPod
<1>3. QED
  BY <1>1, <1>2

\* Edits, deletion and creation of the profile.
LEMMA OwnTyped ==
  ASSUME TypeOK, Own
  PROVE  TypeOK'
<1> USE DEF podCache
<1>1. Specs \subseteq ReplicaProfileSpec
  BY ConstantsAssumption DEF ConstantsAssumption
<1>2. ASSUME NEW s \in Specs, EditProfile(s)
      PROVE  TypeOK'
  <2>1. profile' \in Profile
    BY <1>1, <1>2, NextGenerationTyped DEF EditProfile, TypeOK, ServerTypeOK, Profile
  <2>2. BoundTypeOK'
    BY <1>2, SpendTyped DEF EditProfile, TroubleKinds
  <2>3. QED
    BY <1>2, <2>1, <2>2 DEF EditProfile, TypeOK, ServerTypeOK, CacheTypeOK, LocalTypeOK
<1>3. CASE DeleteProfile
  <2>1. profile' \in Profile
    BY <1>3, ConstantsTyped, NextGenerationTyped
    DEF DeleteProfile, TypeOK, ServerTypeOK, Profile
  <2>2. BoundTypeOK'
    BY <1>3, SpendTyped DEF DeleteProfile, TroubleKinds
  <2>3. QED
    BY <1>3, <2>1, <2>2 DEF DeleteProfile, TypeOK, ServerTypeOK, CacheTypeOK, LocalTypeOK
<1>4. ASSUME NEW s \in Specs, CreateProfile(s)
      PROVE  TypeOK'
  <2>1. profile' \in Profile
    BY <1>1, <1>4, NewProfileTyped, NextGenerationTyped DEF CreateProfile
  <2>2. BoundTypeOK'
    BY <1>4, SpendTyped DEF CreateProfile, TroubleKinds
  <2>3. QED
    BY <1>4, <2>1, <2>2 DEF CreateProfile, TypeOK, ServerTypeOK, CacheTypeOK, LocalTypeOK
<1>5. QED
  BY <1>2, <1>3, <1>4 DEF Own

\* A pod that goes away.
LEMMA LoseTyped ==
  ASSUME TypeOK, NEW i \in Ordinal, Lose(i), BoundTypeOK'
  PROVE  TypeOK'
BY ConstantsTyped
DEF Lose, TypeOK, ServerTypeOK, CacheTypeOK, LocalTypeOK, localVars

\* The workload controller.
LEMMA WorkloadTyped ==
  ASSUME TypeOK, NEW i \in Ordinal, Workload(i)
  PROVE  TypeOK'
<1> USE DEF TypeOK, ServerTypeOK, CacheTypeOK, BoundTypeOK, LocalTypeOK, cacheVars,
            localVars, podCache
<1>1. CASE CreatePod(i)
  <2>1. [AbsentPod EXCEPT !.phase = "Pending"] \in PodObject
    BY ConstantsTyped, PodTyped
  <2>2. QED
    BY <1>1, <2>1 DEF CreatePod
<1>2. CASE PodStarts(i)
  <2>1. pods[i] \in PodObject
    OBVIOUS
  <2>2. [pods[i] EXCEPT !.phase = "Running"] \in PodObject
    BY <2>1, PodTyped
  <2>3. QED
    BY <1>2, <2>2 DEF PodStarts
<1>3. CASE ScaleDownPod(i)
  BY <1>3, LoseTyped DEF ScaleDownPod
<1>4. QED
  BY <1>1, <1>2, <1>3 DEF Workload

\* The disturbances.
LEMMA DisturbTyped ==
  ASSUME TypeOK, Disturb
  PROVE  TypeOK'
<1>1. ASSUME NEW i \in Ordinal, EvictPod(i)
      PROVE  TypeOK'
  BY <1>1, LoseTyped, SpendTyped DEF EvictPod, TroubleKinds
<1>2. ASSUME NEW n \in 0 .. MaxPods, ScaleByHand(n)
      PROVE  TypeOK'
  <2>1. n \in Nat
    BY ConstantsAssumption DEF ConstantsAssumption
  <2>2. BoundTypeOK'
    BY <1>2, SpendTyped DEF ScaleByHand, TroubleKinds
  <2>3. QED
    BY <1>2, <2>1, <2>2
    DEF ScaleByHand, TypeOK, ServerTypeOK, CacheTypeOK, LocalTypeOK, cacheVars, podCache
<1>3. QED
  BY <1>1, <1>2, CallFailsTyped, RestartTyped DEF Disturb

\* The types hold at first.
LEMMA InitTyped ==
  ASSUME Init
  PROVE  TypeOK
<1>1. /\ Specs \subseteq ReplicaProfileSpec /\ InitReplicas \in Nat
      /\ Troubles \in [TroubleKinds -> Nat]
  BY ConstantsAssumption DEF ConstantsAssumption
<1>2. profile \in Profile
  BY <1>1, NewProfileTyped DEF Init
<1>3. LocalTypeOK
  BY ConstantsTyped DEF Init, LocalTypeOK, ProgramCounters
<1>4. BoundTypeOK
  <2>1. left = Troubles
    BY DEF Init
  <2>2. \A k \in TroubleKinds : Troubles[k] <= Troubles[k]
    BY <1>1
  <2>3. QED
    BY <1>1, <2>1, <2>2 DEF BoundTypeOK
<1>5. ServerTypeOK
  BY <1>1, <1>2, ConstantsTyped DEF Init, ServerTypeOK
<1>6. lagging \in BOOLEAN /\ queued \in BOOLEAN /\ selectorCached \in BOOLEAN
  BY DEF Init
<1>7. CacheTypeOK
  BY <1>6, ConstantsTyped DEF Init, CacheTypeOK
<1>8. QED
  BY <1>3, <1>4, <1>5, <1>6, <1>7 DEF TypeOK

\* Every step keeps the types.
LEMMA StepTyped ==
  ASSUME TypeOK, [Next]_vars
  PROVE  TypeOK'
<1>1. CASE UNCHANGED vars
  BY <1>1 DEF vars, serverVars, cacheVars, podCache, localVars, TypeOK, ServerTypeOK,
              CacheTypeOK, BoundTypeOK, LocalTypeOK
<1>2. CASE Next
  BY <1>2, ReconcileTyped, DeliverTyped, WorkloadTyped, OwnTyped, DisturbTyped DEF Next
<1>3. QED
  BY <1>1, <1>2

(***************************************************************************)
(* Every variable keeps its type: in particular the numbers a reconcile    *)
(* computes stay natural and its plan only names pods of the workload.     *)
(***************************************************************************)
THEOREM TypeCorrect == Spec => []TypeOK
<1>1. Init => TypeOK
  BY InitTyped
<1>2. TypeOK /\ [Next]_vars => TypeOK'
  BY StepTyped
<1>3. QED
  BY <1>1, <1>2, PTL DEF Spec

-----------------------------------------------------------------------------
(***************************************************************************)
(* The selector never outlives the profile.  Of the profile only three     *)
(* marks matter: that it exists, is being deleted, and has the finalizer.  *)
(***************************************************************************)
SameMarks ==
  /\ profile'.exists = profile.exists
  /\ profile'.deleting = profile.deleting
  /\ profile'.finalizer = profile.finalizer

\* Steps that touch neither the marks, the cached profile nor the selector.
LEMMA UnmarkedKeepsFinalizerInv ==
  ASSUME FinalizerInv, SameMarks,
         cachedProfile' = cachedProfile, selectorCached' = selectorCached,
         pc' = pc \/ pc' = "idle" \/ (Working /\ Working')
  PROVE  FinalizerInv'
BY DEF FinalizerInv, SameMarks, Working, Kept, SeenAlive, SeenDeleted, SelectorCacheOwned

\* An untouched profile keeps its marks.
LEMMA SameProfileSameMarks == profile' = profile => SameMarks
BY DEF SameMarks

\* Storing a status leaves the marks alone.
LEMMA StoreStatusSameMarks ==
  ASSUME TypeOK, NEW status, StoreStatus(status) \/ LeaveStatus
  PROVE  SameMarks
BY DEF StoreStatus, LeaveStatus, SameMarks, TypeOK, ServerTypeOK, Profile

\* Neither does recording a failure touch them,
LEMMA ErrorOutSameMarks ==
  ASSUME TypeOK, NEW status, ErrorOut(status)
  PROVE  SameMarks
BY StoreStatusSameMarks DEF ErrorOut

\* nor the status update that ends a reconcile.
LEMMA StoreStatusAndReturnSameMarks ==
  ASSUME TypeOK, NEW status, StoreStatusAndReturn(status)
  PROVE  SameMarks /\ pc' = "idle"
BY StoreStatusSameMarks DEF StoreStatusAndReturn, Done, Retry, IdleLocals

\* The head of a reconcile: what the cache shows tells what is stored.
LEMMA BeginKeepsFinalizerInv ==
  ASSUME TypeOK, FinalizerInv, BeginNothingToDo \/ BeginDeletion \/ BeginFirst \/ BeginAgain
  PROVE  FinalizerInv'
<1> USE DEF Begin, Take, serverVars, cacheVars, FinalizerInv, Working, Kept, SeenAlive,
            SeenDeleted, SelectorCacheOwned
<1>1. CASE BeginNothingToDo
  BY <1>1 DEF BeginNothingToDo, localVars
<1>2. CASE BeginDeletion
  BY <1>2 DEF BeginDeletion
<1>3. CASE BeginFirst
  BY <1>3 DEF BeginFirst
<1>4. CASE BeginAgain
  BY <1>4 DEF BeginAgain, AfterFinalizer
<1>5. QED
  BY <1>1, <1>2, <1>3, <1>4

\* The patches of the finalizer.
LEMMA FinalizerKeepsFinalizerInv ==
  ASSUME TypeOK, FinalizerInv, RemoveFinalizer \/ AddFinalizer \/ FinalizerPatchMisses
  PROVE  FinalizerInv'
<1>1. CASE RemoveFinalizer
  <2>1. /\ ~ profile'.finalizer
        /\ profile'.deleting => profile'.finalizer
    BY <1>1 DEF RemoveFinalizer, NoProfile, TypeOK, ServerTypeOK, Profile
  <2>2. QED
    BY <1>1, <2>1
    DEF RemoveFinalizer, Done, IdleLocals, FinalizerInv, Working, Kept, SeenAlive, SeenDeleted,
        SelectorCacheOwned
<1>2. CASE AddFinalizer
  <2>1. /\ profile'.finalizer /\ profile'.exists
        /\ profile'.deleting = profile.deleting
    BY <1>2 DEF AddFinalizer, TypeOK, ServerTypeOK, Profile
  <2>2. pc' \in {"pause", "getScale"}
    BY <1>2 DEF AddFinalizer, AfterFinalizer
  <2>3. QED
    BY <1>2, <2>1, <2>2
    DEF AddFinalizer, FinalizerInv, Working, Kept, SeenAlive, SeenDeleted, SelectorCacheOwned
<1>3. CASE FinalizerPatchMisses
  BY <1>3, UnmarkedKeepsFinalizerInv, SameProfileSameMarks
  DEF FinalizerPatchMisses, Retry, IdleLocals, serverVars, cacheVars
<1>4. QED
  BY <1>1, <1>2, <1>3

\* Reading the scale is the only step that stores the selector.
LEMMA ObserveKeepsFinalizerInv ==
  ASSUME TypeOK, FinalizerInv, Pause \/ GetScale \/ List \/ Reflect \/ ReflectConflict
  PROVE  FinalizerInv'
<1>1. CASE Pause
  BY <1>1, StoreStatusAndReturnSameMarks, UnmarkedKeepsFinalizerInv DEF Pause
<1>2. CASE GetScale
  BY <1>2
  DEF GetScale, serverVars, cacheVars, FinalizerInv, Working, Kept, SeenAlive, SeenDeleted,
      SelectorCacheOwned
<1>3. CASE List
  BY <1>3, UnmarkedKeepsFinalizerInv, SameProfileSameMarks
  DEF List, serverVars, cacheVars, Working
<1>4. CASE Reflect
  <2>1. SameMarks
    BY <1>4, StoreStatusSameMarks DEF Reflect
  <2>2. pc' = "idle" \/ (Working /\ Working')
    BY <1>4 DEF Reflect, Done, IdleLocals, Working
  <2>3. QED
    BY <1>4, <2>1, <2>2, UnmarkedKeepsFinalizerInv DEF Reflect
<1>5. CASE ReflectConflict
  BY <1>5, UnmarkedKeepsFinalizerInv, SameProfileSameMarks
  DEF ReflectConflict, Retry, IdleLocals, serverVars, cacheVars
<1>6. QED
  BY <1>1, <1>2, <1>3, <1>4, <1>5

\* What follows works on pods and on the scale.
LEMMA PrepareKeepsFinalizerInv ==
  ASSUME TypeOK, FinalizerInv,
         \/ SkipStateChange \/ SorterUnsupported \/ PrepareFails
         \/ PlanStateChange \/ PlanPanics
  PROVE  FinalizerInv'
<1>1. CASE SkipStateChange
  BY <1>1, UnmarkedKeepsFinalizerInv, SameProfileSameMarks
  DEF SkipStateChange, Prepare, serverVars, cacheVars, Working
<1>2. CASE SorterUnsupported
  BY <1>2, UnmarkedKeepsFinalizerInv, ErrorOutSameMarks
  DEF SorterUnsupported, Done, IdleLocals
<1>3. CASE PrepareFails
  BY <1>3, UnmarkedKeepsFinalizerInv, ErrorOutSameMarks DEF PrepareFails, Retry, IdleLocals
<1>4. CASE PlanStateChange
  BY <1>4, UnmarkedKeepsFinalizerInv, SameProfileSameMarks
  DEF PlanStateChange, CanPlan, WantsStateChange, Prepare, serverVars, cacheVars, Working
<1>5. CASE PlanPanics
  BY <1>5, UnmarkedKeepsFinalizerInv, SameProfileSameMarks
  DEF PlanPanics, Retry, IdleLocals, serverVars, cacheVars
<1>6. QED
  BY <1>1, <1>2, <1>3, <1>4, <1>5

\* The state change never touches the profile.
LEMMA ApplyKeepsFinalizerInv ==
  ASSUME FinalizerInv, NEW i \in Ordinal,
         \/ TrafficOn(i) \/ LabelOnline(i) \/ TrafficOff(i) \/ LabelCutoff(i)
         \/ LabelStandby(i)
  PROVE  FinalizerInv'
BY UnmarkedKeepsFinalizerInv, SameProfileSameMarks
DEF TrafficOn, TrafficOff, LabelOnline, LabelCutoff, LabelStandby, SetTraffic, SetPodState,
    cacheVars

\* The scale update and the last status leave the marks alone.
LEMMA EndingKeepsFinalizerInv ==
  ASSUME TypeOK, FinalizerInv,
         \/ \E f \in Phases, i \in Ordinal : PodPatchMisses(f, i)
         \/ UpdateScale \/ ScaleConflict \/ Finish
  PROVE  FinalizerInv'
<1>1. ASSUME NEW f \in Phases, NEW i \in Ordinal, PodPatchMisses(f, i)
      PROVE  FinalizerInv'
  BY <1>1, UnmarkedKeepsFinalizerInv, ErrorOutSameMarks DEF PodPatchMisses, Retry, IdleLocals
<1>2. CASE UpdateScale
  BY <1>2, UnmarkedKeepsFinalizerInv, SameProfileSameMarks
  DEF UpdateScale, ScaleNext, cacheVars, Working
<1>3. CASE ScaleConflict
  BY <1>3, UnmarkedKeepsFinalizerInv, ErrorOutSameMarks DEF ScaleConflict, Retry, IdleLocals
<1>4. CASE Finish
  BY <1>4, UnmarkedKeepsFinalizerInv, StoreStatusAndReturnSameMarks DEF Finish
<1>5. QED
  BY <1>1, <1>2, <1>3, <1>4

\* The watches only replace what the cache shows by what is stored.
LEMMA DeliverKeepsFinalizerInv ==
  ASSUME TypeOK, FinalizerInv, DeliverProfile \/ \E i \in Ordinal : DeliverPod(i)
  PROVE  FinalizerInv'
<1>1. CASE DeliverProfile
  BY <1>1
  DEF DeliverProfile, serverVars, localVars, FinalizerInv, Working, Kept, SeenAlive,
      SeenDeleted, SelectorCacheOwned
<1>2. ASSUME NEW i \in Ordinal, DeliverPod(i)
      PROVE  FinalizerInv'
  BY <1>2, UnmarkedKeepsFinalizerInv, SameProfileSameMarks DEF DeliverPod, serverVars, localVars
<1>3. QED
  BY <1>1, <1>2

\* Nobody takes the finalizer away from a profile that is not being deleted.
LEMMA OwnKeepsFinalizerInv ==
  ASSUME TypeOK, FinalizerInv, Own
  PROVE  FinalizerInv'
<1>1. ASSUME NEW s \in Specs, EditProfile(s)
      PROVE  FinalizerInv'
  <2>1. SameMarks
    BY <1>1 DEF EditProfile, SameMarks, TypeOK, ServerTypeOK, Profile
  <2>2. QED
    BY <1>1, <2>1, UnmarkedKeepsFinalizerInv DEF EditProfile
<1>2. CASE DeleteProfile
  <2>1. CASE profile.finalizer
    <3>1. profile'.exists /\ profile'.finalizer /\ profile'.deleting
      BY <1>2, <2>1 DEF DeleteProfile, TypeOK, ServerTypeOK, Profile
    <3>2. QED
      BY <1>2, <2>1, <3>1
      DEF DeleteProfile, FinalizerInv, Working, Kept, SeenAlive, SeenDeleted, SelectorCacheOwned
  <2>2. CASE ~ profile.finalizer
    <3>1. ~ profile'.exists /\ ~ profile'.finalizer /\ ~ profile'.deleting
      BY <1>2, <2>2 DEF DeleteProfile, NoProfile
    <3>2. QED
      BY <1>2, <2>2, <3>1
      DEF DeleteProfile, FinalizerInv, Working, Kept, SeenAlive, SeenDeleted, SelectorCacheOwned
  <2>3. QED
    BY <2>1, <2>2
<1>3. ASSUME NEW s \in Specs, CreateProfile(s)
      PROVE  FinalizerInv'
  <2>1. profile'.exists /\ ~ profile'.deleting /\ ~ profile'.finalizer
    BY <1>3 DEF CreateProfile, NewProfile
  <2>2. QED
    BY <1>3, <2>1
    DEF CreateProfile, FinalizerInv, Working, Kept, SeenAlive, SeenDeleted, SelectorCacheOwned
<1>4. QED
  BY <1>1, <1>2, <1>3 DEF Own

\* The workload, a user of its scale, failed calls; a restart empties the memory.
LEMMA EnvironmentKeepsFinalizerInv ==
  ASSUME TypeOK, FinalizerInv, Disturb \/ \E i \in Ordinal : Workload(i)
  PROVE  FinalizerInv'
<1>1. CASE CallFails
  <2>1. SameMarks
    BY <1>1, StoreStatusSameMarks, ErrorOutSameMarks DEF CallFails
  <2>2. QED
    BY <1>1, <2>1, UnmarkedKeepsFinalizerInv DEF CallFails, Retry, IdleLocals
<1>2. CASE Restart
  BY <1>2
  DEF Restart, serverVars, IdleLocals, FinalizerInv, Working, Kept, SeenAlive, SeenDeleted,
      SelectorCacheOwned
<1>3. ASSUME NEW n \in 0 .. MaxPods, ScaleByHand(n)
      PROVE  FinalizerInv'
  BY <1>3, UnmarkedKeepsFinalizerInv, SameProfileSameMarks DEF ScaleByHand, cacheVars
<1>4. ASSUME NEW i \in Ordinal, EvictPod(i) \/ Workload(i)
      PROVE  FinalizerInv'
  BY <1>4, UnmarkedKeepsFinalizerInv, SameProfileSameMarks
  DEF EvictPod, Workload, CreatePod, PodStarts, ScaleDownPod, Lose, cacheVars, localVars
<1>5. QED
  BY <1>1, <1>2, <1>3, <1>4 DEF Disturb

\* Every step keeps the invariant.
LEMMA StepKeepsFinalizerInv ==
  ASSUME TypeOK, FinalizerInv, [Next]_vars
  PROVE  FinalizerInv'
<1>1. CASE UNCHANGED vars
  BY <1>1, UnmarkedKeepsFinalizerInv, SameProfileSameMarks
  DEF vars, serverVars, cacheVars, localVars
<1>2. CASE Reconcile
  BY <1>2, BeginKeepsFinalizerInv, FinalizerKeepsFinalizerInv, ObserveKeepsFinalizerInv,
     PrepareKeepsFinalizerInv, ApplyKeepsFinalizerInv, EndingKeepsFinalizerInv DEF Reconcile
<1>3. CASE Next /\ ~ Reconcile
  BY <1>3, DeliverKeepsFinalizerInv, OwnKeepsFinalizerInv, EnvironmentKeepsFinalizerInv DEF Next
<1>4. QED
  BY <1>1, <1>2, <1>3

\* A first profile has no finalizer and nothing is cached.
LEMMA InitFinalizerInv ==
  ASSUME Init
  PROVE  FinalizerInv
BY DEF Init, NewProfile, NoProfile, FinalizerInv, Working, Kept, SeenAlive, SeenDeleted,
       SelectorCacheOwned

(***************************************************************************)
(* A reconcile past the finalizer works on a profile that stays, and what  *)
(* a stale cache shows of the finalizer and the deletion never misleads    *)
(* the controller.                                                         *)
(***************************************************************************)
THEOREM FinalizerHeld == Spec => []FinalizerInv
<1>1. Init => FinalizerInv
  BY InitFinalizerInv
<1>2. TypeOK /\ FinalizerInv /\ [Next]_vars => FinalizerInv'
  BY StepKeepsFinalizerInv
<1>3. QED
  BY <1>1, <1>2, TypeCorrect, PTL DEF Spec

(***************************************************************************)
(* The selector in memory never outlives the profile it belongs to.        *)
(***************************************************************************)
THEOREM SelectorOwned == Spec => []SelectorCacheOwned
<1>1. FinalizerInv => SelectorCacheOwned
  BY DEF FinalizerInv
<1>2. QED
  BY <1>1, FinalizerHeld, PTL
-----------------------------------------------------------------------------
(***************************************************************************)
(* The scale.  Whoever writes it while a reconcile runs marks the copy of  *)
(* the reconcile as old: as long as it is not, the copy is what is stored. *)
(***************************************************************************)
Deciding == pc \in {"list", "reflect", "prepare", "apply"}

ScaleInv == Deciding /\ ~ scaleConflict => replicas = scale

SameScale == replicas' = replicas /\ scale' = scale /\ scaleConflict' = scaleConflict

\* Steps that leave the scale and its copy, and do not lead into a decision.
LEMMA SameScaleKeepsScaleInv ==
  ASSUME ScaleInv, SameScale, Deciding' => Deciding
  PROVE  ScaleInv'
BY DEF ScaleInv, SameScale, Deciding

\* A reconcile that has ended decides nothing.
LEMMA EndedKeepsScaleInv ==
  ASSUME Done \/ Retry \/ IdleLocals
  PROVE  ScaleInv'
BY DEF Done, Retry, IdleLocals, ScaleInv, Deciding

\* Before the scale is read, nothing is decided from it.
LEMMA HeadKeepsScaleInv ==
  ASSUME ScaleInv,
         \/ BeginNothingToDo \/ BeginDeletion \/ BeginFirst \/ BeginAgain
         \/ RemoveFinalizer \/ AddFinalizer \/ FinalizerPatchMisses
  PROVE  ScaleInv'
<1>1. CASE BeginNothingToDo
  BY <1>1 DEF BeginNothingToDo, Begin, localVars, serverVars, ScaleInv, Deciding
<1>2. CASE BeginDeletion \/ BeginFirst \/ BeginAgain
  BY <1>2 DEF BeginDeletion, BeginFirst, BeginAgain, Take, AfterFinalizer, ScaleInv, Deciding
<1>3. CASE RemoveFinalizer \/ FinalizerPatchMisses
  BY <1>3, EndedKeepsScaleInv DEF RemoveFinalizer, FinalizerPatchMisses
<1>4. CASE AddFinalizer
  <2>1. pc' \in {"pause", "getScale"}
    BY <1>4 DEF AddFinalizer, AfterFinalizer
  <2>2. QED
    BY <2>1 DEF ScaleInv, Deciding
<1>5. QED
  BY <1>1, <1>2, <1>3, <1>4

\* The scale is read here, and the copy is then what is stored.
LEMMA ObserveKeepsScaleInv ==
  ASSUME ScaleInv, Pause \/ GetScale \/ List \/ Reflect \/ ReflectConflict
  PROVE  ScaleInv'
<1>1. CASE Pause
  BY <1>1, EndedKeepsScaleInv DEF Pause, StoreStatusAndReturn
<1>2. CASE GetScale
  BY <1>2 DEF GetScale, serverVars, ScaleInv
<1>3. CASE List
  BY <1>3, SameScaleKeepsScaleInv DEF List, serverVars, SameScale, Deciding
<1>4. CASE Reflect
  <2>1. CASE IsEnsured(rp.spec, rp.status)
    BY <1>4, <2>1, EndedKeepsScaleInv DEF Reflect
  <2>2. CASE ~ IsEnsured(rp.spec, rp.status)
    BY <1>4, <2>2, SameScaleKeepsScaleInv DEF Reflect, SameScale, Deciding
  <2>3. QED
    BY <2>1, <2>2
<1>5. CASE ReflectConflict
  BY <1>5, EndedKeepsScaleInv DEF ReflectConflict
<1>6. QED
  BY <1>1, <1>2, <1>3, <1>4, <1>5

\* The decision works on the copy.
LEMMA PrepareKeepsScaleInv ==
  ASSUME ScaleInv,
         \/ SkipStateChange \/ SorterUnsupported \/ PrepareFails
         \/ PlanStateChange \/ PlanPanics
  PROVE  ScaleInv'
<1>1. CASE SkipStateChange \/ PlanStateChange
  BY <1>1, SameScaleKeepsScaleInv
  DEF SkipStateChange, PlanStateChange, CanPlan, WantsStateChange, Prepare, serverVars,
      SameScale, Deciding
<1>2. CASE SorterUnsupported \/ PrepareFails \/ PlanPanics
  BY <1>2, EndedKeepsScaleInv DEF SorterUnsupported, PrepareFails, PlanPanics
<1>3. QED
  BY <1>1, <1>2

\* The pods first; the update of the scale is the last use of the copy.
LEMMA ApplyKeepsScaleInv ==
  ASSUME ScaleInv,
         \/ \E i \in Ordinal : \/ TrafficOn(i) \/ LabelOnline(i) \/ TrafficOff(i)
                               \/ LabelCutoff(i) \/ LabelStandby(i)
         \/ \E f \in Phases, i \in Ordinal : PodPatchMisses(f, i)
         \/ UpdateScale \/ ScaleConflict \/ Finish
  PROVE  ScaleInv'
<1>1. ASSUME NEW i \in Ordinal,
             \/ TrafficOn(i) \/ LabelOnline(i) \/ TrafficOff(i) \/ LabelCutoff(i)
             \/ LabelStandby(i)
      PROVE  ScaleInv'
  BY <1>1, SameScaleKeepsScaleInv
  DEF TrafficOn, LabelOnline, TrafficOff, LabelCutoff, LabelStandby, SetTraffic, SetPodState,
      SameScale, Deciding
<1>2. ASSUME NEW f \in Phases, NEW i \in Ordinal, PodPatchMisses(f, i)
      PROVE  ScaleInv'
  BY <1>2, EndedKeepsScaleInv DEF PodPatchMisses
<1>3. CASE UpdateScale
  BY <1>3 DEF UpdateScale, ScaleInv, Deciding
<1>4. CASE ScaleConflict
  BY <1>4, EndedKeepsScaleInv DEF ScaleConflict
<1>5. CASE Finish
  BY <1>5, EndedKeepsScaleInv DEF Finish, StoreStatusAndReturn
<1>6. QED
  BY <1>1, <1>2, <1>3, <1>4, <1>5

\* Around the reconcile, only a user writes the scale, and a reconcile in flight conflicts.
LEMMA EnvironmentKeepsScaleInv ==
  ASSUME ScaleInv,
         \/ DeliverProfile \/ Own \/ Disturb
         \/ \E i \in Ordinal : DeliverPod(i) \/ Workload(i)
  PROVE  ScaleInv'
<1>1. CASE DeliverProfile \/ \E i \in Ordinal : DeliverPod(i)
  BY <1>1, SameScaleKeepsScaleInv
  DEF DeliverProfile, DeliverPod, serverVars, localVars, SameScale, Deciding
<1>2. CASE Own
  BY <1>2, SameScaleKeepsScaleInv
  DEF Own, EditProfile, DeleteProfile, CreateProfile, SameScale, Deciding
<1>3. ASSUME NEW i \in Ordinal, Workload(i) \/ EvictPod(i)
      PROVE  ScaleInv'
  BY <1>3, SameScaleKeepsScaleInv
  DEF Workload, CreatePod, PodStarts, ScaleDownPod, EvictPod, Lose, localVars, SameScale, Deciding
<1>4. CASE CallFails \/ Restart
  BY <1>4, EndedKeepsScaleInv DEF CallFails, Restart
<1>5. ASSUME NEW n \in 0 .. MaxPods, ScaleByHand(n)
      PROVE  ScaleInv'
  BY <1>5 DEF ScaleByHand, ScaleInv, Deciding
<1>6. QED
  BY <1>1, <1>2, <1>3, <1>4, <1>5 DEF Disturb

\* Every step keeps the invariant.
LEMMA StepKeepsScaleInv ==
  ASSUME ScaleInv, [Next]_vars
  PROVE  ScaleInv'
<1>1. CASE UNCHANGED vars
  BY <1>1, SameScaleKeepsScaleInv DEF vars, serverVars, localVars, SameScale, Deciding
<1>2. CASE Reconcile
  BY <1>2, HeadKeepsScaleInv, ObserveKeepsScaleInv, PrepareKeepsScaleInv, ApplyKeepsScaleInv
  DEF Reconcile
<1>3. CASE Next /\ ~ Reconcile
  BY <1>3, EnvironmentKeepsScaleInv DEF Next
<1>4. QED
  BY <1>1, <1>2, <1>3

(***************************************************************************)
(* A reconcile only overwrites the scale it based its decision on, however *)
(* many pods it had to change before and whoever scaled meanwhile.         *)
(***************************************************************************)
THEOREM ScaleKept == Spec => ScaleNotOverwritten
<1>1. Init => ScaleInv
  BY DEF Init, ScaleInv, Deciding
<1>2. ScaleInv /\ [Next]_vars => ScaleInv'
  BY StepKeepsScaleInv
<1>3. ScaleInv => (UpdateScale => replicas = scale)
  BY DEF UpdateScale, ScaleNext, ScaleInv, Deciding
<1>4. QED
  BY <1>1, <1>2, <1>3, PTL DEF Spec, ScaleNotOverwritten
-----------------------------------------------------------------------------
(***************************************************************************)
(* At rest the conditions tell of the latest spec.  An edit takes a new    *)
(* generation, so every copy of an older profile is told from the stored   *)
(* one by its generation: a wake-up is queued or still to come while the   *)
(* cached copy is older (Pending).  A copy of the same generation is one   *)
(* of the stored profile, and a reconcile of it that leaves without        *)
(* retrying has recorded that generation, or found it recorded.            *)
(***************************************************************************)
Live == profile.exists /\ ~ profile.deleting
Pending == queued \/ cachedProfile.generation # profile.generation
Recorded == profile.status.ensured.generation = profile.generation

\* A copy of the stored generation tells of the stored profile, and what it came with
\* as recorded is recorded.
CopyTells(copy, status) ==
  profile.exists /\ copy.generation = profile.generation =>
    /\ copy.exists
    /\ copy.deleting <=> profile.deleting
    /\ status.ensured.generation = copy.generation => Recorded

\* Every generation was given by an edit, and the next edit gives a new one.
GenerationsOld ==
  /\ profile.generation < NextGeneration
  /\ cachedProfile.generation < NextGeneration
  /\ rp.generation < NextGeneration

CacheTells ==
  /\ ~ lagging => cachedProfile = profile
  /\ CopyTells(cachedProfile, cachedProfile.status)

\* What a reconcile in flight works on.
ReconcileTells ==
  pc # "idle" =>
    /\ CopyTells(rp, original)
    /\ ~ conflict /\ profile.exists => rp.generation = profile.generation
    /\ pc = "removeFinalizer" => rp.deleting
    /\ pc \in {"reflect", "prepare", "apply", "finish"} =>
         rp.status.ensured.generation = rp.generation
    /\ Live => Pending \/ rp.generation = profile.generation

LatestInv ==
  /\ GenerationsOld
  /\ CacheTells
  /\ ReconcileTells
  /\ Live /\ pc \in {"idle", "prepare", "apply", "finish"} => Pending \/ Recorded

\* The stored profile stays the same object, and what is recorded stays recorded.
StaysRecorded ==
  /\ profile'.generation = profile.generation
  /\ profile'.exists <=> profile.exists
  /\ profile'.deleting <=> profile.deleting
  /\ Recorded => Recorded'

SameView ==
  /\ cachedProfile' = cachedProfile
  /\ ~ lagging' => ~ lagging /\ profile' = profile
  /\ NextGeneration' = NextGeneration
  /\ queued => queued'

\* Only an edit takes a generation.
LEMMA GenerationTaken ==
  ASSUME TypeOK, NEW kind \in TroubleKinds, Spend(kind)
  PROVE  NextGeneration' = IF kind = "edit" THEN NextGeneration + 1 ELSE NextGeneration
<1>1. /\ left \in [TroubleKinds -> Nat] /\ Troubles \in [TroubleKinds -> Nat]
      /\ "edit" \in TroubleKinds
  BY ConstantsAssumption DEF ConstantsAssumption, TypeOK, BoundTypeOK, TroubleKinds
<1>2. left' = [left EXCEPT ![kind] = left[kind] - 1]
  BY DEF Spend
<1>3. left'["edit"] = IF kind = "edit" THEN left["edit"] - 1 ELSE left["edit"]
  BY <1>1, <1>2
<1>4. /\ left["edit"] \in Nat /\ Troubles["edit"] \in Nat
      /\ NextGeneration = 2 + Troubles["edit"] - left["edit"]
      /\ NextGeneration' = 2 + Troubles["edit"] - left'["edit"]
  BY <1>1 DEF NextGeneration
<1>5. QED
  BY <1>3, <1>4

\* Generations are positive, so that of a reconcile that ended is old.
LEMMA NoGenerationOld ==
  ASSUME TypeOK
  PROVE  /\ NextGeneration \in Nat /\ NoProfile.generation < NextGeneration
         /\ ~ NoProfile.exists
         /\ profile.generation \in Nat /\ cachedProfile.generation \in Nat
         /\ rp.generation \in Nat
<1>1. Troubles["edit"] \in Nat /\ left["edit"] \in Nat /\ left["edit"] <= Troubles["edit"]
  BY ConstantsAssumption DEF ConstantsAssumption, TypeOK, BoundTypeOK, TroubleKinds
<1>2. NextGeneration \in Nat /\ 0 < NextGeneration
  BY <1>1 DEF NextGeneration
<1>3. NoProfile.generation = 0 /\ ~ NoProfile.exists
  BY DEF NoProfile
<1>4. profile \in Profile /\ cachedProfile \in Profile /\ rp \in Profile
  BY DEF TypeOK, ServerTypeOK, CacheTypeOK, LocalTypeOK
<1>5. profile.generation \in Nat /\ cachedProfile.generation \in Nat /\ rp.generation \in Nat
  BY <1>4 DEF Profile
<1>6. QED
  BY <1>2, <1>3, <1>5

\* The copy in the cache goes on telling.
LEMMA CacheGoesOnTelling ==
  ASSUME CacheTells, StaysRecorded, SameView
  PROVE  CacheTells'
BY DEF CacheTells, CopyTells, StaysRecorded, SameView

\* A reconcile that ends, and has recorded what it read or is woken again.
LEMMA EndKeepsLatestInv ==
  ASSUME TypeOK, LatestInv, StaysRecorded, SameView, IdleLocals,
         queued' \/ (Live => Pending \/ Recorded')
  PROVE  LatestInv'
<1>1. GenerationsOld'
  BY NoGenerationOld DEF LatestInv, GenerationsOld, StaysRecorded, SameView, IdleLocals
<1>2. CacheTells'
  BY CacheGoesOnTelling DEF LatestInv
<1>3. Live' => Pending' \/ Recorded'
  BY DEF Live, Pending, StaysRecorded, SameView
<1>4. QED
  BY <1>1, <1>2, <1>3 DEF LatestInv, ReconcileTells, IdleLocals

\* So does the copy of a reconcile that keeps it.
LEMMA ReconcileGoesOnTelling ==
  ASSUME CopyTells(rp, original), StaysRecorded, rp'.generation = rp.generation,
         rp'.exists <=> rp.exists, rp'.deleting <=> rp.deleting, original' = original
  PROVE  CopyTells(rp, original)'
BY DEF CopyTells, StaysRecorded

\* A reconcile that goes on with its copy.
LEMMA GoingOnKeepsLatestInv ==
  ASSUME TypeOK, LatestInv, StaysRecorded, SameView,
         pc # "idle", pc' # "idle", pc' # "removeFinalizer",
         rp'.generation = rp.generation, rp'.exists <=> rp.exists,
         rp'.deleting <=> rp.deleting, ~ conflict' => ~ conflict,
         CopyTells(rp, original)',
         pc' \in {"reflect", "prepare", "apply", "finish"} =>
           rp'.status.ensured.generation = rp'.generation,
         pc' \in {"prepare", "apply", "finish"} /\ Live => Pending \/ Recorded'
  PROVE  LatestInv'
<1>1. GenerationsOld'
  BY DEF LatestInv, GenerationsOld, StaysRecorded, SameView
<1>2. CacheTells'
  BY CacheGoesOnTelling DEF LatestInv
<1>3. /\ Live' <=> Live
      /\ Pending => Pending'
  BY DEF Live, Pending, StaysRecorded, SameView
<1>4. ReconcileTells'
  BY <1>3 DEF LatestInv, ReconcileTells, StaysRecorded
<1>5. QED
  BY <1>1, <1>2, <1>3, <1>4 DEF LatestInv

\* Nothing is written.
LEMMA UnwrittenStaysRecorded ==
  ASSUME profile' = profile
  PROVE  StaysRecorded
BY DEF StaysRecorded, Recorded

\* A status is only stored by a reconcile of the stored profile.
LEMMA StoringRecords ==
  ASSUME TypeOK, LatestInv, pc # "idle", NEW status,
         status.ensured.generation = rp.generation, CanStoreStatus, StoreStatus(status)
  PROVE  StaysRecorded /\ Recorded' /\ lagging'
<1>1. rp.generation = profile.generation
  BY DEF LatestInv, ReconcileTells, CanStoreStatus
<1>2. /\ profile'.generation = profile.generation
      /\ profile'.exists = profile.exists
      /\ profile'.deleting = profile.deleting
      /\ profile'.status = status
  BY DEF StoreStatus, TypeOK, ServerTypeOK, Profile
<1>3. QED
  BY <1>1, <1>2 DEF StaysRecorded, Recorded, StoreStatus

\* An attempt to record a failure stores the generation of the copy, or nothing.
LEMMA ErrorOutStaysRecorded ==
  ASSUME TypeOK, LatestInv, pc # "idle", NEW status,
         status.ensured.generation = rp.generation, ErrorOut(status)
  PROVE  StaysRecorded /\ (~ lagging' => ~ lagging /\ profile' = profile)
<1>1. CASE LeaveStatus
  BY <1>1, UnwrittenStaysRecorded DEF LeaveStatus
<1>2. CASE CanStoreStatus /\ StoreStatus(status)
  BY <1>2, StoringRecords
<1>3. QED
  BY <1>1, <1>2 DEF ErrorOut

\* What a reconcile finds recorded already is recorded, or it reconciled an old copy.
LEMMA FoundRecorded ==
  ASSUME LatestInv, Live, pc # "idle",
         original.ensured.generation = rp.generation
  PROVE  Pending \/ Recorded
BY DEF LatestInv, ReconcileTells, CopyTells, Live

\* The status update that ends a reconcile: stored, found recorded, or tried again.
LEMMA StoreAndReturnKeepsLatestInv ==
  ASSUME TypeOK, LatestInv, pc # "idle", NEW status,
         status.ensured.generation = rp.generation, StoreStatusAndReturn(status),
         cachedProfile' = cachedProfile, left' = left
  PROVE  LatestInv'
<1>1. NextGeneration' = NextGeneration
  BY DEF NextGeneration
<1>2. CASE StatusUpToDate(status) /\ LeaveStatus /\ Done
  <2>1. Live => Pending \/ Recorded
    BY <1>2, FoundRecorded DEF StatusUpToDate
  <2>2. StaysRecorded /\ SameView
    BY <1>1, <1>2, UnwrittenStaysRecorded DEF LeaveStatus, Done, SameView
  <2>3. IdleLocals
    BY <1>2 DEF Done
  <2>4. Live => Pending \/ Recorded'
    BY <2>1, <2>2 DEF StaysRecorded
  <2>5. QED
    BY <2>2, <2>3, <2>4, EndKeepsLatestInv
<1>3. CASE CanStoreStatus /\ StoreStatus(status) /\ Done
  <2>1. StaysRecorded /\ Recorded' /\ lagging'
    BY <1>3, StoringRecords
  <2>2. SameView /\ IdleLocals
    BY <1>1, <1>3, <2>1 DEF Done, SameView
  <2>3. QED
    BY <2>1, <2>2, EndKeepsLatestInv
<1>4. CASE LeaveStatus /\ Retry
  BY <1>1, <1>4, UnwrittenStaysRecorded, EndKeepsLatestInv DEF LeaveStatus, Retry, SameView
<1>5. QED
  BY <1>2, <1>3, <1>4 DEF StoreStatusAndReturn

\* A failure that is recorded if possible, before a retry.
LEMMA ErrorOutAndRetryKeepsLatestInv ==
  ASSUME TypeOK, LatestInv, pc # "idle", NEW status,
         status.ensured.generation = rp.generation, ErrorOut(status), Retry,
         cachedProfile' = cachedProfile, NextGeneration' = NextGeneration
  PROVE  LatestInv'
<1>1. StaysRecorded /\ SameView
  BY ErrorOutStaysRecorded DEF SameView, Retry
<1>2. QED
  BY <1>1, EndKeepsLatestInv DEF Retry

\* Steps of a reconcile that only work on pods, on the scale or on what it listed.
LEMMA OwnWorkKeepsLatestInv ==
  ASSUME TypeOK, LatestInv, profile' = profile, cachedProfile' = cachedProfile,
         lagging' = lagging, queued' = queued, rp' = rp, original' = original,
         conflict' = conflict, left' = left, pc # "idle",
         \/ pc' = pc
         \/ pc \in {"prepare", "apply"} /\ pc' \in {"apply", "finish"}
         \/ pc = "getScale" /\ pc' = "list"
  PROVE  LatestInv'
<1>1. NextGeneration' = NextGeneration
  BY DEF NextGeneration
<1>2. QED
  BY <1>1 DEF LatestInv, GenerationsOld, CacheTells, ReconcileTells, CopyTells, Live, Pending,
              Recorded

\* The head of a reconcile: the copy is the cached one.
LEMMA BeginKeepsLatestInv ==
  ASSUME TypeOK, LatestInv, BeginNothingToDo \/ BeginDeletion \/ BeginFirst \/ BeginAgain
  PROVE  LatestInv'
<1> USE DEF Begin, serverVars, cacheVars
<1>1. NextGeneration' = NextGeneration
  BY DEF BeginNothingToDo, BeginDeletion, BeginFirst, BeginAgain, NextGeneration
<1>2. CASE BeginNothingToDo
  <2>1. Live => cachedProfile.generation # profile.generation
    BY <1>2 DEF BeginNothingToDo, LatestInv, CacheTells, CopyTells, Live
  <2>2. QED
    BY <1>1, <1>2, <2>1
    DEF BeginNothingToDo, localVars, LatestInv, GenerationsOld, CacheTells, ReconcileTells,
        CopyTells, Live, Pending, Recorded
<1>3. CASE BeginDeletion \/ BeginFirst \/ BeginAgain
  <2>1. /\ pc' \in {"removeFinalizer", "addFinalizer", "pause", "getScale"}
        /\ pc' = "removeFinalizer" => cachedProfile.deleting
        /\ rp' = cachedProfile /\ original' = cachedProfile.status /\ conflict' = lagging
        /\ profile' = profile /\ cachedProfile' = cachedProfile /\ lagging' = lagging
    BY <1>3 DEF BeginDeletion, BeginFirst, BeginAgain, Take, AfterFinalizer
  <2>2. GenerationsOld' /\ CacheTells' /\ ReconcileTells'
    BY <1>1, <2>1
    DEF LatestInv, GenerationsOld, CacheTells, ReconcileTells, CopyTells, Live, Pending, Recorded
  <2>3. QED
    BY <2>1, <2>2 DEF LatestInv
<1>4. QED
  BY <1>2, <1>3

\* The patches of the finalizer: a copy that is being deleted is not one of a live profile.
LEMMA FinalizerKeepsLatestInv ==
  ASSUME TypeOK, LatestInv, RemoveFinalizer \/ AddFinalizer \/ FinalizerPatchMisses
  PROVE  LatestInv'
<1>1. NextGeneration' = NextGeneration
  BY DEF RemoveFinalizer, AddFinalizer, FinalizerPatchMisses, NextGeneration
<1>2. profile \in Profile
  BY DEF TypeOK, ServerTypeOK
<1>3. CASE RemoveFinalizer /\ profile.deleting
  <2>1. profile' = NoProfile /\ IdleLocals /\ lagging' /\ cachedProfile' = cachedProfile
    BY <1>3 DEF RemoveFinalizer, Done
  <2>2. ~ profile'.exists
    BY <2>1, NoGenerationOld
  <2>3. GenerationsOld'
    BY <1>1, <2>1, NoGenerationOld DEF LatestInv, GenerationsOld, IdleLocals
  <2>4. QED
    BY <2>1, <2>2, <2>3 DEF LatestInv, CacheTells, ReconcileTells, CopyTells, Live, IdleLocals
<1>4. CASE RemoveFinalizer /\ ~ profile.deleting
  <2>1. /\ profile' = [profile EXCEPT !.finalizer = FALSE]
        /\ IdleLocals /\ lagging' /\ cachedProfile' = cachedProfile /\ queued' = queued
        /\ pc = "removeFinalizer" /\ profile.exists
    BY <1>4 DEF RemoveFinalizer, Done
  <2>2. /\ profile'.generation = profile.generation
        /\ profile'.exists = profile.exists
        /\ profile'.deleting = profile.deleting
        /\ profile'.status = profile.status
    BY <1>2, <2>1 DEF Profile
  <2>3. StaysRecorded /\ SameView
    BY <1>1, <2>1, <2>2 DEF StaysRecorded, SameView, Recorded
  <2>4. Pending
    BY <1>4, <2>1 DEF LatestInv, ReconcileTells, CopyTells, Live
  <2>5. QED
    BY <2>1, <2>3, <2>4, EndKeepsLatestInv
<1>5. CASE AddFinalizer
  <2>1. /\ profile' = [profile EXCEPT !.finalizer = TRUE]
        /\ rp' = profile' /\ original' = profile'.status
        /\ pc' \in {"pause", "getScale"}
        /\ lagging' /\ cachedProfile' = cachedProfile /\ queued' = queued
    BY <1>5 DEF AddFinalizer, AfterFinalizer
  <2>2. /\ profile'.generation = profile.generation
        /\ profile'.exists = profile.exists
        /\ profile'.deleting = profile.deleting
        /\ profile'.status = profile.status
    BY <1>2, <2>1 DEF Profile
  <2>3. StaysRecorded /\ SameView
    BY <1>1, <2>1, <2>2 DEF StaysRecorded, SameView, Recorded
  <2>4. GenerationsOld'
    BY <1>1, <2>1, <2>2 DEF LatestInv, GenerationsOld
  <2>5. CacheTells'
    BY <2>3, CacheGoesOnTelling DEF LatestInv
  <2>6. profile'.exists => rp'.exists
    BY <2>1
  <2>7. ReconcileTells'
    BY <2>1, <2>6 DEF ReconcileTells, CopyTells, Recorded
  <2>8. QED
    BY <2>1, <2>4, <2>5, <2>7 DEF LatestInv
<1>6. CASE FinalizerPatchMisses
  <2>1. StaysRecorded /\ SameView /\ IdleLocals /\ queued'
    BY <1>1, <1>6, UnwrittenStaysRecorded
    DEF FinalizerPatchMisses, Retry, SameView, serverVars, cacheVars
  <2>2. QED
    BY <2>1, EndKeepsLatestInv
<1>7. QED
  BY <1>3, <1>4, <1>5, <1>6

\* The conditions a reconcile writes are of the generation of its copy.
LEMMA WrittenForTheCopy ==
  ASSUME TypeOK
  PROVE  /\ EnsuredFailed.ensured.generation = rp.generation
         /\ PausedStatus.ensured.generation = rp.generation
         /\ \A podsSeen : Reflected(podsSeen).ensured.generation = rp.generation
<1>1. rp \in Profile
  BY DEF TypeOK, LocalTypeOK
<1>2. ASSUME NEW status \in ReplicaProfileStatus, NEW reason
      PROVE  WithCondition(status, "ensured", reason).ensured.generation = rp.generation
  BY DEF WithCondition, ReplicaProfileStatus
<1>3. rp.status \in ReplicaProfileStatus
  BY <1>1 DEF Profile
<1>4. EnsuredFailed.ensured.generation = rp.generation
  BY <1>2, <1>3 DEF EnsuredFailed
<1>5. WithCondition(rp.status, "applied", "Paused") \in ReplicaProfileStatus
  BY <1>1, <1>3, WithConditionTyped DEF Reasons
<1>6. PausedStatus.ensured.generation = rp.generation
  BY <1>2, <1>5 DEF PausedStatus
<1>7. ASSUME NEW podsSeen
      PROVE  Reflected(podsSeen).ensured.generation = rp.generation
  <2> DEFINE counted == [rp.status EXCEPT
                           !.online  = Cardinality(RunningIn(podsSeen, "Online")),
                           !.cutoff  = Cardinality(RunningIn(podsSeen, "Cutoff")),
                           !.standby = Cardinality(RunningIn(podsSeen, "Standby"))]
  <2>1. counted \in ReplicaProfileStatus
    BY <1>3, CountsTyped DEF ReplicaProfileStatus
  <2>2. Reflected(podsSeen) =
          WithCondition(counted, "ensured",
            IF IsEnsured(rp.spec, counted) THEN "Ensured" ELSE "NotSatisfied")
    BY DEF Reflected
  <2> HIDE DEF counted
  <2>3. QED
    BY <1>2, <2>1, <2>2
<1>8. QED
  BY <1>4, <1>6, <1>7

\* The condition for what was applied leaves the other one as it was.
LEMMA AppliedLeavesEnsured ==
  ASSUME TypeOK, NEW reason
  PROVE  WithCondition(rp.status, "applied", reason).ensured = rp.status.ensured
<1>1. rp.status \in ReplicaProfileStatus
  BY DEF TypeOK, LocalTypeOK, Profile
<1>2. QED
  BY <1>1 DEF WithCondition, ReplicaProfileStatus

\* Observing: what is reflected is of the generation of the copy, and stored or found there.
LEMMA ObserveKeepsLatestInv ==
  ASSUME TypeOK, LatestInv, Pause \/ GetScale \/ List \/ Reflect \/ ReflectConflict
  PROVE  LatestInv'
<1>1. CASE Pause
  BY <1>1, WrittenForTheCopy, StoreAndReturnKeepsLatestInv DEF Pause
<1>2. CASE GetScale
  BY <1>2, OwnWorkKeepsLatestInv DEF GetScale, serverVars, cacheVars
<1>3. CASE List
  <2>1. rp \in Profile
    BY DEF TypeOK, LocalTypeOK
  <2>2. rp' = [rp EXCEPT !.status = Reflected(cachedPods)]
    BY <1>3 DEF List
  <2>3. /\ rp'.generation = rp.generation /\ rp'.exists = rp.exists
        /\ rp'.deleting = rp.deleting /\ rp'.status = Reflected(cachedPods)
    BY <2>1, <2>2 DEF Profile
  <2>4. StaysRecorded /\ SameView
    BY <1>3, UnwrittenStaysRecorded
    DEF List, serverVars, cacheVars, SameView, NextGeneration
  <2>5. CopyTells(rp, original)
    BY <1>3 DEF List, LatestInv, ReconcileTells
  <2>6. CopyTells(rp, original)'
    BY <1>3, <2>3, <2>4, <2>5, ReconcileGoesOnTelling DEF List
  <2>7. rp'.status.ensured.generation = rp'.generation
    BY <2>3, WrittenForTheCopy
  <2>8. QED
    BY <1>3, <2>3, <2>4, <2>6, <2>7, GoingOnKeepsLatestInv DEF List
<1>4. CASE Reflect
  <2>1. /\ rp.status.ensured.generation = rp.generation /\ pc = "reflect"
        /\ NextGeneration' = NextGeneration /\ cachedProfile' = cachedProfile
        /\ queued' = queued
    BY <1>4 DEF Reflect, LatestInv, ReconcileTells, NextGeneration, Done
  <2>2. StaysRecorded /\ SameView /\ (Live => Pending \/ Recorded')
    <3>1. CASE StatusUpToDate(rp.status) /\ LeaveStatus
      <4>1. Live => Pending \/ Recorded
        BY <2>1, <3>1, FoundRecorded DEF StatusUpToDate
      <4>2. StaysRecorded /\ SameView
        BY <2>1, <3>1, UnwrittenStaysRecorded DEF LeaveStatus, SameView
      <4>3. QED
        BY <4>1, <4>2 DEF StaysRecorded
    <3>2. CASE CanStoreStatus /\ StoreStatus(rp.status)
      BY <2>1, <3>2, StoringRecords DEF SameView
    <3>3. QED
      BY <1>4, <3>1, <3>2 DEF Reflect
  <2>3. CASE IsEnsured(rp.spec, rp.status)
    BY <1>4, <2>2, <2>3, EndKeepsLatestInv DEF Reflect, Done
  <2>4. CASE ~ IsEnsured(rp.spec, rp.status)
    <3>1. /\ pc' = "prepare" /\ original' = rp.status /\ rp' = rp /\ conflict' = conflict
      BY <1>4, <2>4 DEF Reflect
    <3>2. CopyTells(rp, original)'
      <4>1. CopyTells(rp, original)
        BY <2>1 DEF LatestInv, ReconcileTells
      <4>2. profile.exists /\ rp.generation = profile.generation => Recorded'
        <5>1. CASE StatusUpToDate(rp.status) /\ LeaveStatus
          BY <2>1, <2>2, <4>1, <5>1 DEF StatusUpToDate, CopyTells, StaysRecorded
        <5>2. CASE CanStoreStatus /\ StoreStatus(rp.status)
          BY <2>1, <5>2, StoringRecords
        <5>3. QED
          BY <1>4, <5>1, <5>2 DEF Reflect
      <4>3. QED
        BY <2>2, <3>1, <4>1, <4>2 DEF CopyTells, StaysRecorded
    <3>3. QED
      BY <2>1, <2>2, <3>1, <3>2, GoingOnKeepsLatestInv
  <2>5. QED
    BY <2>3, <2>4
<1>5. CASE ReflectConflict
  <2>1. StaysRecorded /\ SameView /\ IdleLocals /\ queued'
    BY <1>5, UnwrittenStaysRecorded
    DEF ReflectConflict, Retry, SameView, NextGeneration, serverVars, cacheVars
  <2>2. QED
    BY <2>1, EndKeepsLatestInv
<1>6. QED
  BY <1>1, <1>2, <1>3, <1>4, <1>5

\* Deciding: a reconcile that gives up has recorded its generation before.
LEMMA PrepareKeepsLatestInv ==
  ASSUME TypeOK, LatestInv,
         \/ SkipStateChange \/ SorterUnsupported \/ PrepareFails
         \/ PlanStateChange \/ PlanPanics
  PROVE  LatestInv'
<1>1. /\ pc = "prepare"
      /\ rp.status.ensured.generation = rp.generation
      /\ Live => Pending \/ Recorded
  BY DEF SkipStateChange, SorterUnsupported, PrepareFails, PlanStateChange, PlanPanics, CanPlan,
         WantsStateChange, Prepare, LatestInv, ReconcileTells
<1>2. CASE SkipStateChange
  BY <1>1, <1>2, OwnWorkKeepsLatestInv DEF SkipStateChange, serverVars, cacheVars
<1>3. CASE PlanStateChange
  BY <1>1, <1>3, OwnWorkKeepsLatestInv DEF PlanStateChange, serverVars, cacheVars
<1>4. CASE SorterUnsupported
  <2> DEFINE status == WithCondition(rp.status, "applied", "Unsupported")
  <2>1. status.ensured.generation = rp.generation
    BY <1>1, AppliedLeavesEnsured
  <2>2. ErrorOut(status) /\ Done /\ cachedProfile' = cachedProfile /\ left' = left
    BY <1>4 DEF SorterUnsupported
  <2> HIDE DEF status
  <2>3. StaysRecorded /\ SameView
    BY <1>1, <2>1, <2>2, ErrorOutStaysRecorded DEF SameView, Done, NextGeneration
  <2>4. Live => Pending \/ Recorded'
    BY <1>1, <2>3 DEF StaysRecorded
  <2>5. QED
    BY <2>2, <2>3, <2>4, EndKeepsLatestInv DEF Done
<1>5. CASE PrepareFails
  BY <1>1, <1>5, AppliedLeavesEnsured, ErrorOutAndRetryKeepsLatestInv
  DEF PrepareFails, AppliedFailed, NextGeneration
<1>6. CASE PlanPanics
  <2>1. StaysRecorded /\ SameView /\ IdleLocals /\ queued'
    BY <1>6, UnwrittenStaysRecorded
    DEF PlanPanics, Retry, SameView, NextGeneration, serverVars, cacheVars
  <2>2. QED
    BY <2>1, EndKeepsLatestInv
<1>7. QED
  BY <1>2, <1>3, <1>4, <1>5, <1>6

\* Applying: what has been recorded stays so, whatever happens to the pods and the scale.
LEMMA ApplyKeepsLatestInv ==
  ASSUME TypeOK, LatestInv,
         \/ \E i \in Ordinal : \/ TrafficOn(i) \/ LabelOnline(i) \/ TrafficOff(i)
                               \/ LabelCutoff(i) \/ LabelStandby(i)
         \/ \E f \in Phases, i \in Ordinal : PodPatchMisses(f, i)
         \/ UpdateScale \/ ScaleConflict \/ Finish
  PROVE  LatestInv'
<1>1. pc \in {"apply", "finish"}
  BY DEF TrafficOn, LabelOnline, TrafficOff, LabelCutoff, LabelStandby, SetTraffic, SetPodState,
         PodPatchMisses, Planned, UpdateScale, ScaleConflict, ScaleNext, Finish, FinishNext
<1>2. rp.status.ensured.generation = rp.generation
  BY <1>1 DEF LatestInv, ReconcileTells
<1>3. AppliedFailed.ensured.generation = rp.generation
  BY <1>2, AppliedLeavesEnsured DEF AppliedFailed
<1>4. FinalStatus.ensured.generation = rp.generation
  BY <1>2, AppliedLeavesEnsured DEF FinalStatus
<1>5. ASSUME NEW i \in Ordinal,
             \/ TrafficOn(i) \/ LabelOnline(i) \/ TrafficOff(i) \/ LabelCutoff(i)
             \/ LabelStandby(i)
      PROVE  LatestInv'
  BY <1>1, <1>5, OwnWorkKeepsLatestInv
  DEF TrafficOn, LabelOnline, TrafficOff, LabelCutoff, LabelStandby, SetTraffic, SetPodState,
      cacheVars
<1>6. ASSUME NEW f \in Phases, NEW i \in Ordinal, PodPatchMisses(f, i)
      PROVE  LatestInv'
  BY <1>1, <1>3, <1>6, ErrorOutAndRetryKeepsLatestInv DEF PodPatchMisses, NextGeneration
<1>7. CASE UpdateScale
  BY <1>1, <1>7, OwnWorkKeepsLatestInv DEF UpdateScale, ScaleNext, cacheVars
<1>8. CASE ScaleConflict
  BY <1>1, <1>3, <1>8, ErrorOutAndRetryKeepsLatestInv DEF ScaleConflict, NextGeneration
<1>9. CASE Finish
  BY <1>1, <1>4, <1>9, StoreAndReturnKeepsLatestInv DEF Finish
<1>10. QED
  BY <1>5, <1>6, <1>7, <1>8, <1>9

\* An edit, a deletion or a creation makes every copy an older one.
LEMMA OwnKeepsLatestInv ==
  ASSUME TypeOK, LatestInv, Own
  PROVE  LatestInv'
<1>1. profile \in Profile
  BY DEF TypeOK, ServerTypeOK
<1>2. /\ NextGeneration' = NextGeneration + 1
      /\ lagging' /\ (conflict' <=> pc # "idle") /\ cachedProfile' = cachedProfile
      /\ rp' = rp /\ original' = original /\ pc' = pc /\ queued' = queued
  BY GenerationTaken DEF Own, EditProfile, DeleteProfile, CreateProfile, TroubleKinds
<1>3. \/ ~ profile'.exists /\ profile'.generation = 0
      \/ profile'.generation = NextGeneration
  <2>1. NoProfile.generation = 0 /\ ~ NoProfile.exists
    BY DEF NoProfile
  <2>2. ASSUME NEW s \in Specs, EditProfile(s)
        PROVE  profile'.generation = NextGeneration
    BY <1>1, <2>2 DEF EditProfile, Profile
  <2>3. CASE DeleteProfile
    BY <1>1, <2>1, <2>3 DEF DeleteProfile, Profile
  <2>4. ASSUME NEW s \in Specs, CreateProfile(s)
        PROVE  profile'.generation = NextGeneration
    BY <2>4 DEF CreateProfile, NewProfile
  <2>5. QED
    BY <2>2, <2>3, <2>4 DEF Own
<1>4. GenerationsOld'
  BY <1>2, <1>3, NoGenerationOld DEF LatestInv, GenerationsOld
<1>5. profile'.exists => /\ cachedProfile'.generation # profile'.generation
                         /\ rp'.generation # profile'.generation
  BY <1>2, <1>3, NoGenerationOld DEF LatestInv, GenerationsOld
<1>6. CacheTells'
  BY <1>2, <1>5 DEF CacheTells, CopyTells
<1>7. ReconcileTells'
  BY <1>2, <1>5 DEF LatestInv, ReconcileTells, CopyTells, Live, Pending
<1>8. QED
  BY <1>2, <1>4, <1>5, <1>6, <1>7 DEF LatestInv, Live, Pending

\* The watch queues a profile of another generation; the pods and the scale are not looked at.
LEMMA EnvironmentKeepsLatestInv ==
  ASSUME TypeOK, LatestInv,
         \/ DeliverProfile \/ Disturb
         \/ \E i \in Ordinal : DeliverPod(i) \/ Workload(i)
  PROVE  LatestInv'
<1>1. CASE DeliverProfile
  <2>1. /\ profile' = profile /\ cachedProfile' = profile /\ pc' = pc /\ rp' = rp
        /\ original' = original /\ conflict' = conflict
        /\ (queued' <=> queued \/ cachedProfile.generation # profile.generation)
        /\ NextGeneration' = NextGeneration
    BY <1>1 DEF DeliverProfile, serverVars, localVars, NextGeneration
  <2>2. GenerationsOld'
    BY <2>1 DEF LatestInv, GenerationsOld
  <2>3. CacheTells'
    BY <2>1 DEF CacheTells, CopyTells, Recorded
  <2>4. /\ Live' <=> Live
        /\ Recorded' <=> Recorded
        /\ Pending => queued'
        /\ Pending => Pending'
    BY <2>1 DEF Live, Recorded, Pending
  <2>5. ReconcileTells'
    BY <2>1, <2>4 DEF LatestInv, ReconcileTells, CopyTells
  <2>6. QED
    BY <2>1, <2>2, <2>3, <2>4, <2>5 DEF LatestInv
<1>2. ASSUME profile' = profile, cachedProfile' = cachedProfile, lagging' = lagging,
             rp' = rp, original' = original, conflict' = conflict, pc' = pc,
             NextGeneration' = NextGeneration, queued => queued'
      PROVE  LatestInv'
  BY <1>2 DEF LatestInv, GenerationsOld, CacheTells, ReconcileTells, CopyTells, Live, Pending,
              Recorded
<1>3. ASSUME NEW i \in Ordinal, DeliverPod(i)
      PROVE  LatestInv'
  BY <1>2, <1>3 DEF DeliverPod, serverVars, localVars, NextGeneration
<1>4. ASSUME NEW i \in Ordinal, Workload(i)
      PROVE  LatestInv'
  BY <1>2, <1>4
  DEF Workload, CreatePod, PodStarts, ScaleDownPod, Lose, cacheVars, localVars, NextGeneration
<1>5. ASSUME NEW i \in Ordinal, EvictPod(i)
      PROVE  LatestInv'
  BY <1>2, <1>5, GenerationTaken DEF EvictPod, Lose, localVars, TroubleKinds
<1>6. ASSUME NEW n \in 0 .. MaxPods, ScaleByHand(n)
      PROVE  LatestInv'
  BY <1>2, <1>6, GenerationTaken DEF ScaleByHand, cacheVars, TroubleKinds
<1>7. CASE Restart
  <2>1. /\ profile' = profile /\ cachedProfile' = profile /\ IdleLocals
        /\ queued' = profile.exists /\ NextGeneration' = NextGeneration
    BY <1>7, GenerationTaken DEF Restart, serverVars, TroubleKinds
  <2>2. GenerationsOld'
    BY <2>1, NoGenerationOld DEF LatestInv, GenerationsOld, IdleLocals
  <2>3. CacheTells'
    BY <2>1 DEF CacheTells, CopyTells, Recorded
  <2>4. QED
    BY <2>1, <2>2, <2>3 DEF LatestInv, ReconcileTells, IdleLocals, Live, Pending
<1>8. CASE CallFails
  <2>1. /\ NextGeneration' = NextGeneration /\ cachedProfile' = cachedProfile /\ Retry
    BY <1>8, GenerationTaken DEF CallFails, TroubleKinds
  <2>2. CASE LeaveStatus
    <3>1. StaysRecorded /\ SameView
      BY <2>1, <2>2, UnwrittenStaysRecorded DEF LeaveStatus, SameView, Retry
    <3>2. QED
      BY <2>1, <3>1, EndKeepsLatestInv DEF Retry
  <2>3. CASE pc \in {"getScale", "list"} /\ ErrorOut(EnsuredFailed)
    BY <2>1, <2>3, WrittenForTheCopy, ErrorOutAndRetryKeepsLatestInv
  <2>4. CASE (PodCallNext \/ ScaleNext) /\ ErrorOut(AppliedFailed)
    <3>1. pc = "apply"
      BY <2>4 DEF PodCallNext, Planned, ScaleNext
    <3>2. AppliedFailed.ensured.generation = rp.generation
      BY <3>1, AppliedLeavesEnsured DEF AppliedFailed, LatestInv, ReconcileTells
    <3>3. QED
      BY <2>1, <2>4, <3>1, <3>2, ErrorOutAndRetryKeepsLatestInv
  <2>5. QED
    BY <1>8, <2>2, <2>3, <2>4 DEF CallFails
<1>9. QED
  BY <1>1, <1>3, <1>4, <1>5, <1>6, <1>7, <1>8 DEF Disturb

\* Every step keeps the invariant.
LEMMA StepKeepsLatestInv ==
  ASSUME TypeOK, LatestInv, [Next]_vars
  PROVE  LatestInv'
<1>1. CASE UNCHANGED vars
  BY <1>1
  DEF vars, serverVars, cacheVars, localVars, LatestInv, GenerationsOld, CacheTells,
      ReconcileTells, CopyTells, Live, Pending, Recorded, NextGeneration
<1>2. CASE Reconcile
  BY <1>2, BeginKeepsLatestInv, FinalizerKeepsLatestInv, ObserveKeepsLatestInv,
     PrepareKeepsLatestInv, ApplyKeepsLatestInv
  DEF Reconcile
<1>3. CASE Next /\ ~ Reconcile
  BY <1>3, OwnKeepsLatestInv, EnvironmentKeepsLatestInv DEF Next
<1>4. QED
  BY <1>1, <1>2, <1>3

\* At first the cache holds nothing and the creation is still to be seen.
LEMMA InitLatestInv ==
  ASSUME Init
  PROVE  LatestInv
<1>1. Troubles["edit"] \in Nat
  BY ConstantsAssumption DEF ConstantsAssumption, TroubleKinds
<1>2. NextGeneration = 2
  BY <1>1 DEF Init, NextGeneration
<1>3. profile.generation = 1 /\ cachedProfile.generation = 0 /\ rp.generation = 0
  BY DEF Init, NewProfile, NoProfile
<1>4. QED
  BY <1>2, <1>3
  DEF Init, LatestInv, GenerationsOld, CacheTells, ReconcileTells, CopyTells, Pending

(***************************************************************************)
(* At rest the conditions were written for the spec the profile has now,   *)
(* for every set of specs and every number of edits, failures, conflicts   *)
(* and restarts: a stale reconcile never passes for one of the latest      *)
(* spec.                                                                   *)
(***************************************************************************)
THEOREM LatestSpecReported == Spec => []ReportsLatestSpec
<1>1. Init => TypeOK /\ LatestInv
  BY InitTyped, InitLatestInv
<1>2. TypeOK /\ LatestInv /\ [Next]_vars => (TypeOK /\ LatestInv)'
  BY StepTyped, StepKeepsLatestInv
<1>3. TypeOK /\ LatestInv => ReportsLatestSpec
  BY DEF LatestInv, CacheTells, ReportsLatestSpec, Quiescent, Live, Pending, Recorded
<1>4. QED
  BY <1>1, <1>2, <1>3, PTL DEF Spec

-----------------------------------------------------------------------------
(***************************************************************************)
(* The direction.  It is turned into a number of online replicas, from the *)
(* status counted when the pods were listed, and the choice of pods only   *)
(* knows the number.  So the status a decision is made from must still     *)
(* count the pods that decision is about (SeenInv), and of the choice is   *)
(* needed what it does with a target that is not below, or not above, the  *)
(* pods that are online.                                                   *)
(***************************************************************************)
Weighing == pc \in {"reflect", "prepare"}

SeenInv == Weighing => rp.status.online = Cardinality(RunningIn(listed, "Online"))

SameSeen == rp' = rp /\ listed' = listed

\* Steps that leave the status and the pods, and do not lead into the decision.
LEMMA SameSeenKeepsSeenInv ==
  ASSUME SeenInv, SameSeen, Weighing' => Weighing
  PROVE  SeenInv'
BY DEF SeenInv, SameSeen, Weighing, RunningIn

\* A reconcile that has ended decides nothing.
LEMMA EndedKeepsSeenInv ==
  ASSUME Done \/ Retry \/ IdleLocals
  PROVE  SeenInv'
BY DEF Done, Retry, IdleLocals, SeenInv, Weighing

\* The pods are counted when they are listed.
LEMMA ListingCounts ==
  ASSUME TypeOK, List
  PROVE  SeenInv'
<1> DEFINE n == Cardinality(RunningIn(cachedPods, "Online"))
           counted == [rp.status EXCEPT
                         !.online  = n,
                         !.cutoff  = Cardinality(RunningIn(cachedPods, "Cutoff")),
                         !.standby = Cardinality(RunningIn(cachedPods, "Standby"))]
           reason == IF IsEnsured(rp.spec, counted) THEN "Ensured" ELSE "NotSatisfied"
<1>1. rp \in Profile
  BY DEF TypeOK, LocalTypeOK
<1>2. counted.online = n /\ counted \in ReplicaProfileStatus
  BY <1>1, CountsTyped DEF Profile, ReplicaProfileStatus
<1> HIDE DEF counted, reason
<1>3. WithCondition(counted, "ensured", reason).online = n
  BY <1>2 DEF WithCondition, ReplicaProfileStatus
<1>4. Reflected(cachedPods).online = n
  BY <1>3 DEF Reflected, counted, reason
<1> HIDE DEF n
<1>5. rp'.status.online = n
  BY <1>1, <1>4 DEF List, Profile
<1>6. Cardinality(RunningIn(listed', "Online")) = n
  BY DEF List, n
<1>7. QED
  BY <1>5, <1>6 DEF SeenInv, RunningIn

\* Before the pods are listed nothing is decided, and listing them counts them.
LEMMA ReconcileKeepsSeenInv ==
  ASSUME TypeOK, SeenInv, Reconcile
  PROVE  SeenInv'
<1>1. CASE BeginNothingToDo
  BY <1>1 DEF BeginNothingToDo, Begin, localVars, serverVars, SeenInv, Weighing
<1>2. CASE BeginDeletion \/ BeginFirst \/ BeginAgain
  BY <1>2 DEF BeginDeletion, BeginFirst, BeginAgain, Take, AfterFinalizer, SeenInv, Weighing
<1>3. CASE RemoveFinalizer \/ FinalizerPatchMisses
  BY <1>3, EndedKeepsSeenInv DEF RemoveFinalizer, FinalizerPatchMisses
<1>4. CASE AddFinalizer
  <2>1. pc' \in {"pause", "getScale"}
    BY <1>4 DEF AddFinalizer, AfterFinalizer
  <2>2. QED
    BY <2>1 DEF SeenInv, Weighing
<1>5. CASE Pause
  BY <1>5, EndedKeepsSeenInv DEF Pause, StoreStatusAndReturn
<1>6. CASE GetScale
  BY <1>6 DEF GetScale, SeenInv, Weighing
<1>7. CASE List
  BY <1>7, ListingCounts
<1>8. CASE Reflect
  <2>1. CASE IsEnsured(rp.spec, rp.status)
    BY <1>8, <2>1, EndedKeepsSeenInv DEF Reflect
  <2>2. CASE ~ IsEnsured(rp.spec, rp.status)
    BY <1>8, <2>2, SameSeenKeepsSeenInv DEF Reflect, SameSeen, Weighing
  <2>3. QED
    BY <2>1, <2>2
<1>9. CASE ReflectConflict
  BY <1>9, EndedKeepsSeenInv DEF ReflectConflict
<1>10. CASE SkipStateChange \/ PlanStateChange
  BY <1>10 DEF SkipStateChange, PlanStateChange, SeenInv, Weighing
<1>11. CASE SorterUnsupported \/ PrepareFails \/ PlanPanics
  BY <1>11, EndedKeepsSeenInv DEF SorterUnsupported, PrepareFails, PlanPanics
<1>12. ASSUME NEW i \in Ordinal,
              \/ TrafficOn(i) \/ LabelOnline(i) \/ TrafficOff(i) \/ LabelCutoff(i)
              \/ LabelStandby(i)
       PROVE  SeenInv'
  BY <1>12
  DEF TrafficOn, LabelOnline, TrafficOff, LabelCutoff, LabelStandby, SetTraffic, SetPodState,
      Planned, SeenInv, Weighing
<1>13. ASSUME NEW f \in Phases, NEW i \in Ordinal, PodPatchMisses(f, i)
       PROVE  SeenInv'
  BY <1>13, EndedKeepsSeenInv DEF PodPatchMisses
<1>14. CASE UpdateScale
  BY <1>14 DEF UpdateScale, SeenInv, Weighing
<1>15. CASE ScaleConflict
  BY <1>15, EndedKeepsSeenInv DEF ScaleConflict
<1>16. CASE Finish
  BY <1>16, EndedKeepsSeenInv DEF Finish, StoreStatusAndReturn
<1>17. QED
  BY <1>1, <1>2, <1>3, <1>4, <1>5, <1>6, <1>7, <1>8, <1>9, <1>10, <1>11, <1>12, <1>13, <1>14,
     <1>15, <1>16
  DEF Reconcile

\* The rest of the world does not reach what the reconcile has in hand.
LEMMA EnvironmentKeepsSeenInv ==
  ASSUME SeenInv,
         \/ DeliverProfile \/ Own \/ Disturb
         \/ \E i \in Ordinal : DeliverPod(i) \/ Workload(i)
  PROVE  SeenInv'
<1>1. CASE DeliverProfile \/ \E i \in Ordinal : DeliverPod(i)
  BY <1>1, SameSeenKeepsSeenInv DEF DeliverProfile, DeliverPod, localVars, SameSeen, Weighing
<1>2. CASE Own
  BY <1>2, SameSeenKeepsSeenInv
  DEF Own, EditProfile, DeleteProfile, CreateProfile, SameSeen, Weighing
<1>3. ASSUME NEW i \in Ordinal, Workload(i) \/ EvictPod(i)
      PROVE  SeenInv'
  BY <1>3, SameSeenKeepsSeenInv
  DEF Workload, CreatePod, PodStarts, ScaleDownPod, EvictPod, Lose, localVars, SameSeen, Weighing
<1>4. CASE CallFails \/ Restart
  BY <1>4, EndedKeepsSeenInv DEF CallFails, Restart
<1>5. ASSUME NEW n \in 0 .. MaxPods, ScaleByHand(n)
      PROVE  SeenInv'
  BY <1>5, SameSeenKeepsSeenInv DEF ScaleByHand, SameSeen, Weighing
<1>6. QED
  BY <1>1, <1>2, <1>3, <1>4, <1>5 DEF Disturb

\* Every step keeps the invariant.
LEMMA StepKeepsSeenInv ==
  ASSUME TypeOK, SeenInv, [Next]_vars
  PROVE  SeenInv'
<1>1. CASE UNCHANGED vars
  BY <1>1, SameSeenKeepsSeenInv DEF vars, localVars, SameSeen, Weighing
<1>2. CASE Reconcile
  BY <1>2, ReconcileKeepsSeenInv
<1>3. CASE Next /\ ~ Reconcile
  BY <1>3, EnvironmentKeepsSeenInv DEF Next
<1>4. QED
  BY <1>1, <1>2, <1>3

-----------------------------------------------------------------------------
(***************************************************************************)
(* Choosing pods.                                                          *)
(***************************************************************************)

\* StateManager counts as this module does.
LEMMA SameCount ==
  ASSUME NEW S
  PROVE  SM!Cardinality(S) = Cardinality(S)
BY DEF SM!Cardinality, Cardinality

\* Ordinals are numbers.
LEMMA OrdinalsAreNumbers ==
  MaxPods \in Nat /\ Ordinal \subseteq Nat /\ \A i \in Ordinal : i < MaxPods
BY ConstantsAssumption DEF ConstantsAssumption, Ordinal

\* Sets of pods are finite, and counted as such.
LEMMA PodsCounted ==
  ASSUME NEW S \in SUBSET Ordinal, NEW T \in SUBSET S
  PROVE  /\ IsFiniteSet(S)
         /\ Cardinality(S) \in Nat /\ Cardinality(T) \in Nat
         /\ Cardinality(T) <= Cardinality(S)
<1>1. IsFiniteSet(Ordinal)
  <2>1. 0 \in Int /\ MaxPods - 1 \in Int
    BY ConstantsAssumption DEF ConstantsAssumption
  <2>2. QED
    BY <2>1, FS_Interval DEF Ordinal
<1>2. IsFiniteSet(S) /\ IsFiniteSet(T)
  BY <1>1, FS_Subset
<1>3. QED
  BY <1>2, FS_CardinalityType, FS_Subset

\* Among any pods there is one with the highest ordinal.
LEMMA HighestPod ==
  ASSUME NEW T \in SUBSET Ordinal, T # {}
  PROVE  \E m \in T : \A i \in T : i <= m
<1> DEFINE Down == {MaxPods - i : i \in T}
<1>1. MaxPods \in Nat
  BY OrdinalsAreNumbers
<1>2. Down \in SUBSET Nat /\ Down # {}
  <2>1. ASSUME NEW i \in T PROVE MaxPods - i \in Nat
    <3>1. i \in Nat /\ i < MaxPods
      BY OrdinalsAreNumbers
    <3>2. QED
      BY <1>1, <3>1
  <2>2. QED
    BY <2>1
<1>3. PICK d \in Down : \A e \in Down : ~ (<<e, d>> \in OpToRel(<, Nat))
  BY <1>2, WFMin, NatLessThanWellFounded
<1>4. PICK m \in T : d = MaxPods - m
  OBVIOUS
<1>5. ASSUME NEW i \in T PROVE i <= m
  <2>1. MaxPods - i \in Down /\ MaxPods - i \in Nat /\ d \in Nat
    BY <1>2
  <2>2. ~ (MaxPods - i < d)
    BY <1>3, <2>1 DEF OpToRel
  <2>3. i \in Int /\ m \in Int
    BY OrdinalsAreNumbers
  <2>4. QED
    BY <1>1, <1>4, <2>2, <2>3
<1>6. QED
  BY <1>5

\* No more of the pods that would be scaled down last are taken than asked for.
LEMMA TakesAtMost ==
  ASSUME NEW k \in Int, NEW S \in SUBSET Ordinal
  PROVE  /\ SM!LastSorted(k, S) \subseteq S
         /\ k <= 0 => SM!LastSorted(k, S) = {}
         /\ k >= 0 => Cardinality(SM!LastSorted(k, S)) <= k
<1> DEFINE T == SM!LastSorted(k, S)
           Before(p) == {q \in S : - q > - p}
<1>1. \A p \in T : Cardinality(Before(p)) < k /\ Cardinality(Before(p)) \in Nat
  <2>1. SUFFICES ASSUME NEW p \in T
                 PROVE  Cardinality(Before(p)) < k /\ Cardinality(Before(p)) \in Nat
    OBVIOUS
  <2>2. p \in S
    BY DEF SM!LastSorted
  <2>3. Before(p) = {q \in S : [i \in Ordinal |-> - i][q] > [i \in Ordinal |-> - i][p]}
    BY <2>2
  <2>4. Cardinality(Before(p)) < k
    BY <2>3, SameCount DEF SM!LastSorted
  <2>5. QED
    BY <2>4, PodsCounted
<1>2. T \subseteq S
  BY DEF SM!LastSorted
<1> HIDE DEF T
<1>3. T # {} => k > 0
  <2> HIDE DEF Before
  <2>1. ASSUME NEW p \in T PROVE k > 0
    BY <1>1
  <2>2. QED
    BY <2>1
<1>4. ASSUME k >= 0, T # {} PROVE Cardinality(T) <= k
  <2>1. PICK m \in T : \A i \in T : i <= m
    BY <1>2, <1>4, HighestPod
  <2>2. T \ {m} \subseteq Before(m)
    <3>1. ASSUME NEW i \in T \ {m} PROVE i \in Before(m)
      <4>1. i \in Int /\ m \in Int
        BY <1>2, OrdinalsAreNumbers
      <4>2. QED
        BY <1>2, <2>1, <4>1
    <3>2. QED
      BY <3>1
  <2>3. Cardinality(T \ {m}) <= Cardinality(Before(m))
    BY <2>2, PodsCounted
  <2>4. IsFiniteSet(T) /\ Cardinality(T) \in Nat
    BY <1>2, PodsCounted
  <2>5. Cardinality(T \ {m}) = Cardinality(T) - 1
    BY <2>4, FS_RemoveElement
  <2>6. Cardinality(Before(m)) < k /\ Cardinality(Before(m)) \in Nat
    BY <1>1
  <2> HIDE DEF Before
  <2>7. QED
    BY <2>3, <2>4, <2>5, <2>6
<1>5. T = {} => Cardinality(T) = 0
  BY FS_EmptySet
<1>6. QED
  BY <1>2, <1>3, <1>4, <1>5 DEF T

\* With a surplus that is not positive nothing is handed on.
LEMMA TakesNone ==
  ASSUME NEW k \in Int, k <= 0, NEW S \in SUBSET Ordinal
  PROVE  SM!FirstSorted(k, S) = {}
<1>1. ASSUME NEW p \in SM!FirstSorted(k, S) PROVE FALSE
  <2>1. Cardinality({q \in S : [i \in Ordinal |-> - i][q] < [i \in Ordinal |-> - i][p]}) < k
    BY SameCount DEF SM!FirstSorted
  <2>2. Cardinality({q \in S : [i \in Ordinal |-> - i][q] < [i \in Ordinal |-> - i][p]}) \in Nat
    BY PodsCounted
  <2>3. QED
    BY <2>1, <2>2
<1>2. QED
  BY <1>1

(***************************************************************************)
(* What a pull and a push change, state by state.                          *)
(***************************************************************************)
PulledTo(after, info, s, t, moved) ==
  /\ after \in SM!StatesInfo
  /\ \A u \in SM!States :
       /\ after[u].current = IF u = t THEN info[u].current \ moved ELSE info[u].current
       /\ after[u].candidate = IF u = s THEN info[u].candidate \union moved ELSE info[u].candidate

PushedTo(after, info, s, t, moved) ==
  /\ after \in SM!StatesInfo
  /\ \A u \in SM!States :
       /\ after[u].current = IF u = s THEN info[u].current \ moved ELSE info[u].current
       /\ after[u].candidate = IF u = s THEN info[u].candidate \ moved
                               ELSE IF u = t THEN info[u].candidate \union moved
                               ELSE info[u].candidate

\* A pull only moves pods from the one state to the other.
LEMMA PullMoves ==
  ASSUME NEW desired, NEW s \in SM!States, NEW t \in SM!States, s # t,
         NEW info \in SM!StatesInfo
  PROVE  PulledTo(SM!Pull(desired, s, t)[info], info, s, t,
                  SM!LastSorted(- SM!Diff(info, desired, s), info[t].current))
<1> DEFINE moved == SM!LastSorted(- SM!Diff(info, desired, s), info[t].current)
           after == SM!Pull(desired, s, t)[info]
<1>1. after = [info EXCEPT ![s].candidate = @ \union moved, ![t].current = @ \ moved]
  BY DEF SM!Pull
<1>2. after \in SM!StatesInfo
  BY PullTyped
<1> HIDE DEF moved, after
<1>3. ASSUME NEW u \in SM!States
      PROVE  /\ after[u].current = IF u = t THEN info[u].current \ moved ELSE info[u].current
             /\ after[u].candidate =
                  IF u = s THEN info[u].candidate \union moved ELSE info[u].candidate
  BY <1>1 DEF SM!StatesInfo, SM!StateInfo
<1>4. PulledTo(after, info, s, t, moved)
  BY <1>2, <1>3 DEF PulledTo
<1>5. QED
  BY <1>4 DEF moved, after

\* A push only moves pods from the one state to the other.
LEMMA PushMoves ==
  ASSUME NEW desired, NEW s \in SM!States, NEW t \in SM!States, s # t,
         NEW info \in SM!StatesInfo
  PROVE  PushedTo(SM!Push(desired, s, t)[info], info, s, t,
                  SM!FirstSorted(SM!Diff(info, desired, s), SM!Placed(info, s)))
<1> DEFINE moved == SM!FirstSorted(SM!Diff(info, desired, s), SM!Placed(info, s))
           after == SM!Push(desired, s, t)[info]
<1>1. after = [info EXCEPT ![s].current = @ \ moved, ![s].candidate = @ \ moved,
                           ![t].candidate = @ \union moved]
  BY DEF SM!Push
<1>2. after \in SM!StatesInfo
  BY PushTyped
<1> HIDE DEF moved, after
<1>3. ASSUME NEW u \in SM!States
      PROVE  /\ after[u].current = IF u = s THEN info[u].current \ moved ELSE info[u].current
             /\ after[u].candidate = IF u = s THEN info[u].candidate \ moved
                                     ELSE IF u = t THEN info[u].candidate \union moved
                                     ELSE info[u].candidate
  BY <1>1 DEF SM!StatesInfo, SM!StateInfo
<1>4. PushedTo(after, info, s, t, moved)
  BY <1>2, <1>3 DEF PushedTo
<1>5. QED
  BY <1>4 DEF moved, after

\* What is handed on or taken is among what was there, so it is a set of pods.
LEMMA MovedArePods ==
  ASSUME NEW info \in SM!StatesInfo, NEW k, NEW s \in SM!States
  PROVE  /\ SM!LastSorted(k, info[s].current) \subseteq info[s].current
         /\ SM!FirstSorted(k, SM!Placed(info, s)) \subseteq SM!Placed(info, s)
         /\ info[s].current \subseteq Ordinal
         /\ info[s].candidate \subseteq Ordinal
         /\ SM!Placed(info, s) \subseteq Ordinal
BY DEF SM!LastSorted, SM!FirstSorted, SM!Placed, SM!StatesInfo, SM!StateInfo

\* The states whose pods are chosen among.
LEMMA TheStates == SM!States = {"Online", "Cutoff", "Standby", "Deleted"}
BY DEF SM!States, SM!RunningStates

\* Pods are told apart by their state, so the choice starts from typed sets.
LEMMA FirstInfo ==
  ASSUME NEW running \in [RunningStates -> SUBSET Ordinal]
  PROVE  /\ SM!NewStateInfo(running) \in SM!StatesInfo
         /\ \A s \in RunningStates : /\ SM!NewStateInfo(running)[s].current = running[s]
                                     /\ SM!NewStateInfo(running)[s].candidate = {}
BY DEF SM!NewStateInfo, SM!StatesInfo, SM!StateInfo, SM!States, SM!RunningStates, RunningStates

(***************************************************************************)
(* A target above the pods that are online takes at most what is lacking,  *)
(* so that nothing is left over to be handed on; a target below takes      *)
(* nothing.                                                                *)
(***************************************************************************)
LEMMA OnlineTakes ==
  ASSUME NEW desired, desired["Online"] \in Int,
         NEW t \in {"Cutoff", "Standby"},
         NEW info \in SM!StatesInfo,
         NEW after, after = SM!Pull(desired, "Online", t)[info]
  PROVE  /\ after \in SM!StatesInfo
         /\ \A s \in SM!States : after[s].current \subseteq info[s].current
         /\ after["Online"].current = info["Online"].current
         /\ after["Cutoff"].candidate = info["Cutoff"].candidate
         /\ after["Standby"].candidate = info["Standby"].candidate
         /\ SM!Diff(info, desired, "Online") \in Int
         /\ SM!Diff(after, desired, "Online") \in Int
         /\ SM!Diff(info, desired, "Online") <= 0 => SM!Diff(after, desired, "Online") <= 0
         /\ SM!Diff(info, desired, "Online") >= 0 =>
              /\ after["Online"].candidate = info["Online"].candidate
              /\ SM!Diff(after, desired, "Online") >= 0
<1> DEFINE k == SM!Diff(info, desired, "Online")
           moved == SM!LastSorted(- k, info[t].current)
           on == info["Online"].current
           coming == info["Online"].candidate
<1>1. "Online" \in SM!States /\ t \in SM!States /\ "Online" # t
  BY TheStates
<1>2. on \in SUBSET Ordinal /\ coming \in SUBSET Ordinal /\ info[t].current \in SUBSET Ordinal
  BY <1>1, MovedArePods
<1>3. /\ k = Cardinality(on) + Cardinality(coming) - desired["Online"]
      /\ Cardinality(on) \in Nat /\ Cardinality(coming) \in Nat /\ k \in Int /\ - k \in Int
  <2>1. Cardinality(on) \in Nat /\ Cardinality(coming) \in Nat
    BY <1>2, PodsCounted
  <2>2. k = Cardinality(on) + Cardinality(coming) - desired["Online"]
    BY SameCount DEF SM!Diff
  <2> HIDE DEF k, on, coming
  <2>3. QED
    BY <2>1, <2>2
<1> HIDE DEF k
<1>4. /\ moved \subseteq info[t].current
      /\ k >= 0 => moved = {}
      /\ k <= 0 => Cardinality(moved) <= - k
  BY <1>2, <1>3, TakesAtMost
<1>5. PulledTo(after, info, "Online", t, moved)
  BY <1>1, PullMoves DEF k
<1> HIDE DEF moved
<1>6. after \in SM!StatesInfo
  BY <1>5 DEF PulledTo
<1>7. /\ after["Online"].current = on
      /\ after["Online"].candidate = coming \union moved
      /\ after["Cutoff"].candidate = info["Cutoff"].candidate
      /\ after["Standby"].candidate = info["Standby"].candidate
      /\ \A u \in SM!States : after[u].current \subseteq info[u].current
  BY <1>1, <1>5, TheStates DEF PulledTo
<1>8. /\ Cardinality(moved) \in Nat
      /\ Cardinality(coming \union moved) \in Nat
      /\ Cardinality(coming \union moved) <= Cardinality(coming) + Cardinality(moved)
  <2>1. /\ IsFiniteSet(coming) /\ IsFiniteSet(moved)
        /\ Cardinality(moved) \in Nat /\ Cardinality(coming) \in Nat
    BY <1>2, <1>4, PodsCounted
  <2> HIDE DEF coming
  <2>2. /\ Cardinality(coming \union moved) =
             Cardinality(coming) + Cardinality(moved) - Cardinality(coming \intersect moved)
        /\ Cardinality(coming \intersect moved) \in Nat
    BY <2>1, FS_Union, FS_Intersection, FS_CardinalityType
  <2>3. Cardinality(coming \union moved) \in Nat
    BY <2>1, FS_Union, FS_CardinalityType
  <2>4. QED
    BY <2>1, <2>2, <2>3
<1>9. SM!Diff(after, desired, "Online") =
        Cardinality(on) + Cardinality(coming \union moved) - desired["Online"]
  BY <1>7, SameCount DEF SM!Diff
<1>10. k >= 0 => coming \union moved = coming
  BY <1>4
<1> HIDE DEF on, coming
<1>11. /\ SM!Diff(after, desired, "Online") \in Int
       /\ k <= 0 => SM!Diff(after, desired, "Online") <= 0
       /\ k >= 0 => SM!Diff(after, desired, "Online") >= 0
  BY <1>3, <1>4, <1>8, <1>9, <1>10
<1>12. QED
  BY <1>3, <1>6, <1>7, <1>10, <1>11 DEF k, on, coming

(***************************************************************************)
(* After that the online pods only lose pods, and no state gets any that   *)
(* were not in a later state before: Within says that what is on its way   *)
(* into Cutoff and Standby comes from Others.                              *)
(***************************************************************************)
Within(info, Others) ==
  /\ info \in SM!StatesInfo
  /\ info["Cutoff"].current \union info["Standby"].current \subseteq Others
  /\ info["Cutoff"].candidate \union info["Standby"].candidate \subseteq Others

\* Cutoff and Standby only hand pods on among themselves.
LEMMA LaterStatesKeep ==
  ASSUME NEW desired, NEW info \in SM!StatesInfo,
         NEW after, after = SM!SettleStandby(SM!SettleCutoff(info, desired), desired)
  PROVE  /\ after["Online"].candidate = info["Online"].candidate
         /\ \A Others : Within(info, Others) => Within(after, Others)
<1> DEFINE pulled == SM!Pull(desired, "Cutoff", "Standby")[info]
           pushed == SM!Push(desired, "Cutoff", "Standby")[pulled]
<1>1. /\ {"Online", "Cutoff", "Standby", "Deleted"} = SM!States
      /\ after = SM!Push(desired, "Standby", "Deleted")[pushed]
  BY TheStates DEF SM!SettleStandby, SM!SettleCutoff
<1>2. /\ pulled \in SM!StatesInfo
      /\ pulled["Online"].candidate = info["Online"].candidate
      /\ \A Others : Within(info, Others) => Within(pulled, Others)
  <2> DEFINE moved == SM!LastSorted(- SM!Diff(info, desired, "Cutoff"), info["Standby"].current)
  <2>1. moved \subseteq info["Standby"].current
    BY <1>1, MovedArePods
  <2>2. PulledTo(pulled, info, "Cutoff", "Standby", moved)
    BY <1>1, PullMoves
  <2> HIDE DEF pulled, moved
  <2>3. /\ pulled["Online"].candidate = info["Online"].candidate
        /\ pulled["Cutoff"].current = info["Cutoff"].current
        /\ pulled["Standby"].current = info["Standby"].current \ moved
        /\ pulled["Cutoff"].candidate = info["Cutoff"].candidate \union moved
        /\ pulled["Standby"].candidate = info["Standby"].candidate
        /\ pulled \in SM!StatesInfo
    BY <1>1, <2>2 DEF PulledTo
  <2>4. QED
    BY <2>1, <2>3 DEF Within
<1> HIDE DEF pulled
<1>3. /\ pushed \in SM!StatesInfo
      /\ pushed["Online"].candidate = pulled["Online"].candidate
      /\ \A Others : Within(pulled, Others) => Within(pushed, Others)
  <2> DEFINE moved == SM!FirstSorted(SM!Diff(pulled, desired, "Cutoff"),
                                     SM!Placed(pulled, "Cutoff"))
  <2>1. moved \subseteq pulled["Cutoff"].current \union pulled["Cutoff"].candidate
    BY <1>1, <1>2, MovedArePods DEF SM!Placed
  <2>2. PushedTo(pushed, pulled, "Cutoff", "Standby", moved)
    BY <1>1, <1>2, PushMoves
  <2> HIDE DEF pushed, moved
  <2>3. /\ pushed["Online"].candidate = pulled["Online"].candidate
        /\ pushed["Cutoff"].current = pulled["Cutoff"].current \ moved
        /\ pushed["Standby"].current = pulled["Standby"].current
        /\ pushed["Cutoff"].candidate = pulled["Cutoff"].candidate \ moved
        /\ pushed["Standby"].candidate = pulled["Standby"].candidate \union moved
        /\ pushed \in SM!StatesInfo
    BY <1>1, <2>2 DEF PushedTo
  <2>4. QED
    BY <2>1, <2>3 DEF Within
<1> HIDE DEF pushed
<1>4. /\ after["Online"].candidate = pushed["Online"].candidate
      /\ \A Others : Within(pushed, Others) => Within(after, Others)
  <2> DEFINE moved == SM!FirstSorted(SM!Diff(pushed, desired, "Standby"),
                                     SM!Placed(pushed, "Standby"))
  <2>1. PushedTo(after, pushed, "Standby", "Deleted", moved)
    BY <1>1, <1>3, PushMoves
  <2> HIDE DEF moved
  <2>2. /\ after["Online"].candidate = pushed["Online"].candidate
        /\ after["Cutoff"].current = pushed["Cutoff"].current
        /\ after["Standby"].current = pushed["Standby"].current \ moved
        /\ after["Cutoff"].candidate = pushed["Cutoff"].candidate
        /\ after["Standby"].candidate = pushed["Standby"].candidate \ moved
        /\ after \in SM!StatesInfo
    BY <1>1, <2>1 DEF PushedTo
  <2>3. QED
    BY <2>2 DEF Within
<1>5. QED
  BY <1>2, <1>3, <1>4

(***************************************************************************)
(* The whole choice, for a target that is not below the pods online, and   *)
(* for one that is not above.                                              *)
(***************************************************************************)
LEMMA NoneLeaveOnline ==
  ASSUME NEW running \in [RunningStates -> SUBSET Ordinal],
         NEW desired, desired["Online"] \in Int,
         desired["Online"] >= Cardinality(running["Online"])
  PROVE  \A s \in {"Cutoff", "Standby"} :
           SM!CalculateStateChange(running, desired)[s] \subseteq
             running["Cutoff"] \union running["Standby"]
<1> DEFINE info == SM!NewStateInfo(running)
           one == SM!Pull(desired, "Online", "Cutoff")[info]
           two == SM!Pull(desired, "Online", "Standby")[one]
           three == SM!Push(desired, "Online", "Cutoff")[two]
           after == SM!SettleStandby(SM!SettleCutoff(three, desired), desired)
           Others == running["Cutoff"] \union running["Standby"]
           handed == SM!FirstSorted(SM!Diff(two, desired, "Online"), SM!Placed(two, "Online"))
<1>1. /\ info \in SM!StatesInfo
      /\ info["Online"].current = running["Online"] /\ info["Online"].candidate = {}
      /\ Within(info, Others)
  BY FirstInfo DEF RunningStates, SM!RunningStates, Within
<1>2. SM!Diff(info, desired, "Online") \in Int /\ SM!Diff(info, desired, "Online") <= 0
  <2>1. Cardinality(running["Online"]) \in Nat
    BY PodsCounted DEF RunningStates, SM!RunningStates
  <2> HIDE DEF info
  <2>2. SM!Diff(info, desired, "Online") = Cardinality(running["Online"]) + 0 - desired["Online"]
    BY <1>1, SameCount, FS_EmptySet DEF SM!Diff
  <2>3. QED
    BY <2>1, <2>2
<1> HIDE DEF info
<1>3. /\ one \in SM!StatesInfo /\ SM!Diff(one, desired, "Online") <= 0
      /\ Within(one, Others)
  <2>1. /\ one \in SM!StatesInfo /\ SM!Diff(one, desired, "Online") <= 0
        /\ \A s \in SM!States : one[s].current \subseteq info[s].current
        /\ one["Cutoff"].candidate = info["Cutoff"].candidate
        /\ one["Standby"].candidate = info["Standby"].candidate
    BY <1>1, <1>2, OnlineTakes
  <2> HIDE DEF one
  <2>2. QED
    BY <1>1, <2>1, TheStates DEF Within
<1> HIDE DEF one
<1>4. /\ two \in SM!StatesInfo /\ SM!Diff(two, desired, "Online") <= 0
      /\ SM!Diff(two, desired, "Online") \in Int
      /\ Within(two, Others)
  <2>1. /\ two \in SM!StatesInfo /\ SM!Diff(two, desired, "Online") <= 0
        /\ SM!Diff(two, desired, "Online") \in Int
        /\ \A s \in SM!States : two[s].current \subseteq one[s].current
        /\ two["Cutoff"].candidate = one["Cutoff"].candidate
        /\ two["Standby"].candidate = one["Standby"].candidate
    BY <1>3, OnlineTakes
  <2> HIDE DEF two
  <2>2. QED
    BY <1>3, <2>1, TheStates DEF Within
<1> HIDE DEF two
<1>5. handed = {}
  BY <1>4, TakesNone, MovedArePods, TheStates
<1>6. PushedTo(three, two, "Online", "Cutoff", handed)
  BY <1>4, PushMoves, TheStates
<1> HIDE DEF three, handed
<1>7. three \in SM!StatesInfo /\ Within(three, Others)
  BY <1>4, <1>5, <1>6, TheStates DEF PushedTo, Within
<1>8. Within(after, Others)
  BY <1>7, LaterStatesKeep
<1>9. SM!FinalInfo(running, desired) = after
  BY DEF SM!FinalInfo, SM!SettleOnline, info, one, two, three
<1>10. \A s \in {"Cutoff", "Standby"} : after[s].candidate \subseteq Others
  BY <1>8 DEF Within
<1>11. \A s \in SM!States : SM!CalculateStateChange(running, desired)[s] = after[s].candidate
  BY <1>9 DEF SM!CalculateStateChange
<1>12. QED
  BY <1>10, <1>11, TheStates

\* With no more wanted than there are, none is brought online.
LEMMA NoneComeOnline ==
  ASSUME NEW running \in [RunningStates -> SUBSET Ordinal],
         NEW desired, desired["Online"] \in Int,
         desired["Online"] <= Cardinality(running["Online"])
  PROVE  SM!CalculateStateChange(running, desired)["Online"] = {}
<1> DEFINE info == SM!NewStateInfo(running)
           one == SM!Pull(desired, "Online", "Cutoff")[info]
           two == SM!Pull(desired, "Online", "Standby")[one]
           three == SM!Push(desired, "Online", "Cutoff")[two]
           after == SM!SettleStandby(SM!SettleCutoff(three, desired), desired)
           handed == SM!FirstSorted(SM!Diff(two, desired, "Online"), SM!Placed(two, "Online"))
<1>1. /\ info \in SM!StatesInfo
      /\ info["Online"].current = running["Online"] /\ info["Online"].candidate = {}
  BY FirstInfo DEF RunningStates, SM!RunningStates
<1>2. SM!Diff(info, desired, "Online") \in Int /\ SM!Diff(info, desired, "Online") >= 0
  <2>1. Cardinality(running["Online"]) \in Nat
    BY PodsCounted DEF RunningStates, SM!RunningStates
  <2> HIDE DEF info
  <2>2. SM!Diff(info, desired, "Online") = Cardinality(running["Online"]) + 0 - desired["Online"]
    BY <1>1, SameCount, FS_EmptySet DEF SM!Diff
  <2>3. QED
    BY <2>1, <2>2
<1> HIDE DEF info
<1>3. /\ one \in SM!StatesInfo /\ SM!Diff(one, desired, "Online") >= 0
      /\ one["Online"].candidate = {}
  BY <1>1, <1>2, OnlineTakes
<1> HIDE DEF one
<1>4. two \in SM!StatesInfo /\ two["Online"].candidate = {}
  BY <1>3, OnlineTakes
<1> HIDE DEF two
<1>5. PushedTo(three, two, "Online", "Cutoff", handed)
  BY <1>4, PushMoves, TheStates
<1> HIDE DEF three, handed
<1>6. three \in SM!StatesInfo /\ three["Online"].candidate = {}
  BY <1>4, <1>5, TheStates DEF PushedTo
<1>7. after["Online"].candidate = {}
  BY <1>6, LaterStatesKeep
<1>8. SM!FinalInfo(running, desired) = after
  BY DEF SM!FinalInfo, SM!SettleOnline, info, one, two, three
<1>9. QED
  BY <1>7, <1>8, TheStates DEF SM!CalculateStateChange

(***************************************************************************)
(* The plan of a reconcile sends no pod that was seen online elsewhere     *)
(* unless the direction allows to scale down, and brings none online       *)
(* unless it allows to scale up, whatever is asked for in the other states *)
(* and however the pods are labelled.                                      *)
(***************************************************************************)
LEMMA PlanRespectsDirection ==
  ASSUME TypeOK, SeenInv, PlanStateChange
  PROVE  /\ rp.spec.direction \in {"Up", "Neither"} =>
              \A i \in plan'["labelCutoff"] \union plan'["labelStandby"] :
                listed[i].state # "Online"
         /\ rp.spec.direction \in {"Down", "Neither"} => plan'["labelOnline"] = {}
<1> DEFINE running == FilterAndClassify(listed)
           desired == [Online |-> DesiredOnline, Cutoff |-> rp.spec.cutoff,
                       Standby |-> rp.spec.standby]
           change == SM!CalculateStateChange(running, desired)
<1>1. /\ plan'["labelOnline"] = change["Online"]
      /\ plan'["labelCutoff"] = change["Cutoff"]
      /\ plan'["labelStandby"] = change["Standby"]
  BY DEF PlanStateChange, PlanFor, StateChange
<1>2. /\ running \in [RunningStates -> SUBSET Ordinal]
      /\ running["Online"] = RunningIn(listed, "Online")
      /\ \A i \in running["Cutoff"] \union running["Standby"] : listed[i].state # "Online"
  BY DEF FilterAndClassify, RunningIn, RunningStates, SM!RunningStates
<1>3. /\ rp.status.online \in Nat /\ rp.spec.online \in Nat
      /\ rp.status.online = Cardinality(running["Online"])
  BY <1>2
  DEF TypeOK, LocalTypeOK, Profile, ReplicaProfileSpec, ReplicaProfileStatus, SeenInv, Weighing,
      PlanStateChange, CanPlan, WantsStateChange, Prepare
<1>4. /\ rp.spec.direction \in {"Up", "Neither"} => DesiredOnline >= rp.status.online
      /\ rp.spec.direction \in {"Down", "Neither"} => DesiredOnline <= rp.status.online
      /\ rp.spec.direction \in {"Up", "Down", "Neither"} => DesiredOnline \in Int
  BY <1>3 DEF DesiredOnline, GreaterOf, LesserOf
<1>5. desired["Online"] = DesiredOnline
  OBVIOUS
<1> HIDE DEF running, desired
<1>6. ASSUME rp.spec.direction \in {"Up", "Neither"}
      PROVE  change["Cutoff"] \union change["Standby"] \subseteq
               running["Cutoff"] \union running["Standby"]
  BY <1>2, <1>3, <1>4, <1>5, <1>6, NoneLeaveOnline
<1>7. ASSUME rp.spec.direction \in {"Down", "Neither"}
      PROVE  change["Online"] = {}
  BY <1>2, <1>3, <1>4, <1>5, <1>7, NoneComeOnline
<1> HIDE DEF change
<1>8. QED
  BY <1>1, <1>2, <1>6, <1>7

(***************************************************************************)
(* No reconcile moves pods against the direction of its profile, for every *)
(* number of pods and set of specs, whatever happens to the pods and to    *)
(* the profile between listing the pods and planning for them.             *)
(***************************************************************************)
THEOREM DirectionKept == Spec => DirectionRespected
<1>1. Init => TypeOK /\ SeenInv
  BY InitTyped DEF Init, SeenInv, Weighing
<1>2. TypeOK /\ SeenInv /\ [Next]_vars => (TypeOK /\ SeenInv)'
  BY StepTyped, StepKeepsSeenInv
<1>3. TypeOK /\ SeenInv =>
        (PlanStateChange =>
           /\ rp.spec.direction \in {"Up", "Neither"} =>
                \A i \in plan'["labelCutoff"] \union plan'["labelStandby"] :
                  listed[i].state # "Online"
           /\ rp.spec.direction \in {"Down", "Neither"} => plan'["labelOnline"] = {})
  BY PlanRespectsDirection
<1>4. QED
  BY <1>1, <1>2, <1>3, PTL DEF Spec, DirectionRespected

-----------------------------------------------------------------------------
(***************************************************************************)
(* The floor of what is in service.  The fewest replicas any profile asks  *)
(* to be online, or the workload starts with, are those of the lowest      *)
(* ordinals: a StatefulSet scales down from the highest one and the pods   *)
(* to move are chosen in the same order, so these pods run, are labelled   *)
(* Online and take traffic for good, in every copy there is of them, and   *)
(* every decision is made from a number of online replicas that does not   *)
(* go below the floor.                                                     *)
(***************************************************************************)
OnlineCounts == {InitReplicas} \union {s.online : s \in Specs}
Floor == CHOOSE n \in OnlineCounts : \A m \in OnlineCounts : n <= m

Keepers == {i \in Ordinal : i < Floor}
InService == [phase |-> "Running", state |-> "Online", traffic |-> TRUE]
AllInService(podsSeen) == \A i \in Keepers : podsSeen[i] = InService

HasListed == pc \in {"reflect", "prepare", "apply"}

\* Of the profile what matters is how many replicas it wants online.
AsksEnough(p) == p.exists => p.spec.online >= Floor

ServerFloor == replicas >= Floor /\ AllInService(pods) /\ AsksEnough(profile)

CacheFloor ==
  /\ AllInService(cachedPods)
  /\ unseenDeletions \intersect Keepers = {}
  /\ AsksEnough(cachedProfile)

SparesKeepers(planned) ==
  \A f \in {"off", "labelCutoff", "labelStandby"} : planned[f] \intersect Keepers = {}

WorkerFloor ==
  /\ pc # "idle" => rp.spec.online >= Floor
  /\ HasListed => AllInService(listed) /\ rp.status.online >= Floor
  /\ SparesKeepers(plan)

FloorInv == ServerFloor /\ CacheFloor /\ WorkerFloor

(***************************************************************************)
(* The pods are those of a StatefulSet, none dies, and nobody but the      *)
(* profile scales the workload: what takes pods out of service otherwise   *)
(* is not the doing of the controller.                                     *)
(***************************************************************************)
OnlyProfileScales ==
  /\ WorkloadKind = "StatefulSet"
  /\ Troubles["eviction"] = 0
  /\ Troubles["userScale"] = 0

\* The floor is the least of the counts, and there are pods for it.
LEMMA FloorIsLeast ==
  /\ Floor \in OnlineCounts /\ Floor \in Nat
  /\ Floor <= InitReplicas /\ Floor <= MaxPods
  /\ \A s \in Specs : Floor <= s.online
<1>1. InitReplicas \in Nat /\ MaxPods \in Nat /\ InitReplicas <= MaxPods
  BY ConstantsAssumption DEF ConstantsAssumption
<1>2. OnlineCounts \in SUBSET Nat
  BY <1>1, ConstantsAssumption DEF ConstantsAssumption, OnlineCounts, ReplicaProfileSpec
<1>3. InitReplicas \in OnlineCounts /\ \A s \in Specs : s.online \in OnlineCounts
  BY DEF OnlineCounts
<1>4. PICK n \in OnlineCounts : \A m \in OnlineCounts : ~ (<<m, n>> \in OpToRel(<, Nat))
  BY <1>2, <1>3, WFMin, NatLessThanWellFounded
<1>5. ASSUME NEW m \in OnlineCounts PROVE n <= m
  <2>1. m \in Nat /\ n \in Nat
    BY <1>2
  <2>2. ~ (m < n)
    BY <1>4, <2>1 DEF OpToRel
  <2>3. QED
    BY <2>1, <2>2
<1>6. Floor \in OnlineCounts /\ \A m \in OnlineCounts : Floor <= m
  BY <1>5 DEF Floor
<1>7. Floor <= InitReplicas /\ Floor \in Nat
  BY <1>2, <1>3, <1>6
<1>8. Floor <= MaxPods
  BY <1>1, <1>7
<1>9. \A s \in Specs : Floor <= s.online
  BY <1>3, <1>6
<1>10. QED
  BY <1>6, <1>7, <1>8, <1>9

\* There are as many keepers as the floor says.
LEMMA KeepersCounted == IsFiniteSet(Keepers) /\ Cardinality(Keepers) = Floor
<1>1. MaxPods \in Nat /\ Floor \in Nat /\ Floor <= MaxPods
  BY FloorIsLeast, ConstantsAssumption DEF ConstantsAssumption
<1>2. Keepers = 0 .. Floor - 1
  BY <1>1 DEF Keepers, Ordinal
<1>3. 0 \in Int /\ Floor - 1 \in Int
  BY <1>1
<1>4. /\ IsFiniteSet(0 .. Floor - 1)
      /\ Cardinality(0 .. Floor - 1) = IF 0 > Floor - 1 THEN 0 ELSE (Floor - 1) - 0 + 1
  BY <1>3, FS_Interval
<1>5. QED
  BY <1>1, <1>2, <1>4

\* Of pods more than are wanted none of the lowest ordinals is handed on.
LEMMA HandsOnHighest ==
  ASSUME NEW D \in Int, D >= Floor, NEW S \in SUBSET Ordinal
  PROVE  SM!FirstSorted(Cardinality(S) - D, S) \intersect Keepers = {}
<1> SUFFICES ASSUME NEW p \in SM!FirstSorted(Cardinality(S) - D, S), p \in Keepers
             PROVE  FALSE
  OBVIOUS
<1> DEFINE Above == {q \in S : - q < - p}
           Rest == S \ Above
<1>1. p \in S /\ p \in Nat /\ p < Floor /\ Floor \in Nat
  BY OrdinalsAreNumbers, FloorIsLeast DEF SM!FirstSorted, Keepers
<1>2. Above = {q \in S : [i \in Ordinal |-> - i][q] < [i \in Ordinal |-> - i][p]}
  BY <1>1
<1>3. Cardinality(Above) < Cardinality(S) - D
  BY <1>2, SameCount DEF SM!FirstSorted
<1>4. Rest \subseteq 0 .. p
  <2>1. ASSUME NEW q \in Rest PROVE q \in 0 .. p
    <3>1. q \in Nat /\ ~ (- q < - p)
      BY OrdinalsAreNumbers
    <3>2. QED
      BY <1>1, <3>1
  <2>2. QED
    BY <2>1
<1>5. IsFiniteSet(0 .. p) /\ Cardinality(0 .. p) = p + 1
  <2>1. 0 \in Int /\ p \in Int /\ ~ (0 > p)
    BY <1>1
  <2>2. IsFiniteSet(0 .. p) /\ Cardinality(0 .. p) = p - 0 + 1
    BY <2>1, FS_Interval
  <2>3. QED
    BY <1>1, <2>2
<1>6. Above \subseteq S /\ S = Above \union Rest /\ Above \intersect Rest = {}
  OBVIOUS
<1> HIDE DEF Above, Rest
<1>7. /\ IsFiniteSet(Above) /\ IsFiniteSet(Rest) /\ Cardinality(Rest) <= p + 1
      /\ Cardinality(Above) \in Nat /\ Cardinality(Rest) \in Nat /\ Cardinality(S) \in Nat
  <2>1. Above \in SUBSET Ordinal /\ Above \in SUBSET S /\ Rest \in SUBSET S
    BY <1>6
  <2>2. IsFiniteSet(Above) /\ Cardinality(Above) \in Nat /\ Cardinality(S) \in Nat
    BY <2>1, PodsCounted
  <2>3. IsFiniteSet(Rest) /\ Cardinality(Rest) \in Nat /\ Cardinality(Rest) <= p + 1
    BY <1>4, <1>5, FS_Subset, FS_CardinalityType
  <2>4. QED
    BY <2>2, <2>3
<1>8. Cardinality(S) = Cardinality(Above) + Cardinality(Rest) - Cardinality(Above \intersect Rest)
  BY <1>6, <1>7, FS_Union
<1>9. Cardinality(Above \intersect Rest) = 0
  BY <1>6, FS_EmptySet
<1>10. QED
  BY <1>1, <1>3, <1>7, <1>8, <1>9

\* The choice spares the keepers when they are online and enough is wanted online.
LEMMA ChoiceSparesKeepers ==
  ASSUME NEW running \in [RunningStates -> SUBSET Ordinal],
         (running["Cutoff"] \union running["Standby"]) \intersect Keepers = {},
         NEW desired, desired["Online"] \in Int, desired["Online"] >= Floor
  PROVE  \A s \in {"Cutoff", "Standby"} :
           SM!CalculateStateChange(running, desired)[s] \intersect Keepers = {}
<1> DEFINE info == SM!NewStateInfo(running)
           one == SM!Pull(desired, "Online", "Cutoff")[info]
           two == SM!Pull(desired, "Online", "Standby")[one]
           three == SM!Push(desired, "Online", "Cutoff")[two]
           after == SM!SettleStandby(SM!SettleCutoff(three, desired), desired)
           Others == Ordinal \ Keepers
           handed == SM!FirstSorted(SM!Diff(two, desired, "Online"), SM!Placed(two, "Online"))
<1>1. /\ info \in SM!StatesInfo
      /\ info["Online"].current = running["Online"] /\ info["Online"].candidate = {}
      /\ Within(info, Others)
  <2>1. /\ running["Cutoff"] \subseteq Others /\ running["Standby"] \subseteq Others
    BY DEF RunningStates, SM!RunningStates
  <2> HIDE DEF Others
  <2>2. QED
    BY <2>1, FirstInfo DEF RunningStates, SM!RunningStates, Within
<1>2. SM!Diff(info, desired, "Online") \in Int
  <2>1. Cardinality(running["Online"]) \in Nat
    BY PodsCounted DEF RunningStates, SM!RunningStates
  <2> HIDE DEF info
  <2>2. SM!Diff(info, desired, "Online") = Cardinality(running["Online"]) + 0 - desired["Online"]
    BY <1>1, SameCount, FS_EmptySet DEF SM!Diff
  <2>3. QED
    BY <2>1, <2>2
<1> HIDE DEF info, Others
<1>3. /\ one \in SM!StatesInfo /\ Within(one, Others)
      /\ SM!Diff(one, desired, "Online") \in Int
      /\ SM!Diff(info, desired, "Online") <= 0 => SM!Diff(one, desired, "Online") <= 0
      /\ SM!Diff(info, desired, "Online") >= 0 =>
           SM!Diff(one, desired, "Online") >= 0 /\ one["Online"].candidate = {}
  <2>1. /\ one \in SM!StatesInfo
        /\ SM!Diff(one, desired, "Online") \in Int
        /\ SM!Diff(info, desired, "Online") <= 0 => SM!Diff(one, desired, "Online") <= 0
        /\ SM!Diff(info, desired, "Online") >= 0 =>
             /\ SM!Diff(one, desired, "Online") >= 0
             /\ one["Online"].candidate = info["Online"].candidate
        /\ \A s \in SM!States : one[s].current \subseteq info[s].current
        /\ one["Cutoff"].candidate = info["Cutoff"].candidate
        /\ one["Standby"].candidate = info["Standby"].candidate
    BY <1>1, OnlineTakes
  <2> HIDE DEF one
  <2>2. Within(one, Others)
    BY <1>1, <2>1, TheStates DEF Within
  <2>3. QED
    BY <1>1, <2>1, <2>2
<1> HIDE DEF one
<1>4. /\ two \in SM!StatesInfo /\ Within(two, Others)
      /\ SM!Diff(two, desired, "Online") \in Int
      /\ SM!Diff(info, desired, "Online") <= 0 => SM!Diff(two, desired, "Online") <= 0
      /\ SM!Diff(info, desired, "Online") >= 0 => two["Online"].candidate = {}
  <2>1. /\ two \in SM!StatesInfo
        /\ SM!Diff(two, desired, "Online") \in Int
        /\ SM!Diff(one, desired, "Online") <= 0 => SM!Diff(two, desired, "Online") <= 0
        /\ SM!Diff(one, desired, "Online") >= 0 =>
             two["Online"].candidate = one["Online"].candidate
        /\ \A s \in SM!States : two[s].current \subseteq one[s].current
        /\ two["Cutoff"].candidate = one["Cutoff"].candidate
        /\ two["Standby"].candidate = one["Standby"].candidate
    BY <1>3, OnlineTakes
  <2> HIDE DEF two
  <2>2. Within(two, Others)
    BY <1>3, <2>1, TheStates DEF Within
  <2>3. QED
    BY <1>3, <2>1, <2>2
<1> HIDE DEF two
<1>5. handed \subseteq Others
  <2>1. handed \subseteq SM!Placed(two, "Online") /\ SM!Placed(two, "Online") \subseteq Ordinal
    BY <1>4, MovedArePods, TheStates
  <2>2. CASE SM!Diff(info, desired, "Online") <= 0
    <3>1. handed = {}
      BY <1>4, <2>1, <2>2, TakesNone
    <3>2. QED
      BY <3>1
  <2>3. CASE SM!Diff(info, desired, "Online") >= 0
    <3> DEFINE on == two["Online"].current
    <3>1. SM!Placed(two, "Online") = on /\ two["Online"].candidate = {}
      BY <1>4, <2>3 DEF SM!Placed
    <3>2. on \in SUBSET Ordinal /\ Cardinality(on) \in Nat
      BY <2>1, <3>1, PodsCounted
    <3>3. SM!Diff(two, desired, "Online") = Cardinality(on) - desired["Online"]
      <4>1. SM!Diff(two, desired, "Online") = Cardinality(on) + 0 - desired["Online"]
        BY <3>1, SameCount, FS_EmptySet DEF SM!Diff
      <4> HIDE DEF on
      <4>2. QED
        BY <3>2, <4>1
    <3> HIDE DEF on
    <3>4. handed \intersect Keepers = {}
      BY <3>1, <3>2, <3>3, HandsOnHighest
    <3> HIDE DEF handed
    <3>5. QED
      BY <2>1, <3>4 DEF Others
  <2>4. QED
    BY <1>2, <2>2, <2>3
<1>6. PushedTo(three, two, "Online", "Cutoff", handed)
  BY <1>4, PushMoves, TheStates
<1> HIDE DEF three, handed
<1>7. three \in SM!StatesInfo /\ Within(three, Others)
  BY <1>4, <1>5, <1>6, TheStates DEF PushedTo, Within
<1>8. Within(after, Others)
  BY <1>7, LaterStatesKeep
<1>9. SM!FinalInfo(running, desired) = after
  BY DEF SM!FinalInfo, SM!SettleOnline, info, one, two, three
<1>10. \A s \in {"Cutoff", "Standby"} : after[s].candidate \subseteq Others
  BY <1>8 DEF Within
<1>11. \A s \in SM!States : SM!CalculateStateChange(running, desired)[s] = after[s].candidate
  BY <1>9 DEF SM!CalculateStateChange
<1>12. QED
  BY <1>10, <1>11, TheStates DEF Others

\* Enough is wanted online when the spec asks for it and it was observed.
LEMMA EnoughDesired ==
  ASSUME rp \in Profile, rp.spec.online >= Floor, rp.status.online >= Floor
  PROVE  /\ DesiredOnline \in Nat /\ DesiredOnline >= Floor
         /\ DesiredReplicas \in Nat /\ DesiredReplicas >= Floor
<1>1. /\ rp.spec.online \in Nat /\ rp.status.online \in Nat
      /\ rp.spec.cutoff \in Nat /\ rp.spec.standby \in Nat
      /\ rp.spec.direction \in ScalingDirections
  BY DEF Profile, ReplicaProfileSpec, ReplicaProfileStatus
<1>2. DesiredOnline \in Nat /\ DesiredOnline >= Floor
  BY <1>1 DEF DesiredOnline, GreaterOf, LesserOf, ScalingDirections
<1>3. Floor \in Nat
  BY FloorIsLeast
<1>4. DesiredReplicas \in Nat /\ DesiredReplicas >= Floor
  BY <1>1, <1>2, <1>3 DEF DesiredReplicas
<1>5. QED
  BY <1>2, <1>4

\* The plan spares the keepers.
LEMMA PlanSparesKeepers ==
  ASSUME TypeOK, WorkerFloor, PlanStateChange
  PROVE  SparesKeepers(plan')
<1> DEFINE running == FilterAndClassify(listed)
           desired == [Online |-> DesiredOnline, Cutoff |-> rp.spec.cutoff,
                       Standby |-> rp.spec.standby]
           change == SM!CalculateStateChange(running, desired)
<1>1. /\ plan'["off"] = change["Cutoff"]
      /\ plan'["labelCutoff"] = change["Cutoff"]
      /\ plan'["labelStandby"] = change["Standby"]
  BY DEF PlanStateChange, PlanFor, StateChange
<1>2. AllInService(listed) /\ rp.status.online >= Floor /\ rp.spec.online >= Floor
  BY DEF WorkerFloor, HasListed, PlanStateChange, CanPlan, WantsStateChange, Prepare
<1>3. /\ running \in [RunningStates -> SUBSET Ordinal]
      /\ (running["Cutoff"] \union running["Standby"]) \intersect Keepers = {}
  BY <1>2 DEF FilterAndClassify, RunningIn, RunningStates, SM!RunningStates, AllInService, InService
<1>4. desired["Online"] \in Int /\ desired["Online"] >= Floor
  BY <1>2, EnoughDesired DEF TypeOK, LocalTypeOK
<1> HIDE DEF running, desired
<1>5. \A s \in {"Cutoff", "Standby"} : change[s] \intersect Keepers = {}
  BY <1>3, <1>4, ChoiceSparesKeepers
<1> HIDE DEF change
<1>6. QED
  BY <1>1, <1>5 DEF SparesKeepers

-----------------------------------------------------------------------------
(***************************************************************************)
(* Every step keeps the floor.                                             *)
(***************************************************************************)

\* What the profile asks for is left alone,
SameAsked == profile'.exists = profile.exists /\ profile'.spec = profile.spec

\* as it is when a status is stored or a failure recorded.
LEMMA StatusesKeepAsked ==
  ASSUME TypeOK, NEW status,
         StoreStatus(status) \/ LeaveStatus \/ ErrorOut(status) \/ StoreStatusAndReturn(status)
  PROVE  SameAsked
BY DEF StoreStatus, LeaveStatus, ErrorOut, StoreStatusAndReturn, SameAsked, TypeOK, ServerTypeOK,
       Profile

SamePods == pods' = pods /\ replicas' = replicas
SameCache ==
  /\ cachedProfile' = cachedProfile /\ cachedPods' = cachedPods
  /\ unseenDeletions' = unseenDeletions

\* What the server holds and what the cache shows: left alone,
LEMMA SameServerKeepsFloor ==
  ASSUME ServerFloor, SamePods, SameAsked
  PROVE  ServerFloor'
BY DEF ServerFloor, SamePods, SameAsked, AllInService, AsksEnough

\* neither of them changes its part of the invariant.
LEMMA SameCacheKeepsFloor ==
  ASSUME CacheFloor, SameCache
  PROVE  CacheFloor'
BY DEF CacheFloor, SameCache, AllInService, AsksEnough

\* A reconcile that has ended holds nothing.
LEMMA EndedKeepsFloor ==
  ASSUME Done \/ Retry \/ IdleLocals
  PROVE  WorkerFloor'
BY DEF Done, Retry, IdleLocals, WorkerFloor, HasListed, SparesKeepers, NoPlan, Phases

\* The head of a reconcile takes the profile from the cache, or the stored one.
LEMMA HeadKeepsFloor ==
  ASSUME TypeOK, FloorInv,
         \/ BeginNothingToDo \/ BeginDeletion \/ BeginFirst \/ BeginAgain
         \/ RemoveFinalizer \/ AddFinalizer \/ FinalizerPatchMisses
  PROVE  FloorInv'
<1>1. CASE BeginNothingToDo \/ BeginDeletion \/ BeginFirst \/ BeginAgain
  <2>1. SamePods /\ SameCache /\ SameAsked
    BY <1>1
    DEF BeginNothingToDo, BeginDeletion, BeginFirst, BeginAgain, Begin, serverVars, cacheVars,
        podCache, SamePods, SameCache, SameAsked
  <2>2. WorkerFloor'
    <3>1. CASE BeginNothingToDo
      BY <3>1
      DEF BeginNothingToDo, Begin, localVars, FloorInv, WorkerFloor, HasListed, AllInService,
          SparesKeepers
    <3>2. CASE BeginDeletion \/ BeginFirst \/ BeginAgain
      <4>1. /\ cachedProfile.exists /\ rp' = cachedProfile /\ plan' = plan
            /\ pc' \in {"removeFinalizer", "addFinalizer", "pause", "getScale"}
        BY <3>2 DEF BeginDeletion, BeginFirst, BeginAgain, Take, AfterFinalizer
      <4>2. QED
        BY <4>1 DEF FloorInv, CacheFloor, AsksEnough, WorkerFloor, HasListed, SparesKeepers
    <3>3. QED
      BY <1>1, <3>1, <3>2
  <2>3. QED
    BY <2>1, <2>2, SameServerKeepsFloor, SameCacheKeepsFloor DEF FloorInv
<1>2. CASE RemoveFinalizer
  <2>1. profile'.exists => profile.exists /\ profile'.spec = profile.spec
    BY <1>2 DEF RemoveFinalizer, NoProfile, TypeOK, ServerTypeOK, Profile
  <2>2. SamePods /\ SameCache
    BY <1>2 DEF RemoveFinalizer, podCache, SamePods, SameCache
  <2>3. ServerFloor'
    BY <2>1, <2>2 DEF FloorInv, ServerFloor, SamePods, AllInService, AsksEnough
  <2>4. QED
    BY <1>2, <2>2, <2>3, SameCacheKeepsFloor, EndedKeepsFloor DEF RemoveFinalizer, FloorInv
<1>3. CASE AddFinalizer
  <2>1. /\ SameAsked /\ profile.exists
        /\ rp' = profile' /\ pc' \in {"pause", "getScale"} /\ plan' = plan
    BY <1>3 DEF AddFinalizer, AfterFinalizer, SameAsked, TypeOK, ServerTypeOK, Profile
  <2>2. SamePods /\ SameCache
    BY <1>3 DEF AddFinalizer, podCache, SamePods, SameCache
  <2>3. WorkerFloor'
    BY <2>1
    DEF FloorInv, ServerFloor, AsksEnough, SameAsked, WorkerFloor, HasListed, SparesKeepers
  <2>4. QED
    BY <2>1, <2>2, <2>3, SameServerKeepsFloor, SameCacheKeepsFloor DEF FloorInv
<1>4. CASE FinalizerPatchMisses
  <2>1. SamePods /\ SameCache /\ SameAsked
    BY <1>4
    DEF FinalizerPatchMisses, serverVars, cacheVars, podCache, SamePods, SameCache, SameAsked
  <2>2. QED
    BY <1>4, <2>1, SameServerKeepsFloor, SameCacheKeepsFloor, EndedKeepsFloor
    DEF FinalizerPatchMisses, FloorInv
<1>5. QED
  BY <1>1, <1>2, <1>3, <1>4

\* Pods of which the keepers are in service count at least the floor online.
LEMMA KeepersAreOnline ==
  ASSUME NEW podsSeen, AllInService(podsSeen)
  PROVE  Cardinality(RunningIn(podsSeen, "Online")) >= Floor
<1>1. Keepers \subseteq RunningIn(podsSeen, "Online")
  BY DEF Keepers, AllInService, InService, RunningIn, IsPodRunning
<1>2. RunningIn(podsSeen, "Online") \in SUBSET Ordinal
  BY DEF RunningIn
<1>3. Cardinality(Keepers) <= Cardinality(RunningIn(podsSeen, "Online"))
  BY <1>1, <1>2, PodsCounted
<1>4. QED
  BY <1>3, KeepersCounted

\* The pods are listed from the cache and counted.
LEMMA ListingKeepsFloor ==
  ASSUME TypeOK, FloorInv, List
  PROVE  WorkerFloor'
<1> DEFINE n == Cardinality(RunningIn(cachedPods, "Online"))
           counted == [rp.status EXCEPT
                         !.online  = n,
                         !.cutoff  = Cardinality(RunningIn(cachedPods, "Cutoff")),
                         !.standby = Cardinality(RunningIn(cachedPods, "Standby"))]
           reason == IF IsEnsured(rp.spec, counted) THEN "Ensured" ELSE "NotSatisfied"
<1>1. rp \in Profile
  BY DEF TypeOK, LocalTypeOK
<1>2. n >= Floor
  BY KeepersAreOnline DEF FloorInv, CacheFloor
<1>3. counted.online = n /\ counted \in ReplicaProfileStatus
  BY <1>1, CountsTyped DEF Profile, ReplicaProfileStatus
<1> HIDE DEF counted, reason
<1>4. WithCondition(counted, "ensured", reason).online = n
  BY <1>3 DEF WithCondition, ReplicaProfileStatus
<1>5. Reflected(cachedPods).online = n
  BY <1>4 DEF Reflected, counted, reason
<1> HIDE DEF n
<1>6. rp'.status.online = n /\ rp'.spec = rp.spec
  BY <1>1, <1>5 DEF List, Profile
<1>7. AllInService(listed')
  BY DEF List, FloorInv, CacheFloor, AllInService
<1>8. QED
  BY <1>2, <1>6, <1>7 DEF List, FloorInv, WorkerFloor, SparesKeepers, HasListed, AllInService

\* Observing, and deciding what to change.
LEMMA ObserveKeepsFloor ==
  ASSUME TypeOK, FloorInv,
         \/ Pause \/ GetScale \/ List \/ Reflect \/ ReflectConflict
         \/ SkipStateChange \/ SorterUnsupported \/ PrepareFails \/ PlanStateChange \/ PlanPanics
  PROVE  FloorInv'
<1>1. SamePods /\ SameCache
  BY DEF Pause, GetScale, List, Reflect, ReflectConflict, SkipStateChange, SorterUnsupported,
         PrepareFails, PlanStateChange, PlanPanics, serverVars, cacheVars, podCache, SamePods,
         SameCache
<1>2. SameAsked
  <2>1. CASE Pause \/ SorterUnsupported \/ PrepareFails
    BY <2>1, StatusesKeepAsked DEF Pause, SorterUnsupported, PrepareFails
  <2>2. CASE Reflect
    BY <2>2, StatusesKeepAsked DEF Reflect
  <2>3. CASE \/ GetScale \/ List \/ ReflectConflict \/ SkipStateChange \/ PlanStateChange
             \/ PlanPanics
    BY <2>3
    DEF GetScale, List, ReflectConflict, SkipStateChange, PlanStateChange, PlanPanics, serverVars,
        SameAsked
  <2>4. QED
    BY <2>1, <2>2, <2>3
<1>3. WorkerFloor'
  <2>1. CASE \/ Pause \/ ReflectConflict \/ SorterUnsupported \/ PrepareFails \/ PlanPanics
    BY <2>1, EndedKeepsFloor
    DEF Pause, StoreStatusAndReturn, ReflectConflict, SorterUnsupported, PrepareFails, PlanPanics
  <2>2. CASE GetScale
    BY <2>2 DEF GetScale, FloorInv, WorkerFloor, HasListed, SparesKeepers
  <2>3. CASE List
    BY <2>3, ListingKeepsFloor
  <2>4. CASE Reflect
    <3>1. CASE IsEnsured(rp.spec, rp.status)
      BY <2>4, <3>1, EndedKeepsFloor DEF Reflect
    <3>2. CASE ~ IsEnsured(rp.spec, rp.status)
      BY <2>4, <3>2
      DEF Reflect, FloorInv, WorkerFloor, HasListed, SparesKeepers, AllInService
    <3>3. QED
      BY <3>1, <3>2
  <2>5. CASE SkipStateChange
    BY <2>5
    DEF SkipStateChange, Prepare, FloorInv, WorkerFloor, HasListed, SparesKeepers, AllInService
  <2>6. CASE PlanStateChange
    <3>1. SparesKeepers(plan')
      BY <2>6, PlanSparesKeepers DEF FloorInv
    <3>2. QED
      BY <2>6, <3>1
      DEF PlanStateChange, CanPlan, WantsStateChange, Prepare, FloorInv, WorkerFloor, HasListed,
          AllInService, SparesKeepers
  <2>7. QED
    BY <2>1, <2>2, <2>3, <2>4, <2>5, <2>6
<1>4. QED
  BY <1>1, <1>2, <1>3, SameServerKeepsFloor, SameCacheKeepsFloor DEF FloorInv

\* The copy of a pod that is not kept may change, that of a keeper not.
LEMMA KeepersStayInService ==
  ASSUME NEW before, NEW after, AllInService(before),
         \A i \in Keepers : after[i] = before[i]
  PROVE  AllInService(after)
BY DEF AllInService

\* The labels and the gates of the planned pods, and the scale.
LEMMA ApplyKeepsFloor ==
  ASSUME TypeOK, FloorInv,
         \/ \E i \in Ordinal : \/ TrafficOn(i) \/ LabelOnline(i)
                                \/ TrafficOff(i) \/ LabelCutoff(i) \/ LabelStandby(i)
         \/ \E f \in Phases, i \in Ordinal : PodPatchMisses(f, i)
         \/ UpdateScale \/ ScaleConflict \/ Finish
  PROVE  FloorInv'
<1>1. ASSUME NEW i \in Ordinal, TrafficOn(i) \/ TrafficOff(i)
      PROVE  FloorInv'
  <2>1. PICK f \in {"on", "off"}, open \in BOOLEAN :
          SetTraffic(f, i, open) /\ (f = "on" => open)
    BY <1>1 DEF TrafficOn, TrafficOff
  <2>2. /\ pc = "apply" /\ HasListed /\ i \in plan[f] /\ (f = "off" => i \notin Keepers)
        /\ AllInService(pods) /\ AllInService(listed)
    BY <2>1
    DEF SetTraffic, Planned, FloorInv, ServerFloor, WorkerFloor, HasListed, SparesKeepers
  <2>3. /\ pods \in [Ordinal -> PodObject] /\ listed \in [Ordinal -> PodObject]
        /\ plan \in [Phases -> SUBSET Ordinal]
    BY DEF TypeOK, ServerTypeOK, LocalTypeOK
  <2>4. \/ pods' = pods /\ listed' = listed
        \/ /\ pods' = [pods EXCEPT ![i].traffic = open]
           /\ listed' = [listed EXCEPT ![i] = [pods[i] EXCEPT !.traffic = open]]
           /\ listed[i].traffic # open
    BY <2>1 DEF SetTraffic
  <2>5. AllInService(pods') /\ AllInService(listed')
    <3>1. CASE i \notin Keepers
      <4>1. \A j \in Keepers : pods'[j] = pods[j] /\ listed'[j] = listed[j]
        BY <2>3, <2>4, <3>1 DEF Keepers
      <4>2. QED
        BY <2>2, <4>1, KeepersStayInService
    <3>2. CASE i \in Keepers
      <4>1. open /\ listed[i].traffic
        BY <2>1, <2>2, <3>2 DEF AllInService, InService
      <4>2. pods' = pods /\ listed' = listed
        BY <2>4, <4>1
      <4>3. QED
        BY <2>2, <4>2
    <3>3. QED
      BY <3>1, <3>2
  <2>6. SparesKeepers(plan')
    <3>1. plan' = [plan EXCEPT ![f] = @ \ {i}]
      BY <2>1 DEF SetTraffic, Finished
    <3>2. \A g \in Phases : plan'[g] \subseteq plan[g]
      BY <2>3, <3>1
    <3>3. QED
      BY <3>2 DEF FloorInv, WorkerFloor, SparesKeepers, Phases
  <2>7. /\ profile' = profile /\ replicas' = replicas /\ SameCache /\ rp' = rp /\ pc' = pc
    BY <2>1 DEF SetTraffic, cacheVars, podCache, SameCache
  <2>8. ServerFloor'
    BY <2>5, <2>7 DEF FloorInv, ServerFloor, AsksEnough
  <2>9. WorkerFloor'
    BY <2>5, <2>6, <2>7 DEF FloorInv, WorkerFloor, HasListed
  <2>10. QED
    BY <2>7, <2>8, <2>9, SameCacheKeepsFloor DEF FloorInv
<1>2. ASSUME NEW i \in Ordinal, LabelOnline(i) \/ LabelCutoff(i) \/ LabelStandby(i)
      PROVE  FloorInv'
  <2>1. PICK f \in {"labelOnline", "labelCutoff", "labelStandby"},
             s \in RunningStates :
          SetPodState(f, i, s) /\ (f = "labelOnline" => s = "Online")
    BY <1>2 DEF LabelOnline, LabelCutoff, LabelStandby, RunningStates, SM!RunningStates
  <2>2. /\ pc = "apply" /\ i \in plan[f] /\ (f # "labelOnline" => i \notin Keepers)
        /\ AllInService(pods) /\ AllInService(listed)
    BY <2>1
    DEF SetPodState, Planned, FloorInv, ServerFloor, WorkerFloor, HasListed, SparesKeepers
  <2>3. /\ pods \in [Ordinal -> PodObject] /\ plan \in [Phases -> SUBSET Ordinal]
    BY DEF TypeOK, ServerTypeOK, LocalTypeOK
  <2>4. pods' = IF listed[i].state = s THEN pods ELSE [pods EXCEPT ![i].state = s]
    BY <2>1 DEF SetPodState
  <2>5. AllInService(pods')
    <3>1. CASE i \notin Keepers
      <4>1. \A j \in Keepers : pods'[j] = pods[j]
        BY <2>3, <2>4, <3>1 DEF Keepers
      <4>2. QED
        BY <2>2, <4>1, KeepersStayInService
    <3>2. CASE i \in Keepers
      <4>1. s = "Online" /\ listed[i].state = "Online"
        BY <2>1, <2>2, <3>2 DEF AllInService, InService
      <4>2. QED
        BY <2>2, <2>4, <4>1
    <3>3. QED
      BY <3>1, <3>2
  <2>6. SparesKeepers(plan')
    <3>1. plan' = [plan EXCEPT ![f] = @ \ {i}]
      BY <2>1 DEF SetPodState, Finished
    <3>2. \A g \in Phases : plan'[g] \subseteq plan[g]
      BY <2>3, <3>1
    <3>3. QED
      BY <3>2 DEF FloorInv, WorkerFloor, SparesKeepers, Phases
  <2>7. /\ profile' = profile /\ replicas' = replicas /\ SameCache
        /\ rp' = rp /\ pc' = pc /\ listed' = listed
    BY <2>1 DEF SetPodState, cacheVars, podCache, SameCache
  <2>8. ServerFloor'
    BY <2>5, <2>7 DEF FloorInv, ServerFloor, AsksEnough
  <2>9. WorkerFloor'
    BY <2>6, <2>7 DEF FloorInv, WorkerFloor, HasListed, AllInService
  <2>10. QED
    BY <2>7, <2>8, <2>9, SameCacheKeepsFloor DEF FloorInv
<1>3. ASSUME \/ \E f \in Phases, i \in Ordinal : PodPatchMisses(f, i)
             \/ ScaleConflict \/ Finish
      PROVE  FloorInv'
  <2>1. SamePods /\ SameCache /\ SameAsked
    BY <1>3, StatusesKeepAsked
    DEF PodPatchMisses, ScaleConflict, Finish, podCache, SamePods, SameCache
  <2>2. WorkerFloor'
    BY <1>3, EndedKeepsFloor DEF PodPatchMisses, ScaleConflict, Finish, StoreStatusAndReturn
  <2>3. QED
    BY <2>1, <2>2, SameServerKeepsFloor, SameCacheKeepsFloor DEF FloorInv
<1>4. CASE UpdateScale
  <2>1. /\ rp \in Profile /\ rp.spec.online >= Floor /\ rp.status.online >= Floor
    BY <1>4 DEF UpdateScale, ScaleNext, FloorInv, WorkerFloor, HasListed, TypeOK, LocalTypeOK
  <2>2. replicas' >= Floor
    BY <1>4, <2>1, EnoughDesired DEF UpdateScale
  <2>3. ServerFloor'
    BY <1>4, <2>2 DEF UpdateScale, FloorInv, ServerFloor, AllInService, AsksEnough
  <2>4. SameCache /\ WorkerFloor'
    BY <1>4
    DEF UpdateScale, ScaleNext, cacheVars, podCache, SameCache, FloorInv, WorkerFloor, HasListed,
        SparesKeepers
  <2>5. QED
    BY <2>3, <2>4, SameCacheKeepsFloor DEF FloorInv
<1>5. QED
  BY <1>1, <1>2, <1>3, <1>4

\* What the reconcile has in hand is its own.
LEMMA SameLocalsKeepFloor ==
  ASSUME WorkerFloor, UNCHANGED <<pc, rp, listed, plan>>
  PROVE  WorkerFloor'
BY DEF WorkerFloor, HasListed, AllInService, SparesKeepers

\* The watches: the cache is brought up to what is stored.
LEMMA DeliverKeepsFloor ==
  ASSUME TypeOK, FloorInv, DeliverProfile \/ \E i \in Ordinal : DeliverPod(i)
  PROVE  FloorInv'
<1>1. CASE DeliverProfile
  BY <1>1, SameLocalsKeepFloor, SameServerKeepsFloor
  DEF DeliverProfile, serverVars, podCache, localVars, FloorInv, ServerFloor, CacheFloor, SamePods,
      SameAsked, AllInService, AsksEnough
<1>2. ASSUME NEW i \in Ordinal, DeliverPod(i)
      PROVE  FloorInv'
  <2>1. PICK new :
          /\ new = (IF i \in unseenDeletions THEN AbsentPod ELSE pods[i])
          /\ cachedPods' = [cachedPods EXCEPT ![i] = new]
          /\ unseenDeletions' = unseenDeletions \ {i}
    BY <1>2 DEF DeliverPod
  <2>2. cachedPods \in [Ordinal -> PodObject]
    BY DEF TypeOK, CacheTypeOK
  <2>3. \A j \in Keepers : cachedPods'[j] = InService
    BY <2>1, <2>2 DEF FloorInv, ServerFloor, CacheFloor, AllInService, Keepers
  <2>4. CacheFloor'
    BY <1>2, <2>1, <2>3 DEF DeliverPod, FloorInv, CacheFloor, AllInService, AsksEnough
  <2>5. SamePods /\ SameAsked /\ UNCHANGED <<pc, rp, listed, plan>>
    BY <1>2 DEF DeliverPod, serverVars, localVars, SamePods, SameAsked
  <2>6. QED
    BY <2>4, <2>5, SameLocalsKeepFloor, SameServerKeepsFloor DEF FloorInv
<1>3. QED
  BY <1>1, <1>2

\* The owner only gives the profile specs that ask for enough.
LEMMA OwnKeepsFloor ==
  ASSUME TypeOK, FloorInv, Own
  PROVE  FloorInv'
<1>1. pods' = pods /\ replicas' = replicas /\ SameCache /\ UNCHANGED <<pc, rp, listed, plan>>
  BY DEF Own, DeleteProfile, EditProfile, CreateProfile, podCache, SameCache
<1>2. AsksEnough(profile')
  <2>1. profile \in Profile
    BY DEF TypeOK, ServerTypeOK
  <2>2. CASE DeleteProfile
    BY <2>1, <2>2 DEF DeleteProfile, NoProfile, Profile, FloorInv, ServerFloor, AsksEnough
  <2>3. ASSUME NEW s \in Specs, EditProfile(s) \/ CreateProfile(s)
        PROVE  AsksEnough(profile')
    <3>1. CASE EditProfile(s)
      <4>1. profile'.spec = s
        BY <2>1, <3>1 DEF EditProfile, Profile
      <4>2. QED
        BY <4>1, FloorIsLeast DEF AsksEnough
    <3>2. CASE CreateProfile(s)
      <4>1. profile'.spec = s
        BY <3>2 DEF CreateProfile, NewProfile
      <4>2. QED
        BY <4>1, FloorIsLeast DEF AsksEnough
    <3>3. QED
      BY <2>3, <3>1, <3>2
  <2>4. QED
    BY <2>2, <2>3 DEF Own
<1>3. ServerFloor'
  BY <1>1, <1>2 DEF FloorInv, ServerFloor, AllInService
<1>4. QED
  BY <1>1, <1>3, SameCacheKeepsFloor, SameLocalsKeepFloor DEF FloorInv

\* The workload fills up missing pods and scales down from the highest ordinal.
LEMMA WorkloadKeepsFloor ==
  ASSUME OnlyProfileScales, TypeOK, FloorInv, NEW i \in Ordinal, Workload(i)
  PROVE  FloorInv'
<1>1. i \notin Keepers
  <2>1. CASE CreatePod(i) \/ PodStarts(i)
    BY <2>1
    DEF CreatePod, PodStarts, PodMissing, FloorInv, ServerFloor, AllInService, InService
  <2>2. CASE ScaleDownPod(i)
    <3>1. i >= replicas /\ replicas \in Nat /\ replicas >= Floor
      BY <2>2
      DEF ScaleDownPod, PodSurplus, OnlyProfileScales, FloorInv, ServerFloor, TypeOK, ServerTypeOK
    <3>2. i \in Nat /\ Floor \in Nat
      BY OrdinalsAreNumbers, FloorIsLeast
    <3>3. QED
      BY <3>1, <3>2 DEF Keepers
  <2>3. QED
    BY <2>1, <2>2 DEF Workload
<1>2. /\ UNCHANGED <<profile, replicas, cachedProfile, cachedPods, pc, rp, listed, plan>>
      /\ unseenDeletions' \in {unseenDeletions, unseenDeletions \union {i}}
      /\ \E pod : pods' = [pods EXCEPT ![i] = pod]
  BY DEF Workload, CreatePod, PodStarts, ScaleDownPod, Lose, cacheVars, podCache, localVars
<1>3. pods \in [Ordinal -> PodObject]
  BY DEF TypeOK, ServerTypeOK
<1>4. \A j \in Keepers : pods'[j] = pods[j]
  BY <1>1, <1>2, <1>3 DEF Keepers
<1>5. ServerFloor'
  BY <1>2, <1>4 DEF FloorInv, ServerFloor, AllInService, AsksEnough
<1>6. CacheFloor'
  BY <1>1, <1>2 DEF FloorInv, CacheFloor, AllInService, AsksEnough
<1>7. QED
  BY <1>2, <1>5, <1>6, SameLocalsKeepFloor DEF FloorInv

\* Of the disturbances those that are possible take no pods out of service.
LEMMA DisturbKeepsFloor ==
  ASSUME OnlyProfileScales, TypeOK, FloorInv, Disturb
  PROVE  FloorInv'
<1>1. left["eviction"] = 0 /\ left["userScale"] = 0
  <2>1. \A kind \in TroubleKinds : left[kind] \in Nat /\ left[kind] <= Troubles[kind]
    BY DEF TypeOK, BoundTypeOK
  <2>2. "eviction" \in TroubleKinds /\ "userScale" \in TroubleKinds
    BY DEF TroubleKinds
  <2>3. QED
    BY <2>1, <2>2 DEF OnlyProfileScales
<1>2. CASE CallFails
  <2>1. SameAsked
    BY <1>2, StatusesKeepAsked DEF CallFails
  <2>2. SamePods /\ SameCache
    BY <1>2 DEF CallFails, podCache, SamePods, SameCache
  <2>3. QED
    BY <1>2, <2>1, <2>2, SameServerKeepsFloor, SameCacheKeepsFloor, EndedKeepsFloor
    DEF CallFails, FloorInv
<1>3. CASE Restart
  <2>1. SamePods /\ SameAsked
    BY <1>3 DEF Restart, serverVars, SamePods, SameAsked
  <2>2. CacheFloor'
    BY <1>3 DEF Restart, FloorInv, ServerFloor, CacheFloor, AllInService
  <2>3. QED
    BY <1>3, <2>1, <2>2, SameServerKeepsFloor, EndedKeepsFloor DEF Restart, FloorInv
<1>4. ASSUME NEW i \in Ordinal, EvictPod(i) PROVE FALSE
  BY <1>1, <1>4 DEF EvictPod, Spend
<1>5. ASSUME NEW n \in 0 .. MaxPods, ScaleByHand(n) PROVE FALSE
  BY <1>1, <1>5 DEF ScaleByHand, Spend
<1>6. QED
  BY <1>2, <1>3, <1>4, <1>5 DEF Disturb

\* Every step keeps the floor.
LEMMA StepKeepsFloor ==
  ASSUME OnlyProfileScales, TypeOK, FloorInv, [Next]_vars
  PROVE  FloorInv'
<1>1. CASE UNCHANGED vars
  <2>1. SamePods /\ SameAsked /\ SameCache /\ UNCHANGED <<pc, rp, listed, plan>>
    BY <1>1
    DEF vars, serverVars, cacheVars, podCache, localVars, SamePods, SameAsked, SameCache
  <2>2. QED
    BY <2>1, SameServerKeepsFloor, SameCacheKeepsFloor, SameLocalsKeepFloor DEF FloorInv
<1>2. CASE Reconcile
  BY <1>2, HeadKeepsFloor, ObserveKeepsFloor, ApplyKeepsFloor DEF Reconcile
<1>3. CASE Next /\ ~ Reconcile
  BY <1>3, DeliverKeepsFloor, OwnKeepsFloor, WorkloadKeepsFloor, DisturbKeepsFloor DEF Next
<1>4. QED
  BY <1>1, <1>2, <1>3

\* The floor holds to begin with.
LEMMA InitFloorInv == Init => FloorInv
<1> SUFFICES ASSUME Init PROVE FloorInv
  OBVIOUS
<1>1. InitReplicas \in Nat /\ Floor \in Nat /\ Floor <= InitReplicas
  BY FloorIsLeast, ConstantsAssumption DEF ConstantsAssumption
<1>2. AllInService(InitialPods)
  <2>1. ASSUME NEW i \in Keepers PROVE InitialPods[i] = InService
    <3>1. i \in Ordinal /\ i \in Nat /\ i < Floor
      BY OrdinalsAreNumbers DEF Keepers
    <3>2. i < InitReplicas
      BY <1>1, <3>1
    <3>3. QED
      BY <3>1, <3>2 DEF InitialPods, AbsentPod, InService
  <2>2. QED
    BY <2>1 DEF AllInService
<1>3. ServerFloor
  BY <1>1, <1>2, FloorIsLeast DEF Init, ServerFloor, AsksEnough, NewProfile
<1>4. CacheFloor
  BY <1>2 DEF Init, CacheFloor, AsksEnough, NoProfile
<1>5. WorkerFloor
  BY DEF Init, WorkerFloor, HasListed, SparesKeepers, NoPlan, Phases
<1>6. QED
  BY <1>3, <1>4, <1>5 DEF FloorInv

\* The keepers serve, and are as many as the floor says.
LEMMA KeepersServe ==
  ASSUME FloorInv
  PROVE  ServingFloor
<1>1. Keepers \subseteq Serving
  BY DEF FloorInv, ServerFloor, AllInService, InService, Keepers, Serving, IsPodRunning
<1>2. Serving \in SUBSET Ordinal
  BY DEF Serving
<1>3. Cardinality(Keepers) <= Cardinality(Serving)
  BY <1>1, <1>2, PodsCounted
<1>4. QED
  BY <1>3, KeepersCounted, FloorIsLeast DEF ServingFloor, OnlineCounts

(***************************************************************************)
(* As long as no pod dies and nobody else scales the StatefulSet, it never *)
(* has fewer pods in service than the most modest of the specs asks for,   *)
(* or than it started with: for every number of pods, set of specs (every  *)
(* direction and every number of cutoff and standby replicas among them),  *)
(* and any number of edits, deletions, failed calls and restarts.          *)
(***************************************************************************)
THEOREM ServiceFloorKept ==
  ASSUME OnlyProfileScales
  PROVE  Spec => []ServingFloor
<1>1. Init => TypeOK /\ FloorInv
  BY InitTyped, InitFloorInv
<1>2. TypeOK /\ FloorInv /\ [Next]_vars => (TypeOK /\ FloorInv)'
  BY OnlyProfileScales, StepTyped, StepKeepsFloor
<1>3. FloorInv => ServingFloor
  BY KeepersServe
<1>4. QED
  BY <1>1, <1>2, <1>3, PTL DEF Spec

-----------------------------------------------------------------------------
(***************************************************************************)
(* Traffic before label.  During a gray change the pods of the workload    *)
(* stay the same, and each is either Online or Cutoff.  So of every pod    *)
(* there is one history, of which the cache and the copy of the reconcile  *)
(* show earlier points: the traffic is switched, then the label, then the  *)
(* other way round.  A copy lags behind the pod by at most one such        *)
(* change, because a change back is only planned once the first is seen.   *)
(***************************************************************************)

\* Among any pods there is one with the lowest ordinal.
LEMMA LowestPod ==
  ASSUME NEW T \in SUBSET Ordinal, T # {}
  PROVE  \E m \in T : \A i \in T : m <= i
<1>1. T \in SUBSET Nat
  BY OrdinalsAreNumbers
<1>2. PICK m \in T : \A i \in T : ~ (<<i, m>> \in OpToRel(<, Nat))
  BY <1>1, WFMin, NatLessThanWellFounded
<1>3. ASSUME NEW i \in T PROVE m <= i
  <2>1. m \in Nat /\ i \in Nat
    BY <1>1
  <2>2. ~ (i < m)
    BY <1>2, <2>1 DEF OpToRel
  <2>3. QED
    BY <2>1, <2>2
<1>4. QED
  BY <1>3

\* No more pods are handed on than the surplus.
LEMMA HandsOnAtMost ==
  ASSUME NEW k \in Nat, NEW S \in SUBSET Ordinal
  PROVE  Cardinality(SM!FirstSorted(k, S)) <= k
<1> DEFINE T == SM!FirstSorted(k, S)
           Before(p) == {q \in S : - q < - p}
<1>1. \A p \in T : Cardinality(Before(p)) < k /\ Cardinality(Before(p)) \in Nat
  <2>1. SUFFICES ASSUME NEW p \in T
                 PROVE  Cardinality(Before(p)) < k /\ Cardinality(Before(p)) \in Nat
    OBVIOUS
  <2>2. p \in S
    BY DEF SM!FirstSorted
  <2>3. Before(p) = {q \in S : [i \in Ordinal |-> - i][q] < [i \in Ordinal |-> - i][p]}
    BY <2>2
  <2>4. Cardinality(Before(p)) < k
    BY <2>3, SameCount DEF SM!FirstSorted
  <2>5. QED
    BY <2>4, PodsCounted
<1>2. T \subseteq S
  BY DEF SM!FirstSorted
<1> SUFFICES Cardinality(T) <= k
  OBVIOUS
<1> HIDE DEF T
<1>3. CASE T = {}
  BY <1>3, FS_EmptySet
<1>4. CASE T # {}
  <2>1. PICK m \in T : \A i \in T : m <= i
    BY <1>2, <1>4, LowestPod
  <2>2. T \ {m} \subseteq Before(m)
    <3>1. ASSUME NEW i \in T \ {m} PROVE i \in Before(m)
      <4>1. i \in Int /\ m \in Int
        BY <1>2, OrdinalsAreNumbers
      <4>2. QED
        BY <1>2, <2>1, <4>1
    <3>2. QED
      BY <3>1
  <2>3. Cardinality(T \ {m}) <= Cardinality(Before(m))
    BY <2>2, PodsCounted
  <2>4. IsFiniteSet(T) /\ Cardinality(T) \in Nat
    BY <1>2, PodsCounted
  <2>5. Cardinality(T \ {m}) = Cardinality(T) - 1
    BY <2>4, FS_RemoveElement
  <2>6. Cardinality(Before(m)) < k /\ Cardinality(Before(m)) \in Nat
    BY <1>1
  <2> HIDE DEF Before
  <2>7. QED
    BY <2>3, <2>4, <2>5, <2>6
<1>5. QED
  BY <1>3, <1>4

\* As many pods are taken as asked for when there are that many.
LEMMA TakesEnough ==
  ASSUME NEW k \in Nat, NEW S \in SUBSET Ordinal, k <= Cardinality(S)
  PROVE  Cardinality(SM!LastSorted(k, S)) = k
<1> DEFINE T == SM!LastSorted(k, S)
           Before(p) == {q \in S : - q > - p}
<1>1. T \subseteq S /\ Cardinality(T) <= k
  BY TakesAtMost
<1>2. Cardinality(T) \in Nat /\ Cardinality(S) \in Nat
  BY <1>1, PodsCounted
<1>3. \A p \in S : Cardinality(Before(p)) < k => p \in T
  <2>1. SUFFICES ASSUME NEW p \in S, Cardinality(Before(p)) < k
                 PROVE  p \in T
    OBVIOUS
  <2>2. Before(p) = {q \in S : [i \in Ordinal |-> - i][q] > [i \in Ordinal |-> - i][p]}
    OBVIOUS
  <2>3. QED
    BY <2>1, <2>2, SameCount DEF SM!LastSorted
<1> HIDE DEF T
<1>4. ASSUME Cardinality(T) < k PROVE FALSE
  <2>1. S \ T # {}
    <3>1. S \ T = {} => T = S
      BY <1>1
    <3>2. QED
      BY <1>2, <1>4, <3>1
  <2>2. PICK m \in S \ T : \A i \in S \ T : m <= i
    BY <2>1, LowestPod
  <2>3. Before(m) \subseteq T
    <3>1. ASSUME NEW i \in Before(m) PROVE i \in T
      <4>1. i \in Int /\ m \in Int /\ i \in S /\ - i > - m
        BY OrdinalsAreNumbers
      <4>2. ~ (m <= i)
        BY <4>1
      <4>3. QED
        BY <2>2, <4>1, <4>2
    <3>2. QED
      BY <3>1
  <2>4. Cardinality(Before(m)) <= Cardinality(T) /\ Cardinality(Before(m)) \in Nat
    BY <1>1, <2>3, PodsCounted
  <2>5. Cardinality(Before(m)) < k
    <3> HIDE DEF Before
    <3>1. QED
      BY <1>2, <1>4, <2>4
  <2>6. QED
    BY <1>3, <2>2, <2>5
<1>5. QED
  BY <1>1, <1>2, <1>4 DEF T

(***************************************************************************)
(* The choice between two states: nothing is in Standby and nothing is     *)
(* wanted there, and the pods are as many as are wanted.                   *)
(***************************************************************************)
TwoStates(info, on, toOn, off, toOff) ==
  /\ info \in SM!StatesInfo
  /\ info["Online"].current = on /\ info["Online"].candidate = toOn
  /\ info["Cutoff"].current = off /\ info["Cutoff"].candidate = toOff
  /\ info["Standby"].current = {} /\ info["Standby"].candidate = {}

\* Moving no pod leaves every state as it is.
LEMMA NothingMoves ==
  ASSUME NEW on, NEW toOn, NEW off, NEW toOff, NEW info, TwoStates(info, on, toOn, off, toOff),
         NEW after, NEW s \in SM!States, NEW t \in SM!States,
         PulledTo(after, info, s, t, {}) \/ PushedTo(after, info, s, t, {})
  PROVE  TwoStates(after, on, toOn, off, toOff)
BY TheStates DEF TwoStates, PulledTo, PushedTo

\* Standby has nothing to give, neither to be pulled nor pushed on.
LEMMA NothingInStandby ==
  ASSUME NEW on, NEW toOn, NEW off, NEW toOff, NEW info, TwoStates(info, on, toOn, off, toOff),
         NEW desired
  PROVE  /\ TwoStates(SM!Pull(desired, "Online", "Standby")[info], on, toOn, off, toOff)
         /\ TwoStates(SM!Pull(desired, "Cutoff", "Standby")[info], on, toOn, off, toOff)
         /\ TwoStates(SM!Push(desired, "Standby", "Deleted")[info], on, toOn, off, toOff)
<1>1. info \in SM!StatesInfo /\ info["Standby"].current = {} /\ SM!Placed(info, "Standby") = {}
  BY DEF TwoStates, SM!Placed
<1>2. \A k : SM!LastSorted(k, {}) = {} /\ SM!FirstSorted(k, {}) = {}
  BY DEF SM!LastSorted, SM!FirstSorted
<1>3. ASSUME NEW s \in {"Online", "Cutoff"}
      PROVE  TwoStates(SM!Pull(desired, s, "Standby")[info], on, toOn, off, toOff)
  <2>1. PulledTo(SM!Pull(desired, s, "Standby")[info], info, s, "Standby", {})
    BY <1>1, <1>2, PullMoves, TheStates
  <2>2. QED
    BY <2>1, NothingMoves, TheStates
<1>4. PushedTo(SM!Push(desired, "Standby", "Deleted")[info], info, "Standby", "Deleted", {})
  BY <1>1, <1>2, PushMoves, TheStates
<1>5. TwoStates(SM!Push(desired, "Standby", "Deleted")[info], on, toOn, off, toOff)
  BY <1>4, NothingMoves, TheStates
<1>6. QED
  BY <1>3, <1>5

\* The choice only moves pods between the two states, each to the other one.
LEMMA ChoiceBetweenTwo ==
  ASSUME NEW running \in [RunningStates -> SUBSET Ordinal], running["Standby"] = {},
         NEW desired, desired["Online"] \in Nat, desired["Cutoff"] \in Nat,
         Cardinality(running["Online"]) + Cardinality(running["Cutoff"]) =
           desired["Online"] + desired["Cutoff"]
  PROVE  /\ SM!CalculateStateChange(running, desired)["Online"] \subseteq running["Cutoff"]
         /\ SM!CalculateStateChange(running, desired)["Cutoff"] \subseteq running["Online"]
         /\ SM!CalculateStateChange(running, desired)["Standby"] = {}
<1> DEFINE on == running["Online"]
           off == running["Cutoff"]
           info == SM!NewStateInfo(running)
           k == SM!Diff(info, desired, "Online")
           pulled == SM!LastSorted(- k, off)
           one == SM!Pull(desired, "Online", "Cutoff")[info]
           two == SM!Pull(desired, "Online", "Standby")[one]
           l == SM!Diff(two, desired, "Online")
           pushed == SM!FirstSorted(l, SM!Placed(two, "Online"))
           three == SM!Push(desired, "Online", "Cutoff")[two]
           four == SM!Pull(desired, "Cutoff", "Standby")[three]
           five == SM!Push(desired, "Cutoff", "Standby")[four]
           six == SM!Push(desired, "Standby", "Deleted")[five]
<1>1. /\ on \in SUBSET Ordinal /\ off \in SUBSET Ordinal
      /\ Cardinality(on) \in Nat /\ Cardinality(off) \in Nat
  <2>1. on \in SUBSET Ordinal /\ off \in SUBSET Ordinal
    BY DEF RunningStates, SM!RunningStates
  <2>2. QED
    BY <2>1, PodsCounted
<1>2. TwoStates(info, on, {}, off, {})
  BY FirstInfo DEF TwoStates, RunningStates, SM!RunningStates
<1>3. SM!FinalInfo(running, desired) = six
  BY DEF SM!FinalInfo, SM!SettleOnline, SM!SettleCutoff, SM!SettleStandby
<1>4. \A s \in SM!States : SM!CalculateStateChange(running, desired)[s] = six[s].candidate
  BY <1>3 DEF SM!CalculateStateChange
<1> HIDE DEF six, five, four, three, pushed, l, two, one, pulled, k, info
<1> SUFFICES /\ six["Online"].candidate \subseteq off
             /\ six["Cutoff"].candidate \subseteq on
             /\ six["Standby"].candidate = {}
  BY <1>4, TheStates
<1>5. k = Cardinality(on) - desired["Online"] /\ k \in Int
  <2>1. k = Cardinality(on) + 0 - desired["Online"]
    BY <1>2, SameCount, FS_EmptySet DEF k, SM!Diff, TwoStates
  <2> HIDE DEF on
  <2>2. QED
    BY <1>1, <2>1
<1>6. /\ pulled \subseteq off /\ pulled \in SUBSET Ordinal
      /\ TwoStates(one, on, pulled, off \ pulled, {})
  <2>1. pulled \subseteq off
    BY DEF pulled, SM!LastSorted
  <2>2. PulledTo(one, info, "Online", "Cutoff", pulled)
    BY <1>2, PullMoves, TheStates DEF one, k, pulled, TwoStates
  <2>3. QED
    BY <1>1, <1>2, <2>1, <2>2, TheStates DEF PulledTo, TwoStates
<1>7. TwoStates(two, on, pulled, off \ pulled, {})
  BY <1>6, NothingInStandby DEF two
<1>8. l = Cardinality(on) + Cardinality(pulled) - desired["Online"]
  BY <1>7, SameCount DEF l, SM!Diff, TwoStates
<1>9. /\ pushed \subseteq on \union pulled
      /\ TwoStates(three, on \ pushed, pulled \ pushed, off \ pulled, pushed)
  <2>1. SM!Placed(two, "Online") = on \union pulled
    BY <1>7 DEF TwoStates, SM!Placed
  <2>2. pushed \subseteq on \union pulled
    BY <2>1 DEF pushed, SM!FirstSorted
  <2>3. PushedTo(three, two, "Online", "Cutoff", pushed)
    BY <1>7, PushMoves, TheStates DEF three, l, pushed, TwoStates
  <2>4. QED
    BY <1>7, <2>2, <2>3, TheStates DEF PushedTo, TwoStates
<1>10. /\ pushed \subseteq on
       /\ Cardinality(off \ pulled) + Cardinality(pushed) <= desired["Cutoff"]
       /\ Cardinality(off \ pulled) \in Nat /\ Cardinality(pushed) \in Nat
  <2>1. CASE k >= 0
    <3>1. pulled = {}
      <4>1. - k \in Int /\ - k <= 0
        BY <1>5, <2>1
      <4>2. QED
        BY <1>1, <4>1, TakesAtMost DEF pulled
    <3>2. l = k /\ k \in Nat
      <4>1. l = Cardinality(on) + 0 - desired["Online"]
        BY <1>8, <3>1, FS_EmptySet
      <4> HIDE DEF on
      <4>2. QED
        BY <1>1, <1>5, <2>1, <4>1
    <3>3. pushed = SM!FirstSorted(k, on)
      BY <1>7, <3>1, <3>2 DEF pushed, TwoStates, SM!Placed
    <3>4. pushed \in SUBSET on /\ Cardinality(pushed) <= k /\ Cardinality(pushed) \in Nat
      <4>1. pushed \subseteq on /\ Cardinality(pushed) <= k
        BY <1>1, <1>9, <3>1, <3>2, <3>3, HandsOnAtMost
      <4>2. QED
        BY <1>1, <4>1, PodsCounted
    <3>5. Cardinality(off \ pulled) = Cardinality(off)
      <4>1. off \ pulled = off
        BY <3>1
      <4>2. QED
        BY <4>1
    <3> HIDE DEF on, off
    <3>6. QED
      BY <1>1, <1>5, <3>4, <3>5 DEF on, off
  <2>2. CASE k < 0
    <3>1. - k \in Nat /\ - k <= Cardinality(off)
      BY <1>1, <1>5, <2>2
    <3>2. Cardinality(pulled) = - k
      BY <1>1, <3>1, TakesEnough DEF pulled
    <3>3. l = 0
      BY <1>1, <1>5, <1>8, <3>2
    <3>4. pushed = {} /\ Cardinality(pushed) = 0
      <4>1. on \union pulled \in SUBSET Ordinal /\ SM!Placed(two, "Online") = on \union pulled
        BY <1>1, <1>6, <1>7 DEF TwoStates, SM!Placed
      <4>2. pushed = {}
        BY <3>3, <4>1, TakesNone DEF pushed
      <4>3. QED
        BY <4>2, FS_EmptySet
    <3>5. Cardinality(off \ pulled) = Cardinality(off) + k
      <4>1. IsFiniteSet(off) /\ IsFiniteSet(pulled)
        BY <1>1, <1>6, PodsCounted
      <4>2. off \intersect pulled = pulled
        BY <1>6
      <4> HIDE DEF off
      <4>3. Cardinality(off \ pulled) = Cardinality(off) - Cardinality(pulled)
        <5>1. Cardinality(off \ pulled) = Cardinality(off) - Cardinality(off \intersect pulled)
          BY <4>1, FS_Difference
        <5>2. QED
          BY <4>2, <5>1
      <4>4. QED
        BY <1>1, <1>5, <3>2, <4>3
    <3> HIDE DEF on, off
    <3>6. Cardinality(off) + k = desired["Cutoff"]
      BY <1>1, <1>5 DEF on, off
    <3>7. QED
      BY <3>4, <3>5, <3>6
  <2>3. QED
    BY <1>5, <2>1, <2>2
<1>11. TwoStates(four, on \ pushed, pulled \ pushed, off \ pulled, pushed)
  BY <1>9, NothingInStandby DEF four
<1>12. TwoStates(five, on \ pushed, pulled \ pushed, off \ pulled, pushed)
  <2> DEFINE m == SM!Diff(four, desired, "Cutoff")
  <2>1. m = Cardinality(off \ pulled) + Cardinality(pushed) - desired["Cutoff"]
    BY <1>11, SameCount DEF SM!Diff, TwoStates
  <2>2. SM!Placed(four, "Cutoff") \in SUBSET Ordinal
    BY <1>1, <1>6, <1>9, <1>11 DEF TwoStates, SM!Placed
  <2>3. m \in Int /\ m <= 0
    <3> HIDE DEF m
    <3>1. QED
      BY <1>10, <2>1
  <2>4. PushedTo(five, four, "Cutoff", "Standby", SM!FirstSorted(m, SM!Placed(four, "Cutoff")))
    BY <1>11, PushMoves, TheStates DEF five, TwoStates
  <2> HIDE DEF m
  <2>5. PushedTo(five, four, "Cutoff", "Standby", {})
    BY <2>2, <2>3, <2>4, TakesNone
  <2>6. QED
    BY <1>11, <2>5, NothingMoves, TheStates
<1>13. TwoStates(six, on \ pushed, pulled \ pushed, off \ pulled, pushed)
  BY <1>12, NothingInStandby DEF six
<1>14. QED
  BY <1>6, <1>10, <1>13 DEF TwoStates

-----------------------------------------------------------------------------
(***************************************************************************)
(* Gray changes only: every spec splits the pods the workload has between  *)
(* online and cutoff, nothing is kept in standby, and the number of pods   *)
(* is nobody's to change.                                                  *)
(***************************************************************************)
OnlyGray ==
  /\ \A s \in Specs : /\ s.direction = "Both" /\ s.standby = 0
                      /\ s.online + s.cutoff = InitReplicas
  /\ Troubles["eviction"] = 0
  /\ Troubles["userScale"] = 0

Members == {i \in Ordinal : i < InitReplicas}
Sides == {"Online", "Cutoff"}

Belongs(i, pod) ==
  IF i \in Members THEN pod.phase = "Running" /\ pod.state \in Sides ELSE pod = AbsentPod

\* The traffic is what the label tells; otherwise the pod is halfway to the other side.
Settled(pod) == pod.traffic = (pod.state = "Online")

(***************************************************************************)
(* How a pod may differ from an earlier look at it: if it was halfway it   *)
(* still has that traffic, and a new label is settled.                     *)
(***************************************************************************)
Follows(old, new) ==
  /\ ~ Settled(old) => new.traffic = old.traffic
  /\ new.state # old.state => Settled(new)

\* A pod on its way to side s, for all that the caches still show.
Heading(i, s) ==
  /\ cachedPods[i].state = s => Settled(cachedPods[i]) /\ pods[i].state = s
  /\ pods[i].state = s => Settled(pods[i])

\* If the copy says that the traffic is as side s needs it, it is.
CopyIsRight(i, s) ==
  listed[i].traffic = (s = "Online") => pods[i].traffic = (s = "Online")

SwitchPhase(s) == IF s = "Online" THEN "on" ELSE "off"
LabelPhase(s) == IF s = "Online" THEN "labelOnline" ELSE "labelCutoff"

GrayServer ==
  /\ replicas = InitReplicas
  /\ \A i \in Ordinal : Belongs(i, pods[i])
  /\ profile.exists => profile.spec \in Specs

GrayCache ==
  /\ unseenDeletions = {}
  /\ \A i \in Ordinal : Belongs(i, cachedPods[i])
  /\ cachedProfile.exists => cachedProfile.spec \in Specs

GrayWorker ==
  /\ pc # "idle" => rp.spec \in Specs
  /\ pc # "finish"
  /\ Deciding => scale = InitReplicas
  /\ HasListed => \A i \in Ordinal : Belongs(i, listed[i])
  /\ pc # "apply" => plan = NoPlan

GrayHistory == \A i \in Members : Follows(cachedPods[i], pods[i])

GrayListed ==
  Weighing => \A i \in Members, s \in Sides :
                listed[i].state # s => Heading(i, s) /\ CopyIsRight(i, s)

OnTheWay(i, s) ==
  /\ i \in Members
  /\ Heading(i, s)
  /\ i \in plan[SwitchPhase(s)] => CopyIsRight(i, s)
  /\ i \notin plan[SwitchPhase(s)] => pods[i].traffic = (s = "Online")

GrayPlan ==
  /\ plan["labelStandby"] = {}
  /\ plan["labelOnline"] \intersect plan["labelCutoff"] = {}
  /\ \A s \in Sides : /\ plan[SwitchPhase(s)] \subseteq plan[LabelPhase(s)]
                      /\ \A i \in plan[LabelPhase(s)] : OnTheWay(i, s)

GrayInv ==
  GrayServer /\ GrayCache /\ GrayWorker /\ GrayHistory /\ GrayListed /\ GrayPlan

\* The pods of the workload are as many as it has replicas.
LEMMA MembersCounted == IsFiniteSet(Members) /\ Cardinality(Members) = InitReplicas
<1>1. MaxPods \in Nat /\ InitReplicas \in Nat /\ InitReplicas <= MaxPods
  BY ConstantsAssumption DEF ConstantsAssumption
<1>2. Members = 0 .. InitReplicas - 1
  BY <1>1 DEF Members, Ordinal
<1>3. 0 \in Int /\ InitReplicas - 1 \in Int
  BY <1>1
<1>4. /\ IsFiniteSet(0 .. InitReplicas - 1)
      /\ Cardinality(0 .. InitReplicas - 1) =
           IF 0 > InitReplicas - 1 THEN 0 ELSE (InitReplicas - 1) - 0 + 1
  BY <1>3, FS_Interval
<1>5. QED
  BY <1>1, <1>2, <1>4

\* A pod follows itself.
LEMMA FollowsItself == \A pod : Follows(pod, pod)
BY DEF Follows

\* What a reconcile wants during gray changes: the pods there are.
LEMMA GrayDesired ==
  ASSUME OnlyGray, TypeOK, rp.spec \in Specs
  PROVE  /\ DesiredOnline = rp.spec.online /\ rp.spec.online \in Nat /\ rp.spec.cutoff \in Nat
         /\ rp.spec.online + rp.spec.cutoff = InitReplicas
         /\ DesiredReplicas = InitReplicas
<1>1. /\ rp.spec.direction = "Both" /\ rp.spec.standby = 0
      /\ rp.spec.online + rp.spec.cutoff = InitReplicas
  BY DEF OnlyGray
<1>2. rp.spec.online \in Nat /\ rp.spec.cutoff \in Nat /\ InitReplicas \in Nat
  BY ConstantsAssumption
  DEF ConstantsAssumption, TypeOK, LocalTypeOK, Profile, ReplicaProfileSpec
<1>3. DesiredOnline = rp.spec.online
  BY <1>1 DEF DesiredOnline
<1>4. DesiredReplicas = InitReplicas
  BY <1>1, <1>2, <1>3 DEF DesiredReplicas
<1>5. QED
  BY <1>1, <1>2, <1>3, <1>4

\* The pods are planned to change to the side they are not on.
LEMMA PlanKeepsGray ==
  ASSUME OnlyGray, TypeOK, GrayInv, PlanStateChange
  PROVE  GrayPlan'
<1> DEFINE running == FilterAndClassify(listed)
           desired == [Online |-> DesiredOnline, Cutoff |-> rp.spec.cutoff,
                       Standby |-> rp.spec.standby]
           change == SM!CalculateStateChange(running, desired)
<1>1. /\ plan'["on"] = change["Online"] /\ plan'["labelOnline"] = change["Online"]
      /\ plan'["off"] = change["Cutoff"] /\ plan'["labelCutoff"] = change["Cutoff"]
      /\ plan'["labelStandby"] = change["Standby"]
  BY DEF PlanStateChange, PlanFor, StateChange
<1>2. /\ pc = "prepare" /\ rp.spec \in Specs /\ Weighing /\ HasListed
      /\ UNCHANGED <<pods, cachedPods, listed>>
  BY DEF PlanStateChange, CanPlan, WantsStateChange, Prepare, GrayInv, GrayWorker, Weighing,
         HasListed, serverVars, cacheVars, podCache
<1>3. \A i \in Ordinal : Belongs(i, listed[i])
  BY <1>2 DEF GrayInv, GrayWorker
<1>4. /\ running \in [RunningStates -> SUBSET Ordinal]
      /\ running["Standby"] = {}
      /\ running["Online"] = {i \in Members : listed[i].state = "Online"}
      /\ running["Cutoff"] = {i \in Members : listed[i].state = "Cutoff"}
  <2>1. running \in [RunningStates -> SUBSET Ordinal]
    BY DEF FilterAndClassify, RunningIn
  <2>2. \A s \in RunningStates : running[s] = RunningIn(listed, s)
    BY DEF FilterAndClassify
  <2>3. {"Online", "Cutoff", "Standby"} = RunningStates
    BY DEF RunningStates, SM!RunningStates
  <2>4. \A i \in Ordinal : IsPodRunning(listed[i]) <=> i \in Members
    BY <1>3 DEF Belongs, IsPodRunning, AbsentPod
  <2>5. \A i \in Members : i \in Ordinal /\ listed[i].state \in Sides
    BY <1>3 DEF Belongs, Members
  <2> HIDE DEF running
  <2>6. QED
    BY <2>1, <2>2, <2>3, <2>4, <2>5 DEF RunningIn, Sides
<1>5. Cardinality(running["Online"]) + Cardinality(running["Cutoff"]) = InitReplicas
  <2> DEFINE a == {i \in Members : listed[i].state = "Online"}
             b == {i \in Members : listed[i].state = "Cutoff"}
  <2>1. a \union b = Members /\ a \intersect b = {}
    BY <1>3 DEF Belongs, Members, Sides
  <2>2. a \subseteq Members /\ b \subseteq Members
    OBVIOUS
  <2> HIDE DEF a, b, running
  <2>3. /\ IsFiniteSet(a) /\ IsFiniteSet(b)
        /\ Cardinality(a) \in Nat /\ Cardinality(b) \in Nat
    BY <2>2, MembersCounted, FS_Subset, FS_CardinalityType
  <2>4. Cardinality(Members) = Cardinality(a) + Cardinality(b) - Cardinality(a \intersect b)
    BY <2>1, <2>3, FS_Union
  <2>5. Cardinality(a \intersect b) = 0
    BY <2>1, FS_EmptySet
  <2>6. Cardinality(a) + Cardinality(b) = InitReplicas
    BY <2>3, <2>4, <2>5, MembersCounted
  <2>7. QED
    BY <1>4, <2>6 DEF a, b
<1>6. /\ desired["Online"] = rp.spec.online /\ desired["Cutoff"] = rp.spec.cutoff
      /\ rp.spec.online \in Nat /\ rp.spec.cutoff \in Nat
      /\ rp.spec.online + rp.spec.cutoff = InitReplicas
  BY <1>2, GrayDesired
<1> HIDE DEF running, desired
<1>7. /\ change["Online"] \subseteq running["Cutoff"]
      /\ change["Cutoff"] \subseteq running["Online"]
      /\ change["Standby"] = {}
  <2>1. /\ desired["Online"] \in Nat /\ desired["Cutoff"] \in Nat
        /\ desired["Online"] + desired["Cutoff"] = InitReplicas
    BY <1>6
  <2>2. /\ running \in [RunningStates -> SUBSET Ordinal] /\ running["Standby"] = {}
        /\ Cardinality(running["Online"]) + Cardinality(running["Cutoff"]) =
             desired["Online"] + desired["Cutoff"]
    BY <1>4, <1>5, <2>1
  <2>3. QED
    BY <2>1, <2>2, ChoiceBetweenTwo
<1> HIDE DEF change
<1>8. \A s \in Sides : /\ plan'[SwitchPhase(s)] = change[s]
                       /\ plan'[LabelPhase(s)] = change[s]
                       /\ \A i \in change[s] : i \in Members /\ listed[i].state # s
  BY <1>1, <1>4, <1>7 DEF Sides, SwitchPhase, LabelPhase
<1>9. ASSUME NEW s \in Sides, NEW i \in change[s]
      PROVE  OnTheWay(i, s)'
  <2>1. i \in Members /\ Heading(i, s) /\ CopyIsRight(i, s)
    BY <1>2, <1>8 DEF GrayInv, GrayListed
  <2>2. Heading(i, s)' /\ CopyIsRight(i, s)'
    BY <1>2, <2>1 DEF Heading, CopyIsRight
  <2>3. QED
    BY <1>8, <2>1, <2>2 DEF OnTheWay
<1>10. plan'["labelOnline"] \intersect plan'["labelCutoff"] = {}
  BY <1>1, <1>4, <1>7
<1>11. QED
  BY <1>1, <1>7, <1>8, <1>9, <1>10 DEF GrayPlan

-----------------------------------------------------------------------------
(***************************************************************************)
(* One pod at a time.                                                      *)
(***************************************************************************)

\* The two sides have phases and plans of their own.
LEMMA PhasesOfSides ==
  /\ \A s \in Sides : SwitchPhase(s) \in Phases /\ LabelPhase(s) \in Phases
  /\ \A s, t \in Sides : SwitchPhase(s) # LabelPhase(t)
  /\ \A s, t \in Sides : s # t => SwitchPhase(s) # SwitchPhase(t) /\ LabelPhase(s) # LabelPhase(t)
BY DEF Sides, SwitchPhase, LabelPhase, Phases

\* A pod is on its way to one side only.
LEMMA OneSide ==
  ASSUME GrayPlan, NEW s \in Sides, NEW t \in Sides, s # t, NEW i \in plan[LabelPhase(s)]
  PROVE  i \notin plan[LabelPhase(t)] /\ i \notin plan[SwitchPhase(t)]
BY DEF GrayPlan, Sides, LabelPhase, SwitchPhase

\* Switching the traffic brings a pod halfway, or settles one that has the label.
LEMMA SwitchKeepsGray ==
  ASSUME TypeOK, GrayInv, NEW i \in Ordinal, NEW s \in Sides,
         SetTraffic(SwitchPhase(s), i, s = "Online")
  PROVE  /\ GrayInv'
         /\ \A j \in Ordinal : pods'[j].state = pods[j].state
<1>1. /\ pc = "apply" /\ i \in plan[SwitchPhase(s)] /\ HasListed /\ ~ Weighing
      /\ UNCHANGED <<profile, replicas, cachedProfile, cachedPods, unseenDeletions, pc, rp, scale>>
      /\ plan' = [plan EXCEPT ![SwitchPhase(s)] = @ \ {i}]
  BY DEF SetTraffic, Planned, HasListed, Weighing, Finished, cacheVars, podCache
<1>2. /\ pods \in [Ordinal -> PodObject] /\ listed \in [Ordinal -> PodObject]
      /\ cachedPods \in [Ordinal -> PodObject] /\ plan \in [Phases -> SUBSET Ordinal]
  BY DEF TypeOK, ServerTypeOK, CacheTypeOK, LocalTypeOK
<1>3. OnTheWay(i, s) /\ i \in Members /\ i \in plan[LabelPhase(s)]
  <2>1. OnTheWay(i, s) /\ i \in plan[LabelPhase(s)]
    BY <1>1 DEF GrayInv, GrayPlan
  <2>2. QED
    BY <2>1 DEF OnTheWay
<1>4. /\ pods' \in [Ordinal -> PodObject]
      /\ \A j \in Ordinal : j # i => pods'[j] = pods[j] /\ listed'[j] = listed[j]
      /\ pods'[i].phase = pods[i].phase /\ pods'[i].state = pods[i].state
      /\ pods'[i].traffic = (s = "Online")
      /\ listed'[i] = listed[i] \/ listed'[i] = pods'[i]
  <2>1. CASE listed[i].traffic = (s = "Online") /\ UNCHANGED <<pods, listed>>
    <3>1. pods[i].traffic = (s = "Online")
      BY <1>1, <1>3, <2>1 DEF OnTheWay, CopyIsRight
    <3>2. QED
      BY <1>2, <2>1, <3>1
  <2>2. CASE /\ pods' = [pods EXCEPT ![i].traffic = (s = "Online")]
             /\ listed' = [listed EXCEPT ![i] = [pods[i] EXCEPT !.traffic = (s = "Online")]]
    <3>1. PICK pod \in PodObject : pod = [pods[i] EXCEPT !.traffic = (s = "Online")]
      <4>1. pods[i] \in PodObject
        BY <1>2
      <4>2. (s = "Online") \in BOOLEAN
        OBVIOUS
      <4>3. [pods[i] EXCEPT !.traffic = (s = "Online")] \in PodObject
        BY <4>1, <4>2 DEF PodObject
      <4>4. QED
        BY <4>3
    <3>2. pod.phase = pods[i].phase /\ pod.state = pods[i].state
      BY <1>2, <3>1 DEF PodObject
    <3>3. pod.traffic = (s = "Online")
      BY <1>2, <3>1 DEF PodObject
    <3>4. pods' = [pods EXCEPT ![i] = pod] /\ listed' = [listed EXCEPT ![i] = pod]
      BY <2>2, <3>1
    <3>5. QED
      BY <1>2, <3>2, <3>3, <3>4
  <2>3. QED
    BY <2>1, <2>2 DEF SetTraffic
<1>5. GrayServer'
  <2>1. \A j \in Ordinal : Belongs(j, pods'[j])
    BY <1>3, <1>4 DEF GrayInv, GrayServer, Belongs
  <2>2. QED
    BY <1>1, <2>1 DEF GrayInv, GrayServer
<1>6. GrayCache'
  BY <1>1 DEF GrayInv, GrayCache
<1>7. GrayWorker'
  <2>1. \A j \in Ordinal : Belongs(j, listed'[j])
    BY <1>1, <1>3, <1>4, <1>5 DEF GrayInv, GrayWorker, GrayServer, Belongs
  <2>2. QED
    BY <1>1, <2>1 DEF GrayInv, GrayWorker, Deciding, HasListed
<1>8. pods[i].state \in Sides /\ cachedPods[i].state \in Sides
  BY <1>3 DEF GrayInv, GrayServer, GrayCache, Belongs, Members
<1>9. Heading(i, s)'
  BY <1>1, <1>3, <1>4 DEF OnTheWay, Heading, Settled
<1>10. Follows(cachedPods[i], pods'[i])
  <2>1. cachedPods[i].traffic \in BOOLEAN /\ pods[i].traffic \in BOOLEAN
    BY <1>2 DEF PodObject
  <2>2. ~ Settled(cachedPods[i]) => cachedPods[i].traffic = (s = "Online")
    BY <1>3, <1>8, <2>1 DEF OnTheWay, Heading, Settled, Sides
  <2>3. pods[i].state # cachedPods[i].state => pods[i].state = s
    BY <1>3, <1>8 DEF OnTheWay, Heading, Sides
  <2>4. QED
    BY <1>4, <2>2, <2>3 DEF Follows, Settled
<1>11. GrayHistory'
  <2>1. \A j \in Members : Follows(cachedPods[j], pods'[j])
    BY <1>4, <1>10 DEF GrayInv, GrayHistory, Members
  <2>2. QED
    BY <1>1, <2>1 DEF GrayHistory
<1>12. GrayListed'
  BY <1>1 DEF GrayListed, Weighing
<1>13. GrayPlan'
  <2>1. /\ \A f \in Phases : plan'[f] = IF f = SwitchPhase(s) THEN plan[f] \ {i} ELSE plan[f]
    BY <1>1, <1>2, PhasesOfSides
  <2>2. \A t \in Sides : /\ plan'[LabelPhase(t)] = plan[LabelPhase(t)]
                         /\ plan'[SwitchPhase(t)] \subseteq plan[SwitchPhase(t)]
                         /\ t # s => plan'[SwitchPhase(t)] = plan[SwitchPhase(t)]
                         /\ t = s => plan'[SwitchPhase(t)] = plan[SwitchPhase(t)] \ {i}
    BY <2>1, PhasesOfSides
  <2>3. /\ plan'["labelStandby"] = plan["labelStandby"]
        /\ plan'["labelOnline"] = plan["labelOnline"]
        /\ plan'["labelCutoff"] = plan["labelCutoff"]
    BY <2>1 DEF Phases, SwitchPhase
  <2>4. ASSUME NEW t \in Sides, NEW j \in plan'[LabelPhase(t)]
        PROVE  OnTheWay(j, t)'
    <3>1. OnTheWay(j, t) /\ j \in Ordinal
      BY <2>2 DEF GrayInv, GrayPlan, OnTheWay, Members
    <3>2. CASE j # i
      <4>1. Heading(j, t)' /\ pods'[j] = pods[j] /\ (CopyIsRight(j, t) => CopyIsRight(j, t)')
        BY <1>1, <1>4, <3>1, <3>2 DEF OnTheWay, Heading, CopyIsRight
      <4>2. j \in plan'[SwitchPhase(t)] <=> j \in plan[SwitchPhase(t)]
        BY <2>2, <3>2
      <4>3. QED
        BY <3>1, <4>1, <4>2 DEF OnTheWay
    <3>3. CASE j = i
      <4>1. t = s
        BY <1>3, <2>2, <3>3, OneSide DEF GrayInv
      <4>2. i \notin plan'[SwitchPhase(s)]
        BY <2>2
      <4>3. QED
        BY <1>3, <1>4, <1>9, <3>3, <4>1, <4>2 DEF OnTheWay
    <3>4. QED
      BY <3>2, <3>3
  <2>5. QED
    BY <2>2, <2>3, <2>4 DEF GrayInv, GrayPlan
<1>14. \A j \in Ordinal : pods'[j].state = pods[j].state
  BY <1>4
<1>15. QED
  BY <1>14, <1>5, <1>6, <1>7, <1>11, <1>12, <1>13 DEF GrayInv

\* The label follows the traffic.
LEMMA LabelFollowsTraffic ==
  ASSUME TypeOK, GrayInv, NEW i \in Ordinal, NEW s \in Sides, SetPodState(LabelPhase(s), i, s)
  PROVE  /\ GrayInv'
         /\ \A j \in Ordinal : pods'[j].state # pods[j].state => Settled(pods'[j])
<1>1. /\ pc = "apply" /\ i \in plan[LabelPhase(s)] /\ HasListed /\ ~ Weighing
      /\ plan[SwitchPhase(s)] = {}
      /\ UNCHANGED <<profile, replicas, cachedProfile, cachedPods, unseenDeletions, pc, rp, scale,
                     listed>>
      /\ plan' = [plan EXCEPT ![LabelPhase(s)] = @ \ {i}]
      /\ pods' = IF listed[i].state = s THEN pods ELSE [pods EXCEPT ![i].state = s]
  BY DEF SetPodState, Planned, HasListed, Weighing, Finished, cacheVars, podCache, Sides,
         LabelPhase, SwitchPhase
<1>2. /\ pods \in [Ordinal -> PodObject]
      /\ cachedPods \in [Ordinal -> PodObject] /\ plan \in [Phases -> SUBSET Ordinal]
  BY DEF TypeOK, ServerTypeOK, CacheTypeOK, LocalTypeOK
<1>3. OnTheWay(i, s) /\ i \in Members /\ pods[i].traffic = (s = "Online")
  BY <1>1 DEF GrayInv, GrayPlan, OnTheWay
<1>4. /\ \A j \in Ordinal : j # i => pods'[j] = pods[j]
      /\ pods'[i].phase = pods[i].phase /\ pods'[i].traffic = pods[i].traffic
      /\ pods'[i].state \in {pods[i].state, s}
  <2>1. CASE pods' = pods
    BY <2>1
  <2>2. CASE pods' = [pods EXCEPT ![i].state = s]
    <3>1. PICK pod : pod = [pods[i] EXCEPT !.state = s]
      OBVIOUS
    <3>2. pod.phase = pods[i].phase /\ pod.traffic = pods[i].traffic /\ pod.state = s
      BY <1>2, <3>1 DEF PodObject
    <3>3. pods' = [pods EXCEPT ![i] = pod]
      BY <2>2, <3>1
    <3>4. QED
      BY <1>2, <3>2, <3>3
  <2>3. QED
    BY <1>1, <2>1, <2>2
<1>5. pods'[i].state = s => Settled(pods'[i])
  BY <1>3, <1>4 DEF Settled
<1>6. \A j \in Ordinal : pods'[j].state # pods[j].state => Settled(pods'[j])
  BY <1>4, <1>5
<1>7. GrayServer'
  <2>1. \A j \in Ordinal : Belongs(j, pods'[j])
    BY <1>3, <1>4 DEF GrayInv, GrayServer, Belongs
  <2>2. QED
    BY <1>1, <2>1 DEF GrayInv, GrayServer
<1>8. GrayCache' /\ GrayWorker'
  BY <1>1 DEF GrayInv, GrayCache, GrayWorker, Deciding, HasListed
<1>9. Follows(cachedPods[i], pods'[i])
  <2>1. /\ cachedPods[i].traffic \in BOOLEAN
        /\ cachedPods[i].state \in Sides /\ pods[i].state \in Sides
    BY <1>2, <1>3 DEF PodObject, GrayInv, GrayServer, GrayCache, Belongs, Members
  <2>2. ~ Settled(cachedPods[i]) => cachedPods[i].traffic = (s = "Online")
    BY <1>3, <2>1 DEF OnTheWay, Heading, Settled, Sides
  <2>3. pods'[i].state # cachedPods[i].state => pods'[i].state = s
    BY <1>3, <1>4, <2>1 DEF OnTheWay, Heading, Sides
  <2>4. QED
    BY <1>3, <1>4, <1>5, <2>2, <2>3 DEF Follows
<1>10. GrayHistory'
  <2>1. \A j \in Members : Follows(cachedPods[j], pods'[j])
    BY <1>4, <1>9 DEF GrayInv, GrayHistory, Members
  <2>2. QED
    BY <1>1, <2>1 DEF GrayHistory
<1>11. GrayListed'
  BY <1>1 DEF GrayListed, Weighing
<1>12. GrayPlan'
  <2>1. \A f \in Phases : plan'[f] = IF f = LabelPhase(s) THEN plan[f] \ {i} ELSE plan[f]
    BY <1>1, <1>2, PhasesOfSides
  <2>2. \A t \in Sides : /\ plan'[SwitchPhase(t)] = plan[SwitchPhase(t)]
                         /\ plan'[LabelPhase(t)] \subseteq plan[LabelPhase(t)]
                         /\ t # s => plan'[LabelPhase(t)] = plan[LabelPhase(t)]
                         /\ t = s => plan'[LabelPhase(t)] = plan[LabelPhase(t)] \ {i}
    BY <2>1, PhasesOfSides
  <2>3. /\ plan'["labelStandby"] = plan["labelStandby"]
        /\ plan'["labelOnline"] \subseteq plan["labelOnline"]
        /\ plan'["labelCutoff"] \subseteq plan["labelCutoff"]
    BY <2>1 DEF Phases, LabelPhase
  <2>4. ASSUME NEW t \in Sides, NEW j \in plan'[LabelPhase(t)]
        PROVE  OnTheWay(j, t)'
    <3>1. OnTheWay(j, t) /\ j \in Ordinal
      BY <2>2 DEF GrayInv, GrayPlan, OnTheWay, Members
    <3>2. j # i
      <4>1. CASE t = s
        BY <2>2, <4>1
      <4>2. CASE t # s
        BY <1>1, <2>2, <4>2, OneSide DEF GrayInv
      <4>3. QED
        BY <4>1, <4>2
    <3>3. Heading(j, t)' /\ pods'[j] = pods[j] /\ (CopyIsRight(j, t) => CopyIsRight(j, t)')
      BY <1>1, <1>4, <3>1, <3>2 DEF OnTheWay, Heading, CopyIsRight
    <3>4. QED
      BY <2>2, <3>1, <3>3 DEF OnTheWay
  <2>5. \A t \in Sides : plan'[SwitchPhase(t)] \subseteq plan'[LabelPhase(t)]
    BY <1>1, <2>2 DEF GrayInv, GrayPlan
  <2>6. QED
    BY <2>3, <2>4, <2>5 DEF GrayInv, GrayPlan
<1>13. QED
  BY <1>6, <1>7, <1>8, <1>10, <1>11, <1>12 DEF GrayInv

-----------------------------------------------------------------------------
(***************************************************************************)
(* The other steps leave the pods as they are.                             *)
(***************************************************************************)

\* What the profile asks for stays one of the specs, or the profile is gone.
SameSpecs == profile'.exists => profile.exists /\ profile'.spec = profile.spec

\* The server's part of the invariant,
LEMMA SameServerKeepsGray ==
  ASSUME GrayServer, SamePods, SameAsked \/ SameSpecs
  PROVE  GrayServer'
BY DEF GrayServer, SamePods, SameAsked, SameSpecs

\* and the cache's.
LEMMA SameCacheKeepsGray ==
  ASSUME GrayCache, SameCache
  PROVE  GrayCache'
BY DEF GrayCache, SameCache

\* The history of the pods, and what is planned for them.
LEMMA SameHistoryKeepsGray ==
  ASSUME GrayHistory, GrayListed, GrayPlan,
         UNCHANGED <<pods, cachedPods, listed, plan>>, Weighing' => Weighing
  PROVE  GrayHistory' /\ GrayListed' /\ GrayPlan'
<1>1. GrayHistory'
  BY DEF GrayHistory
<1>2. GrayListed'
  BY DEF GrayListed, Heading, CopyIsRight
<1>3. GrayPlan'
  BY DEF GrayPlan, OnTheWay, Heading, CopyIsRight
<1>4. QED
  BY <1>1, <1>2, <1>3

\* A plan for nobody is for nobody.
LEMMA NoPlanIsGray == ASSUME plan = NoPlan PROVE GrayPlan
BY PhasesOfSides DEF GrayPlan, NoPlan, Phases

\* Neither after a step.
LEMMA NoPlanIsGrayNext == ASSUME plan' = NoPlan PROVE GrayPlan'
BY PhasesOfSides DEF GrayPlan, NoPlan, Phases

\* A reconcile that has ended.
LEMMA EndedKeepsGray ==
  ASSUME Done \/ Retry \/ IdleLocals
  PROVE  GrayWorker' /\ GrayListed' /\ GrayPlan'
<1>1. pc' = "idle" /\ plan' = NoPlan
  BY DEF Done, Retry, IdleLocals
<1>2. GrayWorker' /\ GrayListed'
  BY <1>1 DEF GrayWorker, Deciding, HasListed, GrayListed, Weighing
<1>3. QED
  BY <1>1, <1>2, NoPlanIsGrayNext

\* It ends without having touched the pods.
LEMMA EndingKeepsGray ==
  ASSUME GrayInv, SamePods, SameCache, SameAsked \/ SameSpecs, Done \/ Retry \/ IdleLocals
  PROVE  GrayInv'
<1>1. GrayHistory'
  BY DEF GrayInv, GrayHistory, SamePods, SameCache
<1>2. QED
  BY <1>1, SameServerKeepsGray, SameCacheKeepsGray, EndedKeepsGray DEF GrayInv

\* The head of a reconcile.
LEMMA HeadKeepsGray ==
  ASSUME TypeOK, GrayInv,
         \/ BeginNothingToDo \/ BeginDeletion \/ BeginFirst \/ BeginAgain
         \/ RemoveFinalizer \/ AddFinalizer \/ FinalizerPatchMisses
  PROVE  GrayInv'
<1>1. CASE BeginNothingToDo \/ BeginDeletion \/ BeginFirst \/ BeginAgain
  <2>1. SamePods /\ SameCache /\ SameAsked
    BY <1>1
    DEF BeginNothingToDo, BeginDeletion, BeginFirst, BeginAgain, Begin, serverVars, cacheVars,
        podCache, SamePods, SameCache, SameAsked
  <2>2. /\ pc = "idle" /\ plan' = plan /\ listed' = listed
        /\ \/ pc' = "idle"
           \/ /\ pc' \in {"removeFinalizer", "addFinalizer", "pause", "getScale"}
              /\ cachedProfile.exists /\ rp' = cachedProfile
    BY <1>1
    DEF BeginNothingToDo, BeginDeletion, BeginFirst, BeginAgain, Begin, localVars, Take,
        AfterFinalizer
  <2>3. GrayWorker'
    BY <2>2 DEF GrayInv, GrayCache, GrayWorker, Deciding, HasListed
  <2>4. ~ Weighing'
    BY <2>2 DEF Weighing
  <2>5. GrayHistory' /\ GrayListed' /\ GrayPlan'
    BY <2>1, <2>2, <2>4, SameHistoryKeepsGray DEF GrayInv, SamePods, SameCache
  <2>6. QED
    BY <2>1, <2>3, <2>5, SameServerKeepsGray, SameCacheKeepsGray DEF GrayInv
<1>2. CASE RemoveFinalizer
  <2>1. SameSpecs
    BY <1>2 DEF RemoveFinalizer, NoProfile, SameSpecs, TypeOK, ServerTypeOK, Profile
  <2>2. SamePods /\ SameCache /\ Done
    BY <1>2 DEF RemoveFinalizer, podCache, SamePods, SameCache
  <2>3. QED
    BY <2>1, <2>2, EndingKeepsGray
<1>3. CASE AddFinalizer
  <2>1. /\ SameAsked /\ profile.exists
        /\ rp' = profile' /\ pc' \in {"pause", "getScale"} /\ plan' = plan /\ listed' = listed
        /\ pc = "addFinalizer"
    BY <1>3 DEF AddFinalizer, AfterFinalizer, SameAsked, TypeOK, ServerTypeOK, Profile
  <2>2. SamePods /\ SameCache
    BY <1>3 DEF AddFinalizer, podCache, SamePods, SameCache
  <2>3. GrayWorker'
    BY <2>1 DEF GrayInv, GrayServer, GrayWorker, SameAsked, Deciding, HasListed
  <2>4. ~ Weighing'
    BY <2>1 DEF Weighing
  <2>5. GrayHistory' /\ GrayListed' /\ GrayPlan'
    BY <2>1, <2>2, <2>4, SameHistoryKeepsGray DEF GrayInv, SamePods, SameCache
  <2>6. QED
    BY <2>1, <2>2, <2>3, <2>5, SameServerKeepsGray, SameCacheKeepsGray DEF GrayInv
<1>4. CASE FinalizerPatchMisses
  <2>1. SamePods /\ SameCache /\ SameAsked /\ Retry
    BY <1>4
    DEF FinalizerPatchMisses, serverVars, cacheVars, podCache, SamePods, SameCache, SameAsked
  <2>2. QED
    BY <2>1, EndingKeepsGray
<1>5. QED
  BY <1>1, <1>2, <1>3, <1>4

\* Listing takes the copies of the pods from the cache.
LEMMA ListingKeepsGray ==
  ASSUME TypeOK, GrayInv, List
  PROVE  GrayInv'
<1>1. SamePods /\ SameCache /\ SameAsked
  BY DEF List, serverVars, cacheVars, podCache, SamePods, SameCache, SameAsked
<1>2. /\ pc = "list" /\ pc' = "reflect" /\ listed' = cachedPods /\ plan' = plan /\ scale' = scale
  BY DEF List
<1>3. rp'.spec = rp.spec
  BY DEF List, TypeOK, LocalTypeOK, Profile
<1>4. GrayWorker'
  BY <1>2, <1>3 DEF GrayInv, GrayCache, GrayWorker, Deciding, HasListed
<1>5. GrayHistory'
  BY <1>1 DEF GrayInv, GrayHistory, SamePods, SameCache
<1>6. ASSUME NEW i \in Members, NEW s \in Sides, cachedPods[i].state # s
      PROVE  /\ Heading(i, s)
             /\ cachedPods[i].traffic = (s = "Online") => pods[i].traffic = (s = "Online")
  <2>1. Follows(cachedPods[i], pods[i])
    BY DEF GrayInv, GrayHistory
  <2>2. cachedPods[i].traffic \in BOOLEAN /\ cachedPods[i].state \in Sides
    BY DEF Members, GrayInv, GrayCache, Belongs, TypeOK, CacheTypeOK, PodObject
  <2>3. Heading(i, s)
    BY <1>6, <2>1 DEF Heading, Follows
  <2>4. cachedPods[i].traffic = (s = "Online") => ~ Settled(cachedPods[i])
    BY <1>6, <2>2 DEF Settled, Sides
  <2>5. QED
    BY <2>1, <2>3, <2>4 DEF Follows
<1>7. GrayListed'
  <2>1. ASSUME NEW i \in Members, NEW s \in Sides, listed'[i].state # s
        PROVE  Heading(i, s)' /\ CopyIsRight(i, s)'
    <3>1. Heading(i, s)
      BY <1>2, <1>6, <2>1
    <3>2. Heading(i, s)'
      BY <1>1, <3>1 DEF Heading, SamePods, SameCache
    <3>3. CopyIsRight(i, s)'
      BY <1>1, <1>2, <1>6, <2>1 DEF CopyIsRight, SamePods, SameCache
    <3>4. QED
      BY <3>2, <3>3
  <2>2. QED
    BY <2>1 DEF GrayListed
<1>8. plan' = NoPlan
  BY <1>2 DEF GrayInv, GrayWorker
<1>9. QED
  BY <1>1, <1>4, <1>5, <1>7, <1>8, NoPlanIsGrayNext, SameServerKeepsGray, SameCacheKeepsGray
  DEF GrayInv

\* Observing and deciding.
LEMMA ObserveKeepsGray ==
  ASSUME OnlyGray, TypeOK, GrayInv,
         \/ Pause \/ GetScale \/ List \/ Reflect \/ ReflectConflict
         \/ SkipStateChange \/ SorterUnsupported \/ PrepareFails \/ PlanStateChange \/ PlanPanics
  PROVE  GrayInv'
<1>1. SamePods /\ SameCache
  BY DEF Pause, GetScale, List, Reflect, ReflectConflict, SkipStateChange, SorterUnsupported,
         PrepareFails, PlanStateChange, PlanPanics, serverVars, cacheVars, podCache, SamePods,
         SameCache
<1>2. SameAsked
  <2>1. CASE Pause \/ SorterUnsupported \/ PrepareFails
    BY <2>1, StatusesKeepAsked DEF Pause, SorterUnsupported, PrepareFails
  <2>2. CASE Reflect
    BY <2>2, StatusesKeepAsked DEF Reflect
  <2>3. CASE \/ GetScale \/ List \/ ReflectConflict \/ SkipStateChange \/ PlanStateChange
             \/ PlanPanics
    BY <2>3
    DEF GetScale, List, ReflectConflict, SkipStateChange, PlanStateChange, PlanPanics, serverVars,
        SameAsked
  <2>4. QED
    BY <2>1, <2>2, <2>3
<1>3. CASE Pause \/ ReflectConflict \/ SorterUnsupported \/ PrepareFails \/ PlanPanics
  <2>1. Done \/ Retry
    BY <1>3 DEF Pause, StoreStatusAndReturn, ReflectConflict, SorterUnsupported, PrepareFails,
                PlanPanics
  <2>2. QED
    BY <1>1, <1>2, <2>1, EndingKeepsGray
<1>4. CASE GetScale
  <2>1. /\ pc = "getScale" /\ pc' = "list" /\ scale' = replicas
        /\ UNCHANGED <<pods, cachedPods, listed, plan, rp>> /\ ~ Weighing'
    BY <1>4 DEF GetScale, serverVars, cacheVars, podCache, Weighing
  <2>2. GrayWorker'
    BY <2>1 DEF GrayInv, GrayServer, GrayWorker, Deciding, HasListed
  <2>3. QED
    BY <1>1, <1>2, <2>1, <2>2, SameHistoryKeepsGray, SameServerKeepsGray, SameCacheKeepsGray
    DEF GrayInv
<1>5. CASE List
  BY <1>5, ListingKeepsGray
<1>6. CASE Reflect
  <2>1. CASE IsEnsured(rp.spec, rp.status)
    BY <1>1, <1>2, <1>6, <2>1, EndingKeepsGray DEF Reflect
  <2>2. CASE ~ IsEnsured(rp.spec, rp.status)
    <3>1. /\ pc = "reflect" /\ pc' = "prepare"
          /\ UNCHANGED <<listed, plan, rp, scale>>
      BY <1>6, <2>2 DEF Reflect
    <3>2. GrayWorker' /\ (Weighing' => Weighing)
      BY <3>1 DEF GrayInv, GrayWorker, Deciding, HasListed, Weighing
    <3>3. UNCHANGED <<pods, cachedPods, listed, plan>>
      BY <1>1, <3>1 DEF SamePods, SameCache
    <3>4. QED
      BY <1>1, <1>2, <3>2, <3>3, SameHistoryKeepsGray, SameServerKeepsGray, SameCacheKeepsGray
      DEF GrayInv
  <2>3. QED
    BY <2>1, <2>2
<1>7. CASE SkipStateChange
  <2>1. pc = "prepare" /\ pc' = "apply" /\ UNCHANGED <<pods, cachedPods, listed, plan, rp, scale>>
    BY <1>7 DEF SkipStateChange, Prepare, serverVars, cacheVars, podCache
  <2>2. GrayWorker' /\ (Weighing' => Weighing)
    BY <2>1 DEF GrayInv, GrayWorker, Deciding, HasListed, Weighing
  <2>3. QED
    BY <1>1, <1>2, <2>1, <2>2, SameHistoryKeepsGray, SameServerKeepsGray, SameCacheKeepsGray
    DEF GrayInv
<1>8. CASE PlanStateChange
  <2>1. pc = "prepare" /\ pc' = "apply" /\ UNCHANGED <<listed, rp, scale>>
    BY <1>8 DEF PlanStateChange, CanPlan, WantsStateChange, Prepare
  <2>2. GrayWorker'
    BY <2>1 DEF GrayInv, GrayWorker, Deciding, HasListed
  <2>3. GrayListed'
    BY <2>1 DEF GrayListed, Weighing
  <2>4. GrayHistory'
    BY <1>1 DEF GrayInv, GrayHistory, SamePods, SameCache
  <2>5. GrayPlan'
    BY <1>8, PlanKeepsGray
  <2>6. QED
    BY <1>1, <1>2, <2>2, <2>3, <2>4, <2>5, SameServerKeepsGray, SameCacheKeepsGray DEF GrayInv
<1>9. QED
  BY <1>3, <1>4, <1>5, <1>6, <1>7, <1>8

\* The worker's part of the invariant, while it waits for its own next step.
LEMMA SameLocalsKeepGray ==
  ASSUME GrayWorker, UNCHANGED <<pc, rp, scale, listed, plan>>
  PROVE  GrayWorker' /\ (Weighing' => Weighing)
BY DEF GrayWorker, Deciding, HasListed, Weighing

\* A label is only changed to what the traffic already is.
LabelsSettled == \A j \in Ordinal : pods'[j].state # pods[j].state => Settled(pods'[j])

\* No label is changed when no pod is.
LEMMA SamePodsSettled == ASSUME pods' = pods PROVE LabelsSettled
BY DEF LabelsSettled

\* The traffic, the labels and what comes after them; the scale is as it should be.
LEMMA ApplyKeepsGray ==
  ASSUME OnlyGray, TypeOK, GrayInv,
         \/ \E i \in Ordinal : \/ TrafficOn(i) \/ LabelOnline(i)
                                \/ TrafficOff(i) \/ LabelCutoff(i) \/ LabelStandby(i)
         \/ \E f \in Phases, i \in Ordinal : PodPatchMisses(f, i)
         \/ UpdateScale \/ ScaleConflict \/ Finish
  PROVE  GrayInv' /\ LabelsSettled
<1>1. ASSUME NEW i \in Ordinal, TrafficOn(i) \/ TrafficOff(i)
      PROVE  GrayInv' /\ LabelsSettled
  <2>1. PICK s \in Sides : SetTraffic(SwitchPhase(s), i, s = "Online")
    <3>1. CASE TrafficOn(i)
      <4>1. "Online" \in Sides /\ SwitchPhase("Online") = "on" /\ ("Online" = "Online") = TRUE
        BY DEF Sides, SwitchPhase
      <4>2. SetTraffic(SwitchPhase("Online"), i, "Online" = "Online")
        BY <3>1, <4>1 DEF TrafficOn
      <4>3. QED
        BY <4>1, <4>2
    <3>2. CASE TrafficOff(i)
      <4>1. "Cutoff" \in Sides /\ SwitchPhase("Cutoff") = "off" /\ ("Cutoff" = "Online") = FALSE
        BY DEF Sides, SwitchPhase
      <4>2. SetTraffic(SwitchPhase("Cutoff"), i, "Cutoff" = "Online")
        BY <3>2, <4>1 DEF TrafficOff
      <4>3. QED
        BY <4>1, <4>2
    <3>3. QED
      BY <1>1, <3>1, <3>2
  <2>2. QED
    BY <2>1, SwitchKeepsGray DEF LabelsSettled
<1>2. ASSUME NEW i \in Ordinal, LabelOnline(i) \/ LabelCutoff(i)
      PROVE  GrayInv' /\ LabelsSettled
  <2>1. PICK s \in Sides : SetPodState(LabelPhase(s), i, s)
    <3>1. CASE LabelOnline(i)
      <4>1. "Online" \in Sides /\ LabelPhase("Online") = "labelOnline"
        BY DEF Sides, LabelPhase
      <4>2. SetPodState(LabelPhase("Online"), i, "Online")
        BY <3>1, <4>1 DEF LabelOnline
      <4>3. QED
        BY <4>1, <4>2
    <3>2. CASE LabelCutoff(i)
      <4>1. "Cutoff" \in Sides /\ LabelPhase("Cutoff") = "labelCutoff"
        BY DEF Sides, LabelPhase
      <4>2. SetPodState(LabelPhase("Cutoff"), i, "Cutoff")
        BY <3>2, <4>1 DEF LabelCutoff
      <4>3. QED
        BY <4>1, <4>2
    <3>3. QED
      BY <1>2, <3>1, <3>2
  <2>2. QED
    BY <2>1, LabelFollowsTraffic DEF LabelsSettled
<1>3. ASSUME NEW i \in Ordinal, LabelStandby(i) PROVE FALSE
  BY <1>3 DEF LabelStandby, SetPodState, Planned, GrayInv, GrayPlan
<1>4. ASSUME \/ \E f \in Phases, i \in Ordinal : PodPatchMisses(f, i)
             \/ ScaleConflict \/ Finish
      PROVE  GrayInv' /\ LabelsSettled
  <2>1. SamePods /\ SameCache /\ SameAsked
    BY <1>4, StatusesKeepAsked
    DEF PodPatchMisses, ScaleConflict, Finish, podCache, SamePods, SameCache
  <2>2. Done \/ Retry
    BY <1>4 DEF PodPatchMisses, ScaleConflict, Finish, StoreStatusAndReturn
  <2>3. QED
    BY <2>1, <2>2, EndingKeepsGray, SamePodsSettled DEF SamePods
<1>5. ASSUME UpdateScale PROVE FALSE
  <2>1. pc = "apply" /\ DesiredReplicas # scale
    BY <1>5 DEF UpdateScale, ScaleNext
  <2>2. rp.spec \in Specs /\ scale = InitReplicas
    BY <2>1 DEF GrayInv, GrayWorker, Deciding
  <2>3. QED
    BY <2>1, <2>2, GrayDesired
<1>6. QED
  BY <1>1, <1>2, <1>3, <1>4, <1>5

\* The watches: the copy of a pod becomes the pod.
LEMMA DeliverKeepsGray ==
  ASSUME TypeOK, GrayInv, DeliverProfile \/ \E i \in Ordinal : DeliverPod(i)
  PROVE  GrayInv' /\ LabelsSettled
<1>1. SamePods /\ SameAsked /\ UNCHANGED <<pc, rp, scale, listed, plan>>
  BY DEF DeliverProfile, DeliverPod, serverVars, localVars, SamePods, SameAsked
<1>2. GrayServer' /\ GrayWorker' /\ (Weighing' => Weighing)
  BY <1>1, SameServerKeepsGray, SameLocalsKeepGray DEF GrayInv
<1>3. CASE DeliverProfile
  <2>1. cachedProfile' = profile /\ cachedPods' = cachedPods /\ unseenDeletions' = unseenDeletions
    BY <1>3 DEF DeliverProfile, podCache
  <2>2. GrayCache'
    BY <2>1 DEF GrayInv, GrayServer, GrayCache
  <2>3. GrayHistory' /\ GrayListed' /\ GrayPlan'
    BY <1>1, <1>2, <2>1, SameHistoryKeepsGray DEF GrayInv, SamePods
  <2>4. QED
    BY <1>1, <1>2, <2>2, <2>3, SamePodsSettled DEF GrayInv, SamePods
<1>4. ASSUME NEW i \in Ordinal, DeliverPod(i)
      PROVE  GrayInv' /\ LabelsSettled
  <2>1. unseenDeletions = {} /\ cachedProfile' = cachedProfile /\ unseenDeletions' = {}
    BY <1>4 DEF DeliverPod, GrayInv, GrayCache
  <2>2. cachedPods' = [cachedPods EXCEPT ![i] = pods[i]]
    BY <1>4, <2>1 DEF DeliverPod
  <2>3. cachedPods \in [Ordinal -> PodObject]
    BY DEF TypeOK, CacheTypeOK
  <2>4. \A j \in Ordinal : cachedPods'[j] = cachedPods[j] \/ cachedPods'[j] = pods[j]
    BY <2>2, <2>3
  <2>5. GrayCache'
    <3>1. \A j \in Ordinal : Belongs(j, cachedPods'[j])
      BY <2>4 DEF GrayInv, GrayServer, GrayCache, Belongs
    <3>2. QED
      BY <2>1, <3>1 DEF GrayInv, GrayCache
  <2>6. GrayHistory'
    <3>1. \A j \in Members : Follows(cachedPods'[j], pods[j])
      BY <2>4, FollowsItself DEF GrayInv, GrayHistory, Members
    <3>2. QED
      BY <1>1, <3>1 DEF GrayHistory, SamePods
  <2>7. ASSUME NEW j \in Members, NEW s \in Sides, Heading(j, s)
        PROVE  Heading(j, s)'
    <3>1. j \in Ordinal /\ pods' = pods
      BY <1>1 DEF Members, SamePods
    <3>2. QED
      BY <2>4, <2>7, <3>1 DEF Heading
  <2>8. \A j \in Members, s \in Sides : CopyIsRight(j, s) => CopyIsRight(j, s)'
    BY <1>1 DEF CopyIsRight, SamePods
  <2>9. GrayListed'
    <3>1. ASSUME Weighing', NEW j \in Members, NEW s \in Sides, listed'[j].state # s
          PROVE  Heading(j, s)' /\ CopyIsRight(j, s)'
      <4>1. Heading(j, s) /\ CopyIsRight(j, s)
        BY <1>1, <1>2, <3>1 DEF GrayInv, GrayListed
      <4>2. QED
        BY <2>7, <2>8, <4>1
    <3>2. QED
      BY <3>1 DEF GrayListed
  <2>10. GrayPlan'
    <3>1. ASSUME NEW s \in Sides, NEW j \in plan'[LabelPhase(s)]
          PROVE  OnTheWay(j, s)'
      <4>1. OnTheWay(j, s)
        BY <1>1, <3>1 DEF GrayInv, GrayPlan
      <4>2. j \in Members /\ Heading(j, s)' /\ (CopyIsRight(j, s) => CopyIsRight(j, s)')
        <5>1. j \in Members /\ Heading(j, s)
          BY <4>1 DEF OnTheWay
        <5>2. QED
          BY <2>7, <2>8, <5>1
      <4>3. QED
        BY <1>1, <4>1, <4>2 DEF OnTheWay, SamePods
    <3>2. QED
      BY <1>1, <3>1 DEF GrayInv, GrayPlan
  <2>11. QED
    BY <1>1, <1>2, <2>5, <2>6, <2>9, <2>10, SamePodsSettled DEF GrayInv, SamePods
<1>5. QED
  BY <1>3, <1>4

\* The owner moves the split between the pods, or takes the profile away.
LEMMA OwnKeepsGray ==
  ASSUME TypeOK, GrayInv, Own
  PROVE  GrayInv' /\ LabelsSettled
<1>1. /\ pods' = pods /\ replicas' = replicas /\ SameCache
      /\ UNCHANGED <<pc, rp, scale, listed, plan>>
  BY DEF Own, DeleteProfile, EditProfile, CreateProfile, podCache, SameCache
<1>2. profile'.exists => profile'.spec \in Specs
  <2>1. profile \in Profile
    BY DEF TypeOK, ServerTypeOK
  <2>2. CASE DeleteProfile
    BY <2>1, <2>2 DEF DeleteProfile, NoProfile, Profile, GrayInv, GrayServer
  <2>3. ASSUME NEW s \in Specs, EditProfile(s) \/ CreateProfile(s)
        PROVE  profile'.spec = s
    <3>1. CASE EditProfile(s)
      BY <2>1, <3>1 DEF EditProfile, Profile
    <3>2. CASE CreateProfile(s)
      BY <3>2 DEF CreateProfile, NewProfile
    <3>3. QED
      BY <2>3, <3>1, <3>2
  <2>4. QED
    BY <2>2, <2>3 DEF Own
<1>3. GrayServer'
  BY <1>1, <1>2 DEF GrayInv, GrayServer
<1>4. GrayCache' /\ GrayWorker' /\ (Weighing' => Weighing)
  BY <1>1, SameCacheKeepsGray, SameLocalsKeepGray DEF GrayInv
<1>5. GrayHistory' /\ GrayListed' /\ GrayPlan'
  BY <1>1, <1>4, SameHistoryKeepsGray DEF GrayInv, SameCache
<1>6. QED
  BY <1>1, <1>3, <1>4, <1>5, SamePodsSettled DEF GrayInv

\* The workload has the pods it wants: it has nothing to do.
LEMMA WorkloadIsFull ==
  ASSUME TypeOK, GrayInv, NEW i \in Ordinal
  PROVE  ~ Workload(i)
<1>1. \A j \in Ordinal : pods[j].phase = IF j \in Members THEN "Running" ELSE "Absent"
  BY DEF GrayInv, GrayServer, Belongs, AbsentPod
<1>2. Present = Members
  BY <1>1 DEF Present, Members
<1>3. /\ Cardinality(Present) = InitReplicas /\ replicas = InitReplicas /\ InitReplicas \in Nat
      /\ \A j \in Ordinal : j \in Nat /\ (j \in Members <=> j < InitReplicas)
  BY <1>2, MembersCounted, ConstantsAssumption, OrdinalsAreNumbers
  DEF GrayInv, GrayServer, ConstantsAssumption, Members
<1>4. ~ CreatePod(i)
  BY <1>1, <1>3 DEF CreatePod, PodMissing
<1>5. ~ PodStarts(i)
  BY <1>1 DEF PodStarts
<1>6. ~ ScaleDownPod(i)
  BY <1>2, <1>3 DEF ScaleDownPod, PodSurplus
<1>7. QED
  BY <1>4, <1>5, <1>6 DEF Workload

\* Calls fail and the manager restarts; nobody takes pods away.
LEMMA DisturbKeepsGray ==
  ASSUME OnlyGray, TypeOK, GrayInv, Disturb
  PROVE  GrayInv' /\ LabelsSettled
<1>1. left["eviction"] = 0 /\ left["userScale"] = 0
  <2>1. \A kind \in TroubleKinds : left[kind] \in Nat /\ left[kind] <= Troubles[kind]
    BY DEF TypeOK, BoundTypeOK
  <2>2. "eviction" \in TroubleKinds /\ "userScale" \in TroubleKinds
    BY DEF TroubleKinds
  <2>3. QED
    BY <2>1, <2>2 DEF OnlyGray
<1>2. CASE CallFails
  <2>1. SameAsked
    BY <1>2, StatusesKeepAsked DEF CallFails
  <2>2. SamePods /\ SameCache
    BY <1>2 DEF CallFails, podCache, SamePods, SameCache
  <2>3. QED
    BY <1>2, <2>1, <2>2, EndingKeepsGray, SamePodsSettled DEF CallFails, SamePods
<1>3. CASE Restart
  <2>1. SamePods /\ SameAsked
    BY <1>3 DEF Restart, serverVars, SamePods, SameAsked
  <2>2. cachedProfile' = profile /\ cachedPods' = pods /\ unseenDeletions' = {}
    BY <1>3 DEF Restart
  <2>3. GrayCache'
    BY <2>2 DEF GrayInv, GrayServer, GrayCache
  <2>4. GrayHistory'
    BY <2>1, <2>2, FollowsItself DEF GrayHistory, SamePods
  <2>5. GrayWorker' /\ GrayListed' /\ GrayPlan'
    BY <1>3, EndedKeepsGray DEF Restart
  <2>6. QED
    BY <2>1, <2>3, <2>4, <2>5, SameServerKeepsGray, SamePodsSettled DEF GrayInv, SamePods
<1>4. ASSUME NEW i \in Ordinal, EvictPod(i) PROVE FALSE
  BY <1>1, <1>4 DEF EvictPod, Spend
<1>5. ASSUME NEW n \in 0 .. MaxPods, ScaleByHand(n) PROVE FALSE
  BY <1>1, <1>5 DEF ScaleByHand, Spend
<1>6. QED
  BY <1>2, <1>3, <1>4, <1>5 DEF Disturb

\* Every step keeps the invariant and changes only the labels of pods that are ready for it.
LEMMA StepKeepsGray ==
  ASSUME OnlyGray, TypeOK, GrayInv, [Next]_vars
  PROVE  GrayInv' /\ LabelsSettled
<1>1. CASE UNCHANGED vars
  <2>1. /\ SamePods /\ SameAsked /\ SameCache
        /\ UNCHANGED <<pods, cachedPods, pc, rp, scale, listed, plan>>
    BY <1>1
    DEF vars, serverVars, cacheVars, podCache, localVars, SamePods, SameAsked, SameCache
  <2>2. GrayWorker' /\ (Weighing' => Weighing)
    BY <2>1, SameLocalsKeepGray DEF GrayInv
  <2>3. GrayHistory' /\ GrayListed' /\ GrayPlan'
    BY <2>1, <2>2, SameHistoryKeepsGray DEF GrayInv
  <2>4. QED
    BY <2>1, <2>2, <2>3, SameServerKeepsGray, SameCacheKeepsGray, SamePodsSettled DEF GrayInv
<1>2. CASE \/ BeginNothingToDo \/ BeginDeletion \/ BeginFirst \/ BeginAgain
           \/ RemoveFinalizer \/ AddFinalizer \/ FinalizerPatchMisses
  <2>1. pods' = pods
    BY <1>2
    DEF BeginNothingToDo, BeginDeletion, BeginFirst, BeginAgain, Begin, RemoveFinalizer,
        AddFinalizer, FinalizerPatchMisses, serverVars
  <2>2. QED
    BY <1>2, <2>1, HeadKeepsGray, SamePodsSettled
<1>3. CASE \/ Pause \/ GetScale \/ List \/ Reflect \/ ReflectConflict
           \/ SkipStateChange \/ SorterUnsupported \/ PrepareFails \/ PlanStateChange \/ PlanPanics
  <2>1. pods' = pods
    BY <1>3
    DEF Pause, GetScale, List, Reflect, ReflectConflict, SkipStateChange, SorterUnsupported,
        PrepareFails, PlanStateChange, PlanPanics, serverVars
  <2>2. QED
    BY <1>3, <2>1, ObserveKeepsGray, SamePodsSettled
<1>4. CASE \/ \E i \in Ordinal : \/ TrafficOn(i) \/ LabelOnline(i)
                                  \/ TrafficOff(i) \/ LabelCutoff(i) \/ LabelStandby(i)
           \/ \E f \in Phases, i \in Ordinal : PodPatchMisses(f, i)
           \/ UpdateScale \/ ScaleConflict \/ Finish
  BY <1>4, ApplyKeepsGray
<1>5. CASE Next /\ ~ Reconcile
  BY <1>5, DeliverKeepsGray, OwnKeepsGray, WorkloadIsFull, DisturbKeepsGray DEF Next
<1>6. QED
  BY <1>1, <1>2, <1>3, <1>4, <1>5 DEF Reconcile

\* It holds to begin with.
LEMMA InitGrayInv == Init => GrayInv
<1> SUFFICES ASSUME Init PROVE GrayInv
  OBVIOUS
<1>1. \A i \in Ordinal : Belongs(i, InitialPods[i])
  BY DEF Belongs, InitialPods, Members, Sides, AbsentPod
<1>2. GrayServer /\ GrayCache
  BY <1>1 DEF Init, GrayServer, GrayCache, NewProfile, NoProfile
<1>3. GrayWorker /\ GrayListed
  BY DEF Init, GrayWorker, GrayListed, Deciding, HasListed, Weighing
<1>4. GrayHistory /\ GrayPlan
  BY FollowsItself, NoPlanIsGray DEF Init, GrayHistory
<1>5. QED
  BY <1>2, <1>3, <1>4 DEF GrayInv

(***************************************************************************)
(* During gray changes no pod is ever labelled with a state its traffic is *)
(* not in, on any kind of workload, whatever the copies in the caches show *)
(* while changes are edited, undone, interrupted by failed calls and taken *)
(* up again after a restart.                                               *)
(***************************************************************************)
THEOREM TrafficSwitchedFirst ==
  ASSUME OnlyGray
  PROVE  Spec => TrafficBeforeLabel
<1>1. Init => TypeOK /\ GrayInv
  BY InitTyped, InitGrayInv
<1>2. TypeOK /\ GrayInv /\ [Next]_vars => (TypeOK /\ GrayInv)'
  BY OnlyGray, StepTyped, StepKeepsGray
<1>3. TypeOK /\ GrayInv /\ [Next]_vars =>
        [\A i \in Ordinal :
           pods[i].state # pods'[i].state /\ pods'[i].phase # "Absent"
           /\ pods'[i].state # "Standby" =>
             pods'[i].traffic = (pods'[i].state = "Online")]_vars
  BY OnlyGray, StepKeepsGray DEF LabelsSettled, Settled
<1>4. QED
  BY <1>1, <1>2, <1>3, PTL DEF Spec, TrafficBeforeLabel
=============================================================================
