--------------------------- MODULE ReplicaProfile ---------------------------
(***************************************************************************)
(* The ReplicaProfile controller, one of its profiles, and what it acts    *)
(* on: the pods and the scale of the target workload.                      *)
(*                                                                         *)
(* The controller reads the profile and the pods from informer caches that *)
(* trail the API server, and the scale from the API server itself; it      *)
(* then issues one call at a time, each of which may fail.  A profile is   *)
(* reconciled by one worker at a time, woken by a queue that holds each    *)
(* key at most once.  Between any two calls the profile may be edited or   *)
(* deleted, pods may come and go, and the manager may restart.             *)
(***************************************************************************)
EXTENDS Integers, FiniteSets

CONSTANTS
  MaxPods,       \* ordinals of the workload's pods are 0 .. MaxPods - 1
  InitReplicas,  \* replicas of the workload before the profile is created
  Specs,         \* specs a profile may be given
  WorkloadKind,  \* kind of the scale target
  Troubles       \* how often each kind of disturbance may happen: a bound

Ordinal == 0 .. MaxPods - 1
WorkloadKinds == {"StatefulSet", "ReplicaSet", "Unknown"}
TroubleKinds == {"edit", "failure", "crash", "eviction", "userScale"}

ScalingDirections == {"Both", "Up", "Down", "Neither"}

ReplicaProfileSpec ==
  [online : Nat, cutoff : Nat, standby : Nat, paused : BOOLEAN,
   direction : ScalingDirections,
   sorter : {"WorkloadDefault", "External"},
   traffic : {"ReadinessGate", "External"}]

ASSUME ConstantsAssumption ==
  /\ MaxPods \in Nat
  /\ InitReplicas \in 0 .. MaxPods
  /\ Specs \subseteq ReplicaProfileSpec
  /\ WorkloadKind \in WorkloadKinds
  /\ Troubles \in [TroubleKinds -> Nat]

\* A StatefulSet scales down from its highest ordinal.
SM == INSTANCE StateManager WITH Pod <- Ordinal, Rank <- [i \in Ordinal |-> - i]

RunningStates == SM!RunningStates

Reasons == {"None", "Ensured", "NotSatisfied", "Applied", "Skipped", "Paused",
            "Unsupported", "Failed"}

Condition == [reason : Reasons, generation : Nat]

ReplicaProfileStatus ==
  [online : Nat, cutoff : Nat, standby : Nat,
   ensured : Condition, applied : Condition]

NoCondition == [reason |-> "None", generation |-> 0]
NoStatus ==
  [online |-> 0, cutoff |-> 0, standby |-> 0,
   ensured |-> NoCondition, applied |-> NoCondition]

(***************************************************************************)
(* The profile object.  generation grows with every change of its spec, as *)
(* the API server counts; here it goes on growing when the profile is      *)
(* deleted and created again, so it also tells the two objects apart.      *)
(***************************************************************************)
Profile ==
  [exists : BOOLEAN, deleting : BOOLEAN, finalizer : BOOLEAN,
   generation : Nat, spec : ReplicaProfileSpec, status : ReplicaProfileStatus]

NewProfile(g, s) ==
  [exists |-> TRUE, deleting |-> FALSE, finalizer |-> FALSE,
   generation |-> g, spec |-> s, status |-> NoStatus]

NoProfile ==
  [exists |-> FALSE, deleting |-> FALSE, finalizer |-> FALSE, generation |-> 0,
   spec |-> [online |-> 0, cutoff |-> 0, standby |-> 0, paused |-> FALSE,
             direction |-> "Both", sorter |-> "WorkloadDefault",
             traffic |-> "ReadinessGate"],
   status |-> NoStatus]

(***************************************************************************)
(* A pod: its phase (a pod that is terminating is as good as absent), the  *)
(* state its label tells, and whether its readiness gate lets traffic in.  *)
(***************************************************************************)
PodObject ==
  [phase : {"Absent", "Pending", "Running"}, state : RunningStates,
   traffic : BOOLEAN]

AbsentPod == [phase |-> "Absent", state |-> "Online", traffic |-> TRUE]

IsPodRunning(pod) == pod.phase = "Running"

(***************************************************************************)
(* What one reconcile still has to send to the pods, phase by phase.       *)
(***************************************************************************)
Phases == {"on", "labelOnline", "off", "labelCutoff", "labelStandby"}
NoPlan == [f \in Phases |-> {}]

VARIABLES
  \* the API server
  profile,         \* the profile
  pods,            \* the pods of the workload
  replicas,        \* spec.replicas of the workload's scale
  \* the manager's memory
  cachedProfile,   \* the profile in the informer cache
  lagging,         \* the profile was written after the cached copy
  cachedPods,      \* the pods in the informer cache
  unseenDeletions, \* cached pods that are gone: the event is still to come
  queued,          \* the profile's key is in the work queue
  selectorCached,  \* the podSelectorCache has an entry for the profile
  \* the reconcile in flight
  pc,              \* the call it makes next
  rp,              \* its copy of the profile
  original,        \* the status it believes to be stored (rpStatusOriginal)
  conflict,        \* the profile was written since the copy was taken
  scale,           \* spec.replicas of the scale it read
  scaleConflict,   \* the scale was written since it read it
  listed,          \* its copies of the pods
  plan,            \* pods it still has to change
  \* bound
  left             \* disturbances that may still happen

serverVars == <<profile, pods, replicas>>
podCache == <<cachedPods, unseenDeletions>>
cacheVars == <<cachedProfile, lagging, podCache>>
localVars == <<pc, rp, original, conflict, scale, scaleConflict, listed, plan>>
vars == <<serverVars, cacheVars, queued, selectorCached, localVars, left>>

InitialPods ==
  [i \in Ordinal |-> IF i < InitReplicas
                     THEN [AbsentPod EXCEPT !.phase = "Running"]
                     ELSE AbsentPod]

NoPods == [i \in Ordinal |-> AbsentPod]

\* Between reconciles the local copies hold nothing.
IdleLocals ==
  /\ pc' = "idle"
  /\ rp' = NoProfile
  /\ original' = NoStatus
  /\ conflict' = FALSE
  /\ scale' = 0
  /\ scaleConflict' = FALSE
  /\ listed' = NoPods
  /\ plan' = NoPlan

Init ==
  /\ \E s \in Specs : profile = NewProfile(1, s)
  /\ pods = InitialPods
  /\ replicas = InitReplicas
  /\ cachedProfile = NoProfile
  /\ lagging = TRUE
  /\ cachedPods = InitialPods
  /\ unseenDeletions = {}
  /\ queued = FALSE
  /\ selectorCached = FALSE
  /\ pc = "idle"
  /\ rp = NoProfile
  /\ original = NoStatus
  /\ conflict = FALSE
  /\ scale = 0
  /\ scaleConflict = FALSE
  /\ listed = NoPods
  /\ plan = NoPlan
  /\ left = Troubles

Spend(kind) ==
  /\ left[kind] > 0
  /\ left' = [left EXCEPT ![kind] = @ - 1]

-----------------------------------------------------------------------------
(***************************************************************************)
(* How a reconcile ends.                                                   *)
(***************************************************************************)

\* return ctrl.Result{}, nil: the key is taken up again only if it was queued meanwhile.
Done ==
  /\ IdleLocals
  /\ UNCHANGED queued

\* return ctrl.Result{}, err (or a recovered panic): the key is queued again.
Retry ==
  /\ IdleLocals
  /\ queued' = TRUE

(***************************************************************************)
(* Status().Update carries the resource version of the copy: it succeeds   *)
(* only if nobody wrote the profile since the copy was taken.  It is not   *)
(* sent at all when the status equals the one the copy came with, which is *)
(* the cached one and not necessarily the stored one.                      *)
(***************************************************************************)
StatusUpToDate(status) == status = original

CanStoreStatus == profile.exists /\ ~ conflict

StoreStatus(status) ==
  /\ profile' = [profile EXCEPT !.status = status]
  /\ lagging' = TRUE

LeaveStatus == UNCHANGED <<profile, lagging>>

(***************************************************************************)
(* errorOut followed by a return: the condition is recorded when possible, *)
(* a failure to record it is ignored.                                      *)
(***************************************************************************)
ErrorOut(status) ==
  \/ LeaveStatus
  \/ /\ ~ StatusUpToDate(status)
     /\ CanStoreStatus
     /\ StoreStatus(status)

WithCondition(status, type, reason) ==
  [status EXCEPT ![type] = [reason |-> reason, generation |-> rp.generation]]

EnsuredFailed == WithCondition(rp.status, "ensured", "Failed")
AppliedFailed == WithCondition(rp.status, "applied", "Failed")

-----------------------------------------------------------------------------
(***************************************************************************)
(* The head of Reconcile: get the profile from the cache.                  *)
(***************************************************************************)

Take(next) ==
  /\ pc' = next
  /\ rp' = cachedProfile
  /\ original' = cachedProfile.status
  /\ conflict' = lagging
  /\ UNCHANGED <<scale, scaleConflict, listed, plan>>

Begin ==
  /\ pc = "idle"
  /\ queued
  /\ queued' = FALSE
  /\ UNCHANGED <<serverVars, cacheVars, left>>

\* Gone, or being deleted without a finalizer of this controller.
BeginNothingToDo ==
  /\ Begin
  /\ ~ cachedProfile.exists \/ (cachedProfile.deleting /\ ~ cachedProfile.finalizer)
  /\ UNCHANGED <<selectorCached, localVars>>

\* A slip: the finalizer is removed, the selector stays.
BeginDeletionKeepingSelector ==
  /\ Begin
  /\ cachedProfile.exists /\ cachedProfile.deleting /\ cachedProfile.finalizer
  /\ UNCHANGED selectorCached
  /\ Take("removeFinalizer")

\* The selector is dropped before the finalizer is.
BeginDeletion ==
  /\ Begin
  /\ cachedProfile.exists /\ cachedProfile.deleting /\ cachedProfile.finalizer
  /\ selectorCached' = FALSE
  /\ Take("removeFinalizer")

BeginFirst ==
  /\ Begin
  /\ cachedProfile.exists /\ ~ cachedProfile.deleting /\ ~ cachedProfile.finalizer
  /\ UNCHANGED selectorCached
  /\ Take("addFinalizer")

AfterFinalizer(p) == IF p.spec.paused THEN "pause" ELSE "getScale"

BeginAgain ==
  /\ Begin
  /\ cachedProfile.exists /\ ~ cachedProfile.deleting /\ cachedProfile.finalizer
  /\ UNCHANGED selectorCached
  /\ Take(AfterFinalizer(cachedProfile))

\* A slip: the reconcile does not return, and goes on to add the finalizer.
RemoveFinalizerAndGoOn ==
  /\ pc = "removeFinalizer"
  /\ profile.exists
  /\ profile' = IF profile.deleting THEN NoProfile
                ELSE [profile EXCEPT !.finalizer = FALSE]
  /\ lagging' = TRUE
  /\ pc' = "addFinalizer"
  /\ UNCHANGED <<pods, replicas, cachedProfile, podCache, queued, selectorCached,
                 rp, original, conflict, scale, scaleConflict, listed, plan, left>>

(***************************************************************************)
(* The patch goes by name: it also reaches a profile created in the        *)
(* meantime, which has no finalizer yet.                                   *)
(***************************************************************************)
RemoveFinalizer ==
  /\ pc = "removeFinalizer"
  /\ profile.exists
  /\ profile' = IF profile.deleting THEN NoProfile
                ELSE [profile EXCEPT !.finalizer = FALSE]
  /\ lagging' = TRUE
  /\ Done
  /\ UNCHANGED <<pods, replicas, cachedProfile, podCache, selectorCached, left>>

\* The answer to the patch is the stored object, which replaces the copy.
AddFinalizer ==
  /\ pc = "addFinalizer"
  /\ profile.exists
  /\ \E stored \in {[profile EXCEPT !.finalizer = TRUE]} :
       /\ profile' = stored
       /\ rp' = stored
       /\ original' = stored.status
       /\ pc' = AfterFinalizer(stored)
  /\ conflict' = FALSE
  /\ lagging' = TRUE
  /\ UNCHANGED <<pods, replicas, cachedProfile, podCache, queued, selectorCached,
                 scale, scaleConflict, listed, plan, left>>

\* The profile is gone: the patch answers NotFound.
FinalizerPatchMisses ==
  /\ pc \in {"removeFinalizer", "addFinalizer"}
  /\ ~ profile.exists
  /\ Retry
  /\ UNCHANGED <<serverVars, cacheVars, selectorCached, left>>

-----------------------------------------------------------------------------
(***************************************************************************)
(* A paused profile is only marked as such.                                *)
(***************************************************************************)
PausedStatus ==
  WithCondition(WithCondition(rp.status, "applied", "Paused"), "ensured", "Paused")

\* A status update and the return nil or return err that follows it.
StoreStatusAndReturn(status) ==
  \/ StatusUpToDate(status) /\ LeaveStatus /\ Done
  \/ ~ StatusUpToDate(status) /\ CanStoreStatus /\ StoreStatus(status) /\ Done
  \/ ~ StatusUpToDate(status) /\ ~ CanStoreStatus /\ LeaveStatus /\ Retry

Pause ==
  /\ pc = "pause"
  /\ StoreStatusAndReturn(PausedStatus)
  /\ UNCHANGED <<pods, replicas, cachedProfile, podCache, selectorCached, left>>

-----------------------------------------------------------------------------
(***************************************************************************)
(* Observe: the scale from the API server, then the pods from the cache.   *)
(* The selector goes to the pod watch handler before the pods are listed.  *)
(***************************************************************************)
GetScale ==
  /\ pc = "getScale"
  /\ scale' = replicas
  /\ scaleConflict' = FALSE
  /\ selectorCached' = TRUE
  /\ pc' = "list"
  /\ UNCHANGED <<serverVars, cacheVars, queued, rp, original, conflict, listed, plan, left>>

RunningIn(podsSeen, s) ==
  {i \in Ordinal : IsPodRunning(podsSeen[i]) /\ podsSeen[i].state = s}

FilterAndClassify(podsSeen) ==
  [s \in RunningStates |-> RunningIn(podsSeen, s)]

IsOnlineReplicasEnsured(spec, online) ==
  CASE spec.direction = "Up"      -> online >= spec.online
    [] spec.direction = "Down"    -> online <= spec.online
    [] spec.direction = "Neither" -> TRUE
    [] spec.direction = "Both"    -> online = spec.online

IsEnsured(spec, status) ==
  /\ IsOnlineReplicasEnsured(spec, status.online)
  /\ status.cutoff = spec.cutoff
  /\ status.standby = spec.standby

Reflected(podsSeen) ==
  LET counted == [rp.status EXCEPT
                    !.online  = Cardinality(RunningIn(podsSeen, "Online")),
                    !.cutoff  = Cardinality(RunningIn(podsSeen, "Cutoff")),
                    !.standby = Cardinality(RunningIn(podsSeen, "Standby"))]
  IN  WithCondition(counted, "ensured",
        IF IsEnsured(rp.spec, counted) THEN "Ensured" ELSE "NotSatisfied")

List ==
  /\ pc = "list"
  /\ listed' = cachedPods
  /\ rp' = [rp EXCEPT !.status = Reflected(cachedPods)]
  /\ pc' = "reflect"
  /\ UNCHANGED <<serverVars, cacheVars, queued, selectorCached, original, conflict,
                 scale, scaleConflict, plan, left>>

\* Store what was observed; go on only if the profile is not ensured.
Reflect ==
  /\ pc = "reflect"
  /\ \/ StatusUpToDate(rp.status) /\ LeaveStatus
     \/ ~ StatusUpToDate(rp.status) /\ CanStoreStatus /\ StoreStatus(rp.status)
  /\ IF IsEnsured(rp.spec, rp.status)
     THEN Done
     ELSE /\ pc' = "prepare"
          /\ original' = rp.status
          /\ UNCHANGED <<queued, rp, conflict, scale, scaleConflict, listed, plan>>
  /\ UNCHANGED <<pods, replicas, cachedProfile, podCache, selectorCached, left>>

ReflectConflict ==
  /\ pc = "reflect"
  /\ ~ StatusUpToDate(rp.status)
  /\ ~ CanStoreStatus
  /\ Retry
  /\ UNCHANGED <<serverVars, cacheVars, selectorCached, left>>

-----------------------------------------------------------------------------
(***************************************************************************)
(* Decide which pods to change.                                            *)
(***************************************************************************)
LesserOf(a, b) == IF a < b THEN a ELSE b
GreaterOf(a, b) == IF a > b THEN a ELSE b

\* A slip: the direction is not looked at when the pods are chosen.
DesiredOnlineAsSpecified == rp.spec.online

DesiredOnline ==
  CASE rp.spec.direction = "Up"      -> GreaterOf(rp.spec.online, rp.status.online)
    [] rp.spec.direction = "Down"    -> LesserOf(rp.spec.online, rp.status.online)
    [] rp.spec.direction = "Neither" -> rp.status.online
    [] rp.spec.direction = "Both"    -> rp.spec.online

\* A slip: pods that are not online are subtracted from the scale.
DesiredReplicasNet == DesiredOnline - rp.spec.cutoff - rp.spec.standby

DesiredReplicas == DesiredOnline + rp.spec.cutoff + rp.spec.standby

NeedStateChange ==
  \/ rp.spec.cutoff > 0
  \/ rp.spec.standby > 0
  \/ rp.status.cutoff > 0
  \/ rp.status.standby > 0

\* The running pods are as many as the scale asks for: nothing is starting or dying.
CanDoStateChange ==
  rp.status.online + rp.status.cutoff + rp.status.standby = scale

StateChange ==
  SM!CalculateStateChange(FilterAndClassify(listed),
    [Online |-> DesiredOnline, Cutoff |-> rp.spec.cutoff, Standby |-> rp.spec.standby])

\* Pods moved to Standby only get the label; Delete is left to the workload.
PlanFor(change) ==
  [on |-> change["Online"], labelOnline |-> change["Online"],
   off |-> change["Cutoff"], labelCutoff |-> change["Cutoff"],
   labelStandby |-> change["Standby"]]

Prepare == pc = "prepare"

WantsStateChange == Prepare /\ NeedStateChange /\ CanDoStateChange

SkipStateChange ==
  /\ Prepare
  /\ ~ (NeedStateChange /\ CanDoStateChange)
  /\ pc' = "apply"
  /\ UNCHANGED <<serverVars, cacheVars, queued, selectorCached, rp, original, conflict,
                 scale, scaleConflict, listed, plan, left>>

\* No supported workload lets pods be selected, so no other sorter is usable; no retry.
SorterUnsupported ==
  /\ WantsStateChange
  /\ WorkloadKind # "Unknown"
  /\ rp.spec.sorter = "External"
  /\ ErrorOut(WithCondition(rp.status, "applied", "Unsupported"))
  /\ Done
  /\ UNCHANGED <<pods, replicas, cachedProfile, podCache, selectorCached, left>>

\* An unknown kind of workload, or the external traffic controller, which is not there yet.
PrepareFails ==
  /\ WantsStateChange
  /\ \/ WorkloadKind = "Unknown"
     \/ rp.spec.sorter # "External" /\ rp.spec.traffic = "External"
  /\ ErrorOut(AppliedFailed)
  /\ Retry
  /\ UNCHANGED <<pods, replicas, cachedProfile, podCache, selectorCached, left>>

CanPlan ==
  /\ WantsStateChange
  /\ WorkloadKind # "Unknown"
  /\ rp.spec.sorter = "WorkloadDefault"
  /\ rp.spec.traffic = "ReadinessGate"

(***************************************************************************)
(* Sorting for a ReplicaSet or a Deployment indexes into an empty slice of *)
(* ranks as soon as there is a pod to sort.  The panic is recovered by the *)
(* controller, which queues the key again.                                 *)
(***************************************************************************)
SortPanics(change) ==
  WorkloadKind = "ReplicaSet" /\ \E s \in DOMAIN change : change[s] # {}

PlanStateChange ==
  /\ CanPlan
  /\ \E change \in {StateChange} :
       /\ ~ SortPanics(change)
       /\ plan' = PlanFor(change)
  /\ pc' = "apply"
  /\ UNCHANGED <<serverVars, cacheVars, queued, selectorCached, rp, original, conflict,
                 scale, scaleConflict, listed, left>>

PlanPanics ==
  /\ CanPlan
  /\ SortPanics(StateChange)
  /\ Retry
  /\ UNCHANGED <<serverVars, cacheVars, selectorCached, left>>

-----------------------------------------------------------------------------
(***************************************************************************)
(* Apply the change, one pod at a time: traffic on and then the label for  *)
(* the pods to be online; traffic off and then the label for those to be   *)
(* cut off; the label alone for the standby pods.                          *)
(***************************************************************************)
PlannedLabelsAnyTime(phase, i) ==  \* a slip: labels do not wait for the traffic
  /\ pc = "apply"
  /\ i \in plan[phase]

Planned(phase, i) ==
  /\ pc = "apply"
  /\ i \in plan[phase]
  /\ phase \in {"labelOnline", "off", "labelCutoff", "labelStandby"} => plan["on"] = {}
  /\ phase \in {"off", "labelCutoff", "labelStandby"} => plan["labelOnline"] = {}
  /\ phase \in {"labelCutoff", "labelStandby"} => plan["off"] = {}
  /\ phase = "labelStandby" => plan["labelCutoff"] = {}

Finished(phase, i) == plan' = [plan EXCEPT ![phase] = @ \ {i}]

(***************************************************************************)
(* The readiness gate is patched only if the copy of the pod says that it  *)
(* differs; the answer, the stored pod, then replaces the copy.            *)
(***************************************************************************)
SetTraffic(phase, i, open) ==
  /\ Planned(phase, i)
  /\ \/ /\ listed[i].traffic = open
        /\ UNCHANGED <<pods, listed>>
     \/ /\ listed[i].traffic # open
        /\ pods[i].phase # "Absent"
        /\ pods' = [pods EXCEPT ![i].traffic = open]
        /\ listed' = [listed EXCEPT ![i] = [pods[i] EXCEPT !.traffic = open]]
  /\ Finished(phase, i)
  /\ UNCHANGED <<profile, replicas, cacheVars, queued, selectorCached,
                 pc, rp, original, conflict, scale, scaleConflict, left>>

TrafficOn(i) == SetTraffic("on", i, TRUE)
TrafficOff(i) == SetTraffic("off", i, FALSE)

\* The patch is the difference to the copy: empty if the copy has the state already.
SetPodState(phase, i, s) ==
  /\ Planned(phase, i)
  /\ pods[i].phase # "Absent"
  /\ pods' = IF listed[i].state = s THEN pods ELSE [pods EXCEPT ![i].state = s]
  /\ Finished(phase, i)
  /\ UNCHANGED <<profile, replicas, cacheVars, queued, selectorCached,
                 pc, rp, original, conflict, scale, scaleConflict, listed, left>>

LabelOnline(i) == SetPodState("labelOnline", i, "Online")
LabelCutoff(i) == SetPodState("labelCutoff", i, "Cutoff")
LabelStandby(i) == SetPodState("labelStandby", i, "Standby")

\* The pod is gone: the patch answers NotFound, and the reconcile stops there.
PodPatchMisses(phase, i) ==
  /\ Planned(phase, i)
  /\ pods[i].phase = "Absent"
  /\ phase = "on" => ~ listed[i].traffic
  /\ phase = "off" => listed[i].traffic
  /\ ErrorOut(AppliedFailed)
  /\ Retry
  /\ UNCHANGED <<pods, replicas, cachedProfile, podCache, selectorCached, left>>

NothingPlanned == \A f \in Phases : plan[f] = {}

ScaleNext == pc = "apply" /\ NothingPlanned /\ DesiredReplicas # scale

\* A slip: the version of the scale is not sent along.
UpdateScaleBlindly ==
  /\ ScaleNext
  /\ replicas' = DesiredReplicas
  /\ pc' = "finish"
  /\ UNCHANGED <<profile, pods, cacheVars, queued, selectorCached, rp, original,
                 conflict, scale, scaleConflict, listed, plan, left>>

\* The update carries the version of the scale that was read.
UpdateScale ==
  /\ ScaleNext
  /\ ~ scaleConflict
  /\ replicas' = DesiredReplicas
  /\ pc' = "finish"
  /\ UNCHANGED <<profile, pods, cacheVars, queued, selectorCached, rp, original,
                 conflict, scale, scaleConflict, listed, plan, left>>

ScaleConflict ==
  /\ ScaleNext
  /\ scaleConflict
  /\ ErrorOut(AppliedFailed)
  /\ Retry
  /\ UNCHANGED <<pods, replicas, cachedProfile, podCache, selectorCached, left>>

FinalStatus ==
  WithCondition(rp.status, "applied",
    IF NeedStateChange /\ ~ CanDoStateChange THEN "Skipped" ELSE "Applied")

FinishNext ==
  \/ pc = "finish"
  \/ pc = "apply" /\ NothingPlanned /\ DesiredReplicas = scale

Finish ==
  /\ FinishNext
  /\ StoreStatusAndReturn(FinalStatus)
  /\ UNCHANGED <<pods, replicas, cachedProfile, podCache, selectorCached, left>>

-----------------------------------------------------------------------------
(***************************************************************************)
(* Disturbances.  Any call to the API server may fail, and the manager may *)
(* restart, with new caches and without what it kept in memory.            *)
(***************************************************************************)


\* A planned pod that needs no call is done with locally.
PodCallNext ==
  \E f \in Phases, i \in Ordinal :
    /\ Planned(f, i)
    /\ f = "on" => ~ listed[i].traffic
    /\ f = "off" => listed[i].traffic

StatusCallNext ==
  \/ pc = "pause" /\ ~ StatusUpToDate(PausedStatus)
  \/ pc = "reflect" /\ ~ StatusUpToDate(rp.status)
  \/ FinishNext /\ ~ StatusUpToDate(FinalStatus)

\* Each call has its own error path, which records the failure in a condition or does not.
CallFails ==
  /\ \/ pc \in {"removeFinalizer", "addFinalizer"} /\ LeaveStatus
     \/ pc \in {"getScale", "list"} /\ ErrorOut(EnsuredFailed)
     \/ (PodCallNext \/ ScaleNext) /\ ErrorOut(AppliedFailed)
     \/ StatusCallNext /\ LeaveStatus
  /\ Spend("failure")
  /\ Retry
  /\ UNCHANGED <<pods, replicas, cachedProfile, podCache, selectorCached>>

Restart ==
  /\ Spend("crash")
  /\ cachedProfile' = profile
  /\ lagging' = FALSE
  /\ cachedPods' = pods
  /\ unseenDeletions' = {}
  /\ queued' = profile.exists
  /\ selectorCached' = FALSE
  /\ IdleLocals
  /\ UNCHANGED serverVars

-----------------------------------------------------------------------------
(***************************************************************************)
(* The watches.                                                            *)
(***************************************************************************)

\* Status and finalizer updates do not change the generation and wake nobody.
DeliverProfile ==
  /\ lagging
  /\ cachedProfile' = profile
  /\ lagging' = FALSE
  /\ queued' = (queued \/ cachedProfile.generation # profile.generation)
  /\ UNCHANGED <<serverVars, podCache, selectorCached, localVars, left>>

\* A slip: only the label counts, not that the pod starts or stops running.
PodLabelChanged(old, new) == IsPodRunning(new) /\ old.state # new.state

PodStateChanged(old, new) ==
  /\ IsPodRunning(old) \/ IsPodRunning(new)
  /\ IsPodRunning(old) # IsPodRunning(new) \/ old.state # new.state

PodEvent(old, new) ==
  \/ old.phase = "Absent"
  \/ new.phase = "Absent"
  \/ PodStateChanged(old, new)

\* findReplicaProfileToEnqueueForPod: an unknown selector means nobody is to be woken.
WakesForPods ==
  /\ selectorCached
  /\ cachedProfile.exists
  /\ ~ cachedProfile.deleting
  /\ ~ cachedProfile.spec.paused

\* A pod created under the name of a deleted one is seen after the deletion.
DeliverPod(i) ==
  LET new == IF i \in unseenDeletions THEN AbsentPod ELSE pods[i]
  IN  /\ cachedPods[i] # new
      /\ cachedPods' = [cachedPods EXCEPT ![i] = new]
      /\ unseenDeletions' = unseenDeletions \ {i}
      /\ queued' = (queued \/ (PodEvent(cachedPods[i], new) /\ WakesForPods))
      /\ UNCHANGED <<serverVars, cachedProfile, lagging, selectorCached, localVars, left>>

-----------------------------------------------------------------------------
(***************************************************************************)
(* The owner of the profile: the IHPA controller or a user.                *)
(***************************************************************************)
NextGeneration == 2 + Troubles["edit"] - left["edit"]

EditProfile(s) ==
  /\ profile.exists
  /\ profile.spec # s
  /\ Spend("edit")
  /\ profile' = [profile EXCEPT !.spec = s, !.generation = NextGeneration]
  /\ lagging' = TRUE
  /\ conflict' = (pc # "idle")
  /\ UNCHANGED <<pods, replicas, cachedProfile, podCache, queued, selectorCached,
                 pc, rp, original, scale, scaleConflict, listed, plan>>

DeleteProfile ==
  /\ profile.exists /\ ~ profile.deleting
  /\ Spend("edit")
  /\ profile' = IF profile.finalizer
                THEN [profile EXCEPT !.deleting = TRUE, !.generation = NextGeneration]
                ELSE NoProfile
  /\ lagging' = TRUE
  /\ conflict' = (pc # "idle")
  /\ UNCHANGED <<pods, replicas, cachedProfile, podCache, queued, selectorCached,
                 pc, rp, original, scale, scaleConflict, listed, plan>>

CreateProfile(s) ==
  /\ ~ profile.exists
  /\ Spend("edit")
  /\ profile' = NewProfile(NextGeneration, s)
  /\ lagging' = TRUE
  /\ conflict' = (pc # "idle")
  /\ UNCHANGED <<pods, replicas, cachedProfile, podCache, queued, selectorCached,
                 pc, rp, original, scale, scaleConflict, listed, plan>>

-----------------------------------------------------------------------------
(***************************************************************************)
(* The workload controller, a user who scales the workload by hand, and    *)
(* the loss of a running pod.                                              *)
(***************************************************************************)
Present == {i \in Ordinal : pods[i].phase # "Absent"}

\* A StatefulSet fills the ordinals below its replicas, other kinds only count.
PodMissing(i) ==
  /\ pods[i].phase = "Absent"
  /\ IF WorkloadKind = "StatefulSet" THEN i < replicas
                                     ELSE Cardinality(Present) < replicas

\* A StatefulSet scales down its highest ordinal first, other kinds any pod.
PodSurplus(i) ==
  /\ i \in Present
  /\ IF WorkloadKind = "StatefulSet"
     THEN i >= replicas /\ \A j \in Present : j <= i
     ELSE Cardinality(Present) > replicas

CreatePod(i) ==
  /\ PodMissing(i)
  /\ pods' = [pods EXCEPT ![i] = [AbsentPod EXCEPT !.phase = "Pending"]]
  /\ UNCHANGED <<profile, replicas, cacheVars, queued, selectorCached, localVars, left>>

PodStarts(i) ==
  /\ pods[i].phase = "Pending"
  /\ pods' = [pods EXCEPT ![i].phase = "Running"]
  /\ UNCHANGED <<profile, replicas, cacheVars, queued, selectorCached, localVars, left>>

Lose(i) ==
  /\ pods' = [pods EXCEPT ![i] = AbsentPod]
  /\ unseenDeletions' = IF cachedPods[i].phase = "Absent" THEN unseenDeletions
                        ELSE unseenDeletions \union {i}
  /\ UNCHANGED <<profile, replicas, cachedProfile, lagging, cachedPods, queued,
                 selectorCached, localVars>>

ScaleDownPod(i) ==
  /\ PodSurplus(i)
  /\ Lose(i)
  /\ UNCHANGED left

EvictPod(i) ==
  /\ pods[i].phase = "Running"
  /\ Spend("eviction")
  /\ Lose(i)

ScaleByHand(n) ==
  /\ n # replicas
  /\ Spend("userScale")
  /\ replicas' = n
  /\ scaleConflict' = (pc # "idle")
  /\ UNCHANGED <<profile, pods, cacheVars, queued, selectorCached,
                 pc, rp, original, conflict, scale, listed, plan>>

-----------------------------------------------------------------------------

Reconcile ==
  \/ BeginNothingToDo \/ BeginDeletion \/ BeginFirst \/ BeginAgain
  \/ RemoveFinalizer \/ AddFinalizer \/ FinalizerPatchMisses
  \/ Pause
  \/ GetScale \/ List \/ Reflect \/ ReflectConflict
  \/ SkipStateChange \/ SorterUnsupported \/ PrepareFails
  \/ PlanStateChange \/ PlanPanics
  \/ \E i \in Ordinal : \/ TrafficOn(i) \/ LabelOnline(i)
                         \/ TrafficOff(i) \/ LabelCutoff(i) \/ LabelStandby(i)
  \/ \E f \in Phases, i \in Ordinal : PodPatchMisses(f, i)
  \/ UpdateScale \/ ScaleConflict \/ Finish

Disturb ==
  \/ CallFails \/ Restart
  \/ \E i \in Ordinal : EvictPod(i)
  \/ \E n \in 0 .. MaxPods : ScaleByHand(n)

Own ==
  \/ DeleteProfile
  \/ \E s \in Specs : EditProfile(s) \/ CreateProfile(s)

Workload(i) == CreatePod(i) \/ PodStarts(i) \/ ScaleDownPod(i)

Next ==
  \/ Reconcile
  \/ DeliverProfile
  \/ \E i \in Ordinal : DeliverPod(i)
  \/ \E i \in Ordinal : Workload(i)
  \/ Own
  \/ Disturb

(***************************************************************************)
(* The worker, the watches and the workload controller keep running; what  *)
(* a user or the environment does is never owed.                           *)
(***************************************************************************)
Fairness ==
  /\ WF_vars(Reconcile)
  /\ WF_vars(DeliverProfile)
  /\ \A i \in Ordinal : WF_vars(DeliverPod(i)) /\ WF_vars(Workload(i))

Spec == Init /\ [][Next]_vars /\ Fairness

-----------------------------------------------------------------------------
(***************************************************************************)
(* Types.                                                                  *)
(***************************************************************************)
ProgramCounters == {"idle", "removeFinalizer", "addFinalizer", "pause", "getScale",
                    "list", "reflect", "prepare", "apply", "finish"}

ServerTypeOK ==
  /\ profile \in Profile
  /\ pods \in [Ordinal -> PodObject]
  /\ replicas \in Nat

CacheTypeOK ==
  /\ cachedProfile \in Profile
  /\ lagging \in BOOLEAN
  /\ cachedPods \in [Ordinal -> PodObject]
  /\ unseenDeletions \in SUBSET Ordinal

LocalTypeOK ==
  /\ pc \in ProgramCounters
  /\ rp \in Profile
  /\ original \in ReplicaProfileStatus
  /\ conflict \in BOOLEAN
  /\ scale \in Nat
  /\ scaleConflict \in BOOLEAN
  /\ listed \in [Ordinal -> PodObject]
  /\ plan \in [Phases -> SUBSET Ordinal]

BoundTypeOK ==
  /\ left \in [TroubleKinds -> Nat]
  /\ \A kind \in TroubleKinds : left[kind] <= Troubles[kind]

TypeOK ==
  /\ ServerTypeOK
  /\ CacheTypeOK
  /\ LocalTypeOK
  /\ BoundTypeOK
  /\ queued \in BOOLEAN
  /\ selectorCached \in BOOLEAN

(***************************************************************************)
(* The in-memory selector of a profile never outlives the profile: it is   *)
(* only there while the stored profile carries the finalizer that makes    *)
(* the controller see its deletion, in whatever order a stale cache, a     *)
(* failed patch, a restart or a new profile of the same name come          *)
(* (Reconcile, the deletion branch and LoadOrStore).                       *)
(***************************************************************************)
SelectorCacheOwned == selectorCached => profile.exists /\ profile.finalizer

(***************************************************************************)
(* Why that is so.  A reconcile past the finalizer works on a profile that *)
(* cannot go away, because the only one to remove its finalizer is the     *)
(* same worker, and it only begins to when the cache shows a deletion.     *)
(* What the cache shows is old: an undeleted copy with the finalizer must  *)
(* imply that the stored profile still has it, and a deleted copy that no  *)
(* new profile of the name has got one.                                    *)
(***************************************************************************)
Working == pc \in {"pause", "getScale", "list", "reflect", "prepare", "apply", "finish"}

Kept(p) == p.exists /\ p.finalizer
SeenAlive == cachedProfile.exists /\ cachedProfile.finalizer /\ ~ cachedProfile.deleting
SeenDeleted == cachedProfile.finalizer /\ cachedProfile.deleting

FinalizerInv ==
  /\ profile.finalizer => profile.exists
  /\ profile.deleting => profile.finalizer
  /\ Working => Kept(profile)
  /\ SeenAlive => Kept(profile)
  /\ SeenDeleted => (profile.finalizer => profile.deleting)
  /\ pc = "addFinalizer" /\ SeenDeleted => profile.deleting
  /\ pc = "removeFinalizer" =>
       /\ ~ selectorCached
       /\ ~ SeenAlive
       /\ profile.finalizer => profile.deleting
  /\ SelectorCacheOwned

\* Pods that handle traffic.
Serving == {i \in Ordinal : IsPodRunning(pods[i]) /\ pods[i].traffic}

Labelled(s) == {i \in Ordinal : IsPodRunning(pods[i]) /\ pods[i].state = s}

(***************************************************************************)
(* Nothing is left to do: no reconcile runs or is queued, the caches are   *)
(* up to date, and the workload has the pods its scale asks for.           *)
(***************************************************************************)
Quiescent ==
  /\ pc = "idle" /\ ~ queued
  /\ ~ lagging /\ cachedPods = pods /\ unseenDeletions = {}
  /\ \A i \in Ordinal :
       ~ PodMissing(i) /\ ~ PodSurplus(i) /\ pods[i].phase # "Pending"

Active == profile.exists /\ ~ profile.deleting /\ ~ profile.spec.paused

(***************************************************************************)
(* No running pod that is shut off from traffic or lost to a scale down    *)
(* takes the workload below the fewest online replicas any profile asked   *)
(* for, or it started with: stale caches, failed calls and edits in mid-   *)
(* course do not add up to more pods out of service than one profile       *)
(* wants.  (Pods that die are not the controller's doing: the run has none.)*)
(***************************************************************************)
ServingFloor ==
  \E n \in {InitReplicas} \union {s.online : s \in Specs} :
    Cardinality(Serving) >= n

(***************************************************************************)
(* Once edits and disturbances end, an active profile becomes and stays    *)
(* ensured: as many running pods carry each state as its spec says, and    *)
(* the scale is their sum.  No wake-up is lost between the watches, the    *)
(* selector cache and the work queue.                                      *)
(***************************************************************************)
Converged ==
  /\ IsOnlineReplicasEnsured(profile.spec, Cardinality(Labelled("Online")))
  /\ Cardinality(Labelled("Cutoff")) = profile.spec.cutoff
  /\ Cardinality(Labelled("Standby")) = profile.spec.standby
  /\ replicas = Cardinality(Present)

EventuallyConverged == <>[](Active => Converged)

(***************************************************************************)
(* A pod is labelled Cutoff only when it handles no traffic any more, and  *)
(* Online only when its traffic is on: the traffic is switched before the  *)
(* label in either direction.                                              *)
(***************************************************************************)
TrafficBeforeLabel ==
  [][\A i \in Ordinal :
       pods[i].state # pods'[i].state /\ pods'[i].phase # "Absent"
       /\ pods'[i].state # "Standby" =>
         pods'[i].traffic = (pods'[i].state = "Online")]_vars

(***************************************************************************)
(* What PodState promises, at rest and under an active profile: a pod in   *)
(* state Online handles traffic, and one in state Cutoff handles none.     *)
(***************************************************************************)
TrafficFollowsState ==
  Quiescent /\ Active =>
    /\ \A i \in Labelled("Online") : pods[i].traffic
    /\ \A i \in Labelled("Cutoff") : ~ pods[i].traffic

\* What ReplicaProfileStatus promises, at rest: its numbers are the current ones.
StatusIsCurrent ==
  Quiescent /\ Active =>
    /\ profile.status.online = Cardinality(Labelled("Online"))
    /\ profile.status.cutoff = Cardinality(Labelled("Cutoff"))
    /\ profile.status.standby = Cardinality(Labelled("Standby"))

(***************************************************************************)
(* At rest, the conditions were written for the spec the profile has now:  *)
(* no edit is overlooked because a stale copy was reconciled in its place, *)
(* an update lost a conflict, or the event came while a reconcile ran.     *)
(***************************************************************************)
ReportsLatestSpec ==
  Quiescent /\ profile.exists /\ ~ profile.deleting =>
    profile.status.ensured.generation = profile.generation

(***************************************************************************)
(* The scale is only overwritten while it is what the reconcile based its  *)
(* decision on: a scaling by somebody else in between is not lost.         *)
(***************************************************************************)
ScaleNotOverwritten == [][UpdateScale => replicas = scale]_vars

(***************************************************************************)
(* No reconcile sends a pod it has seen online elsewhere unless the        *)
(* direction of the profile allows to scale down, nor brings a pod back    *)
(* online unless it allows to scale up, whatever the other states lack.    *)
(***************************************************************************)
DirectionRespected ==
  [][PlanStateChange =>
       /\ rp.spec.direction \in {"Up", "Neither"} =>
            \A i \in plan'["labelCutoff"] \union plan'["labelStandby"] :
              listed[i].state # "Online"
       /\ rp.spec.direction \in {"Down", "Neither"} => plan'["labelOnline"] = {}]_vars

(***************************************************************************)
(* When the direction does not allow to scale down, no running online pod  *)
(* of the StatefulSet is scaled away.                                      *)
(***************************************************************************)
ScaleRespectsDirection ==
  [][UpdateScale /\ rp.spec.direction \in {"Up", "Neither"} =>
       \A i \in Labelled("Online") : i < replicas']_vars
=============================================================================
