--------------------------------- MODULE IHPA ---------------------------------
(***************************************************************************)
(* The controller of the IntelligentHorizontalPodAutoscaler (IHPA): one    *)
(* autoscaler, the replicas its portrait wants, and the ReplicaProfile the *)
(* controller creates and patches to get there, in gray steps if the       *)
(* autoscaler has a strategy for it.                                       *)
(*                                                                         *)
(* The controller reads the autoscaler and the profile from informer       *)
(* caches, and keeps how far a gray change has come in the status of the   *)
(* autoscaler, with the time of the last step.  It wakes up for a new      *)
(* generation of either object, for a portrait that changes, and for its   *)
(* own timer (RequeueAfter), which it sets only while a step has to wait.  *)
(***************************************************************************)
EXTENDS GrayChange

CONSTANTS
  Specs,      \* specs an autoscaler may be given
  Portraits,  \* what the portrait providers may come up with, Nil for nothing valid
  ByHand,     \* online replicas a user may write into the profile
  Troubles    \* how often each kind of disturbance may happen, in every
              \* mixture that is tried: a bound

TroubleKinds == {"portrait", "edit", "failure", "crash", "tamper"}

ASSUME ConstantsAssumption ==
  /\ Specs \subseteq IHPASpec
  /\ Portraits \subseteq PortraitValue \union {Nil}
  /\ ByHand \subseteq Nat
  /\ Troubles \subseteq [TroubleKinds -> Nat]
  /\ \E most \in Troubles : \A t \in Troubles : t["edit"] <= most["edit"]

ScalingDirections == {"Both", "Up", "Down", "Neither"}

(***************************************************************************)
(* The autoscaler.  generation grows with its spec and goes on growing     *)
(* when it is deleted and created again; the uid is the generation it was  *)
(* created with.                                                           *)
(***************************************************************************)
Autoscaler ==
  [exists : BOOLEAN, uid : Nat, deleting : BOOLEAN, finalizer : BOOLEAN,
   generation : Nat, spec : IHPASpec, status : IHPAStatus]

NoBehavior == [disabled |-> FALSE, gray |-> Nil]
NoAutoscaler ==
  [exists |-> FALSE, uid |-> 0, deleting |-> FALSE, finalizer |-> FALSE,
   generation |-> 0,
   spec |-> [min |-> 0, max |-> 0, paused |-> FALSE, mode |-> "Auto",
             up |-> NoBehavior, down |-> NoBehavior, profile |-> "Default"],
   status |-> NoStatus]

NewAutoscaler(g, s) ==
  [NoAutoscaler EXCEPT !.exists = TRUE, !.uid = g, !.generation = g, !.spec = s]

\* The profile: its spec, and the uid in its owner reference.
ProfileSpec ==
  [online : Nat, cutoff : Nat, standby : Nat, paused : BOOLEAN,
   direction : ScalingDirections, behavior : {"Default", "Custom"}]
ReplicaProfile ==
  [exists : BOOLEAN, owner : Nat, deleting : BOOLEAN, spec : ProfileSpec]

NoProfile ==
  [exists |-> FALSE, owner |-> 0, deleting |-> FALSE,
   spec |-> [online |-> 0, cutoff |-> 0, standby |-> 0, paused |-> FALSE,
             direction |-> "Both", behavior |-> "Default"]]

VARIABLES
  \* the API server
  ihpa,        \* the autoscaler
  rp,          \* its profile
  \* the portrait providers
  portrait,    \* the value they would come up with now
  \* the manager's memory
  cachedIhpa,  \* the autoscaler in the informer cache
  lagging,     \* the autoscaler was written after the cached copy
  cachedRp,    \* the profile in the informer cache
  rpLagging,   \* the profile was written after the cached copy
  queued,      \* the autoscaler's key is in the work queue
  timer,       \* ticks until RequeueAfter adds it, Nil if it is not to
  \* the reconcile in flight
  pc,          \* the call it makes next
  copy,        \* its copy of the autoscaler
  original,    \* the status it believes to be stored (ihpaStatusOriginal)
  conflict,    \* the autoscaler was written since the copy was taken
  remain,      \* how long the gray change still has to wait
  \* history and bound
  sinceChange, \* ticks since the spec of the profile changed, up to MaxAge
  left         \* disturbances that may still happen

cacheVars == <<cachedIhpa, lagging, cachedRp, rpLagging>>
localVars == <<pc, copy, original, conflict, remain>>
vars == <<ihpa, rp, portrait, cacheVars, queued, timer, localVars, sinceChange, left>>

IdleLocals ==
  /\ pc' = "idle"
  /\ copy' = NoAutoscaler
  /\ original' = NoStatus
  /\ conflict' = FALSE
  /\ remain' = 0

Init ==
  /\ \E s \in Specs : ihpa = NewAutoscaler(1, s)
  /\ rp = NoProfile
  /\ portrait \in Portraits
  /\ cachedIhpa = NoAutoscaler
  /\ lagging = TRUE
  /\ cachedRp = NoProfile
  /\ rpLagging = FALSE
  /\ queued = FALSE
  /\ timer = Nil
  /\ pc = "idle"
  /\ copy = NoAutoscaler
  /\ original = NoStatus
  /\ conflict = FALSE
  /\ remain = 0
  /\ sinceChange = MaxAge
  /\ left \in Troubles

Spend(kind) ==
  /\ left[kind] > 0
  /\ left' = [left EXCEPT ![kind] = @ - 1]


-----------------------------------------------------------------------------
(***************************************************************************)
(* How a reconcile ends.                                                   *)
(***************************************************************************)

\* A slip: the time that remains is not handed to the work queue.
DoneUntimed(n) ==
  /\ IdleLocals
  /\ UNCHANGED <<queued, timer>>

\* return ctrl.Result{RequeueAfter: n}, nil: an earlier timer stays.
DoneAfter(n) ==
  /\ IdleLocals
  /\ UNCHANGED queued
  /\ timer' = CASE n = 0 -> timer
               [] n > 0 /\ timer = Nil -> n
               [] OTHER -> LesserOf(timer, n)

Done == DoneAfter(0)

\* return ctrl.Result{}, err (or a recovered panic): the key is queued again.
Retry ==
  /\ IdleLocals
  /\ queued' = TRUE
  /\ UNCHANGED timer

(***************************************************************************)
(* Status().Update carries the resource version of the copy, and is not    *)
(* sent when the status equals the one the copy came with.  A pointer to   *)
(* the zero time is stored as no time at all.                              *)
(***************************************************************************)
StatusUpToDate(status) == status = original

CanStoreStatus == ihpa.exists /\ ~ conflict

StoredValue(v) ==
  IF v # Nil /\ v.from = "zero" THEN [v EXCEPT !.from = "forever"] ELSE v

Stored(status) ==
  [status EXCEPT !.previous = StoredValue(@), !.current = StoredValue(@)]

StoreStatus(status) ==
  /\ ihpa' = [ihpa EXCEPT !.status = Stored(status)]
  /\ lagging' = (lagging \/ Stored(status) # ihpa.status)

LeaveStatus == UNCHANGED <<ihpa, lagging>>

(***************************************************************************)
(* errorOut: the failure is recorded, together with all the copy has by    *)
(* now, and a conflict is only logged.                                     *)
(***************************************************************************)
ErrorOut(status) ==
  IF ~ StatusUpToDate(status) /\ CanStoreStatus THEN StoreStatus(status) ELSE LeaveStatus

WithCondition(status, type, reason) ==
  [status EXCEPT ![type] = [reason |-> reason, generation |-> copy.generation]]

Failed(status) == WithCondition(status, "active", "Failed")

\* The profile is written; its spec may be the same.
WriteProfile(new) ==
  /\ rp' = new
  /\ rpLagging' = (rpLagging \/ new # rp)
  /\ sinceChange' = IF new.spec = rp.spec THEN sinceChange ELSE 0

LeaveProfile == UNCHANGED <<rp, rpLagging, sinceChange>>

-----------------------------------------------------------------------------
(***************************************************************************)
(* The head of Reconcile: get the autoscaler from the cache.               *)
(***************************************************************************)
Take(next) ==
  /\ pc' = next
  /\ copy' = cachedIhpa
  /\ original' = cachedIhpa.status
  /\ conflict' = lagging
  /\ UNCHANGED remain

Begin ==
  /\ pc = "idle"
  /\ queued
  /\ queued' = FALSE
  /\ UNCHANGED <<ihpa, rp, portrait, cacheVars, timer, sinceChange, left>>

BeginNothingToDo ==
  /\ Begin
  /\ ~ cachedIhpa.exists \/ (cachedIhpa.deleting /\ ~ cachedIhpa.finalizer)
  /\ UNCHANGED localVars

BeginDeletion ==
  /\ Begin
  /\ cachedIhpa.exists /\ cachedIhpa.deleting /\ cachedIhpa.finalizer
  /\ Take("removeFinalizer")

BeginFirst ==
  /\ Begin
  /\ cachedIhpa.exists /\ ~ cachedIhpa.deleting /\ ~ cachedIhpa.finalizer
  /\ Take("addFinalizer")

AfterFinalizer(a) == IF a.spec.paused THEN "pause" ELSE "fetch"

BeginAgain ==
  /\ Begin
  /\ cachedIhpa.exists /\ ~ cachedIhpa.deleting /\ cachedIhpa.finalizer
  /\ Take(AfterFinalizer(cachedIhpa))

\* The patch goes by name, also to an autoscaler created in the meantime.
RemoveFinalizer ==
  /\ pc = "removeFinalizer"
  /\ ihpa.exists
  /\ ihpa' = IF ihpa.deleting THEN NoAutoscaler ELSE [ihpa EXCEPT !.finalizer = FALSE]
  /\ lagging' = TRUE
  /\ Done
  /\ LeaveProfile
  /\ UNCHANGED <<portrait, cachedIhpa, cachedRp, left>>

\* The answer to the patch is the stored object, which replaces the copy.
AddFinalizer ==
  /\ pc = "addFinalizer"
  /\ ihpa.exists
  /\ \E stored \in {[ihpa EXCEPT !.finalizer = TRUE]} :
       /\ ihpa' = stored
       /\ copy' = stored
       /\ original' = stored.status
       /\ pc' = AfterFinalizer(stored)
  /\ conflict' = FALSE
  /\ lagging' = TRUE
  /\ LeaveProfile
  /\ UNCHANGED <<portrait, cachedIhpa, cachedRp, queued, timer, remain, left>>

FinalizerPatchMisses ==
  /\ pc \in {"removeFinalizer", "addFinalizer"}
  /\ ~ ihpa.exists
  /\ Retry
  /\ UNCHANGED <<ihpa, rp, portrait, cacheVars, sinceChange, left>>

-----------------------------------------------------------------------------
(***************************************************************************)
(* A paused autoscaler pauses its profile, if it sees one.                 *)
(***************************************************************************)
NeedsPausing == cachedRp.exists /\ ~ cachedRp.spec.paused

Pause ==
  /\ pc = "pause"
  /\ IF NeedsPausing
     THEN rp.exists /\ WriteProfile([rp EXCEPT !.spec.paused = TRUE])
     ELSE LeaveProfile
  /\ pc' = "pauseReport"
  /\ UNCHANGED <<ihpa, portrait, cachedIhpa, lagging, cachedRp, queued, timer,
                 copy, original, conflict, remain, left>>

PauseMisses ==
  /\ pc = "pause"
  /\ NeedsPausing
  /\ ~ rp.exists
  /\ ErrorOut(Failed(copy.status))
  /\ Retry
  /\ LeaveProfile
  /\ UNCHANGED <<portrait, cachedIhpa, cachedRp, left>>

\* A status update and the return that follows it.
StoreStatusAndReturn(status, n) ==
  \/ StatusUpToDate(status) /\ LeaveStatus /\ DoneAfter(n)
  \/ ~ StatusUpToDate(status) /\ CanStoreStatus /\ StoreStatus(status) /\ DoneAfter(n)
  \/ ~ StatusUpToDate(status) /\ ~ CanStoreStatus /\ LeaveStatus /\ Retry

PausedStatus == WithCondition(copy.status, "active", "Paused")

PauseReport ==
  /\ pc = "pauseReport"
  /\ StoreStatusAndReturn(PausedStatus, 0)
  /\ LeaveProfile
  /\ UNCHANGED <<portrait, cachedIhpa, cachedRp, left>>

-----------------------------------------------------------------------------
(***************************************************************************)
(* Fetch the portrait value.  One that differs from the current value in   *)
(* the status starts a change from that value to itself.                   *)
(***************************************************************************)
NoValue == pc = "fetch" /\ portrait = Nil

FetchNothing ==
  /\ NoValue
  /\ ErrorOut(WithCondition(copy.status, "active", "NoValue"))
  /\ Done
  /\ LeaveProfile
  /\ UNCHANGED <<portrait, cachedIhpa, cachedRp, left>>

\* The status update of errorOut fails, and nobody tries again.
FetchNothingUnrecorded ==
  /\ NoValue
  /\ Spend("failure")
  /\ Done
  /\ UNCHANGED <<ihpa, rp, portrait, cacheVars, sinceChange>>

Adopted(spec, status, value) ==
  LET adopted == [status EXCEPT
                    !.previous = IF status.current = Nil THEN @ ELSE status.current,
                    !.current = value]
  IN  IF IsGrayActive(spec, adopted)
      THEN [adopted EXCEPT !.gray = [percent |-> 0, age |-> 0]]
      ELSE adopted

Fetch ==
  /\ pc = "fetch"
  /\ portrait # Nil
  /\ IF copy.status.current = portrait
     THEN pc' = "act" /\ UNCHANGED copy
     ELSE /\ pc' = "storeValue"
          /\ copy' = [copy EXCEPT !.status = Adopted(copy.spec, copy.status, portrait)]
  /\ UNCHANGED <<ihpa, rp, portrait, cacheVars, queued, timer, original, conflict,
                 remain, sinceChange, left>>

StoreValue ==
  /\ pc = "storeValue"
  /\ CanStoreStatus
  /\ StoreStatus(copy.status)
  /\ copy' = [copy EXCEPT !.status = Stored(@)]
  /\ original' = Stored(copy.status)
  /\ pc' = "act"
  /\ LeaveProfile
  /\ UNCHANGED <<portrait, cachedIhpa, cachedRp, queued, timer, conflict, remain, left>>

StoreValueConflict ==
  /\ pc = "storeValue"
  /\ ~ CanStoreStatus
  /\ Retry
  /\ UNCHANGED <<ihpa, rp, portrait, cacheVars, sinceChange, left>>

-----------------------------------------------------------------------------
(***************************************************************************)
(* Act on the value.  In Auto mode the profile is created or patched to    *)
(* what generateIHPAReplicaData says, in Preview mode it is deleted.       *)
(***************************************************************************)
AutoMode == pc = "act" /\ copy.spec.mode = "Auto"

AllowedScalingDirection(spec) ==
  CASE ~ spec.up.disabled /\ ~ spec.down.disabled -> "Both"
    [] ~ spec.up.disabled /\ spec.down.disabled   -> "Up"
    [] spec.up.disabled /\ ~ spec.down.disabled   -> "Down"
    [] OTHER -> "Neither"

WantedProfileSpec(spec, data) ==
  [online |-> data.online, cutoff |-> data.cutoff, standby |-> data.standby,
   paused |-> spec.paused, direction |-> AllowedScalingDirection(spec),
   behavior |-> spec.profile]

CopyCapped == CappedStatus(copy.spec, copy.status)
Generated == GenerateReplicaData(copy.spec, CopyCapped)
Wanted == WantedProfileSpec(copy.spec, Generated.data)

\* The status as generateIHPAReplicaData and the switch after it leave it.
GeneratedStatus ==
  WithCondition([CopyCapped EXCEPT !.gray = Generated.gray], "limited",
    Limit(copy.spec, copy.status.current.replicas))

ProgressingStatus(online) ==
  WithCondition(GeneratedStatus, "progressing",
    IF GeneratedStatus.current.replicas = online THEN "Match" ELSE "NotMatch")

\* The panic is recovered by the controller, which queues the key again.
GeneratePanics ==
  /\ AutoMode
  /\ HasNoGrayStatus(copy.spec, CopyCapped)
  /\ Retry
  /\ UNCHANGED <<ihpa, rp, portrait, cacheVars, sinceChange, left>>

Generate == AutoMode /\ ~ HasNoGrayStatus(copy.spec, CopyCapped)

ReportNext(online) ==
  /\ copy' = [copy EXCEPT !.status = ProgressingStatus(online)]
  /\ remain' = Generated.remain
  /\ pc' = "report"
  /\ UNCHANGED <<ihpa, portrait, cachedIhpa, lagging, cachedRp, queued, timer,
                 original, conflict, left>>

CreateProfile ==
  /\ Generate
  /\ ~ cachedRp.exists
  /\ ~ rp.exists
  /\ WriteProfile([exists |-> TRUE, owner |-> copy.uid, deleting |-> FALSE, spec |-> Wanted])
  /\ ReportNext(Wanted.online)

NeedsPatch == Generate /\ cachedRp.exists /\ cachedRp.spec # Wanted

\* The cache shows the profile as wanted: there is nothing to send.
KeepProfile ==
  /\ Generate
  /\ cachedRp.exists
  /\ ~ NeedsPatch
  /\ LeaveProfile
  /\ ReportNext(Wanted.online)

\* The patch is the difference to the cached copy; its answer is the stored profile.
Patched ==
  [f \in DOMAIN Wanted |-> IF cachedRp.spec[f] = Wanted[f] THEN rp.spec[f] ELSE Wanted[f]]

PatchProfile ==
  /\ NeedsPatch
  /\ rp.exists
  /\ WriteProfile([rp EXCEPT !.spec = Patched])
  /\ ReportNext(Patched.online)

\* AlreadyExists, or NotFound: the cache was behind.
ProfileCallMisses ==
  /\ \/ Generate /\ ~ cachedRp.exists /\ rp.exists
     \/ NeedsPatch /\ ~ rp.exists
  /\ ErrorOut(Failed(GeneratedStatus))
  /\ Retry
  /\ LeaveProfile
  /\ UNCHANGED <<portrait, cachedIhpa, cachedRp, left>>

PreviewMode == pc = "act" /\ copy.spec.mode = "Preview"

\* NotFound is as good as deleted.
DeleteProfile ==
  /\ PreviewMode
  /\ IF cachedRp.exists /\ rp.exists
     THEN WriteProfile([rp EXCEPT !.deleting = TRUE])
     ELSE LeaveProfile
  /\ pc' = "report"
  /\ UNCHANGED <<ihpa, portrait, cachedIhpa, lagging, cachedRp, queued, timer,
                 copy, original, conflict, remain, left>>

FinalStatus == WithCondition(copy.status, "active", "Succeeded")

Report ==
  /\ pc = "report"
  /\ StoreStatusAndReturn(FinalStatus, remain)
  /\ LeaveProfile
  /\ UNCHANGED <<portrait, cachedIhpa, cachedRp, left>>

-----------------------------------------------------------------------------
(***************************************************************************)
(* Disturbances.                                                           *)
(***************************************************************************)

GenerateCallNext == Generate /\ (~ cachedRp.exists \/ NeedsPatch)

OtherCallNext ==
  \/ pc = "pause" /\ NeedsPausing
  \/ pc = "fetch"
  \/ PreviewMode /\ cachedRp.exists

StatusCallNext ==
  \/ pc = "storeValue"
  \/ pc = "pauseReport" /\ ~ StatusUpToDate(PausedStatus)
  \/ pc = "report" /\ ~ StatusUpToDate(FinalStatus)

\* Any call may fail, the fetch of the portrait value included; the status
\* update of errorOut may fail along with it.
CallFails ==
  /\ \/ GenerateCallNext /\ ErrorOut(Failed(GeneratedStatus))
     \/ OtherCallNext /\ ErrorOut(Failed(copy.status))
     \/ LeaveStatus
  /\ \/ pc \in {"removeFinalizer", "addFinalizer"}
     \/ GenerateCallNext \/ OtherCallNext \/ StatusCallNext
  /\ Spend("failure")
  /\ Retry
  /\ LeaveProfile
  /\ UNCHANGED <<portrait, cachedIhpa, cachedRp>>

\* The timers of the work queue are lost, the caches are filled anew.
Restart ==
  /\ Spend("crash")
  /\ cachedIhpa' = ihpa
  /\ lagging' = FALSE
  /\ cachedRp' = rp
  /\ rpLagging' = FALSE
  /\ queued' = (ihpa.exists \/ rp.exists)
  /\ timer' = Nil
  /\ IdleLocals
  /\ UNCHANGED <<ihpa, rp, portrait, sinceChange>>

-----------------------------------------------------------------------------
(***************************************************************************)
(* The watches: updates that keep the generation wake nobody.              *)
(***************************************************************************)
DeliverIhpa ==
  /\ lagging
  /\ cachedIhpa' = ihpa
  /\ lagging' = FALSE
  /\ queued' = (queued \/ cachedIhpa.generation # ihpa.generation)
  /\ UNCHANGED <<ihpa, rp, portrait, cachedRp, rpLagging, timer, localVars, sinceChange, left>>

\* A slip: the profile is cached, but a change of it wakes nobody.
DeliverRpUnwatched ==
  /\ rpLagging
  /\ cachedRp' = rp
  /\ rpLagging' = FALSE
  /\ UNCHANGED <<ihpa, rp, portrait, cachedIhpa, lagging, queued, timer, localVars,
                 sinceChange, left>>

\* Every change of the profile that is modelled changes its generation.
DeliverRp ==
  /\ rpLagging
  /\ cachedRp' = rp
  /\ rpLagging' = FALSE
  /\ queued' = TRUE
  /\ UNCHANGED <<ihpa, rp, portrait, cachedIhpa, lagging, timer, localVars, sinceChange, left>>

Young(status) == status.gray # Nil /\ status.gray.age < MaxAge

Aged(status) ==
  IF status.gray = Nil THEN status
  ELSE [status EXCEPT !.gray.age = LesserOf(MaxAge, @ + 1)]

\* Time passes, as long as it makes a difference to anything.
Tick ==
  /\ \/ timer # Nil
     \/ sinceChange < MaxAge
     \/ \E status \in {ihpa.status, cachedIhpa.status, copy.status, original} : Young(status)
  /\ ihpa' = [ihpa EXCEPT !.status = Aged(@)]
  /\ cachedIhpa' = [cachedIhpa EXCEPT !.status = Aged(@)]
  /\ copy' = [copy EXCEPT !.status = Aged(@)]
  /\ original' = Aged(original)
  /\ sinceChange' = LesserOf(MaxAge, sinceChange + 1)
  /\ timer' = IF timer \in {Nil, 1} THEN Nil ELSE timer - 1
  /\ queued' = (queued \/ timer = 1)
  /\ UNCHANGED <<rp, portrait, lagging, cachedRp, rpLagging, pc, conflict, remain, left>>

-----------------------------------------------------------------------------
(***************************************************************************)
(* The owner of the autoscaler, a user who meddles with the profile, and   *)
(* the portrait providers, which announce what they come up with.          *)
(***************************************************************************)
MostEdits == CHOOSE n \in {t["edit"] : t \in Troubles} : \A t \in Troubles : t["edit"] <= n
NextGeneration == 2 + MostEdits - left["edit"]

WriteIhpa(new) ==
  /\ Spend("edit")
  /\ ihpa' = new
  /\ lagging' = TRUE
  /\ conflict' = (pc # "idle")
  /\ LeaveProfile
  /\ UNCHANGED <<portrait, cachedIhpa, cachedRp, queued, timer, pc, copy, original, remain>>

EditIhpa(s) ==
  /\ ihpa.exists
  /\ ihpa.spec # s
  /\ WriteIhpa([ihpa EXCEPT !.spec = s, !.generation = NextGeneration])

DeleteIhpa ==
  /\ ihpa.exists /\ ~ ihpa.deleting
  /\ WriteIhpa(IF ihpa.finalizer
               THEN [ihpa EXCEPT !.deleting = TRUE, !.generation = NextGeneration]
               ELSE NoAutoscaler)

CreateIhpa(s) ==
  /\ ~ ihpa.exists
  /\ WriteIhpa(NewAutoscaler(NextGeneration, s))

PortraitChanges(v) ==
  /\ v # portrait
  /\ Spend("portrait")
  /\ portrait' = v
  /\ queued' = TRUE
  /\ UNCHANGED <<ihpa, rp, cacheVars, timer, localVars, sinceChange>>

EditProfile(n) ==
  /\ rp.exists
  /\ rp.spec.online # n
  /\ Spend("tamper")
  /\ WriteProfile([rp EXCEPT !.spec.online = n])
  /\ UNCHANGED <<ihpa, portrait, cachedIhpa, lagging, cachedRp, queued, timer, localVars>>

(***************************************************************************)
(* The garbage collector deletes a profile whose owner is gone; a profile  *)
(* that is being deleted goes when its own controller lets it.             *)
(***************************************************************************)
CollectProfile ==
  /\ rp.exists /\ ~ rp.deleting
  /\ ~ ihpa.exists \/ ihpa.uid # rp.owner
  /\ WriteProfile([rp EXCEPT !.deleting = TRUE])
  /\ UNCHANGED <<ihpa, portrait, cachedIhpa, lagging, cachedRp, queued, timer,
                 localVars, left>>

ProfileGoes ==
  /\ rp.exists /\ rp.deleting
  /\ WriteProfile(NoProfile)
  /\ UNCHANGED <<ihpa, portrait, cachedIhpa, lagging, cachedRp, queued, timer,
                 localVars, left>>

-----------------------------------------------------------------------------
Reconcile ==
  \/ BeginNothingToDo \/ BeginDeletion \/ BeginFirst \/ BeginAgain
  \/ RemoveFinalizer \/ AddFinalizer \/ FinalizerPatchMisses
  \/ Pause \/ PauseMisses \/ PauseReport
  \/ FetchNothing \/ Fetch \/ StoreValue \/ StoreValueConflict
  \/ GeneratePanics \/ CreateProfile \/ KeepProfile \/ PatchProfile \/ ProfileCallMisses
  \/ DeleteProfile
  \/ Report

Own ==
  \/ DeleteIhpa
  \/ \E s \in Specs : EditIhpa(s) \/ CreateIhpa(s)

Disturb ==
  \/ CallFails \/ FetchNothingUnrecorded \/ Restart
  \/ \E v \in Portraits : PortraitChanges(v)
  \/ \E n \in ByHand : EditProfile(n)

Next ==
  \/ Reconcile
  \/ DeliverIhpa \/ DeliverRp
  \/ Tick
  \/ CollectProfile \/ ProfileGoes
  \/ Own
  \/ Disturb

(***************************************************************************)
(* The worker, the watches, the clock and the other controllers go on; the *)
(* owner, the portraits and the disturbances owe nothing.                  *)
(***************************************************************************)
Fairness ==
  /\ WF_vars(Reconcile)
  /\ WF_vars(DeliverIhpa) /\ WF_vars(DeliverRp)
  /\ WF_vars(Tick)
  /\ WF_vars(CollectProfile) /\ WF_vars(ProfileGoes)

Spec == Init /\ [][Next]_vars /\ Fairness

-----------------------------------------------------------------------------
ProgramCounters ==
  {"idle", "removeFinalizer", "addFinalizer", "pause", "pauseReport", "fetch",
   "storeValue", "act", "report"}

TypeOK ==
  /\ ihpa \in Autoscaler
  /\ rp \in ReplicaProfile
  /\ portrait \in PortraitValue \union {Nil}
  /\ cachedIhpa \in Autoscaler
  /\ lagging \in BOOLEAN
  /\ cachedRp \in ReplicaProfile
  /\ rpLagging \in BOOLEAN
  /\ queued \in BOOLEAN
  /\ timer \in 1 .. MaxAge \union {Nil}
  /\ pc \in ProgramCounters
  /\ copy \in Autoscaler
  /\ original \in IHPAStatus
  /\ conflict \in BOOLEAN
  /\ remain \in 0 .. MaxAge
  /\ sinceChange \in 0 .. MaxAge
  /\ left \in [TroubleKinds -> Nat]

(***************************************************************************)
(* Once the portrait and the owner leave things alone, the profile becomes *)
(* and stays what the autoscaler asks for: the portrait's replicas within  *)
(* the bounds and nothing in the gray state, in Auto mode; none at all in  *)
(* Preview mode or without an autoscaler; a paused one while it is paused. *)
(* No wake-up is lost between the watches, the timer and the work queue.   *)
(***************************************************************************)
InCharge == ihpa.exists /\ ~ ihpa.deleting /\ ~ ihpa.spec.paused /\ portrait # Nil

PortraitData ==
  [online |-> Capped(ihpa.spec, portrait.replicas), cutoff |-> 0, standby |-> 0]

Settled ==
  /\ ~ ihpa.exists => ~ rp.exists
  /\ ihpa.exists /\ ihpa.spec.paused /\ rp.exists => rp.spec.paused
  /\ InCharge /\ ihpa.spec.mode = "Preview" => ~ rp.exists
  /\ InCharge /\ ihpa.spec.mode = "Auto" =>
       rp.exists /\ ~ rp.deleting /\ rp.spec = WantedProfileSpec(ihpa.spec, PortraitData)

EventuallySettled == <>[]Settled

(***************************************************************************)
(* What is left of that in the face of failures and restarts: an           *)
(* autoscaler without a gray strategy settles whatever happened before,    *)
(* also when it had a strategy for a while; one with a strategy settles if *)
(* there is nothing but the portrait that disturbs it.                     *)
(***************************************************************************)
Gradual(spec) == spec.up.gray # Nil \/ spec.down.gray # Nil

EventuallySettledAtOnce == <>[](Gradual(ihpa.spec) \/ Settled)

OnlyThePortraitChanges == \A kind \in TroubleKinds \ {"portrait"} : left[kind] = 0

SettlesUndisturbed == OnlyThePortraitChanges => EventuallySettled

(***************************************************************************)
(* At rest, the condition of the autoscaler tells of the spec it has now:  *)
(* no edit is overlooked for a stale copy, a lost conflict or an event     *)
(* that came while a reconcile ran.  Without a portrait value that is not  *)
(* promised: that report may fail for good.                                *)
(***************************************************************************)
Quiescent ==
  pc = "idle" /\ ~ queued /\ ~ lagging /\ ~ rpLagging /\ timer = Nil

ReportsLatestSpec ==
  Quiescent /\ ihpa.exists /\ ~ ihpa.deleting /\ (portrait # Nil \/ ihpa.spec.paused) =>
    ihpa.status.active.generation = ihpa.generation

Total(s) == s.online + s.cutoff + s.standby

(***************************************************************************)
(* What the profile is asked for changes no faster than the gray strategy  *)
(* of its direction allows.  A change of the online replicas takes at most *)
(* its share of the largest change there is between two portrait values,   *)
(* rounded up to whole pods, and comes no earlier than the interval after  *)
(* the last one (GrayStrategy.ChangePercent and ChangeIntervalSeconds).    *)
(***************************************************************************)
LargestChange ==
  CHOOSE n \in {AbsOf(v.replicas - w.replicas) : v, w \in Portraits \ {Nil}} :
    \A v, w \in Portraits \ {Nil} : AbsOf(v.replicas - w.replicas) <= n

KeepsPace(strategy) ==
  strategy # Nil =>
    /\ AbsOf(rp'.spec.online - rp.spec.online)
         <= (LargestChange * strategy.percent + 99) \div 100
    /\ sinceChange >= strategy.interval

GrayPace ==
  [][rp.exists /\ rp'.exists =>
       /\ rp'.spec.online < rp.spec.online => KeepsPace(ihpa.spec.down.gray)
       /\ rp'.spec.online > rp.spec.online => KeepsPace(ihpa.spec.up.gray)]_vars

(***************************************************************************)
(* No pod is given up before it was observed in the gray state: with a     *)
(* strategy that keeps pods, the total of the profile only falls after its *)
(* replicas were left alone for the observation time                       *)
(* (GrayStrategy.ObservationSeconds).                                      *)
(***************************************************************************)
KeepsPods(strategy) == strategy # Nil /\ strategy.state \in {"Cutoff", "Standby"}

ObservedBeforeGivenUp ==
  [][rp.exists /\ rp'.exists /\ Total(rp'.spec) < Total(rp.spec)
     /\ KeepsPods(ihpa.spec.down.gray) =>
       sinceChange >= ihpa.spec.down.gray.observation]_vars

(***************************************************************************)
(* What the profile is asked for stays within the bounds of the autoscaler *)
(* (MinReplicas, MaxReplicas), as long as nobody edits the bounds or the   *)
(* profile: its online replicas are not below the one, all its replicas    *)
(* together not above the other.                                           *)
(***************************************************************************)
WithinBounds ==
  rp.exists /\ ihpa.exists =>
    rp.spec.online >= ihpa.spec.min /\ Total(rp.spec) <= ihpa.spec.max
=============================================================================
