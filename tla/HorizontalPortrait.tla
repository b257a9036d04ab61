-------------------------- MODULE HorizontalPortrait --------------------------
(***************************************************************************)
(* The controller of the HorizontalPortrait: it fills one portrait with    *)
(* data, either by a generator it calls every sync period (algorithm       *)
(* KubeHPA), or by an external job (algorithm ExternalJob), a CronJob that *)
(* it keeps and whose result it takes from a ConfigMap.                    *)
(*                                                                         *)
(* What the job writes into the ConfigMap, and what the generator makes of *)
(* the metrics of the moment, comes from outside and changes at will.      *)
(***************************************************************************)
EXTENDS Integers, FiniteSets

CONSTANTS
  Nil,
  JobTypes,       \* types of external jobs there is a controller for
  PortraitTypes,  \* types of portraits there is a generator for
  Fields,         \* parts of a job's template that a patch sends one by one
  Specs,          \* specs a portrait may be given
  Datas,          \* data a portrait may be filled with
  Broken,         \* the content of a ConfigMap that is not portrait data
  Troubles        \* how often each kind of disturbance may happen, in every
                  \* mixture that is tried: a bound

TroubleKinds == {"edit", "result", "load", "failure", "crash"}

ASSUME PortraitAssumption ==
  /\ Nil \notin JobTypes \union Datas \union {Broken}
  /\ \A s \in Specs :
       s.algorithm = "ExternalJob" => s.template = [f \in Fields |-> s.template[f]]
  /\ Broken \notin Datas
  /\ Troubles \subseteq [TroubleKinds -> Nat]
  /\ \E t \in Troubles : \A u \in Troubles : u["edit"] <= t["edit"]

\* external says that someone else fills the portrait (ExternalGeneratorName);
\* template is the spec of the CronJob with its defaults filled in, part by part.
\* Its labels and annotations, which are only ever added to, are left out.
PortraitSpec(external, portrait, algorithm, job, template) ==
  [external |-> external, portrait |-> portrait, algorithm |-> algorithm, job |-> job,
   template |-> template]

\* The data, and the generation and outcome of the condition PortraitGenerated.
NoStatus == [data |-> Nil, generation |-> 0, succeeded |-> FALSE]

NoPortrait ==
  [exists |-> FALSE, deleting |-> FALSE, finalizer |-> FALSE, generation |-> 0,
   spec |-> Nil, status |-> NoStatus]
NewPortrait(g, s) == [NoPortrait EXCEPT !.exists = TRUE, !.generation = g, !.spec = s]

VARIABLES
  \* the API server
  hp,         \* the portrait
  job,        \* the template of the job of each type, Nil if there is none
  result,     \* the content of the ConfigMap, Nil if there is none
  \* the metrics
  load,       \* the data the generator would come up with, Nil for an error
  \* the manager's memory
  cachedHp, lagging, \* the portrait in the informer cache, and whether it was written since
  cachedJob, cachedResult,
  queued,     \* the portrait's key is in the work queue
  timer,      \* RequeueAfter is going to add it
  lastJob,    \* the job type last seen (externalAlgorithmJobTypesMap)
  \* the reconcile in flight
  pc,         \* the call it makes next
  copy,       \* its copy of the portrait
  conflict,   \* the portrait was written since the copy was taken
  data,       \* the data it has got
  \* history: what the controller missed, by the type of the job
  overlooked, \* it deleted no job, for the cache showed none yet
  forgotten,  \* the job was there at a restart, and no reconcile has asked for it since
  outdated,   \* the cached copy was behind when the job was last kept or updated
  statusLeft, \* and the status, left as it is for a copy that was behind
  \* bound
  left        \* disturbances that may still happen

worldVars == <<job, result, load>>
cacheVars == <<cachedHp, lagging, cachedJob, cachedResult>>
localVars == <<pc, copy, conflict, data>>
jobHistory == <<overlooked, forgotten, outdated>>
historyVars == <<jobHistory, statusLeft>>
vars == <<hp, worldVars, cacheVars, queued, timer, lastJob, localVars, historyVars, left>>

IdleLocals ==
  /\ pc' = "idle"
  /\ copy' = NoPortrait
  /\ conflict' = FALSE
  /\ data' = Nil

Init ==
  /\ \E s \in Specs : hp = NewPortrait(1, s)
  /\ job = [j \in JobTypes |-> Nil]
  /\ result = Nil
  /\ load = Nil
  /\ cachedHp = NoPortrait
  /\ lagging = TRUE
  /\ cachedJob = job
  /\ cachedResult = Nil
  /\ queued = FALSE
  /\ timer = FALSE
  /\ lastJob = Nil
  /\ pc = "idle"
  /\ copy = NoPortrait
  /\ conflict = FALSE
  /\ data = Nil
  /\ overlooked = {} /\ forgotten = {} /\ outdated = {}
  /\ statusLeft = FALSE
  /\ left \in Troubles

Spend(kind) ==
  /\ left[kind] > 0
  /\ left' = [left EXCEPT ![kind] = @ - 1]

Done ==
  /\ IdleLocals
  /\ UNCHANGED <<queued, timer>>

Retry ==
  /\ IdleLocals
  /\ queued' = TRUE
  /\ UNCHANGED timer

\* A status update goes out when there is something new, with the resource
\* version of the copy.
CanStore == hp.exists /\ ~ conflict

StoreStatus(status) ==
  /\ hp' = [hp EXCEPT !.status = status]
  /\ lagging' = TRUE

LeaveStatus == UNCHANGED <<hp, lagging>>

FailedStatus == [copy.status EXCEPT !.generation = copy.generation, !.succeeded = FALSE]

\* errorOut: that the failure cannot be recorded is only logged.
ErrorOut ==
  IF FailedStatus # copy.status /\ CanStore THEN StoreStatus(FailedStatus) ELSE LeaveStatus

-----------------------------------------------------------------------------
Take(next) ==
  /\ pc' = next
  /\ copy' = cachedHp
  /\ conflict' = lagging
  /\ UNCHANGED data

AfterFinalizer(p) == IF p.spec.algorithm = "ExternalJob" THEN "previousJob" ELSE "lastJob"

Begin ==
  /\ pc = "idle"
  /\ queued
  /\ queued' = FALSE
  /\ UNCHANGED <<hp, worldVars, cacheVars, timer, lastJob, historyVars, left>>

BeginNothingToDo ==
  /\ Begin
  /\ ~ cachedHp.exists \/ (cachedHp.deleting /\ ~ cachedHp.finalizer)
  /\ UNCHANGED localVars

BeginDeletion ==
  /\ Begin
  /\ cachedHp.exists /\ cachedHp.deleting /\ cachedHp.finalizer
  /\ Take("finalCleanup")

BeginFirst ==
  /\ Begin
  /\ cachedHp.exists /\ ~ cachedHp.deleting /\ ~ cachedHp.finalizer
  /\ Take("addFinalizer")

BeginAgain ==
  /\ Begin
  /\ cachedHp.exists /\ ~ cachedHp.deleting /\ cachedHp.finalizer
  /\ Take(AfterFinalizer(cachedHp))

\* The answer to the patch replaces the copy.
AddFinalizer ==
  /\ pc = "addFinalizer"
  /\ hp.exists
  /\ hp' = [hp EXCEPT !.finalizer = TRUE]
  /\ copy' = hp'
  /\ pc' = AfterFinalizer(hp)
  /\ conflict' = FALSE
  /\ lagging' = TRUE
  /\ UNCHANGED <<worldVars, cachedHp, cachedJob, cachedResult, queued, timer, lastJob, data,
                 historyVars, left>>

RemoveFinalizer ==
  /\ pc = "removeFinalizer"
  /\ hp.exists
  /\ hp' = IF hp.deleting THEN NoPortrait ELSE [hp EXCEPT !.finalizer = FALSE]
  /\ lagging' = TRUE
  /\ Done
  /\ UNCHANGED <<worldVars, cachedHp, cachedJob, cachedResult, lastJob, historyVars, left>>

FinalizerPatchMisses ==
  /\ pc \in {"addFinalizer", "removeFinalizer"}
  /\ ~ hp.exists
  /\ Retry
  /\ UNCHANGED <<hp, worldVars, cacheVars, lastJob, historyVars, left>>

-----------------------------------------------------------------------------
(***************************************************************************)
(* CleanupJob deletes the job of a type if it is seen; next is the type    *)
(* remembered after it.                                                    *)
(***************************************************************************)
Remember(next) ==
  /\ lastJob' = next
  /\ forgotten' = forgotten \ {next}

Overlooks(j) == cachedJob[j] = Nil /\ job[j] # Nil

CleanupJob(j, next) ==
  /\ job' = IF cachedJob[j] # Nil THEN [job EXCEPT ![j] = Nil] ELSE job
  /\ overlooked' = (IF Overlooks(j) THEN overlooked \union {j} ELSE overlooked \ {j}) \ {next}
  /\ outdated' = outdated \ {j}
  /\ Remember(next)

\* The job type that was last seen, when the portrait is deleted or its
\* algorithm needs no job.
CleansLastJob == pc \in {"lastJob", "finalCleanup"}

CleanupLastJob ==
  /\ CleansLastJob
  /\ IF lastJob = Nil THEN UNCHANGED <<job, lastJob, jobHistory>> ELSE CleanupJob(lastJob, Nil)
  /\ pc' = IF pc = "finalCleanup" THEN "removeFinalizer" ELSE "generate"
  /\ UNCHANGED <<hp, result, load, cacheVars, queued, timer, copy, conflict, data, statusLeft, left>>

KnownJob == copy.spec.job \in JobTypes

\* No job of another type is dealt with.
GoOnWithJob ==
  /\ overlooked' = overlooked \ {copy.spec.job}
  /\ Remember(copy.spec.job)
  /\ pc' = "updateJob"
  /\ UNCHANGED <<hp, worldVars, cacheVars, queued, timer, copy, conflict, data, outdated, statusLeft,
                 left>>

\* A slip: only the job of the new type is dealt with.
LeavePreviousJob == pc = "previousJob" /\ KnownJob /\ GoOnWithJob

\* The job of another type that was seen before goes first.
CleanupPreviousJob ==
  /\ pc = "previousJob"
  /\ KnownJob
  /\ lastJob \notin {Nil, copy.spec.job}
  /\ CleanupJob(lastJob, copy.spec.job)
  /\ pc' = "updateJob"
  /\ UNCHANGED <<hp, result, load, cacheVars, queued, timer, copy, conflict, data, statusLeft, left>>

NoPreviousJob ==
  /\ pc = "previousJob"
  /\ KnownJob
  /\ lastJob \in {Nil, copy.spec.job}
  /\ GoOnWithJob

UnknownJob ==
  /\ pc = "previousJob"
  /\ ~ KnownJob
  /\ ErrorOut
  /\ Retry
  /\ UNCHANGED <<worldVars, cachedHp, cachedJob, cachedResult, lastJob, historyVars, left>>

(***************************************************************************)
(* UpdateJob creates or patches the job.  The patch sends the parts in     *)
(* which the wanted template differs from the cached copy, whatever is     *)
(* stored by then (client.MergeFrom).                                      *)
(***************************************************************************)
SeenJob == cachedJob[copy.spec.job]
UpdateNeeded == pc = "updateJob" /\ SeenJob # copy.spec.template

Patched(base, new, stored) ==
  [f \in DOMAIN new |-> IF base[f] = new[f] THEN stored[f] ELSE new[f]]

JobDealtWith ==
  /\ outdated' = IF SeenJob = job[copy.spec.job] THEN outdated \ {copy.spec.job}
                 ELSE outdated \union {copy.spec.job}
  /\ pc' = "fetch"
  /\ UNCHANGED <<hp, result, load, cacheVars, queued, timer, lastJob, copy, conflict, data, overlooked,
                 forgotten, statusLeft, left>>

KeepJob ==
  /\ pc = "updateJob"
  /\ ~ UpdateNeeded
  /\ JobDealtWith
  /\ UNCHANGED job

UpdateJob ==
  /\ UpdateNeeded
  /\ (SeenJob = Nil) <=> (job[copy.spec.job] = Nil)
  /\ job' = [job EXCEPT ![copy.spec.job] =
               IF SeenJob = Nil THEN copy.spec.template ELSE Patched(SeenJob, copy.spec.template, @)]
  /\ JobDealtWith

\* AlreadyExists, or NotFound: the cache was behind.
UpdateJobMisses ==
  /\ UpdateNeeded
  /\ ~ ((SeenJob = Nil) <=> (job[copy.spec.job] = Nil))
  /\ ErrorOut
  /\ Retry
  /\ UNCHANGED <<worldVars, cachedHp, cachedJob, cachedResult, lastJob, historyVars, left>>

(***************************************************************************)
(* The data: from the ConfigMap, or from the generator.  A generator asks  *)
(* to be called again after the sync period.                               *)
(***************************************************************************)
Got(d) ==
  /\ data' = d
  /\ pc' = "report"
  /\ UNCHANGED <<hp, worldVars, cacheVars, queued, timer, lastJob, copy, conflict, historyVars, left>>

GotNothing ==
  /\ ErrorOut
  /\ Retry
  /\ UNCHANGED <<worldVars, cachedHp, cachedJob, cachedResult, lastJob, historyVars, left>>

FetchResult ==
  /\ pc = "fetch"
  /\ IF cachedResult \in {Nil, Broken} THEN GotNothing ELSE Got(cachedResult)

HasGenerator == copy.spec.portrait \in PortraitTypes

Generate ==
  /\ pc = "generate"
  /\ HasGenerator
  /\ IF load = Nil THEN GotNothing ELSE Got(load)

\* Nobody tries again, not even to record it.
NoGenerator ==
  /\ pc = "generate"
  /\ ~ HasGenerator
  /\ ErrorOut
  /\ Done
  /\ UNCHANGED <<worldVars, cachedHp, cachedJob, cachedResult, lastJob, historyVars, left>>

\* A slip: nobody calls the generator again.
TimerAfterOnce == timer

\* Result{RequeueAfter: requeueAfter}, the sync period or nothing.
TimerAfter == timer \/ copy.spec.algorithm # "ExternalJob"

NewStatus == [data |-> data, generation |-> copy.generation, succeeded |-> TRUE]

\* Nothing new, compared with the copy, which may be behind.
LeaveReport ==
  /\ pc = "report"
  /\ NewStatus = copy.status
  /\ LeaveStatus
  /\ statusLeft' = conflict
  /\ timer' = TimerAfter
  /\ UNCHANGED queued
  /\ IdleLocals
  /\ UNCHANGED <<worldVars, cachedHp, cachedJob, cachedResult, lastJob, jobHistory, left>>

StoreReport ==
  /\ pc = "report"
  /\ NewStatus # copy.status
  /\ CanStore
  /\ StoreStatus(NewStatus)
  /\ statusLeft' = FALSE
  /\ timer' = TimerAfter
  /\ UNCHANGED queued
  /\ IdleLocals
  /\ UNCHANGED <<worldVars, cachedHp, cachedJob, cachedResult, lastJob, jobHistory, left>>

ReportConflict ==
  /\ pc = "report"
  /\ NewStatus # copy.status
  /\ ~ CanStore
  /\ LeaveStatus
  /\ Retry
  /\ UNCHANGED <<worldVars, cachedHp, cachedJob, cachedResult, lastJob, historyVars, left>>

-----------------------------------------------------------------------------
(***************************************************************************)
(* Disturbances: a call that fails, with its failure recorded or not, and  *)
(* a restart of the manager.                                               *)
(***************************************************************************)
DeleteCallNext ==
  \/ CleansLastJob /\ lastJob # Nil /\ cachedJob[lastJob] # Nil
  \/ pc = "previousJob" /\ KnownJob /\ lastJob \notin {Nil, copy.spec.job}
       /\ cachedJob[lastJob] # Nil

\* A slip: the job counts as gone although its deletion failed.
ForgottenJob == IF CleansLastJob THEN Nil ELSE lastJob

RememberedJob == lastJob

CallFails ==
  /\ \/ DeleteCallNext
     \/ UpdateNeeded
     \/ pc \in {"addFinalizer", "removeFinalizer"}
     \/ pc = "report" /\ NewStatus # copy.status
  /\ Spend("failure")
  /\ LeaveStatus \/ (pc \in {"lastJob", "previousJob", "updateJob"} /\ ErrorOut)
  /\ lastJob' = RememberedJob
  /\ Retry
  /\ UNCHANGED <<worldVars, cachedHp, cachedJob, cachedResult, historyVars>>

\* A slip: a portrait that is being deleted is ignored, too.
WatchedAlive(p) == p.exists /\ ~ p.spec.external /\ ~ p.deleting

\* The predicate of the controller's watch: portraits others fill are ignored.
Watched(p) == p.exists /\ ~ p.spec.external

Restart ==
  /\ Spend("crash")
  /\ cachedHp' = hp
  /\ lagging' = FALSE
  /\ cachedJob' = job
  /\ cachedResult' = result
  /\ queued' = (Watched(hp) \/ (hp.exists /\ result # Nil))
  /\ timer' = FALSE
  /\ lastJob' = Nil
  /\ IdleLocals
  /\ forgotten' = {j \in JobTypes : job[j] # Nil}
  /\ UNCHANGED <<hp, worldVars, overlooked, outdated, statusLeft>>

-----------------------------------------------------------------------------
(***************************************************************************)
(* The watches.  A portrait wakes its controller when its generation       *)
(* changes, or when it comes or goes, and if it is not for others; a       *)
(* ConfigMap when it comes or its data change, if its portrait is known by *)
(* then; a job never.                                                      *)
(***************************************************************************)
DeliverHp ==
  /\ lagging
  /\ cachedHp' = hp
  /\ lagging' = FALSE
  /\ queued' = (queued \/ (cachedHp.generation # hp.generation
                            /\ Watched(IF hp.exists THEN hp ELSE cachedHp)))
  /\ UNCHANGED <<hp, worldVars, cachedJob, cachedResult, timer, lastJob, localVars, historyVars, left>>

DeliverJob ==
  /\ cachedJob # job
  /\ cachedJob' = job
  /\ UNCHANGED <<hp, worldVars, cachedHp, lagging, cachedResult, queued, timer, lastJob, localVars,
                 historyVars, left>>

DeliverResult ==
  /\ cachedResult # result
  /\ cachedResult' = result
  /\ queued' = (queued \/ (result # Nil /\ cachedHp.exists))
  /\ UNCHANGED <<hp, worldVars, cachedHp, lagging, cachedJob, timer, lastJob, localVars, historyVars,
                 left>>

SyncPeriodEnds ==
  /\ timer
  /\ timer' = FALSE
  /\ queued' = TRUE
  /\ UNCHANGED <<hp, worldVars, cacheVars, lastJob, localVars, historyVars, left>>

(***************************************************************************)
(* Who owns the portrait, the job that writes its result, and the metrics. *)
(***************************************************************************)
MostEdits == CHOOSE n \in {t["edit"] : t \in Troubles} : \A t \in Troubles : t["edit"] <= n
NextGeneration == 2 + MostEdits - left["edit"]

WriteHp(new) ==
  /\ Spend("edit")
  /\ hp' = new
  /\ lagging' = TRUE
  /\ conflict' = (pc # "idle")
  /\ UNCHANGED <<worldVars, cachedHp, cachedJob, cachedResult, queued, timer, lastJob, pc, copy, data,
                 historyVars>>

EditHp(s) ==
  /\ hp.exists /\ hp.spec # s
  /\ WriteHp([hp EXCEPT !.spec = s, !.generation = NextGeneration])

DeleteHp ==
  /\ hp.exists /\ ~ hp.deleting
  /\ WriteHp(IF hp.finalizer THEN [hp EXCEPT !.deleting = TRUE, !.generation = NextGeneration]
             ELSE NoPortrait)

CreateHp(s) == ~ hp.exists /\ WriteHp(NewPortrait(NextGeneration, s))

WriteResult(r) ==
  /\ r # result
  /\ Spend("result")
  /\ result' = r
  /\ UNCHANGED <<hp, job, load, cacheVars, queued, timer, lastJob, localVars, historyVars>>

LoadChanges(d) ==
  /\ d # load
  /\ Spend("load")
  /\ load' = d
  /\ UNCHANGED <<hp, job, result, cacheVars, queued, timer, lastJob, localVars, historyVars>>

-----------------------------------------------------------------------------
Reconcile ==
  \/ BeginNothingToDo \/ BeginDeletion \/ BeginFirst \/ BeginAgain
  \/ AddFinalizer \/ RemoveFinalizer \/ FinalizerPatchMisses
  \/ CleanupLastJob \/ CleanupPreviousJob \/ NoPreviousJob \/ UnknownJob
  \/ KeepJob \/ UpdateJob \/ UpdateJobMisses
  \/ FetchResult \/ Generate \/ NoGenerator
  \/ LeaveReport \/ StoreReport \/ ReportConflict

World ==
  \/ DeleteHp
  \/ \E s \in Specs : EditHp(s) \/ CreateHp(s)
  \/ \E r \in Datas \union {Nil, Broken} : WriteResult(r)
  \/ \E d \in Datas \union {Nil} : LoadChanges(d)

Next ==
  \/ Reconcile
  \/ DeliverHp \/ DeliverJob \/ DeliverResult \/ SyncPeriodEnds
  \/ World
  \/ CallFails \/ Restart

\* The worker, the watches and the sync period go on.
Fairness ==
  /\ WF_vars(Reconcile)
  /\ WF_vars(DeliverHp) /\ WF_vars(DeliverJob) /\ WF_vars(DeliverResult)
  /\ WF_vars(SyncPeriodEnds)

Spec == Init /\ [][Next]_vars /\ Fairness

-----------------------------------------------------------------------------
TypeOK ==
  /\ \A p \in {hp, cachedHp, copy} :
       p.spec \in Specs \union {Nil} /\ p.status.data \in Datas \union {Nil}
  /\ \A p \in {hp, cachedHp} : p.deleting => p.finalizer
  /\ result \in Datas \union {Nil, Broken}
  /\ load \in Datas \union {Nil}
  /\ lagging \in BOOLEAN /\ conflict \in BOOLEAN /\ queued \in BOOLEAN /\ timer \in BOOLEAN
  /\ lastJob \in JobTypes \union {Nil}
  /\ pc \in {"idle", "addFinalizer", "removeFinalizer", "finalCleanup", "lastJob", "previousJob", "updateJob",
             "fetch", "generate", "report"}
  /\ data \in Datas \union {Nil}
  /\ overlooked \union forgotten \union outdated \subseteq JobTypes
  /\ statusLeft \in BOOLEAN
  /\ left \in [TroubleKinds -> Nat]

InCharge == hp.exists /\ ~ hp.deleting /\ ~ hp.spec.external

AtRest ==
  /\ pc = "idle" /\ ~ queued
  /\ ~ lagging /\ cachedJob = job /\ cachedResult = result

Asks(p, j) == p.spec.algorithm = "ExternalJob" /\ p.spec.job = j

(***************************************************************************)
(* There is the job the portrait asks for and no other.  The exceptions    *)
(* are what nothing tells the controller of: a job it kept or patched by   *)
(* a cached copy that was behind may not be what was asked for; a job the  *)
(* cache did not show when it was to be deleted may be left, and so may    *)
(* one of a type that no reconcile has asked for since a restart; and      *)
(* portraits that were handed to others.                                   *)
(***************************************************************************)
JobsAsSpecified ==
  AtRest /\ (InCharge \/ ~ hp.exists) =>
    \A j \in JobTypes :
      IF hp.exists /\ Asks(hp, j) THEN job[j] = hp.spec.template \/ j \in outdated
      ELSE job[j] = Nil \/ j \in overlooked \union forgotten

\* No job is a mixture of what was asked for at different times.
NoMixedJobs ==
  \A j \in JobTypes : job[j] = Nil \/ \E s \in Specs : Asks([spec |-> s], j) /\ job[j] = s.template

(***************************************************************************)
(* A portrait goes after its jobs: the finalizer holds it until they are   *)
(* deleted, except the jobs that were overlooked, or forgotten in a        *)
(* restart.                                                                *)
(***************************************************************************)
JobsGoFirst ==
  [][hp.exists /\ hp.deleting /\ ~ hp'.exists =>
       \A j \in JobTypes : job'[j] = Nil \/ j \in (overlooked \union forgotten)']_vars

(***************************************************************************)
(* What the job wrote last is what the portrait holds in the end, and if   *)
(* it is filled by a generator, what the metrics ask for; except that the  *)
(* status was taken for up to date by a reconcile with an old copy of it.  *)
(***************************************************************************)
Healthy ==
  /\ hp.spec.algorithm = "ExternalJob" => hp.spec.job \in JobTypes /\ result \in Datas
  /\ hp.spec.algorithm # "ExternalJob" => hp.spec.portrait \in PortraitTypes /\ load \in Datas

UpToDate ==
  /\ hp.status.data = IF hp.spec.algorithm = "ExternalJob" THEN result ELSE load
  /\ hp.status.succeeded
  /\ hp.status.generation = hp.generation

EventuallyUpToDate == <>[](InCharge /\ Healthy => UpToDate \/ statusLeft)

\* The same without the exception.
AlwaysGetsUpToDate == <>[](InCharge /\ Healthy => UpToDate)

(***************************************************************************)
(* A portrait that is deleted goes, unless it was handed to others before. *)
(***************************************************************************)
DeletedPortraitsGo == <>[](hp.deleting => hp.spec.external)

\* The same without the exception.
EveryDeletedPortraitGoes == <>[](~ hp.deleting)
=============================================================================
