----------------------- MODULE HorizontalPortraitProofs -----------------------
(***************************************************************************)
(* That a portrait goes after its jobs, and that the jobs there are in the *)
(* end are those it asks for, for any number of edits, deletions, failures *)
(* and restarts.                                                           *)
(*                                                                         *)
(* The controller remembers one type of job.  The invariant says that      *)
(* whatever job there is is of that type, or one it was bound to overlook. *)
(* The type is forgotten when its job was deleted, and only then does the  *)
(* reconcile get to the finalizer.                                         *)
(***************************************************************************)
EXTENDS HorizontalPortrait, TLAPS

JobsTypeOK ==
  /\ job = [j \in JobTypes |-> job[j]]
  /\ cachedJob = [j \in JobTypes |-> cachedJob[j]]
  /\ lastJob \in JobTypes \union {Nil}

\* There is no job of the type, or it was overlooked or forgotten.
Gone(j) == job[j] = Nil \/ j \in overlooked \union forgotten

JobsRemembered == \A j \in JobTypes : Gone(j) \/ j = lastJob

\* What the reconcile relies on at some of its calls.
JobsOfReconcile ==
  /\ pc = "removeFinalizer" => lastJob = Nil
  /\ pc = "updateJob" => lastJob = copy.spec.job /\ lastJob \in JobTypes

PortraitWhole ==
  hp = [exists |-> hp.exists, deleting |-> hp.deleting, finalizer |-> hp.finalizer,
        generation |-> hp.generation, spec |-> hp.spec, status |-> hp.status]

JobsInv == JobsTypeOK /\ JobsRemembered /\ JobsOfReconcile /\ PortraitWhole

JobsGone == \A j \in JobTypes : Gone(j)'

\* What a step has to do: portraits with a finalizer only go when their jobs
\* are gone.
Keeps == JobsInv' /\ (hp.exists /\ hp.deleting /\ ~ hp'.exists => JobsGone)

-----------------------------------------------------------------------------

PortraitStays == PortraitWhole' /\ (hp.exists /\ hp.deleting => hp'.exists)

\* What leaves the jobs alone, and the portrait that is being deleted.
LEMMA AsideKeeps ==
  ASSUME JobsInv, UNCHANGED <<job, cachedJob, lastJob, jobHistory>>,
         pc' \notin {"removeFinalizer", "updateJob"} \/ UNCHANGED <<pc, copy>>,
         PortraitStays
  PROVE  Keeps
  BY DEF JobsInv, JobsTypeOK, JobsRemembered, Gone, JobsOfReconcile, Keeps, PortraitStays, jobHistory

LEMMA StoringKeepsPortrait ==
  ASSUME JobsInv, LeaveStatus \/ ErrorOut \/ (\E s : StoreStatus(s)) \/ UNCHANGED hp
  PROVE  PortraitStays
<1>1. CASE LeaveStatus \/ UNCHANGED hp
  BY <1>1 DEF LeaveStatus, JobsInv, PortraitWhole, PortraitStays
<1>2. CASE \E s : StoreStatus(s)
  BY <1>2 DEF StoreStatus, JobsInv, PortraitWhole, PortraitStays
<1> QED
  BY <1>1, <1>2 DEF ErrorOut

\* Deleting the job of the type last seen, and remembering another.
LEMMA CleanupForgets ==
  ASSUME JobsInv, lastJob \in JobTypes, NEW next, next # lastJob, CleanupJob(lastJob, next)
  PROVE  /\ job' = [k \in JobTypes |-> job'[k]] /\ lastJob' = next
         /\ \A k \in JobTypes : Gone(k)' \/ k = next
<1>1. /\ lastJob' = next /\ forgotten' = forgotten \ {next}
      /\ job' = [k \in JobTypes |-> job'[k]]
      /\ \A k \in JobTypes \ {lastJob} : job'[k] = job[k]
  BY DEF JobsInv, JobsTypeOK, CleanupJob, Remember
<1>2. job'[lastJob] = Nil \/ lastJob \in overlooked'
  BY DEF JobsInv, JobsTypeOK, CleanupJob, Overlooks
<1>3. \A k \in JobTypes \ {lastJob, next} : k \in overlooked' <=> k \in overlooked
  BY DEF CleanupJob
<1>4. ASSUME NEW k \in JobTypes \ {lastJob, next}
      PROVE  Gone(k)'
  <2>1. Gone(k)
    BY DEF JobsInv, JobsRemembered
  <2> QED
    BY <1>1, <1>3, <2>1 DEF Gone
<1> QED
  BY <1>1, <1>2, <1>4 DEF Gone

-----------------------------------------------------------------------------
LEMMA CleanupLastJobKeeps ==
  ASSUME JobsInv, CleanupLastJob
  PROVE  Keeps /\ JobsGone
<1>1. /\ UNCHANGED <<hp, cachedJob>>
      /\ pc' \in {"removeFinalizer", "generate"}
  BY DEF CleanupLastJob, cacheVars
<1>2. PortraitStays
  BY <1>1, StoringKeepsPortrait
<1>3. lastJob' = Nil /\ JobsTypeOK' /\ JobsGone
  <2>1. CASE lastJob = Nil
    BY <1>1, <2>1, PortraitAssumption
       DEF CleanupLastJob, jobHistory, JobsInv, JobsTypeOK, JobsRemembered, JobsGone, Gone
  <2>2. CASE lastJob \in JobTypes
    <3>1. Nil \notin JobTypes /\ CleanupJob(lastJob, Nil)
      BY <2>2, PortraitAssumption DEF CleanupLastJob
    <3>2. /\ job' = [k \in JobTypes |-> job'[k]] /\ lastJob' = Nil
          /\ \A k \in JobTypes : Gone(k)' \/ k = Nil
      BY <2>2, <3>1, CleanupForgets
    <3> QED
      BY <1>1, <3>1, <3>2 DEF JobsInv, JobsTypeOK, JobsGone
  <2> QED
    BY <2>1, <2>2 DEF JobsInv, JobsTypeOK
<1> QED
  BY <1>1, <1>2, <1>3
     DEF Keeps, JobsInv, JobsRemembered, JobsGone, JobsOfReconcile, PortraitStays

LEMMA CleanupPreviousJobKeeps ==
  ASSUME JobsInv, CleanupPreviousJob
  PROVE  Keeps /\ \A k \in JobTypes : Gone(k)' \/ k = copy.spec.job
<1>1. /\ lastJob \in JobTypes /\ CleanupJob(lastJob, copy.spec.job)
      /\ copy.spec.job # lastJob /\ copy.spec.job \in JobTypes
      /\ pc' = "updateJob" /\ UNCHANGED <<hp, cachedJob, copy>>
  BY DEF CleanupPreviousJob, KnownJob, cacheVars, JobsInv, JobsTypeOK
<1>2. PortraitStays
  BY <1>1, StoringKeepsPortrait
<1>3. /\ job' = [k \in JobTypes |-> job'[k]] /\ lastJob' = copy.spec.job
      /\ \A k \in JobTypes : Gone(k)' \/ k = copy.spec.job
  BY <1>1, CleanupForgets
<1> QED
  BY <1>1, <1>2, <1>3
     DEF Keeps, JobsInv, JobsTypeOK, JobsRemembered, JobsOfReconcile, PortraitStays

LEMMA NoPreviousJobKeeps ==
  ASSUME JobsInv, NoPreviousJob
  PROVE  Keeps /\ \A k \in JobTypes : Gone(k)' \/ k = copy.spec.job
<1>1. /\ lastJob \in {Nil, copy.spec.job} /\ lastJob' = copy.spec.job /\ lastJob' \in JobTypes
      /\ overlooked' = overlooked \ {copy.spec.job} /\ forgotten' = forgotten \ {copy.spec.job}
      /\ pc' = "updateJob" /\ UNCHANGED <<hp, job, cachedJob, copy>>
  BY DEF NoPreviousJob, GoOnWithJob, Remember, KnownJob, cacheVars, worldVars
<1>2. PortraitStays
  BY <1>1, StoringKeepsPortrait
<1>3. ASSUME NEW k \in JobTypes, k # copy.spec.job
      PROVE  Gone(k)'
  <2>1. Gone(k)
    BY <1>1, <1>3, PortraitAssumption DEF JobsInv, JobsRemembered
  <2> QED
    BY <1>1, <1>3, <2>1 DEF Gone
<1> QED
  BY <1>1, <1>2, <1>3
     DEF Keeps, JobsInv, JobsTypeOK, JobsRemembered, JobsOfReconcile, PortraitStays

\* Creating, patching or keeping the job that is remembered.
LEMMA DealingWithJobKeeps ==
  ASSUME JobsInv, KeepJob \/ UpdateJob
  PROVE  /\ Keeps
         /\ pc = "updateJob" /\ lastJob = copy.spec.job /\ lastJob \in JobTypes
         /\ \A k \in JobTypes \ {lastJob} : job'[k] = job[k] /\ (Gone(k)' <=> Gone(k))
<1>1. /\ pc = "updateJob" /\ pc' = "fetch" /\ UNCHANGED <<hp, lastJob, cachedJob, overlooked, forgotten>>
      /\ job' = job \/ \E t : job' = [job EXCEPT ![copy.spec.job] = t]
  BY DEF KeepJob, UpdateJob, JobDealtWith, UpdateNeeded, cacheVars
<1>2. lastJob = copy.spec.job /\ lastJob \in JobTypes
  BY <1>1 DEF JobsInv, JobsOfReconcile
<1>3. PortraitStays
  BY <1>1, StoringKeepsPortrait
<1>4. /\ job' = [k \in JobTypes |-> job'[k]]
      /\ \A k \in JobTypes \ {lastJob} : job'[k] = job[k]
  BY <1>1, <1>2 DEF JobsInv, JobsTypeOK
<1>5. \A k \in JobTypes \ {lastJob} : Gone(k)' <=> Gone(k)
  BY <1>1, <1>4 DEF Gone
<1> QED
  BY <1>1, <1>2, <1>3, <1>4, <1>5
     DEF Keeps, JobsInv, JobsTypeOK, JobsRemembered, JobsOfReconcile, PortraitStays

\* The only way out for a portrait that is being deleted.
LEMMA RemoveFinalizerKeeps ==
  ASSUME JobsInv, RemoveFinalizer
  PROVE  Keeps
<1>1. /\ lastJob = Nil /\ UNCHANGED <<job, jobHistory, lastJob, cachedJob>> /\ pc' = "idle"
      /\ hp' = IF hp.deleting THEN NoPortrait ELSE [hp EXCEPT !.finalizer = FALSE]
  BY DEF RemoveFinalizer, Done, IdleLocals, worldVars, historyVars, JobsInv, JobsOfReconcile
<1>2. PortraitWhole'
  BY <1>1 DEF PortraitWhole, NoPortrait, JobsInv
<1>3. JobsGone
  BY <1>1, PortraitAssumption DEF JobsGone, JobsInv, JobsRemembered, Gone, jobHistory
<1> QED
  BY <1>1, <1>2, <1>3 DEF Keeps, JobsInv, JobsTypeOK, JobsRemembered, JobsGone, JobsOfReconcile

LEMMA RestartKeeps ==
  ASSUME JobsInv, Restart
  PROVE  Keeps
<1>1. /\ cachedJob' = job /\ UNCHANGED <<hp, job>> /\ lastJob' = Nil /\ pc' = "idle"
      /\ JobsGone
  BY DEF Restart, IdleLocals, worldVars, JobsGone, Gone
<1>2. PortraitStays
  BY <1>1, StoringKeepsPortrait
<1> QED
  BY <1>1, <1>2 DEF Keeps, JobsInv, JobsTypeOK, JobsRemembered, JobsGone, JobsOfReconcile, PortraitStays

-----------------------------------------------------------------------------
LEMMA BeginKeeps ==
  ASSUME JobsInv, BeginNothingToDo \/ BeginDeletion \/ BeginFirst \/ BeginAgain
  PROVE  Keeps
<1>1. UNCHANGED <<hp, job, cachedJob, lastJob, jobHistory>>
  BY DEF BeginNothingToDo, BeginDeletion, BeginFirst, BeginAgain, Begin, worldVars, cacheVars,
         historyVars
<1>2. pc' \notin {"removeFinalizer", "updateJob"} \/ UNCHANGED <<pc, copy>>
  BY DEF BeginNothingToDo, BeginDeletion, BeginFirst, BeginAgain, Take, AfterFinalizer, localVars
<1> QED
  BY <1>1, <1>2, AsideKeeps, StoringKeepsPortrait

LEMMA AddFinalizerKeeps ==
  ASSUME JobsInv, AddFinalizer
  PROVE  Keeps
<1>1. UNCHANGED <<job, cachedJob, lastJob, jobHistory>>
  BY DEF AddFinalizer, worldVars, historyVars
<1>2. pc' \notin {"removeFinalizer", "updateJob"}
  BY DEF AddFinalizer, AfterFinalizer
<1>3. PortraitStays
  BY DEF AddFinalizer, JobsInv, PortraitWhole, PortraitStays
<1> QED
  BY <1>1, <1>2, <1>3, AsideKeeps

\* The calls that end the reconcile, with or without a new status.
LEMMA EndKeeps ==
  ASSUME JobsInv,
         \/ FinalizerPatchMisses \/ UnknownJob \/ UpdateJobMisses \/ NoGenerator
         \/ LeaveReport \/ StoreReport \/ ReportConflict \/ CallFails
  PROVE  Keeps
<1>1. UNCHANGED <<job, cachedJob, lastJob, jobHistory>>
  BY DEF FinalizerPatchMisses, UnknownJob, UpdateJobMisses, NoGenerator, LeaveReport, StoreReport,
         ReportConflict, CallFails, RememberedJob, worldVars, cacheVars, historyVars
<1>2. pc' = "idle"
  BY DEF FinalizerPatchMisses, UnknownJob, UpdateJobMisses, NoGenerator, LeaveReport, StoreReport,
         ReportConflict, CallFails, Retry, Done, IdleLocals
<1>3. PortraitStays
  BY StoringKeepsPortrait
     DEF FinalizerPatchMisses, UnknownJob, UpdateJobMisses, NoGenerator, LeaveReport, StoreReport,
         ReportConflict, CallFails
<1> QED
  BY <1>1, <1>2, <1>3, AsideKeeps

LEMMA GettingDataKeeps ==
  ASSUME JobsInv, FetchResult \/ Generate
  PROVE  Keeps
<1>1. CASE \E d : Got(d)
  BY <1>1, AsideKeeps, StoringKeepsPortrait DEF Got, worldVars, cacheVars, historyVars
<1>2. CASE GotNothing
  BY <1>2, AsideKeeps, StoringKeepsPortrait DEF GotNothing, Retry, IdleLocals, worldVars, historyVars
<1> QED
  BY <1>1, <1>2 DEF FetchResult, Generate

LEMMA WatchesKeep ==
  ASSUME JobsInv, DeliverHp \/ DeliverJob \/ DeliverResult \/ SyncPeriodEnds
  PROVE  Keeps
<1>1. CASE DeliverJob
  <2>1. UNCHANGED <<hp, job, lastJob, jobHistory, pc, copy>> /\ cachedJob' = job
    BY <1>1 DEF DeliverJob, worldVars, localVars, historyVars
  <2>2. PortraitStays
    BY <2>1, StoringKeepsPortrait
  <2> QED
    BY <2>1, <2>2
       DEF Keeps, JobsInv, JobsTypeOK, JobsRemembered, Gone, jobHistory, JobsOfReconcile, PortraitStays
<1>2. CASE DeliverHp \/ DeliverResult \/ SyncPeriodEnds
  BY <1>2, AsideKeeps, StoringKeepsPortrait
     DEF DeliverHp, DeliverResult, SyncPeriodEnds, worldVars, cacheVars, localVars, historyVars
<1> QED
  BY <1>1, <1>2

LEMMA WorldKeeps ==
  ASSUME JobsInv, World
  PROVE  Keeps
<1>1. UNCHANGED <<job, cachedJob, lastJob, jobHistory, pc, copy>>
  BY DEF World, DeleteHp, EditHp, CreateHp, WriteHp, WriteResult, LoadChanges, worldVars, cacheVars,
         localVars, historyVars
<1>2. PortraitStays
  <2>1. CASE DeleteHp
    BY <2>1 DEF DeleteHp, WriteHp, NoPortrait, JobsInv, PortraitWhole, PortraitStays
  <2>2. CASE \E s \in Specs : EditHp(s)
    BY <2>2 DEF EditHp, WriteHp, JobsInv, PortraitWhole, PortraitStays
  <2>3. CASE \E s \in Specs : CreateHp(s)
    BY <2>3 DEF CreateHp, WriteHp, NewPortrait, NoPortrait, JobsInv, PortraitWhole, PortraitStays
  <2>4. CASE UNCHANGED hp
    BY <2>4, StoringKeepsPortrait
  <2> QED
    BY <2>1, <2>2, <2>3, <2>4 DEF World, WriteResult, LoadChanges
<1> QED
  BY <1>1, <1>2, AsideKeeps

LEMMA NextKeeps ==
  ASSUME JobsInv, [Next]_vars
  PROVE  Keeps
<1>1. CASE Reconcile
  BY <1>1, BeginKeeps, AddFinalizerKeeps, RemoveFinalizerKeeps, EndKeeps, CleanupLastJobKeeps,
     CleanupPreviousJobKeeps, NoPreviousJobKeeps, DealingWithJobKeeps, GettingDataKeeps
     DEF Reconcile
<1>2. CASE UNCHANGED vars
  BY <1>2, AsideKeeps, StoringKeepsPortrait DEF vars, worldVars, cacheVars, localVars, historyVars
<1> QED
  BY <1>1, <1>2, EndKeeps, RestartKeeps, WatchesKeep, WorldKeeps DEF Next

-----------------------------------------------------------------------------
(***************************************************************************)
(* The controller loses no job but in two ways: every job there is of the  *)
(* type it remembers, or was overlooked when it was to be deleted, in a    *)
(* cache that did not show it yet, or was there at a restart and no        *)
(* reconcile has asked for its type since (externalAlgorithmJobTypesMap).  *)
(***************************************************************************)
THEOREM JobsAreRemembered == Spec => []JobsInv
<1>1. Init => JobsInv
  BY DEF Init, NewPortrait, NoPortrait, JobsInv, JobsTypeOK, JobsRemembered, Gone, JobsOfReconcile,
         PortraitWhole
<1>2. JobsInv /\ [Next]_vars => JobsInv'
  BY NextKeeps DEF Keeps
<1> QED
  BY <1>1, <1>2, PTL DEF Spec

(***************************************************************************)
(* The finalizer holds a portrait until its jobs are deleted, all but the  *)
(* two kinds above: those overlooked in a cache that was behind, and those *)
(* of before a restart that no reconcile has asked for since (Reconcile,   *)
(* its first branch).                                                      *)
(***************************************************************************)
THEOREM JobsAreDeletedFirst == Spec => JobsGoFirst
<1>1. JobsInv /\ [Next]_vars
        => [hp.exists /\ hp.deleting /\ ~ hp'.exists =>
              \A j \in JobTypes : job'[j] = Nil \/ j \in (overlooked \union forgotten)']_vars
  BY NextKeeps DEF Keeps, JobsGone, Gone
<1> QED
  BY <1>1, JobsAreRemembered, PTL DEF Spec, JobsGoFirst
-----------------------------------------------------------------------------
(***************************************************************************)
(* The jobs are as specified.  What has to be known of the steps before is *)
(* that a reconcile keeps the portrait it began with from being released,  *)
(* that two copies of the same generation have the same spec, and that     *)
(* the work queue or the reconcile in flight has seen the last generation. *)
(* A patch brings the job to the wanted template if it starts from the job *)
(* as it is; otherwise the job counts as outdated.                         *)
(***************************************************************************)
\* What a reconcile with this copy leaves behind.
JobIs(p, j) == IF Asks(p, j) THEN job[j] = p.spec.template \/ j \in outdated ELSE Gone(j)
JobsAre(p) == \A j \in JobTypes : JobIs(p, j)

Held == hp.exists /\ hp.finalizer
Released == {"finalCleanup", "removeFinalizer"}
Holding == {"lastJob", "previousJob", "updateJob", "fetch", "generate", "report"}

FinalizerInv ==
  /\ hp.deleting => Held
  /\ cachedHp.deleting => cachedHp.finalizer
  /\ cachedHp.exists /\ cachedHp.deleting => ~ hp.finalizer \/ hp.deleting
  /\ cachedHp.exists /\ ~ cachedHp.deleting /\ cachedHp.finalizer => Held
  /\ pc = "addFinalizer" /\ ~ Held => ~ cachedHp.deleting
  /\ pc \in Holding => Held
  /\ pc \in Released =>
       /\ copy.deleting
       /\ ~ hp.finalizer \/ hp.deleting
       /\ ~ (cachedHp.exists /\ ~ cachedHp.deleting /\ cachedHp.finalizer)

SameAsStored(p) ==
  hp.exists /\ p.generation = hp.generation
    => p.exists /\ p.spec = hp.spec /\ p.deleting = hp.deleting

LeftInv ==
  /\ MostEdits \in Nat
  /\ left \in [TroubleKinds -> Nat]
  /\ left["edit"] <= MostEdits

Numbered(p) == p.generation \in Nat /\ p.generation < NextGeneration

GenerationsInv ==
  /\ Numbered(hp) /\ Numbered(cachedHp) /\ Numbered(copy)
  /\ hp.exists => hp.generation >= 1
  /\ SameAsStored(cachedHp) /\ SameAsStored(copy)
  /\ ~ lagging => cachedHp = hp

SpecsInv ==
  /\ hp.exists => hp.spec \in Specs
  /\ cachedHp.exists => cachedHp.spec \in Specs
  /\ pc \in Holding => copy.spec \in Specs

CopyInv ==
  /\ pc = "lastJob" => copy.spec.algorithm # "ExternalJob"
  /\ pc = "previousJob" => copy.spec.algorithm = "ExternalJob"
  /\ pc = "updateJob" =>
       /\ copy.spec.algorithm = "ExternalJob"
       /\ \A j \in JobTypes \ {copy.spec.job} : Gone(j)
  /\ pc \in {"fetch", "generate", "report"} => JobsAre(copy)

WatchedNow == Watched(hp) /\ ~ hp.deleting /\ cachedHp.generation = hp.generation /\ ~ queued

FollowedInv ==
  /\ ~ Held => \A j \in JobTypes : Gone(j)
  /\ pc # "idle" /\ WatchedNow => copy.generation = hp.generation
  /\ pc = "idle" /\ WatchedNow => JobsAre(hp)

SpecifiedInv ==
  JobsInv /\ SpecsInv /\ LeftInv /\ GenerationsInv /\ FinalizerInv /\ CopyInv /\ FollowedInv

-----------------------------------------------------------------------------
\* What a step does to the portrait: little, or it goes, or it is written by its owner.
HpKept ==
  /\ hp'.exists = hp.exists /\ hp'.deleting = hp.deleting /\ hp'.finalizer = hp.finalizer
  /\ hp'.generation = hp.generation /\ hp'.spec = hp.spec

JobsKept == UNCHANGED <<job, jobHistory>>

EditsKept == left' \in [TroubleKinds -> Nat] /\ left'["edit"] = left["edit"]

CacheFollows == lagging' \/ (lagging' = lagging /\ UNCHANGED hp)

LEMMA StoringKeepsFields ==
  ASSUME JobsInv, LeaveStatus \/ ErrorOut \/ (\E s : StoreStatus(s)) \/ UNCHANGED <<hp, lagging>>
  PROVE  HpKept /\ CacheFollows
<1>1. CASE LeaveStatus \/ UNCHANGED <<hp, lagging>>
  BY <1>1 DEF LeaveStatus, HpKept, CacheFollows
<1>2. CASE \E s : StoreStatus(s)
  BY <1>2 DEF StoreStatus, JobsInv, PortraitWhole, HpKept, CacheFollows
<1> QED
  BY <1>1, <1>2 DEF ErrorOut

\* A portrait's spec is one it was given, and so is that of every copy.
LEMMA StoredSpecs ==
  ASSUME JobsInv, SpecsInv, [Next]_vars
  PROVE  hp'.exists => hp'.spec \in Specs
<1>1. CASE LeaveStatus \/ ErrorOut \/ \E st : StoreStatus(st)
  BY <1>1, StoringKeepsFields DEF SpecsInv, HpKept
<1>2. CASE UNCHANGED hp
  BY <1>2 DEF SpecsInv
<1>3. CASE AddFinalizer \/ RemoveFinalizer
  <2>1. hp'.exists => hp.exists /\ hp'.spec = hp.spec
    <3>1. CASE AddFinalizer
      BY <3>1 DEF AddFinalizer, JobsInv, PortraitWhole
    <3>2. CASE RemoveFinalizer
      BY <3>2 DEF RemoveFinalizer, NoPortrait, JobsInv, PortraitWhole
    <3> QED
      BY <1>3, <3>1, <3>2
  <2> QED
    BY <2>1 DEF SpecsInv
<1>4. CASE DeleteHp \/ \E sp \in Specs : EditHp(sp) \/ CreateHp(sp)
  <2>1. CASE DeleteHp
    <3>1. hp'.exists => hp.exists /\ hp'.spec = hp.spec
      BY <2>1 DEF DeleteHp, WriteHp, NoPortrait, JobsInv, PortraitWhole
    <3> QED
      BY <3>1 DEF SpecsInv
  <2>2. CASE \E sp \in Specs : EditHp(sp)
    BY <2>2 DEF EditHp, WriteHp, JobsInv, PortraitWhole
  <2>3. CASE \E sp \in Specs : CreateHp(sp)
    BY <2>3 DEF CreateHp, WriteHp, NewPortrait, NoPortrait
  <2> QED
    BY <1>4, <2>1, <2>2, <2>3
<1>5. CASE Reconcile
  <2>1. \/ AddFinalizer \/ RemoveFinalizer
        \/ LeaveStatus \/ ErrorOut \/ (\E st : StoreStatus(st)) \/ UNCHANGED hp
    BY <1>5
       DEF Reconcile, BeginNothingToDo, BeginDeletion, BeginFirst, BeginAgain, Begin,
           FinalizerPatchMisses, CleanupLastJob, CleanupPreviousJob, NoPreviousJob, GoOnWithJob,
           UnknownJob, KeepJob, UpdateJob, JobDealtWith, UpdateJobMisses, FetchResult, Generate,
           Got, GotNothing, NoGenerator, LeaveReport, StoreReport, ReportConflict
  <2> QED
    BY <2>1, <1>1, <1>2, <1>3
<1>6. CASE World
  BY <1>2, <1>4, <1>6 DEF World, WriteResult, LoadChanges
<1>7. CASE ~ Reconcile /\ ~ World
  <2>1. LeaveStatus \/ ErrorOut \/ UNCHANGED hp
    BY <1>7 DEF Next, DeliverHp, DeliverJob, DeliverResult, SyncPeriodEnds, CallFails, Restart, vars
  <2> QED
    BY <2>1, <1>1, <1>2
<1> QED
  BY <1>5, <1>6, <1>7

LEMMA CopiedSpecs ==
  ASSUME JobsInv, SpecsInv, [Next]_vars
  PROVE  pc' \in Holding => copy'.spec \in Specs
<1>1. CASE AddFinalizer
  BY <1>1 DEF AddFinalizer, SpecsInv, JobsInv, PortraitWhole
<1>2. CASE BeginNothingToDo \/ BeginDeletion \/ BeginFirst \/ BeginAgain
  BY <1>2 DEF BeginNothingToDo, BeginDeletion, BeginFirst, BeginAgain, Take, localVars, SpecsInv
<1>3. CASE pc' = "idle"
  BY <1>3 DEF Holding
<1>4. CASE UNCHANGED <<pc, copy>>
  BY <1>4 DEF SpecsInv
<1>5. CASE \/ CleanupLastJob \/ CleanupPreviousJob \/ NoPreviousJob \/ KeepJob \/ UpdateJob
           \/ \E d : Got(d) /\ pc \in {"fetch", "generate"}
  <2>1. UNCHANGED copy /\ (pc' \in Holding => pc \in Holding)
    BY <1>5 DEF CleanupLastJob, CleansLastJob, CleanupPreviousJob, NoPreviousJob, GoOnWithJob,
                KeepJob, UpdateJob, UpdateNeeded, JobDealtWith, Got, Holding
  <2> QED
    BY <2>1 DEF SpecsInv
<1>6. CASE Reconcile
  <2>1. pc' = "idle" \/ ~ (FinalizerPatchMisses \/ UnknownJob \/ UpdateJobMisses \/ GotNothing
                             \/ NoGenerator \/ LeaveReport \/ StoreReport \/ ReportConflict
                             \/ RemoveFinalizer)
    BY DEF FinalizerPatchMisses, UnknownJob, UpdateJobMisses, GotNothing, NoGenerator, LeaveReport,
           StoreReport, ReportConflict, RemoveFinalizer, Retry, Done, IdleLocals
  <2> QED
    BY <1>1, <1>2, <1>3, <1>5, <1>6, <2>1 DEF Reconcile, FetchResult, Generate
<1>7. CASE ~ Reconcile
  <2>1. pc' = "idle" \/ UNCHANGED <<pc, copy>>
    BY <1>7 DEF Next, World, DeleteHp, EditHp, CreateHp, WriteHp, WriteResult, LoadChanges,
                DeliverHp, DeliverJob, DeliverResult, SyncPeriodEnds, CallFails, Restart, Retry,
                IdleLocals, localVars, vars
  <2> QED
    BY <1>3, <1>4, <2>1
<1> QED
  BY <1>6, <1>7

LEMMA NextKeepsSpecs ==
  ASSUME JobsInv, SpecsInv, [Next]_vars
  PROVE  SpecsInv'
<1>1. cachedHp' \in {cachedHp, hp}
  BY DEF Next, Reconcile, World, BeginNothingToDo, BeginDeletion, BeginFirst, BeginAgain, Begin,
         AddFinalizer, RemoveFinalizer, FinalizerPatchMisses, CleanupLastJob, CleanupPreviousJob,
         NoPreviousJob, GoOnWithJob, UnknownJob, KeepJob, UpdateJob, JobDealtWith, UpdateJobMisses,
         FetchResult, Generate, Got, GotNothing, NoGenerator, LeaveReport, StoreReport,
         ReportConflict, DeleteHp, EditHp, CreateHp, WriteHp, WriteResult, LoadChanges, DeliverHp,
         DeliverJob, DeliverResult, SyncPeriodEnds, CallFails, Restart, cacheVars, vars
<1> QED
  BY <1>1, StoredSpecs, CopiedSpecs DEF SpecsInv

LEMMA MostEditsIsMost ==
  MostEdits \in Nat /\ \A t \in Troubles : t["edit"] <= MostEdits
<1> DEFINE counts == {t["edit"] : t \in Troubles}
<1>1. "edit" \in TroubleKinds
  BY DEF TroubleKinds
<1>2. \E n \in counts : \A t \in Troubles : t["edit"] <= n
  BY PortraitAssumption
<1>3. counts \subseteq Nat
  BY <1>1, PortraitAssumption
<1>4. MostEdits \in counts /\ \A t \in Troubles : t["edit"] <= MostEdits
  BY <1>2 DEF MostEdits
<1> QED
  BY <1>3, <1>4

\* What SpecifiedInv says of generations survives every step in which the
\* portrait's owner has no part.
LEMMA GenerationsKept ==
  ASSUME LeftInv, GenerationsInv, EditsKept,
         \/ HpKept /\ UNCHANGED cachedHp /\ CacheFollows
         \/ UNCHANGED hp /\ cachedHp' = hp
         \/ hp' = NoPortrait /\ UNCHANGED cachedHp /\ lagging'
         \/ /\ hp'.exists = hp.exists /\ hp'.deleting = hp.deleting
            /\ hp'.generation = hp.generation /\ hp'.spec = hp.spec
            /\ UNCHANGED cachedHp /\ lagging',
         copy' \in {copy, cachedHp, hp', NoPortrait}
  PROVE  LeftInv' /\ GenerationsInv'
<1>1. LeftInv' /\ NextGeneration' = NextGeneration /\ NextGeneration \in Nat /\ NextGeneration >= 2
  BY DEF LeftInv, EditsKept, NextGeneration, TroubleKinds
<1>2. NoPortrait.generation = 0 /\ ~ NoPortrait.exists
  BY DEF NoPortrait
<1>3. \A p \in {hp', cachedHp', copy'} : p.generation \in Nat /\ p.generation < NextGeneration
  BY <1>1, <1>2 DEF GenerationsInv, Numbered, HpKept
<1>4. hp'.exists => hp'.generation >= 1
  BY <1>2 DEF GenerationsInv, HpKept
<1>5. SameAsStored(cachedHp)' /\ SameAsStored(copy)'
  BY <1>2 DEF GenerationsInv, SameAsStored, HpKept, Numbered
<1>6. ~ lagging' => cachedHp' = hp'
  BY DEF GenerationsInv, CacheFollows
<1> QED
  BY <1>1, <1>3, <1>4, <1>5, <1>6 DEF GenerationsInv, Numbered

-----------------------------------------------------------------------------
\* Steps that concern neither the portrait nor its jobs.
LEMMA AsideSpecified ==
  ASSUME SpecifiedInv, HpKept, CacheFollows, JobsKept, EditsKept,
         UNCHANGED <<cachedHp, pc, copy>>, queued => queued'
  PROVE  LeftInv' /\ GenerationsInv' /\ FinalizerInv' /\ CopyInv' /\ FollowedInv'
<1>1. LeftInv' /\ GenerationsInv'
  BY GenerationsKept DEF SpecifiedInv
<1>2. FinalizerInv'
  BY DEF SpecifiedInv, FinalizerInv, HpKept, Held
<1>3. CopyInv'
  BY DEF SpecifiedInv, CopyInv, JobsKept, JobsAre, JobIs, Asks, Gone, jobHistory
<1>4. FollowedInv'
  BY DEF SpecifiedInv, FollowedInv, HpKept, Held, JobsKept, JobsAre, JobIs, Asks, Gone,
         jobHistory, WatchedNow, Watched
<1> QED
  BY <1>1, <1>2, <1>3, <1>4

\* Steps that end a reconcile.
LEMMA EndSpecified ==
  ASSUME SpecifiedInv, HpKept, CacheFollows, JobsKept, EditsKept,
         UNCHANGED cachedHp, pc' = "idle", copy' = NoPortrait,
         queued' \/ (queued' = queued /\ pc \in {"generate", "report"})
  PROVE  LeftInv' /\ GenerationsInv' /\ FinalizerInv' /\ CopyInv' /\ FollowedInv'
<1>1. LeftInv' /\ GenerationsInv'
  BY GenerationsKept DEF SpecifiedInv
<1>2. FinalizerInv'
  BY DEF SpecifiedInv, FinalizerInv, HpKept, Held, Holding, Released
<1>3. CopyInv'
  BY DEF CopyInv
<1>4. FollowedInv'
  <2>1. ~ Held' => \A j \in JobTypes : Gone(j)'
    BY DEF SpecifiedInv, FollowedInv, HpKept, Held, JobsKept, Gone, jobHistory
  <2>2. WatchedNow' => JobsAre(hp)'
    <3>1. SUFFICES ASSUME WatchedNow'
                   PROVE  JobsAre(hp)'
      OBVIOUS
    <3>2. WatchedNow /\ pc \in {"generate", "report"}
      BY <3>1 DEF HpKept, WatchedNow, Watched
    <3>3. JobsAre(copy) /\ copy.generation = hp.generation
      BY <3>2 DEF SpecifiedInv, FollowedInv, CopyInv
    <3>4. hp'.spec = copy.spec
      BY <3>2, <3>3 DEF SpecifiedInv, GenerationsInv, SameAsStored, WatchedNow, Watched, HpKept
    <3> QED
      BY <3>3, <3>4 DEF JobsAre, JobIs, Asks, Gone, JobsKept, jobHistory
  <2> QED
    BY <2>1, <2>2 DEF FollowedInv
<1> QED
  BY <1>1, <1>2, <1>3, <1>4

\* Steps within a reconcile, between two of its calls; what they do to the
\* jobs is left open.
LEMMA OnwardSpecified ==
  ASSUME SpecifiedInv, UNCHANGED <<hp, lagging, cachedHp, copy, queued, left>>,
         (pc \in Holding /\ pc' \in Holding) \/ (pc \in Released /\ pc' \in Released),
         CopyInv',
         \/ JobsKept
         \/ pc \in Holding
         \/ \A j \in JobTypes : Gone(j)'
  PROVE  LeftInv' /\ GenerationsInv' /\ FinalizerInv' /\ CopyInv' /\ FollowedInv'
<1>1. LeftInv' /\ GenerationsInv'
  BY GenerationsKept DEF SpecifiedInv, HpKept, CacheFollows, LeftInv, EditsKept
<1>2. FinalizerInv'
  BY DEF SpecifiedInv, FinalizerInv, Held, Holding, Released
<1>3. FollowedInv'
  <2>1. ~ Held' => \A j \in JobTypes : Gone(j)'
    BY DEF SpecifiedInv, FinalizerInv, FollowedInv, Held, JobsKept, Gone, jobHistory
  <2>2. pc # "idle" /\ pc' # "idle"
    BY DEF Holding, Released
  <2> QED
    BY <2>1, <2>2 DEF SpecifiedInv, FollowedInv, WatchedNow, Watched
<1> QED
  BY <1>1, <1>2, <1>3

-----------------------------------------------------------------------------
LEMMA BeginSpecified ==
  ASSUME SpecifiedInv, BeginNothingToDo \/ BeginDeletion \/ BeginFirst \/ BeginAgain
  PROVE  LeftInv' /\ GenerationsInv' /\ FinalizerInv' /\ CopyInv' /\ FollowedInv'
<1>1. /\ pc = "idle" /\ ~ queued'
      /\ UNCHANGED <<hp, job, jobHistory, cachedHp, lagging, left>>
  BY DEF BeginNothingToDo, BeginDeletion, BeginFirst, BeginAgain, Begin, worldVars, cacheVars,
         historyVars
<1>2. copy' \in {copy, cachedHp}
  BY DEF BeginNothingToDo, BeginDeletion, BeginFirst, BeginAgain, Take, localVars
<1>3. LeftInv' /\ GenerationsInv'
  BY <1>1, <1>2, GenerationsKept DEF SpecifiedInv, HpKept, CacheFollows, LeftInv, EditsKept
<1>4. CASE BeginNothingToDo
  <2>1. UNCHANGED <<pc, copy>> /\ (~ cachedHp.exists \/ cachedHp.deleting)
    BY <1>4 DEF BeginNothingToDo, localVars
  <2>2. FinalizerInv' /\ CopyInv'
    BY <1>1, <2>1 DEF SpecifiedInv, FinalizerInv, CopyInv, Held, Holding, Released
  <2>3. ~ WatchedNow'
    BY <1>1, <2>1 DEF SpecifiedInv, GenerationsInv, SameAsStored, WatchedNow, Watched
  <2> QED
    BY <1>1, <1>3, <2>1, <2>2, <2>3 DEF SpecifiedInv, FollowedInv, Held, Gone, jobHistory
<1>5. CASE ~ BeginNothingToDo
  <2>1. /\ copy' = cachedHp /\ cachedHp.exists
        /\ \/ pc' = "finalCleanup" /\ cachedHp.deleting
           \/ pc' = "addFinalizer" /\ ~ cachedHp.deleting
           \/ pc' = AfterFinalizer(copy') /\ ~ cachedHp.deleting /\ cachedHp.finalizer
    BY <1>5 DEF BeginDeletion, BeginFirst, BeginAgain, Take
  <2>2. pc' # "idle" /\ CopyInv'
    BY <2>1 DEF CopyInv, AfterFinalizer
  <2>3. FinalizerInv'
    BY <1>1, <2>1 DEF SpecifiedInv, FinalizerInv, Held, Holding, Released, AfterFinalizer
  <2>4. FollowedInv'
    BY <1>1, <2>1, <2>2 DEF SpecifiedInv, FollowedInv, Held, Gone, jobHistory, WatchedNow, Watched
  <2> QED
    BY <1>3, <2>2, <2>3, <2>4
<1> QED
  BY <1>4, <1>5

LEMMA AddFinalizerSpecified ==
  ASSUME SpecifiedInv, AddFinalizer
  PROVE  LeftInv' /\ GenerationsInv' /\ FinalizerInv' /\ CopyInv' /\ FollowedInv'
<1>1. /\ pc = "addFinalizer" /\ pc' = AfterFinalizer(hp)
      /\ copy' = hp' /\ lagging'
      /\ UNCHANGED <<job, jobHistory, cachedHp, queued, left>>
  BY DEF AddFinalizer, worldVars, historyVars
<1>2. /\ hp'.exists = hp.exists /\ hp'.deleting = hp.deleting
      /\ hp'.generation = hp.generation /\ hp'.spec = hp.spec
      /\ hp.exists /\ hp'.finalizer
  BY DEF AddFinalizer, SpecifiedInv, JobsInv, PortraitWhole
<1>3. LeftInv' /\ GenerationsInv'
  BY <1>1, <1>2, GenerationsKept DEF SpecifiedInv, LeftInv, EditsKept
<1>4. FinalizerInv'
  BY <1>1, <1>2 DEF SpecifiedInv, FinalizerInv, Held, Holding, Released, AfterFinalizer
<1>5. CopyInv'
  BY <1>1, <1>2 DEF CopyInv, AfterFinalizer
<1>6. FollowedInv'
  BY <1>1, <1>2 DEF SpecifiedInv, FollowedInv, Held, Gone, jobHistory, WatchedNow, Watched,
         AfterFinalizer
<1> QED
  BY <1>3, <1>4, <1>5, <1>6

LEMMA RemoveFinalizerSpecified ==
  ASSUME SpecifiedInv, RemoveFinalizer
  PROVE  LeftInv' /\ GenerationsInv' /\ FinalizerInv' /\ CopyInv' /\ FollowedInv'
<1>1. /\ pc = "removeFinalizer" /\ pc' = "idle"
      /\ copy' = NoPortrait /\ lagging'
      /\ UNCHANGED <<job, jobHistory, cachedHp, queued, left>>
      /\ hp' = IF hp.deleting THEN NoPortrait ELSE [hp EXCEPT !.finalizer = FALSE]
  BY DEF RemoveFinalizer, Done, IdleLocals, worldVars, historyVars
<1>2. ~ hp.deleting =>
        /\ hp'.exists = hp.exists /\ hp'.deleting = hp.deleting
        /\ hp'.generation = hp.generation /\ hp'.spec = hp.spec
  BY <1>1 DEF SpecifiedInv, JobsInv, PortraitWhole
<1>3. LeftInv' /\ GenerationsInv'
  BY <1>1, <1>2, GenerationsKept DEF SpecifiedInv, LeftInv, EditsKept
<1>4. ~ Held' /\ ~ hp'.finalizer /\ ~ hp'.deleting
  BY <1>1 DEF SpecifiedInv, JobsInv, PortraitWhole, Held, NoPortrait
<1>5. FinalizerInv'
  BY <1>1, <1>4 DEF SpecifiedInv, FinalizerInv, Held, Holding, Released
<1>6. \A j \in JobTypes : Gone(j)'
  BY <1>1, PortraitAssumption DEF SpecifiedInv, JobsInv, JobsOfReconcile, JobsRemembered, Gone,
         jobHistory
<1>7. ~ WatchedNow'
  <2>1. CASE hp.deleting
    BY <1>1, <2>1 DEF WatchedNow, Watched, NoPortrait
  <2>2. CASE ~ hp.deleting
    <3>1. WatchedNow' => WatchedNow
      BY <1>1, <1>2, <2>2 DEF WatchedNow, Watched
    <3>2. WatchedNow => copy.generation = hp.generation /\ copy.deleting
      BY <1>1 DEF SpecifiedInv, FollowedInv, FinalizerInv, Released
    <3> QED
      BY <2>2, <3>1, <3>2 DEF SpecifiedInv, GenerationsInv, SameAsStored, WatchedNow, Watched
  <2> QED
    BY <2>1, <2>2
<1>8. CopyInv'
  BY <1>1 DEF CopyInv
<1> QED
  BY <1>3, <1>5, <1>6, <1>7, <1>8 DEF FollowedInv

-----------------------------------------------------------------------------
\* A patch from the job as it is makes it what is asked for.
LEMMA JobDealtWithIsAsAsked ==
  ASSUME JobsInv, SpecsInv, CopyInv, KeepJob \/ UpdateJob
  PROVE  job'[copy.spec.job] = copy.spec.template \/ copy.spec.job \in outdated'
<1> DEFINE t == copy.spec.job
<1>1. t \in JobTypes /\ pc = "updateJob" /\ copy.spec.algorithm = "ExternalJob"
  BY DealingWithJobKeeps DEF CopyInv
<1>2. SeenJob # job[t] => t \in outdated'
  BY DEF KeepJob, UpdateJob, JobDealtWith
<1>3. CASE KeepJob /\ SeenJob = job[t]
  BY <1>1, <1>3 DEF KeepJob, UpdateNeeded
<1>4. CASE UpdateJob /\ SeenJob = job[t]
  <2>1. copy.spec.template = [f \in Fields |-> copy.spec.template[f]]
    BY <1>1, PortraitAssumption DEF SpecsInv, Holding
  <2>2. Patched(job[t], copy.spec.template, job[t]) = copy.spec.template
    BY <2>1 DEF Patched
  <2> QED
    BY <1>1, <1>4, <2>2 DEF UpdateJob, JobsInv, JobsTypeOK
<1> QED
  BY <1>2, <1>3, <1>4

LEMMA OnwardStepsSpecified ==
  ASSUME SpecifiedInv,
         \/ CleanupLastJob \/ CleanupPreviousJob \/ NoPreviousJob \/ KeepJob \/ UpdateJob
         \/ \E d : Got(d) /\ pc \in {"fetch", "generate"}
  PROVE  LeftInv' /\ GenerationsInv' /\ FinalizerInv' /\ CopyInv' /\ FollowedInv'
<1>1. UNCHANGED <<hp, lagging, cachedHp, copy, queued, left>>
  BY DEF CleanupLastJob, CleanupPreviousJob, NoPreviousJob, GoOnWithJob, KeepJob, UpdateJob,
         JobDealtWith, Got, cacheVars, worldVars
<1>2. (pc \in Holding /\ pc' \in Holding) \/ (pc \in Released /\ pc' \in Released)
  <2>1. CASE CleanupLastJob
    BY <2>1 DEF CleanupLastJob, CleansLastJob, Holding, Released
  <2>2. CASE CleanupPreviousJob \/ NoPreviousJob
    BY <2>2 DEF CleanupPreviousJob, NoPreviousJob, GoOnWithJob, Holding
  <2>3. CASE KeepJob \/ UpdateJob
    BY <2>3 DEF KeepJob, UpdateJob, JobDealtWith, UpdateNeeded, Holding
  <2>4. CASE \E d : Got(d) /\ pc \in {"fetch", "generate"}
    BY <2>4 DEF Got, Holding
  <2> QED
    BY <2>1, <2>2, <2>3, <2>4
<1>3. CASE CleanupLastJob
  <2>1. pc' = (IF pc = "finalCleanup" THEN "removeFinalizer" ELSE "generate")
        /\ (pc # "finalCleanup" => pc = "lastJob")
    BY <1>3 DEF CleanupLastJob, CleansLastJob
  <2>2. \A j \in JobTypes : Gone(j)'
    BY <1>3, CleanupLastJobKeeps DEF SpecifiedInv, JobsGone
  <2>3. pc' = "generate" => copy'.spec.algorithm # "ExternalJob"
    BY <1>1, <2>1 DEF SpecifiedInv, CopyInv
  <2>4. CopyInv'
    BY <2>1, <2>2, <2>3 DEF CopyInv, JobsAre, JobIs, Asks, Gone
  <2> QED
    BY <1>1, <1>2, <2>2, <2>4, OnwardSpecified
<1>4. CASE CleanupPreviousJob \/ NoPreviousJob
  <2>1. pc = "previousJob" /\ pc' = "updateJob"
    BY <1>4 DEF CleanupPreviousJob, NoPreviousJob, GoOnWithJob
  <2>2. \A j \in JobTypes \ {copy.spec.job} : Gone(j)'
    BY <1>4, CleanupPreviousJobKeeps, NoPreviousJobKeeps DEF SpecifiedInv
  <2>3. CopyInv'
    BY <1>1, <2>1, <2>2 DEF SpecifiedInv, CopyInv
  <2> QED
    BY <1>1, <1>2, <2>1, <2>3, OnwardSpecified DEF Holding
<1>5. CASE KeepJob \/ UpdateJob
  <2> DEFINE t == copy.spec.job
  <2>1. /\ pc = "updateJob" /\ pc' = "fetch" /\ t \in JobTypes
        /\ \A j \in JobTypes \ {t} : Gone(j)' <=> Gone(j)
    BY <1>5, DealingWithJobKeeps DEF KeepJob, UpdateJob, JobDealtWith, SpecifiedInv
  <2>2. copy.spec.algorithm = "ExternalJob" /\ \A j \in JobTypes \ {t} : Gone(j)
    BY <2>1 DEF SpecifiedInv, CopyInv
  <2>3. job'[t] = copy.spec.template \/ t \in outdated'
    BY <1>5, JobDealtWithIsAsAsked DEF SpecifiedInv
  <2>4. JobsAre(copy)'
    BY <1>1, <2>1, <2>2, <2>3 DEF JobsAre, JobIs, Asks
  <2>5. CopyInv'
    BY <2>1, <2>4 DEF CopyInv
  <2> QED
    BY <1>1, <1>2, <2>1, <2>5, OnwardSpecified DEF Holding
<1>6. CASE \E d : Got(d) /\ pc \in {"fetch", "generate"}
  <2>1. pc \in {"fetch", "generate"} /\ pc' = "report" /\ UNCHANGED <<job, jobHistory>>
    BY <1>6 DEF Got, worldVars, historyVars
  <2>2. CopyInv'
    BY <1>1, <2>1 DEF SpecifiedInv, CopyInv, JobsAre, JobIs, Asks, Gone, jobHistory
  <2> QED
    BY <1>1, <1>2, <2>1, <2>2, OnwardSpecified DEF JobsKept
<1> QED
  BY <1>3, <1>4, <1>5, <1>6

LEMMA DeliverHpSpecified ==
  ASSUME SpecifiedInv, DeliverHp
  PROVE  LeftInv' /\ GenerationsInv' /\ FinalizerInv' /\ CopyInv' /\ FollowedInv'
<1>1. /\ cachedHp' = hp /\ UNCHANGED <<hp, job, jobHistory, pc, copy, left>>
      /\ queued' = (queued \/ (cachedHp.generation # hp.generation
                                 /\ Watched(IF hp.exists THEN hp ELSE cachedHp)))
  BY DEF DeliverHp, worldVars, localVars, historyVars
<1>2. LeftInv' /\ GenerationsInv'
  BY <1>1, GenerationsKept DEF SpecifiedInv, LeftInv, EditsKept
<1>3. FinalizerInv'
  BY <1>1 DEF SpecifiedInv, FinalizerInv, Held
<1>4. CopyInv'
  BY <1>1 DEF SpecifiedInv, CopyInv, JobsAre, JobIs, Asks, Gone, jobHistory
<1>5. WatchedNow' => WatchedNow
  BY <1>1 DEF WatchedNow, Watched
<1> QED
  BY <1>1, <1>2, <1>3, <1>4, <1>5
     DEF SpecifiedInv, FollowedInv, Held, Gone, jobHistory, JobsAre, JobIs, Asks

LEMMA RestartSpecified ==
  ASSUME SpecifiedInv, Restart
  PROVE  LeftInv' /\ GenerationsInv' /\ FinalizerInv' /\ CopyInv' /\ FollowedInv'
<1>1. /\ cachedHp' = hp /\ UNCHANGED hp /\ pc' = "idle" /\ copy' = NoPortrait
      /\ Watched(hp) => queued'
      /\ \A j \in JobTypes : Gone(j)'
  BY DEF Restart, IdleLocals, worldVars, Gone
<1>2. EditsKept
  BY DEF Restart, Spend, SpecifiedInv, LeftInv, EditsKept, TroubleKinds
<1>3. LeftInv' /\ GenerationsInv'
  BY <1>1, <1>2, GenerationsKept DEF SpecifiedInv
<1>4. FinalizerInv'
  BY <1>1 DEF SpecifiedInv, FinalizerInv, Held, Holding, Released
<1>5. CopyInv'
  BY <1>1 DEF CopyInv
<1>6. ~ WatchedNow'
  BY <1>1 DEF WatchedNow, Watched
<1> QED
  BY <1>1, <1>3, <1>4, <1>5, <1>6 DEF FollowedInv, Gone

LEMMA EndStepsSpecified ==
  ASSUME SpecifiedInv,
         \/ FinalizerPatchMisses \/ UnknownJob \/ UpdateJobMisses \/ NoGenerator \/ GotNothing
         \/ LeaveReport \/ StoreReport \/ ReportConflict \/ CallFails
  PROVE  LeftInv' /\ GenerationsInv' /\ FinalizerInv' /\ CopyInv' /\ FollowedInv'
<1>1. HpKept /\ CacheFollows
  BY StoringKeepsFields
     DEF SpecifiedInv, FinalizerPatchMisses, UnknownJob, UpdateJobMisses, NoGenerator, GotNothing,
         LeaveReport, StoreReport, ReportConflict, CallFails, cacheVars
<1>2. JobsKept /\ UNCHANGED cachedHp
  BY DEF JobsKept, FinalizerPatchMisses, UnknownJob, UpdateJobMisses, NoGenerator, GotNothing,
         LeaveReport, StoreReport, ReportConflict, CallFails, cacheVars, worldVars, historyVars
<1>3. EditsKept
  <2>1. CASE UNCHANGED left
    BY <2>1 DEF SpecifiedInv, LeftInv, EditsKept
  <2>2. CASE Spend("failure")
    BY <2>2 DEF Spend, SpecifiedInv, LeftInv, EditsKept, TroubleKinds
  <2> QED
    BY <2>1, <2>2
       DEF FinalizerPatchMisses, UnknownJob, UpdateJobMisses, NoGenerator, GotNothing, LeaveReport,
           StoreReport, ReportConflict, CallFails
<1>4. /\ pc' = "idle" /\ copy' = NoPortrait
      /\ queued' \/ (queued' = queued /\ pc \in {"generate", "report"})
  BY DEF FinalizerPatchMisses, UnknownJob, UpdateJobMisses, NoGenerator, GotNothing, LeaveReport,
         StoreReport, ReportConflict, CallFails, Retry, Done, IdleLocals
<1> QED
  BY <1>1, <1>2, <1>3, <1>4, EndSpecified

LEMMA AsideStepsSpecified ==
  ASSUME SpecifiedInv,
         \/ DeliverJob \/ DeliverResult \/ SyncPeriodEnds \/ UNCHANGED vars
         \/ (\E r : WriteResult(r)) \/ (\E d : LoadChanges(d))
  PROVE  LeftInv' /\ GenerationsInv' /\ FinalizerInv' /\ CopyInv' /\ FollowedInv'
<1>1. /\ UNCHANGED <<hp, lagging, cachedHp, job, jobHistory, pc, copy>>
      /\ queued => queued'
  <2>1. CASE UNCHANGED vars
    BY <2>1 DEF vars, worldVars, cacheVars, localVars, historyVars
  <2>2. CASE DeliverJob \/ SyncPeriodEnds
    BY <2>2 DEF DeliverJob, SyncPeriodEnds, worldVars, cacheVars, localVars, historyVars
  <2>4. CASE DeliverResult
    BY <2>4 DEF DeliverResult, worldVars, localVars, historyVars
  <2>3. CASE (\E r : WriteResult(r)) \/ (\E d : LoadChanges(d))
    BY <2>3 DEF WriteResult, LoadChanges, cacheVars, localVars, historyVars
  <2> QED
    BY <2>1, <2>2, <2>3, <2>4
<1>2. EditsKept
  <2>1. CASE UNCHANGED left
    BY <2>1 DEF SpecifiedInv, LeftInv, EditsKept
  <2>2. CASE Spend("result") \/ Spend("load")
    BY <2>2 DEF Spend, SpecifiedInv, LeftInv, EditsKept, TroubleKinds
  <2> QED
    BY <2>1, <2>2 DEF DeliverJob, DeliverResult, SyncPeriodEnds, WriteResult, LoadChanges, vars
<1> QED
  BY <1>1, <1>2, AsideSpecified DEF HpKept, CacheFollows, JobsKept

\* What the portrait's owner does: it goes, or gets a generation of its own.
LEMMA OwnerSpecified ==
  ASSUME SpecifiedInv, DeleteHp \/ \E s \in Specs : EditHp(s) \/ CreateHp(s)
  PROVE  LeftInv' /\ GenerationsInv' /\ FinalizerInv' /\ CopyInv' /\ FollowedInv'
<1>1. /\ UNCHANGED <<cachedHp, job, jobHistory, pc, copy, queued>>
      /\ lagging' /\ Spend("edit")
  BY DEF DeleteHp, EditHp, CreateHp, WriteHp, worldVars, historyVars
<1>2. /\ LeftInv' /\ NextGeneration' = NextGeneration + 1
      /\ NextGeneration \in Nat /\ NextGeneration >= 2
  BY <1>1 DEF Spend, SpecifiedInv, LeftInv, NextGeneration, TroubleKinds
<1>3. \/ hp' = NoPortrait /\ ~ Held
      \/ /\ hp'.generation = NextGeneration /\ hp'.exists
         /\ hp'.finalizer <=> Held
         /\ hp.exists /\ hp.deleting => hp'.deleting
         /\ hp'.deleting => hp'.finalizer
  <2>1. CASE DeleteHp
    BY <2>1 DEF DeleteHp, WriteHp, SpecifiedInv, JobsInv, PortraitWhole, Held
  <2>2. CASE \E s \in Specs : EditHp(s)
    <3>1. /\ hp'.generation = NextGeneration /\ hp.exists /\ hp'.exists
          /\ hp'.finalizer = hp.finalizer /\ hp'.deleting = hp.deleting
      BY <2>2 DEF EditHp, WriteHp, SpecifiedInv, JobsInv, PortraitWhole
    <3> QED
      BY <3>1 DEF SpecifiedInv, FinalizerInv, Held
  <2>3. CASE \E s \in Specs : CreateHp(s)
    BY <2>3 DEF CreateHp, WriteHp, NewPortrait, NoPortrait, Held
  <2> QED
    BY <2>1, <2>2, <2>3
<1>4. ~ NoPortrait.exists /\ ~ NoPortrait.deleting /\ ~ NoPortrait.finalizer
      /\ NoPortrait.generation = 0
  BY DEF NoPortrait
<1>5. GenerationsInv'
  BY <1>1, <1>2, <1>3, <1>4 DEF SpecifiedInv, GenerationsInv, Numbered, SameAsStored
<1>6. FinalizerInv'
  BY <1>1, <1>3, <1>4 DEF SpecifiedInv, FinalizerInv, Held
<1>7. CopyInv'
  BY <1>1 DEF SpecifiedInv, CopyInv, JobsAre, JobIs, Asks, Gone, jobHistory
<1>8. ~ WatchedNow'
  BY <1>1, <1>2, <1>3, <1>4 DEF SpecifiedInv, GenerationsInv, Numbered, WatchedNow, Watched
<1>9. Held => Held'
  BY <1>3 DEF Held
<1> QED
  BY <1>1, <1>2, <1>5, <1>6, <1>7, <1>8, <1>9 DEF SpecifiedInv, FollowedInv, Gone, jobHistory

-----------------------------------------------------------------------------
(***************************************************************************)
(* The jobs follow the spec: every reconcile in flight has, or will have,  *)
(* left the jobs its copy asks for, and a copy that is outdated brings     *)
(* another reconcile.                                                      *)
(***************************************************************************)
LEMMA NextSpecified ==
  ASSUME SpecifiedInv, [Next]_vars
  PROVE  SpecifiedInv'
<1>1. JobsInv' /\ SpecsInv'
  BY NextKeeps, NextKeepsSpecs DEF SpecifiedInv, Keeps
<1>2. CASE Reconcile
  BY <1>1, <1>2, BeginSpecified, AddFinalizerSpecified, RemoveFinalizerSpecified,
     EndStepsSpecified, OnwardStepsSpecified
     DEF Reconcile, FetchResult, Generate, SpecifiedInv
<1>3. CASE World
  BY <1>1, <1>3, OwnerSpecified, AsideStepsSpecified DEF World, SpecifiedInv
<1>4. CASE DeliverHp \/ Restart
  BY <1>1, <1>4, DeliverHpSpecified, RestartSpecified DEF SpecifiedInv
<1>5. CASE CallFails \/ DeliverJob \/ DeliverResult \/ SyncPeriodEnds \/ UNCHANGED vars
  BY <1>1, <1>5, EndStepsSpecified, AsideStepsSpecified DEF SpecifiedInv
<1> QED
  BY <1>2, <1>3, <1>4, <1>5 DEF Next

(***************************************************************************)
(* Once the controller has nothing left to do, there is the job the        *)
(* portrait asks for and no other: Reconcile, UpdateJob and CleanupJob of  *)
(* the CronJob controller and the watches' predicates are enough for it,   *)
(* except that a job kept or patched by a cached copy that was behind may  *)
(* differ from what is asked for, and that jobs that were overlooked, or   *)
(* forgotten in a restart, may be left.                                    *)
(***************************************************************************)
THEOREM JobsAreAsSpecified == Spec => []JobsAsSpecified
<1>1. Init => SpecifiedInv
  <2>1. SUFFICES ASSUME Init
                 PROVE  SpecifiedInv
    OBVIOUS
  <2>2. JobsInv
    BY <2>1
       DEF Init, NewPortrait, NoPortrait, JobsInv, JobsTypeOK, JobsRemembered, Gone, JobsOfReconcile,
           PortraitWhole
  <2>3. LeftInv
    BY <2>1, MostEditsIsMost, PortraitAssumption DEF Init, LeftInv
  <2>4. /\ hp.exists /\ ~ hp.deleting /\ ~ hp.finalizer /\ hp.generation = 1
        /\ cachedHp = NoPortrait /\ copy = NoPortrait /\ lagging /\ pc = "idle"
        /\ \A j \in JobTypes : job[j] = Nil
    BY <2>1 DEF Init, NewPortrait, NoPortrait
  <2>5. GenerationsInv
    BY <2>3, <2>4
       DEF GenerationsInv, Numbered, SameAsStored, NextGeneration, NoPortrait, LeftInv, TroubleKinds
  <2>6. SpecsInv
    BY <2>1, <2>4 DEF Init, NewPortrait, NoPortrait, SpecsInv, Holding
  <2>7. FinalizerInv /\ CopyInv /\ FollowedInv
    BY <2>4
       DEF FinalizerInv, CopyInv, FollowedInv, WatchedNow, Held, Holding, Released, Gone, NoPortrait
  <2> QED
    BY <2>2, <2>3, <2>5, <2>6, <2>7 DEF SpecifiedInv
<1>2. SpecifiedInv /\ [Next]_vars => SpecifiedInv'
  BY NextSpecified
<1>3. SpecifiedInv => JobsAsSpecified
  <2>1. SUFFICES ASSUME SpecifiedInv, AtRest, InCharge \/ ~ hp.exists, NEW j \in JobTypes
                 PROVE  IF hp.exists /\ Asks(hp, j) THEN job[j] = hp.spec.template \/ j \in outdated
                        ELSE job[j] = Nil \/ j \in overlooked \union forgotten
    BY DEF JobsAsSpecified
  <2>2. CASE ~ hp.exists
    BY <2>1, <2>2 DEF SpecifiedInv, FollowedInv, Held, Gone
  <2>3. CASE InCharge
    <3>1. WatchedNow /\ pc = "idle" /\ hp.exists
      BY <2>1, <2>3 DEF AtRest, InCharge, WatchedNow, Watched, SpecifiedInv, GenerationsInv
    <3> QED
      BY <2>1, <3>1 DEF SpecifiedInv, FollowedInv, JobsAre, JobIs, Gone
  <2> QED
    BY <2>1, <2>2, <2>3
<1> QED
  BY <1>1, <1>2, <1>3, PTL DEF Spec
=============================================================================
