# Kapacity in TLA+

Kapacity is a set of Kubernetes controllers that scale a workload. An
`IntelligentHorizontalPodAutoscaler` (IHPA) names a target and the *portraits*
that say how many replicas it should have; the IHPA controller turns the value
of the moment into a `ReplicaProfile`, step by step if a gray strategy says so;
the ReplicaProfile controller labels the pods (`Online`, `Cutoff`, `Standby`),
switches their traffic and sets the scale of the target.

This directory holds TLA+ models of the parts of it where the order of things
matters, the configurations TLC checks them with, and proofs TLAPS checks.
Paths below are relative to the repository root.

## 1. Inventory

| Component | State it keeps | Operations | Interacts with | Correct when |
|---|---|---|---|---|
| Pod state manager (`pkg/pod/state.go`) | none: a calculation over a list of pods | `CalculateStateChange` | called by the ReplicaProfile controller, calls the sorter | each state gets the pods it wants if there are enough, in the order of the states; no pod is moved twice; the pods left over are the ones the workload removes; the change settles |
| ReplicaProfile controller (`controllers/autoscaling/replicaprofile_controller.go`) | `podSelectorCache`; informer caches; work queue; conditions and counts in the status; pod labels, readiness gates and scale on the API server | `Reconcile`, the pod watch (`podStateChangePredicate`, `findReplicaProfileToEnqueueForPod`) | reads profile and pods from caches, the scale live; patches pods, updates scale and status | labels, traffic and scale converge to the spec, traffic is switched before the label, not too few pods serve meanwhile, direction and pause are respected, the selector cache leaves with the profile |
| Readiness gate (`pkg/pod/traffic/readinessgate.go`) | one condition in the pod's status | `On`, `Off` | patch of a cached copy | no other condition is lost |
| Workloads (`pkg/workload/`) | none | `Sort`, `CanSelectPodsToScaleDown`, `SelectPodsToScaleDown` | the workload controllers of the cluster | the order is the one the workload controller uses |
| IHPA controller (`controllers/autoscaling/intelligenthorizontalpodautoscaler_controller.go`) | previous and current portrait value, gray percentage and its time in the status; `portraitIdentifiersMap` in memory; work queue with its timers | `Reconcile`; the choice of the portrait value; `generateIHPAReplicaData` | owns the ReplicaProfile, is woken by generations, by the channel of the providers and by its timer | the profile converges to the portrait within the bounds, at the pace of the strategy, and no pod is given up before it was observed |
| Portrait providers (`pkg/portrait/provider/`) | maps of running cron tasks and timers | Static, Cron, Dynamic: start, stop, fetch | send to the event channel of the IHPA controller (1024 places) | every change of the value is announced, nothing is announced twice for ever |
| HorizontalPortrait controller (`controllers/autoscaling/horizontalportrait_controller.go`) | `externalAlgorithmJobTypesMap` in memory; portrait data in the status | `Reconcile`, sync period | reactive generator, external job and its result | the portrait is renewed each period; the job of a portrait goes with it |
| External algorithm job (`pkg/portrait/algorithm/externaljob/`) | a CronJob, a ConfigMap | `UpdateJob`, `CleanupJob`, `FetchResult`, the informer's callbacks | event channel of the portrait controller | each result is seen |
| Reactive generator (`pkg/portrait/generator/reactive/`) | none | the HPA's replica calculation | metric provider, pods | no scaling down on half of the evidence |
| Prometheus provider (`pkg/metric/provider/prometheus/`) | registries of series; the lister's goroutines and channels | relisting with a backoff, queries, sharding of ranges and the merge of their answers | Prometheus | the shards cover a range once; an answer is whole and about what was asked for; a registry is what a listing found; nobody waits for ever |
| Webhook (`internal/webhook/pod/mutating/`) | none | injects gate and condition into new pods | API server | a pod of a profile starts with its gate |
| Metrics API provider (`pkg/metric/provider/metricsapi/`), metric service (`pkg/metric/service/`) | none | latest samples from the metrics API of Kubernetes; the gRPC service that turns requests into queries | metrics API; the Python algorithm as its client | a request is converted or refused as a whole; an answer is about what was asked for |
| Scale client (`pkg/scale/`), start-up (`main.go`) | none | `GetScale` over the mappings of a kind; which providers, generators, jobs and fetchers there are | API server | |
| Generated code, Python algorithm | | | | see "What is not modelled" |

What is hard here:

* **Caches that trail.** Both controllers read from informer caches and write to
  the API server. Finalizers and profiles are *patched by name*, so a patch that
  was computed from an old copy hits whatever object now has the name; status
  updates carry a resource version and conflict.
* **Wake-ups.** `GenerationChangedPredicate` hides status updates, the pod watch
  hides everything but a change of state; what wakes a controller after a step
  that did nothing?
* **One step of several fails.** A state change is up to five rounds of calls, a
  gray step is a patch and a status update.
* **Restarts** lose the queue's timers, the plan of the reconcile in flight, and
  three maps.
* **Time.** Intervals and observation times are measured from a status field; values
  begin and end to hold while a reconcile is between two of them.
* **Maps in memory** say what is to be cleaned up (identifiers of portraits, types of
  jobs, timers and crontabs). They are read, kept or dropped at different points of a
  reconcile, and empty after a restart.
* **Goroutines.** A relisting asks for each selector in one of its own and may return
  before they are done; the shards of a range are answered in any order.

`PROJECT.json` lists the hazards at their lines with the properties that catch them going
wrong, or with why there is none; those of less weight are in section 6.

## 2. Modules and plan

| Module | Models |
|---|---|
| `StateManager` | `CalculateStateChange` as operators over sets of pods and the sorter's rank |
| `MCStateManager` | a harness that applies the change again and again; the workload removes pods |
| `StateManagerProofs` | five theorems about it; EXTENDS `MCStateManager` |
| `ReplicaProfile` | the controller, one profile and its pods; INSTANCEs `StateManager` |
| `MCReplicaProfile` | instances of it |
| `ReplicaProfileProofs` | eight theorems about it |
| `GrayChange` | the gray calculation: `generateIHPAReplicaData` and what it calls, as operators |
| `MCGrayChange` | a harness that takes one change from its first step to its end |
| `GrayChangeProofs` | four theorems about such a change; EXTENDS `MCGrayChange` |
| `IHPA` | the controller, its autoscaler and profile; EXTENDS `GrayChange` |
| `MCIHPA`, `IHPAProofs` | instances of it; four theorems, two of them about the instances that begin at rest |
| `Portraits` | the other half of that controller: the providers, their crontabs and timers, and the choice among their values |
| `MCPortraits`, `PortraitsProofs` | an instance of it; three theorems |
| `HorizontalPortrait` | the controller of the portraits, with its external job and its generator |
| `MCHorizontalPortrait`, `HorizontalPortraitProofs` | an instance of it; three theorems |
| `RangeShards` | the abstract specification of a range query: it is cut into shards that ask for each step once |
| `RangeShardsProofs` | two theorems about it |
| `PromMetrics` | the Prometheus provider: lister and queries; EXTENDS `RangeShards` |
| `ReactiveGenerator` | the generator that asks it; EXTENDS `PromMetrics` |
| `MCMetrics`, `MetricsProofs` | an instance of the whole pipeline; the refinement and seven theorems |

The modules meet where the components do. `ReplicaProfile` is told a spec, `IHPA` writes
one. `IHPA` takes the value of its portraits as an input that changes at will and with
an event; `Portraits` is where that value and that event come from. `Portraits` has a
`HorizontalPortrait` filled with data at will; `HorizontalPortrait` is who fills it, from
a job's result or from what the metrics ask for; `ReactiveGenerator` is that question put
to `PromMetrics`, which EXTENDS `RangeShards`. The last three are one specification.

What is left, in this order:

1. `Rollout`: an abstract specification (the replicas asked for move from one value to
   the next and stop there), and the composition of `IHPA` and `ReplicaProfile` shown to
   implement it.
2. `PodConditions`: readiness gate, webhook and kubelet as writers of one list.

## 3. How the modules correspond to the code

### StateManager

`StatesInfo` is the code's map from state to `stateInfo` (`current`, `candidate`).
`Pull` is the loop that takes pods from the later states, `Push` the one that
passes the surplus on, `SettleOnline`, `SettleCutoff`, `SettleStandby` the bodies
of the outer loop for the three running states, `CalculateStateChange` the answer.
The sorter is a rank: `FirstSorted` and `LastSorted` are the two directions of
`selectPodsToTransfer`. The recursion over states is unrolled, so the module can
be used by proofs.

### ReplicaProfile

One profile, one workload with `MaxPods` names for pods. An action is what the
controller does from one call to the API server to the next; between two actions
anybody else may act. `pc` names the call that comes next:

| Actions | Code |
|---|---|
| `BeginNothingToDo`, `BeginDeletion`, `BeginFirst`, `BeginAgain` | get from the cache, deletion, finalizer (82-112) |
| `RemoveFinalizer`, `AddFinalizer`, `FinalizerPatchMisses` | patches by name; the answer of the second replaces the copy |
| `Pause` | paused profiles (116-127) |
| `GetScale`, `List`, `Reflect`, `ReflectConflict` | scale, selector cache, pods, counts in the status (129-180) |
| `SkipStateChange`, `SorterUnsupported`, `PrepareFails`, `PlanStateChange`, `PlanPanics` | may the states change and which pods do (184-234) |
| `TrafficOn`, `LabelOnline`, `TrafficOff`, `LabelCutoff`, `LabelStandby`, `PodPatchMisses` | the calls for each pod (236-296) |
| `UpdateScale`, `ScaleConflict`, `Finish` | 315-343 |

`rp`, `original`, `scale`, `listed` and `plan` are the local variables of
`Reconcile`; `conflict` and `scaleConflict` stand for resource versions;
`cachedProfile`, `cachedPods` and `lagging` for the informers, which may be
arbitrarily late and deliver what they missed at once; `queued` for the queue,
which holds a key once and hands it to one worker at a time. `generation` counts
on over recreation, so it also tells objects of the same name apart.

Pods carry a phase, the label and the gate. The workload controller creates and
removes pods until there are as many as the scale says; a StatefulSet removes its
highest ordinals, as `statefulset.go` assumes, any other kind removes any. Pods
and messages that only matter to events and logs are left out.

### GrayChange and IHPA

`GrayChange` has one operator per function of the calculation: `IsGrayActive`,
`CurrentGrayStrategy`, `GrayRemainTime`, `GenerateReplicaData`. Time is counted in
ticks; instead of `LastUpdateTime` the status keeps its *age*, which stops growing
at `MaxAge`, the longest wait of the strategies used. The code truncates the stored
time to seconds, so an age may read up to a second more than it is; the model's
does not. Portrait values keep the number and a *provenance*, which stands for
provider and expire time and only matters for equality.

`IHPA` adds the controller around it, with the same conventions as
`ReplicaProfile`:

| Actions | Code |
|---|---|
| `Begin*`, `RemoveFinalizer`, `AddFinalizer`, `FinalizerPatchMisses` | 93-125 |
| `Pause`, `PauseMisses`, `PauseReport` | 127-153 |
| `FetchNothing`, `FetchNothingUnrecorded`, `Fetch`, `StoreValue`, `StoreValueConflict` | 155-182 |
| `CreateProfile`, `KeepProfile`, `PatchProfile`, `ProfileCallMisses`, `GeneratePanics` | `Auto`, 195-271 |
| `DeleteProfile` | `Preview`, 272-281 |
| `Report` | 283-289: status, then `RequeueAfter` |
| `CallFails`, `Restart` | error returns with `errorOut`; the process |
| `DeliverIhpa`, `DeliverRp`, `Tick` | watches with their predicate; the timer of the queue |

The portrait providers are one variable, the value they would come up with now;
that it changes comes with an event on the controller's channel (see `Portraits`). The owner's edits,
the garbage collector, and the ReplicaProfile controller's letting go of a deleted
profile are the environment.

### Portraits

`updateAndFetchPortraitValue` and `pkg/portrait/provider/`: one Static, one Cron, and one
Dynamic provider for each type of portrait. A key is the identifier of a portrait.

| Actions | Code |
|---|---|
| `BeginNothingToDo`, `BeginDeletion`, `BeginCleanup` | 99-152 of the IHPA controller, as far as it concerns portraits: a paused autoscaler keeps what it has, the end of one drops its entry of `portraitIdentifiersMap` (and not its triggers) |
| `CleanupPortrait`, `CleanupFails`, `BeginProviders` | 357-380 and `dynamic.go`, 126-147: portraits that are no longer in the spec, then the new identifiers |
| `UpdateStatic`, `UpdateCron`, `KeepHorizontalPortrait`, `CreateHorizontalPortrait`, `PatchHorizontalPortrait`, `UpdateMisses`, `UpdateFails` | `UpdatePortraitSpec` |
| `FetchStatic`, `FetchCron`, `FetchMisses`, `FetchNoData`, `FetchExpired`, `FetchUnreadable`, `FetchReading` | `FetchPortraitValue` and `buildPortraitValue` |
| `Finish` | the value with the highest priority is followed |
| `TimerFires`, `CronFires`, `Tick` | the goroutines of `common.go`; the clock |
| `DeliverIhpa`, `DeliverHp`, `Restart` | watches (those of portraits include their status); the process |

`crons` is `cronTaskMap`: the rules a key's crontabs run by, and whether one is due.
`timers` is `timerCancellerMap`; a timer that went off stays in the map, as in the code.
Starting crontabs with the same rules, or a timer for the same time, changes nothing; a
rule that cannot be parsed (it begins at `Nil`) stops the old crontabs first.

The clock counts ticks and stops at `Horizon`; a crontab repeats itself after `Period`
ticks. Between a tick and the event of a crontab or timer anything may happen. A reading
of data has an end (`expire`) and a time at which its timer goes off (`wake`), which
differ where a crontab already goes off at the end.

### HorizontalPortrait

| Actions | Code (`horizontalportrait_controller.go`) |
|---|---|
| `BeginNothingToDo`, `BeginDeletion`, `BeginFirst`, `BeginAgain` | 92-115, 253-265 |
| `CleanupLastJob`, `RemoveFinalizer`, `AddFinalizer`, `FinalizerPatchMisses` | 229-278: the finalizer and what has to be done before it goes; the job of a portrait that is no longer filled by one |
| `CleanupPreviousJob`, `NoPreviousJob`, `UnknownJob` | 206-221: the job of another type than the specified one; the type is remembered in `externalAlgorithmJobTypesMap` |
| `KeepJob`, `UpdateJob`, `UpdateJobMisses` | `UpdateJob` of `cronjob.go`: create, or patch the parts in which the template differs from the cached copy (`Patched`) |
| `FetchResult`, `GotNothing` | `configmap.go` |
| `Generate`, `NoGenerator` | the reactive generator, or none for such a portrait |
| `StoreReport`, `LeaveReport`, `ReportConflict` | 171-182: the status and the sync period |
| `CallFails`, `Restart` | error returns, which report the failure (`ErrorOut`); the process |
| `DeliverHp`, `DeliverJob`, `DeliverResult`, `SyncPeriodEnds` | informers; only those of portraits and results wake the controller |

`lastJob` is the entry of the map. A job is its template, a function over `Fields`, the parts
that a merge patch sends one by one. The exceptions of the properties are history variables:
`overlooked` are jobs that were not deleted because the cache showed none yet, `forgotten` those
that were there at a restart and whose type no reconcile has asked for since, `outdated` those
last kept or patched by a cached copy that was behind, and `statusLeft` says that the status was
taken for up to date by an old copy. The next reconcile that deals with the job, or stores the
status, ends the exception.

### RangeShards, PromMetrics, ReactiveGenerator

`RangeShards` is the loop that cuts a range into shards (`provider.go`, 216-231): `AddShard`
is one turn of it. `Steps` says at which points Prometheus evaluates a range.

`PromMetrics` has the lister and one query at a time:

| Actions | Code |
|---|---|
| `Relist`, `ReceiveErr`, `ReceiveFound`, `SetSeries` | `runnable.go`: one kind of series after the other; the loops over the two channels; the registry is replaced |
| `GoroutineGoes`, `OrphanGoes`, `PromRefuses` | the goroutines of a listing, and of one that was given up; an answer that fails |
| `Request` | `server.go`, or a caller within the process: conversion of the request, which may fail |
| `BuildFails`, `BuildLatest`, `BuildRange` | which samples the query is about (`query.go`, the registries, `resource.go`) |
| `AskLatest`, `LatestFails`, `AskMetricsApi` | the latest samples, from either provider |
| `Shard`, `ShardAnswered`, `ShardRefused`, `ShardFails`, `Merge` | the shards of a range in goroutines, the wait for all of them, and the merge of their points |
| `SeriesChange` | Prometheus gets and loses series |

A listing has the state of each goroutine, by its selector, and the two buffered channels.
It is left at the first error with its goroutines running (`orphans`). Selectors that
several namers share are asked for once, and something is sent for each namer
(`FoundAtOnce`). What a query in PromQL asks for is the set of pods or the series it names.

`ReactiveGenerator` asks for the metrics of a portrait one after the other and takes the
largest proposal: `Generate`, `SkipMetric`, `AskMetric`, `TakeAnswer`, `Decide`. What the
`ReplicaCalculator` of Kubernetes makes of samples is any member of `Proposals`, or an error.

### Bounds

`Troubles` bounds how often each kind of disturbance happens in a run (edits,
failures, restarts, evictions, scalings by hand, portraits, results or series that change);
it is a set of such mixtures, one of which is chosen at the start (in `ReplicaProfile`
one mixture). Everything else is unbounded. `MaxPods`, `MaxReplicas`, `MaxAge`, `Horizon`,
`Period`, `MaxPoints` and the sets `Specs`, `Portraits`, `Percents`, `Datas`, `Ranges`,
`Requests` bound the data. The proofs use none of these bounds.

`CHECK_DEADLOCK FALSE` is set in the runs of the controllers and of the metrics: a
controller with nothing to do and a bounded environment may stop.

### Fairness

Weak fairness of the worker's next step (controller-runtime hands out queued keys,
and retries failed ones), of each watch (informers catch up), of the workload
controller and the kubelet, of the clock, and of the garbage collector. `Portraits` adds
each timer and crontab that is due (a goroutine of its own each), `HorizontalPortrait` the
sync period, and the metrics the lister (it is called again by a backoff, without end), the
goroutines of its listing, and whoever asks: an HTTP call to Prometheus returns, with an
answer or an error. The goroutines of a listing that was given up are not
assumed to be scheduled; `NobodyBlocks` says that they can end.

Nothing is assumed of users, failures, restarts, portraits or series.
`EventuallySettledAtOnce`, `SettlesUndisturbed`, `EventuallyConverged`, `EventuallyInStep`,
`EventuallyUpToDate`, `DeletedPortraitsGo` and `EventuallyListed` therefore speak of the time
after the last disturbance, and the bound `Troubles` is what makes that time come. They are of
the form `<>[]`, so an environment that is quiet is not a condition that could fail
to hold.

## 4. Runs

Runs that pass:

| Run | Question | Bounds |
|---|---|---|
| `state_manager` | does the state change fill the states, move no pod twice, delete the right pods and settle? | 4 pods, every labelling, every wish |
| `rp_gray` | is traffic switched before the label, with edits, a failure and a restart in between? | 3 pods, 2 edits, 1 failure, 1 restart |
| `rp_lifecycle` | does the selector cache leave with the finalizer; is a spec overlooked, or a scaling by somebody else overwritten? | 1 pod of a ReplicaSet, 2 edits, deletions or creations, failure, restart, scaling |
| `rp_modes` | scaling down, pauses and directions: do enough pods serve, is the direction respected? | 2 pods, 8 specs, 2 edits, 1 failure |
| `rp_live` | do labels and scale converge? | 2 pods, edit, failure, eviction |
| `gray_change` | one gray change, every bound, value and strategy | values to 5 |
| `ihpa_plain` | without a gray strategy, does the profile end as the autoscaler asks; is a spec overlooked, also after a panic? | 5 specs; portrait, edit and failure, or 2 edits and restart, or edit, restart and a meddling user |
| `ihpa_gray` | pace and observation time, with restarts at any point; does the change end without them? | 3 to 1 and 1 to 3, shares of 50% and 60%, no or 2 restarts |
| `portraits` | is the value of the moment followed, with no wake-up missing; do removed portraits and their triggers go? | 7 specs, 5 sets of data, 4 ticks, crontabs with a period of 3; edit and data, or data, failure and restart, or edit and restart, or 2 edits and failure, or 2 sets of data |
| `horizontal_portrait` | are the jobs the specified ones, do they go before the portrait, and does the portrait get up to date? | 7 specs, 2 types of jobs and an unknown one, 3 templates of two parts (so that a patch may leave a part as it is), 2 results and a broken one; seven mixtures of edits, results, load, failure and restart |
| `metrics` | is a range answered whole, is an answer about what was asked for, does the lister hold what Prometheus has, does nobody wait for ever, is no metric ignored? | 2 namers of each kind, 3 series, 3 pods, at most 3 points in a shard, ranges cut into two and into three shards, the last ones shorter, and an empty one; one request or portrait, with one change or failure |

The bounds are small because what goes wrong goes wrong among few: two pods are
enough for the surplus of one state to be the lack of another, a third for a choice
between pods; two edits make a spec stale, withdrawn and repeated; one failure or
restart at each possible point meets every prefix of a reconcile; a period of three ticks
has rules that touch, that overlap and that wrap around it; two namers with one selector
are enough for a channel to get less than one item per namer. Each property is
violated by at least one plausible change of the code (`mutants` in `PROJECT.json`;
the operators marked "a slip" in the modules), within the same bounds. The type invariants
of `IHPA`, `Portraits`, `HorizontalPortrait` and `ReactiveGenerator` are not among the properties of
the runs; they hold when `TypeOK` is added to the configuration.

Where properties have exceptions, these are the cases the code gets wrong, and each is as
narrow as the history it needs: `overlooked`, `forgotten`, `outdated` and `statusLeft` of
`HorizontalPortrait`, `overlooked` and `inherited` of `Portraits`, portraits handed to others,
crontabs that cannot be parsed. The runs reach each of the histories: without it its property is violated.
They are listed with the divergences below.

A run that shows the code and its documentation disagree (`findings` in
`PROJECT.json` has the lines):

| Run | What happens |
|---|---|
| `rp_traffic` | traffic and label are switched by two calls, only the label is compared: a failure between them and a change of mind leave an online pod without traffic, or a cut off one with |

### Known divergences without a run of their own

These were met while modelling. Each has a configuration here that shows it (run
`tlc -config X.cfg M`), which is not among the runs of `PROJECT.json`.

| Configuration, module, property | What happens, and where |
|---|---|
| `RPdirection.cfg`, `MCReplicaProfile`, `ScaleRespectsDirection` | `replicaprofile_controller.go:316`: the scale is not among what the allowed direction holds back; "scale up only" scales an online pod away |
| `IHPAstall.cfg`, `MCIHPA`, `EventuallySettled` | `intelligenthorizontalpodautoscaler_controller.go:289`: a gray step that leaves the profile as it is has no successor, neither event nor timer |
| `IHPAfails.cfg`, `MCIHPA`, `GrayPace` | the same file, 258: a failed patch counts as a gray step taken |
| `RPsortpanic.cfg`, `MCReplicaProfile`, `EventuallyConverged` | `pkg/workload/replicaset.go:55` indexes a slice of length 0 (`make([]int, 0, len(pods))`), so the order of a ReplicaSet's or Deployment's pods panics for every list that is not empty; the panic is recovered and repeated for ever |
| `RPstatus.cfg`, `MCReplicaProfile`, `StatusIsCurrent` | `replicaprofile_controller.go:499` compares the new status with a cached copy that may be older than the stored one: the update that would count a pod again is not sent |
| `RPwakeup.cfg`, `MCReplicaProfile`, `EventuallyConverged` | `replicaprofile_controller.go:310`: a state change skipped while pods and scale differ is not tried again when only the scale moves back, because no pod changes and no event comes |
| `IHPArestart.cfg`, `MCIHPA`, `EventuallySettled` | `intelligenthorizontalpodautoscaler_controller.go:254`: after a restart between the patch and the status update the step is repeated, finds the profile as wanted, and sets no timer |
| `IHPApreview.cfg`, `MCIHPA`, `EventuallySettled` | the same file, 455: from Preview to Auto with a strategy, the gray status is nil, and each reconcile panics |
| `IHPAbounds.cfg`, `MCIHPA`, `WithinBounds` | 172 and 443: a value stored before it is capped starts the next gray change beyond `maxReplicas` |
| `IHPAclamp.cfg`, `MCIHPA`, `ObservedBeforeGivenUp` | 440: the cap is written through a pointer into the status and taken for the portrait's value; the next reconcile sees a new value and ends the gray change |
| `IHPAzero.cfg`, `MCIHPA`, `GrayPace` | `pkg/portrait/provider/dynamic.go:226-231`: no expire time is a pointer to the zero time, stored as none and never equal to it again; every reconcile takes the value for new |
| `IHPAstale.cfg`, `MCIHPA`, `ObservedBeforeGivenUp` | 170: the value goes and comes back before the cache shows it, and is followed without a gray change |
| `IHPAmidway.cfg`, `MCIHPA`, `ObservedBeforeGivenUp` | 172: a new value in the middle of a gray change starts from a target that was never reached, and the pods in the gray state are given up unobserved |
| `MCHorizontalPortrait.cfg` with `EveryDeletedPortraitGoes` added | `horizontalportrait_controller.go:191`: a portrait that is handed to an external generator and then deleted keeps its finalizer for ever, as the predicate of the watch hides it |
| `MCHorizontalPortrait.cfg` with `AlwaysGetsUpToDate` added | the same file, 290: whether the status has to be stored is decided against the cached copy; a change back is taken for no change |
| (the exception `overlooked` of `RemovedPortraitsGo`) | `dynamic.go:136` and the IHPA controller, 367: a portrait whose provider is removed before it is in the cache, or while the manager is down, is never deleted |
| `MCHorizontalPortrait.cfg` with `NoMixedJobs` added | `cronjob.go:94`: the patch is the difference to a cached copy that may be behind. The template changes from (a, a) to (a, b) and, before the cache shows the job, to (b, a): only the first part is sent, the job is (b, b), and nothing wakes the controller |
| (the exception `outdated` of `JobsAsSpecified`) | `cronjob.go:88`: a job is kept as it is, or patched in part, by a cached copy that was behind |
| (the exceptions `overlooked` and `forgotten` of `JobsAsSpecified` and `JobsGoFirst`) | `cronjob.go:118` and `horizontalportrait_controller.go:231`: a job that the cache does not show yet is not deleted; the types of jobs are forgotten by a restart, and a portrait that has another algorithm by then, or is deleted, leaves its job behind |
| (the exception `inherited` of `NoStrayTriggers`) | the IHPA controller, 109: the triggers of a deleted autoscaler are not stopped, as a FIXME there says; they run on until an autoscaler of the name has the same provider |

`ihpa_gray` starts from an autoscaler at rest (`RestInit`) and changes the portrait
once. That is what the divergences leave: a profile that was just created, a failing
patch, a second change or a status update that is lost each break pace, observation
or progress. For the same reason `rp_gray` keeps the total of the pods: a pod that is
deleted and created again under its name, between its traffic and its label, is
labelled without having been switched.

## 5. Proofs

`StateManagerProofs` proves of the algorithm, for every finite group of pods, every order of
the sorter, every labelling and all replicas wanted (`GroupAssumption`; `RankAssumption` says
that the order is total):

* `FillsGreedily`: `Spec => []GreedyFill`.
* `PlacesEachPodOnce`: `Spec => []EachPodPlacedOnce`.
* `WorkloadDeletesWhatIsWanted`: `Spec => []WorkloadDeletesTheRightPods`.
* `SettlesInTwoRounds`: `Spec => []SettlesSoon`.

They are about what one calculation makes of pods, so most of the proof is not about steps but
about `Pull` and `Push`: how many pods they move (`PullStep`, `PushStep`), that they keep a
partition of the running pods (`Apart`, `SamePods`), never take a pod to the state it came from
(`Origin`), and keep pods that are in order in order (`InOrder`). The three iterations of the loop
follow one from the other: the first gives Online what it is to have, and neither of the next
can take from it. Below this are facts about the first elements of a finite set in an order, by
counting (`Start`, `BeginningOf`). `SettlesSoon` is not inductive: `SettlingInv` adds what a round
leaves behind, which is that the pods are ordered or nothing is left to remove, and at the end
that each state has what it is to have. It is proved as `SettlingInvariant`.

`ReplicaProfileProofs` proves, for any number of pods, any set of specs, any kind of
workload and any bounds (`ConstantsAssumption`; the last two say what else they need):

* `TypeCorrect`: `Spec => []TypeOK`. The part that is not book-keeping is that the
  plan of a reconcile only names pods of the workload; it rests on lemmas about
  `Pull` and `Push` of `StateManager`.
* `FinalizerHeld`: `Spec => []FinalizerInv`.
* `SelectorOwned`: `Spec => []SelectorCacheOwned`: the in-memory selector exists only
  while the stored profile carries the finalizer.
* `ScaleKept`: `Spec => ScaleNotOverwritten`: a reconcile only overwrites the scale it
  based its decision on.
* `LatestSpecReported`: `Spec => []ReportsLatestSpec`: at rest the conditions tell of the
  latest spec.
* `DirectionKept`: `Spec => DirectionRespected`: no plan moves pods against the direction of
  the profile.
* `ServiceFloorKept`: with `OnlyProfileScales`, `Spec => []ServingFloor`.
* `TrafficSwitchedFirst`: with `OnlyGray`, `Spec => TrafficBeforeLabel`.

`SelectorCacheOwned` is not inductive. What a reconcile knows is a cached copy of the
profile, and finalizers are patched by name, so the copy may be of a profile that is
gone. `FinalizerInv` says what an old copy still implies: an undeleted one with the
finalizer implies that the stored profile has it (the only one to remove it is this
worker, and it starts to when the *cache* shows a deletion); a deleted one implies that
no newer profile of the name has got it yet; and while the worker is past the finalizer
the stored profile cannot lose it. The proof has a step for each action.

`ScaleNotOverwritten` follows from `ScaleInv`: from the read of the scale to its update,
either the copy is what is stored or the reconcile knows that it is old. The read comes
long before the update, after calls for any number of pods, and the only step between
that can write the scale is a user's, which makes the resource version differ.

`ReportsLatestSpec` needs `LatestInv`, which goes by generations: every edit takes a new one
(`GenerationsOld`), so a copy of the stored generation is one of the stored object, and what it
came with as recorded is recorded (`CopyTells`); while the cache is older, or a reconcile works
with an older copy, a wake-up is queued or still to come (`Pending`). A reconcile that leaves
without being tried again has stored the generation it worked with, or found it stored.

`DirectionRespected` is about the step that plans. By lemmas about `Pull` and `Push`, with
targets that are at least (or at most) what is there, Online pods are never handed on (or none
becomes Online); `SeenInv` says that the pods that are counted for these targets are those
listed, whatever has become of the pods since.

`ServiceFloorKept` is for a StatefulSet whose pods do not die and that nobody else scales
(`OnlyProfileScales`, which the constants of `RPmodes.cfg` satisfy): an eviction, a user who
scales the workload, and a workload that removes pods in no order of its own all take pods out
of service, and the controller only learns of it afterwards. Edits, deletions, failed calls,
restarts and late watches are all in it. A count of pods in service is not inductive, since a
reconcile decides from counts it has read earlier. `FloorInv` therefore names the pods: those
with the lowest ordinals (`Keepers`), as many as the floor, are in service on the server, in the
cache and in every copy, every decision asks for at least so many, and no plan takes one of
them. The plan spares them by a lemma about `StateManager` (the first in the order of the sorter
are the last to go), and the workload because it removes from the highest ordinal.

`TrafficSwitchedFirst` is for specs that shift a constant number of pods between online and cutoff
in both directions (`OnlyGray`, which the constants of `RPgray.cfg` satisfy), which is what
the steps of a gray change through Cutoff are; the kind of workload does not matter. A pod that
is replaced comes without a label and with its own traffic, and `rp_traffic` shows what becomes
of that. What is hard is that the reconcile looks at cached pods: whether a pod's
traffic is already right, and whether its label is, may be seen as of different moments.
`GrayInv` relates each copy of a pod to the pod (`Follows`: a pod that was halfway still has that
traffic, and a new label is settled), and each pod that a reconcile is about to move to where it
is (`Heading`, `CopyIsRight`, `OnTheWay`: its traffic is switched or still to be switched by the
plan, whose phases come in that order).

`IHPAProofs` proves of the IHPA controller, for every set of specs and values and any
disturbances (`ConstantsAssumption`, `MaxAgeAssumption`, `NilAssumption`):

* `TypeCorrect`: `Spec => []TypeOK`. Whatever the gray change computes, the replicas the
  profile is asked for and the times stay numbers; a reconcile that acts has a value.
* `LatestSpecReported`: `Spec => []ReportsLatestSpec`.

The second goes the way of its namesake, with one case more: a reconcile that finds no
value of any portrait leaves without a record, and the next value brings an event
(`Unpromised`). The count of edits left gives each its generation, so `ConstantsAssumption` asks
that among the mixtures of disturbances there is one with the most edits.

Two more theorems are about one change of the portrait value, from a profile at rest
(`RestSpec`), while nobody edits anything, no call fails, and the values are within the
bounds and expire at some time or never (`OneChange`, which the constants of
`IHPAgray.cfg` satisfy). The replicas and the strategies are any, restarts may happen at
any time and any number of times, the caches lag, and status updates conflict:

* `GrayKeepsPace`: `RestSpec => GrayPace`.
* `GrayObserves`: `RestSpec => ObservedBeforeGivenUp`.

`OneChange` is as weak as the code allows: section 4 has a counterexample for a second
change, a failed call, a value beyond the bounds and an expire time of zero. The profile and
the status that says how far the change is are two objects, written one after the other and
read from caches, so neither property is inductive. `CourseInv` says where they are seen from
each other:

* The profile is where the percentage of the stored status says, or one step further, if that
  step was due and its status is still to be stored, or at the end (`Standing`). The pods have
  been there for at least as long as the gray status is old, which is what makes its age a
  measure of the interval and of the observation time (`InStep`). A restart between patch and
  status leaves the profile one step ahead; the same step is computed again then.
* A status in the cache, or in the copy of a reconcile, is the stored one, or does not know of
  the change yet, or is one step behind, but then the profile has made that step already
  (`Trails`): a reconcile that acts on it repeats a step, and does not make a new one.
* What a reconcile is to store is what is stored or the step it has just made (`Reporting`); the
  first status of the change is only stored over one that does not know of it (`Adopting`).

TLC checked `CourseInv` on the instance of `IHPAgray.cfg` before it was proved. `Effect`
sums up what acting does to the profile: nothing, all of it at once without a
strategy, its end, or its next step; the two theorems follow from that and from
arithmetic about the pods of a percentage (`PodsAtStep`, `PodsAtBounds`).

`GrayChangeProofs` proves of one gray change, for any bounds, previous and current
value, any percentage from 1 to 100 and any waits (`BoundsAssumption`,
`MaxAgeAssumption`; `NilAssumption` says that `Nil` is no value):

* `GrayTypeCorrect`: `Spec => []TypeOK`; in particular no rounding makes a number of
  replicas negative.
* `GrayNeverTurnsBack`: `Spec => NeverTurnsBack`.
* `GrayGoesStepByStep`: `Spec => StepByStep`.
* `GrayKeptUntilObserved`: `Spec => KeptUntilObserved`.

All rest on `GrayInv`: the replicas last asked for are those of before the change, or
those of the percentage in the status, or those of its end. It is needed because the
code keeps the percentage and not the replicas: the calculation of each step starts from
the two values again, and only the invariant says what the step before had asked for.
The rest is arithmetic about `Share`, the pods of a percentage: it grows with the
percentage, is all of them at 100, is never 0, and of two shares the difference is at
most the share of the difference, rounded up (`ShareGrows`, `ShareBounds`, `ShareStep`).
The bounds of the autoscaler do not change during the change; `IHPAclamp.cfg` above
shows what becomes of it when a value beyond them meets the whole controller.

`RangeShardsProofs` proves of the loop that cuts a range into shards, for every range with a
positive step and every limit (`RangesAssumption`, in `RangeShards`):

* `EachStepIsAskedOnce`: `ShardSpec => []EachStepOnce`. The shards ask for every step of
  the range exactly once and, once the loop is through, for all of them, in their order.
* `ShardsAreWithinLimit`: `ShardSpec => []WithinLimit`. No shard has more points than
  Prometheus answers at once.

`EachStepOnce` is not inductive: what the loop has is the start of the next shard.
`ShardInv` adds that this start lies on the grid of the range (`NextOnGrid`), that so do the
starts of the shards (`ShardsOnGrid`), that each shard ends less than a step before the next
begins (`ShardsApart`), and that every step before the start of the next is in a shard
(`Covered`). Only the last shard may be shorter, which is where its end leaves the grid.

`MetricsProofs` proves that the pipeline implements it, with the assumptions of its modules:

* `MetricsImplementShards`: `Spec => ShardSpec`, where `Spec` is that of
  `ReactiveGenerator`. Every step of the lister, of a query, of the goroutines, and of the
  generator is a step of the loop or leaves the shards alone. It needs `QueryInv`: shards
  are only cut for a query that is being made, so a new one begins with none.
* `RangesAskedOnce`, `RangesWithinLimit`: the two properties of the pipeline.

and about the pipeline itself, for all series, namers, requests, metrics and disturbances
(`RequestsAssumption`, `NamersAssumption`, `ReplicasAssumption`: requests have the fields of their
type, the namers of a registry are a list, replicas are numbers):

* `NoMetricIgnored`: `Spec => []NoneIgnored`. A portrait asks for at least what each metric
  asks for, and does not scale down while a metric could not be had.
* `AnswersWhatIsAsked`: `Spec => []AnswersTheQuery`. `AnswerInv` follows a query: what Prometheus
  is asked only brings what the query is about (`Fits`), from the names in a registry, which
  `RegistryInv` says are of series that a namer gave that name; and each shard that has arrived
  has left such an answer (`GatherInv`).
* `RegistriesListed`: `Spec => ListedAsItWas`. `FreshInv` follows what a listing has found
  through the three places it can be, the goroutine, the channel and the cache: in each it
  lies between the series that were there all the time and those that were there at some.
* `NobodyWaitsForever`: `Spec => []NobodyBlocks`. `CountInv` counts: the items received, those
  in the channel and the one that is being looked at are as many as the namers whose item was sent
  at once and the goroutines that are through with it (`Counted`), and the second channel is
  owed one item for each answer without error. With as many items per selector as goroutines,
  and room for all namers, one of them can always move. What is left of a listing that was given
  up keeps only that there is room (`HasRooms`), which is all it needs.
* `RangeAnswersAreWhole`: `Spec => []RangeAnswerWhole`. `WholeInv` says of what has arrived that
  it is an error or has the points of a shard that is not empty, of every pod that is asked for and
  of every series that was there all the time (`IsWhole`). Here the samples of series and those of
  pods must carry labels of their own (`LabelsAssumption`). `Merged` joins the points of the
  shards with a recursive function of the community modules. That function cannot be unfolded by
  an induction theorem, so its steps are written down as a sequence of sequences (`Chain`), and
  what each of them is follows by the first exception there would have to be
  (`NoFirstException`): joined, lists that increase and follow each other increase, and hold
  what is in any of them (`FlattenedInOrder`). The points of one shard are those Prometheus
  takes (`PointsAreSteps`), and with `EachStepOnce` those of all shards are the steps of the range.

`HorizontalPortraitProofs` proves, for any specs, types of jobs and disturbances
(`PortraitAssumption`):

* `JobsAreRemembered`: `Spec => []JobsInv`. Every job there is is of the type the
  controller has in memory, or it was overlooked or forgotten.
* `JobsAreDeletedFirst`: `Spec => JobsGoFirst`. The finalizer only goes when the jobs
  are gone, but for those that were overlooked or forgotten.
* `JobsAreAsSpecified`: `Spec => []JobsAsSpecified`. With nothing left to do there is the job
  the portrait asks for, unless it is outdated, and no other, but for those that were overlooked
  or forgotten.

Overlooked means that the cache did not show the job when it was to be deleted; forgotten that
the job was there at a restart and no reconcile has asked for its type since, so that a portrait
that still asks for its job has lost nothing once it was reconciled; outdated that the cached
copy was behind when the job was last kept or patched.

The code remembers one type for a portrait, drops it where a job is deleted, and sets it before a
job is created. `JobsInv` says that this is enough, with what a reconcile relies on
at two of its calls: at the removal of the finalizer no type is left in memory, and at the
update of a job it is the one of the spec it works with.

`JobsAsSpecified` needs `SpecifiedInv` around it. Two copies of one generation have the same
spec (`GenerationsInv`). A reconcile leaves the jobs its copy asks for (`CopyInv`), and unless
the key is queued, the copy of the reconcile at work, or of the one before, is of the
generation that is cached (`FollowedInv`): this is what the predicate of the watch, which
looks at generations, has to bring about. A portrait without the finalizer has no jobs, and
`FinalizerInv` says what a cached copy still implies of the finalizer, so that it is only
taken off a portrait that is being deleted. A patch relative to a copy that is not behind makes the
job what is asked for (`JobDealtWithIsAsAsked`), for which the specs at hand have to be the
ones there are, with whole templates (`SpecsInv`).

`PortraitsProofs` proves, for any specs, data and disturbances, without a bound on the clock
(`PortraitsAssumption`):

* `NoTriggersStray`: `Spec => []NoStrayTriggers`. When there is nothing left to do, no crontab
  and no timer runs for a provider that is not in the spec of the autoscaler that is there, but for
  those that ran when an autoscaler was deleted (`inherited`), until one with that provider has
  them.

The controller knows what to stop from `known` and the spec. `TriggersInv` says that it knows of every trigger
that it did not inherit, step by step: during the clean-up a trigger is of a key that has still to be cleaned up or is
in the copy at work; afterwards what is known is the copy's keys and only those get
triggers; and a reconcile without a wake-up pending worked with the copy that is cached
(`CopyIsLatest`). The last part is what fails if a watch does not wake the controller.

* `RemovedPortraitsAreDeleted`: `Spec => []RemovedPortraitsGo`. A portrait whose provider was
  removed is deleted, unless it was overlooked, however often the autoscaler is edited,
  deleted and created again.

`PortraitsInv` says that a portrait of the autoscaler that was not overlooked is among the
known keys, and during a clean-up among those still to be cleaned up or those of the copy at
work. The autoscaler may be deleted and created again under its name while the cache still
shows the one before, whose portraits mean nothing for the new one. `UidsFollow` and
`OwnersCached` say that then there is no portrait of the new one yet and no reconcile at work.

* `NoWakeUpIsMissing`: `Spec => []FollowsTheClock`. Whenever nothing is left to be done, the
  autoscaler follows what its providers are to come up with at that time.

This one has more assumptions. `SpecsAssumption` and `DatasAssumption` give specs and data the
fields of their types. `SpecsAssumption` also says that no two providers of a spec share a
portrait or crontabs: the API type demands it of Dynamic providers
(`HorizontalPortraitProvider.Dynamic`), while nothing in the code keeps an autoscaler from having
two Cron providers, and the crontabs of one would then replace those of the other. There may be any
number of Static providers. `NilAssumption` says that `Nil` is no time, no timer and no crontab.

The value is compared with the clock only when a reconcile fetches it, so what has to be shown
is about everything that happens afterwards. `ClockInv` says of the providers that were asked,
while the loop is at work and after it: as long as no trigger of theirs is due and no event is
queued, each has a trigger that goes off before what it said ceases to be so (`Armed`), and what
was chosen is the best of what they say now (`ChosenSoFar`, `Chosen`), by what the caches show.
`Armed` has a part for each kind of value: the crontabs of the rules are running, a timer is set
for the end of data that expire or for the next point of a series, or a crontab goes off before
data with rules expire, which is why the code sets no timer for them. The proof has three parts:

* Time passes (`ProviderGoesOn`). A tick after which no trigger is due is one after which
  each provider says the same. For rules this is arithmetic of slots: a slot that does not come now
  comes when it would have come (`SlotStays`), so the active rules and their ends stay
  (`RulesStay`). For a series it is that the timer is not later than any point to come
  (`SeriesWake`).
* A provider is asked (`FetchedGoesOn`). What it says is compared with the candidate, which stays
  the best of those asked so far (`OneMore`), and its triggers are set as `Armed` has it
  (`CronReadingArms`, `CronsStartTyped`, `TimerStartTyped`). The triggers of the others stay
  as they are, because no two share a key.
* Everything else queues the autoscaler, or is not seen yet (`EventKeepsClock`,
  `RetryKeepsClock`, `UnseenKeepsClock`).

`ClockInv` was checked by TLC on the instance of `MCPortraits` before it was proved.

What stays with TLC:

* Liveness under fairness, which the proof system does not cover: `EventuallyConverged`,
  `EventuallySettledAtOnce`, `SettlesUndisturbed`, `ComesToAnEnd`, `EventuallyInStep`,
  `EventuallyUpToDate`, `DeletedPortraitsGo`, `EventuallyListed`, `EveryQueryAnswered`.

## 6. What is not modelled, and what is simplified

* The pod mutating webhook (`internal/webhook/`): it adds the gate to a pod when it is
  created and keeps no state; in `ReplicaProfile` pods are created with their gate.
* The other conditions of a pod, which the kubelet writes and the patch of the readiness gate
  overwrites with a cached list.
* The composition of the controllers: `IHPA`, `ReplicaProfile`, `Portraits` and
  `HorizontalPortrait` each have the others as an environment that does more than they do.
* The event channels: a trigger puts its key into the queue at once. They have 1024 places
  and a reader that does not wait.
* Time zones and the syntax of crontabs; two Cron providers in one autoscaler.
* The text of PromQL, the templates of the namers, the conversion of samples to quantities, and
  the `ReplicaCalculator` of Kubernetes.
* In `Portraits` what the controller does with the value once it has it (that is `IHPA`), and in
  `IHPA` what the providers do.
* Informers deliver all they have missed of an object at once; a cache that shows an
  intermediate version while a newer one is stored is the version of some moment at
  which the delivery happened, and no older one comes afterwards.
* One profile, one autoscaler, one portrait of a type: the controllers keep no state across
  keys but the maps named above, and one worker handles one key at a time. One query at a time:
  queries share only the registries, which each replaces or reads as a whole.
* The Python forecasting, protobuf and deep copies, flags and wiring: numerical or
  generated or stateless.

Hazards of less weight that no property covers, and why:

| Where | What |
|---|---|
| `replicaprofile_controller.go:200` | an unsupported sorter is reported through `errorOut`, which swallows a failed update: modelled (`SorterUnsupported`), and no text says that it is tried again |
| `portrait/provider/common.go:108` | crontabs start after their rules were parsed; what passes in between is microseconds in the code and one step in the model |
| `portrait/provider/common.go:188` | a trigger that was cancelled may still send when the channel has room: a wake-up too many |
| `portrait/provider/cron.go:42` | all Cron providers of an autoscaler share one identifier and one trigger |
| `portrait/provider/dynamic.go:226` | zero replicas in the data of a portrait mean that there is no value; modelled as it is (`DataValue`), and no text says otherwise |
| `externaljob/jobcontroller/cronjob.go:135` | a CronJob's name joins namespace and name with a dash: two portraits may share one |
| `generator/reactive/generator.go:94` | the scale is read before the metrics; that it moves meanwhile is late by one sync period |
| `generator/reactive/generator.go:182` | a Pods metric without an average value is a nil pointer; the panic is recovered and repeated |
| `generator/reactive/metrics_client.go:221` | a sample that is not a number counts as 0; values of samples are not modelled |
| `provider/prometheus/provider.go:217` | step times limit is a duration of 64 bits, which overflows for steps beyond nine days; the model's numbers do not |
| `metric/service/server.go:83` | a step of zero never ends the loop over the shards; `RangesAssumption` excludes it and nothing in the code checks it |
| `provider/prometheus/query.go:71` | the pods of a selector come from a cache and may have changed; the pods of the model do not |
