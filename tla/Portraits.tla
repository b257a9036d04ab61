------------------------------- MODULE Portraits -------------------------------
(***************************************************************************)
(* Where the replicas of an autoscaler come from: its portrait providers,  *)
(* one Static, one Cron, and one Dynamic provider for each type of         *)
(* HorizontalPortrait.  A Dynamic provider keeps a HorizontalPortrait,     *)
(* which others fill with data, and reads it from an informer cache.       *)
(*                                                                         *)
(* A value holds for a while only.  Nobody polls: crontabs and timers that *)
(* live in the manager's memory put the autoscaler into the work queue     *)
(* when a value begins or ends to hold.                                    *)
(*                                                                         *)
(* The module has the part of the IHPA controller that keeps portraits     *)
(* (updateAndFetchPortraitValue), its providers and their triggers.  IHPA  *)
(* has the rest of that controller; there the value the providers come up  *)
(* with changes at will and always with an event.                          *)
(***************************************************************************)
EXTENDS Integers, Sequences, FiniteSets

CONSTANTS
  Nil,
  PortraitTypes, \* types of HorizontalPortraits
  Specs,         \* specs an autoscaler may be given
  Datas,         \* data a HorizontalPortrait may be filled with
  Period,        \* ticks after which a crontab repeats itself
  Horizon,       \* the time when the model stops looking: a bound
  Troubles       \* how often each kind of disturbance may happen, in every
                 \* mixture that is tried: a bound

TroubleKinds == {"edit", "data", "failure", "crash"}

ASSUME PortraitsAssumption ==
  /\ PortraitTypes \cap {"Static", "Cron"} = {}
  /\ Period \in Nat \ {0}
  /\ \A s \in Specs : DOMAIN s.providers = 1 .. Len(s.providers)
  /\ Horizon \in Nat
  /\ Troubles \subseteq [TroubleKinds -> Nat]

Keys == PortraitTypes \union {"Static", "Cron"}

(***************************************************************************)
(* A rule of a crontab: from one slot of the period to another.  A rule    *)
(* that begins at Nil cannot be parsed.                                    *)
(***************************************************************************)
Slots == 0 .. Period - 1
Rules == [start : Slots \union {Nil}, end : Slots, replicas : Nat]

\* Two providers of a spec share neither a portrait nor crontabs.
ASSUME SpecsAssumption ==
  \A s \in Specs : \A i, j \in DOMAIN s.providers :
    LET p == s.providers[i]
    IN  /\ p.key \in Keys
        /\ p.priority \in Int
        /\ p.key = "Static" => p.replicas \in Nat
        /\ p.key = "Cron" => p.rules \subseteq Rules
        /\ p.key = s.providers[j].key => i = j \/ p.key = "Static"

ASSUME DatasAssumption ==
  \A d \in Datas :
    /\ d.type \in {"Static", "Cron", "TimeSeries"}
    /\ d.expire \in Nat \union {Nil}
    /\ d.type = "Static" => d.replicas \in Nat
    /\ d.type = "Cron" => d.rules \subseteq Rules
    /\ d.type = "TimeSeries" =>
         DOMAIN d.points \subseteq Nat /\ \A t \in DOMAIN d.points : d.points[t] \in Nat

\* Nil is no time, no timer and no crontab.
ASSUME NilAssumption ==
  /\ Nil \notin Nat
  /\ Nil \notin [at : Nat, fired : BOOLEAN]
  /\ Nil \notin [rules : SUBSET Rules, due : BOOLEAN]

Parsable(rules) == \A r \in rules : r.start # Nil

NextAt(t, slot) == t + 1 + ((slot - t - 1) % Period)

\* util.IsCronActive: the rule ends before it begins again.
IsCronActive(t, r) == NextAt(t, r.start) > NextAt(t, r.end)

ActiveRules(rules, t) == {r \in rules : IsCronActive(t, r)}

Earliest(times) == IF times = {} THEN Nil ELSE CHOOSE t \in times : \A u \in times : t <= u
Times(t) == {t} \ {Nil}

(***************************************************************************)
(* What a Dynamic provider makes of portrait data at a time: the replicas, *)
(* how long they hold, and when its timer is to go off (buildPortraitValue *)
(* of a portrait that has not expired).                                    *)
(***************************************************************************)
Expired(data, t) == data.expire # Nil /\ t >= data.expire

Later(data, t) == {p \in DOMAIN data.points : p > t}
InEffect(data, t) == DOMAIN data.points \ Later(data, t)
LatestOf(times) == CHOOSE t \in times : \A u \in times : t >= u

StaticReading(data) ==
  [replicas |-> data.replicas, expire |-> data.expire, wake |-> data.expire]

\* A crontab goes off at the end of its rule: no need for a timer if that is
\* before the data expire.
CronReading(data, t) ==
  LET ends   == {NextAt(t, r.end) : r \in ActiveRules(data.rules, t)}
      expire == Earliest(Times(data.expire) \union ends)
  IN  [replicas |-> IF ends = {} THEN 0
                    ELSE (CHOOSE r \in ActiveRules(data.rules, t) : TRUE).replicas,
       expire   |-> expire,
       wake     |-> IF expire = data.expire THEN expire ELSE Nil]

\* Before the first point there is nothing, but a timer for it.
TimeSeriesReading(data, t) ==
  LET expire == Earliest(Times(data.expire) \union Times(Earliest(Later(data, t))))
      past   == InEffect(data, t)
  IN  [replicas |-> IF past = {} THEN 0 ELSE data.points[LatestOf(past)],
       expire   |-> expire,
       wake     |-> expire]

Reading(data, t) ==
  CASE data.type = "Static"     -> StaticReading(data)
    [] data.type = "Cron"       -> CronReading(data, t)
    [] data.type = "TimeSeries" -> TimeSeriesReading(data, t)

\* Rules that cannot be parsed, or that overlap now.
Unreadable(rules, t) == ~ Parsable(rules) \/ Cardinality(ActiveRules(rules, t)) > 1

DataValue(key, data, t) ==
  IF data = Nil \/ Expired(data, t) \/ Reading(data, t).replicas = 0 THEN Nil
  ELSE [provider |-> key, replicas |-> Reading(data, t).replicas,
        expire |-> Reading(data, t).expire]

\* The active rule and its end.
RulesValue(rules, t) ==
  IF ActiveRules(rules, t) = {} THEN Nil
  ELSE LET r == CHOOSE r \in ActiveRules(rules, t) : TRUE
       IN  [provider |-> "Cron", replicas |-> r.replicas, expire |-> NextAt(t, r.end)]

StaticValue(replicas) == [provider |-> "Static", replicas |-> replicas, expire |-> Nil]

-----------------------------------------------------------------------------
VARIABLES
  \* the API server
  ihpa,        \* the autoscaler
  hp,          \* its portraits, by their type
  \* the informer caches
  cachedIhpa, cachedHp,
  \* the manager's memory
  queued,      \* the autoscaler's key is in the work queue
  known,       \* keys of the portraits last seen in the spec (portraitIdentifiersMap)
  crons,       \* the crontabs of a key (cronTaskMap), and whether one is due
  timers,      \* the timer of a key (timerCancellerMap), and whether it went off
  \* the reconcile in flight
  pc,          \* the call it makes next
  copy,        \* its copy of the autoscaler
  todo,        \* keys of the portraits it has still to clean up
  next,        \* the provider it deals with
  best,        \* the candidate it has by now
  \* the clock
  now,
  \* history and bound
  followed,    \* what the last complete reconcile came up with
  overlooked,  \* types of portraits nobody remembers or saw when they were removed
  inherited,   \* keys whose triggers ran when an autoscaler was deleted, and that none
               \* has had in its spec since
  left         \* disturbances that may still happen

apiVars == <<ihpa, hp>>
cacheVars == <<cachedIhpa, cachedHp>>
triggerVars == <<crons, timers>>
localVars == <<pc, copy, todo, next, best>>
historyVars == <<followed, overlooked, inherited>>
vars == <<apiVars, cacheVars, queued, known, triggerVars, localVars, now, historyVars, left>>

\* No autoscaler; the last one of the name leaves its uid behind, so that the next
\* one gets another.
NoIhpa == [exists |-> FALSE, uid |-> 0, deleting |-> FALSE, paused |-> FALSE, providers |-> <<>>]
NewIhpa(uid, s) ==
  [exists |-> TRUE, uid |-> uid, deleting |-> FALSE, paused |-> s.paused, providers |-> s.providers]

NoPortrait == [exists |-> FALSE, owner |-> 0, deleting |-> FALSE, spec |-> Nil, data |-> Nil]
NoCandidate == [value |-> Nil, priority |-> 0]

KeysOf(a) == {a.providers[i].key : i \in DOMAIN a.providers}

IdleLocals ==
  /\ pc' = "idle"
  /\ copy' = NoIhpa
  /\ todo' = {}
  /\ next' = 0
  /\ best' = NoCandidate

Init ==
  /\ \E s \in Specs : ihpa = NewIhpa(1, s)
  /\ hp = [k \in PortraitTypes |-> NoPortrait]
  /\ cachedIhpa = NoIhpa
  /\ cachedHp = hp
  /\ queued = FALSE
  /\ known = {}
  /\ crons = [k \in Keys |-> Nil]
  /\ timers = [k \in Keys |-> Nil]
  /\ pc = "idle"
  /\ copy = NoIhpa
  /\ todo = {}
  /\ next = 0
  /\ best = NoCandidate
  /\ now = 0
  /\ followed = Nil
  /\ overlooked = {}
  /\ inherited = {}
  /\ left \in Troubles

Spend(kind) ==
  /\ left[kind] > 0
  /\ left' = [left EXCEPT ![kind] = @ - 1]

Retry ==
  /\ IdleLocals
  /\ queued' = TRUE

-----------------------------------------------------------------------------
(***************************************************************************)
(* The trigger managers.  Crontabs with the same rules go on running, a    *)
(* timer for the same time goes on waiting.                                *)
(***************************************************************************)
Running(rules) == [rules |-> rules, due |-> FALSE]

\* A slip: rules are taken for the same when there are crontabs at all.
CronsStartedOnce(k, rules) ==
  IF crons[k] # Nil THEN crons[k] ELSE IF Parsable(rules) THEN Running(rules) ELSE Nil

CronsStarted(k, rules) ==
  CASE ~ Parsable(rules) -> Nil
    [] Parsable(rules) /\ crons[k] # Nil /\ crons[k].rules = rules -> crons[k]
    [] OTHER -> Running(rules)

StartCronTaskTrigger(k, rules) == crons' = [crons EXCEPT ![k] = CronsStarted(k, rules)]

StartTimerTrigger(k, t) ==
  timers' = IF timers[k] # Nil /\ timers[k].at = t THEN timers
            ELSE [timers EXCEPT ![k] = [at |-> t, fired |-> FALSE]]

\* A slip: the triggers of a portrait that was removed are left running.
KeepTriggers(k) == UNCHANGED triggerVars

StopTriggers(k) ==
  /\ crons' = [crons EXCEPT ![k] = Nil]
  /\ timers' = [timers EXCEPT ![k] = Nil]

Triggered == {k \in Keys : crons[k] # Nil \/ timers[k] # Nil}

TimerIsDue(k) == timers[k] # Nil /\ ~ timers[k].fired /\ timers[k].at <= now
CronIsDue(k) == crons[k] # Nil /\ crons[k].due

TimerFires(k) ==
  /\ TimerIsDue(k)
  /\ timers' = [timers EXCEPT ![k].fired = TRUE]
  /\ queued' = TRUE
  /\ UNCHANGED <<apiVars, cacheVars, known, crons, localVars, now, historyVars, left>>

CronFires(k) ==
  /\ CronIsDue(k)
  /\ crons' = [crons EXCEPT ![k].due = FALSE]
  /\ queued' = TRUE
  /\ UNCHANGED <<apiVars, cacheVars, known, timers, localVars, now, historyVars, left>>

\* A crontab whose rule begins or ends is due; when it fires is up to its goroutine.
GoesOff(rules, t) == \E r \in rules : t % Period \in {r.start, r.end}

Tick ==
  /\ now < Horizon
  /\ now' = now + 1
  /\ crons' = [k \in Keys |->
       IF crons[k] # Nil /\ GoesOff(crons[k].rules, now') THEN [crons[k] EXCEPT !.due = TRUE]
       ELSE crons[k]]
  /\ UNCHANGED <<apiVars, cacheVars, queued, known, timers, localVars, historyVars, left>>

-----------------------------------------------------------------------------
(***************************************************************************)
(* A reconcile, as far as portraits are concerned.  A paused autoscaler    *)
(* keeps what it has; the end of one is the end of what the controller     *)
(* knows of it, but not of its triggers (a FIXME of the code).             *)
(***************************************************************************)
Begin ==
  /\ pc = "idle"
  /\ queued
  /\ queued' = FALSE
  /\ UNCHANGED <<cacheVars, triggerVars, now, left>>

BeginNothingToDo ==
  /\ Begin
  /\ ~ cachedIhpa.exists \/ (cachedIhpa.paused /\ ~ cachedIhpa.deleting)
  /\ UNCHANGED <<apiVars, known, localVars, historyVars>>

BeginDeletion ==
  /\ Begin
  /\ cachedIhpa.exists /\ cachedIhpa.deleting
  /\ known' = {}
  /\ ihpa' = IF ihpa.deleting THEN [NoIhpa EXCEPT !.uid = ihpa.uid] ELSE ihpa
  /\ followed' = Nil
  /\ inherited' = inherited \union Triggered
  /\ UNCHANGED <<hp, localVars, overlooked>>

BeginCleanup ==
  /\ Begin
  /\ cachedIhpa.exists /\ ~ cachedIhpa.paused /\ ~ cachedIhpa.deleting
  /\ pc' = "cleanup"
  /\ copy' = cachedIhpa
  /\ todo' = known \ KeysOf(cachedIhpa)
  /\ UNCHANGED <<apiVars, known, next, best, historyVars>>

(***************************************************************************)
(* CleanupPortrait of a provider that is no longer in the spec, in any     *)
(* order.  The portrait is deleted if it is seen.                          *)
(***************************************************************************)
DeleteIsCalled(k) == k \in PortraitTypes /\ cachedHp[k].exists

CleanupPortrait(k) ==
  /\ pc = "cleanup"
  /\ k \in todo
  /\ todo' = todo \ {k}
  /\ StopTriggers(k)
  /\ hp' = IF DeleteIsCalled(k) /\ hp[k].exists THEN [hp EXCEPT ![k].deleting = TRUE] ELSE hp
  /\ overlooked' = IF k \in PortraitTypes /\ hp[k].exists /\ ~ cachedHp[k].exists
                   THEN overlooked \union {k} ELSE overlooked
  /\ UNCHANGED <<ihpa, cacheVars, queued, known, pc, copy, next, best, now, followed,
                 inherited, left>>

\* A slip: the error is logged only.
CleanupFailureIgnored(k) ==
  /\ pc = "cleanup"
  /\ k \in todo
  /\ DeleteIsCalled(k)
  /\ Spend("failure")
  /\ StopTriggers(k)
  /\ todo' = todo \ {k}
  /\ UNCHANGED <<apiVars, cacheVars, queued, known, pc, copy, next, best, now, historyVars>>

CleanupFails(k) ==
  /\ pc = "cleanup"
  /\ k \in todo
  /\ DeleteIsCalled(k)
  /\ Spend("failure")
  /\ StopTriggers(k)
  /\ Retry
  /\ UNCHANGED <<apiVars, cacheVars, known, now, historyVars>>

\* What the spec has now is remembered after everything else was cleaned up.
BeginProviders ==
  /\ pc = "cleanup"
  /\ todo = {}
  /\ known' = KeysOf(copy)
  /\ overlooked' = overlooked \ KeysOf(copy)
  /\ inherited' = inherited \ KeysOf(copy)
  /\ pc' = "update"
  /\ next' = 1
  /\ UNCHANGED <<apiVars, cacheVars, queued, triggerVars, copy, todo, best, now, followed, left>>

-----------------------------------------------------------------------------
(***************************************************************************)
(* UpdatePortraitSpec: the Static provider has nothing to do, the Cron     *)
(* provider starts its crontabs, a Dynamic provider creates or patches its *)
(* portrait.                                                               *)
(***************************************************************************)
Provider == copy.providers[next]
InLoop(at) == pc = at /\ next <= Len(copy.providers)

ToFetch == pc' = "fetch" /\ UNCHANGED <<queued, copy, todo, next, best>>

UpdateStatic ==
  /\ InLoop("update")
  /\ Provider.key = "Static"
  /\ ToFetch
  /\ UNCHANGED <<apiVars, cacheVars, known, triggerVars, now, historyVars, left>>

UpdateCron ==
  /\ InLoop("update")
  /\ Provider.key = "Cron"
  /\ StartCronTaskTrigger("Cron", Provider.rules)
  /\ IF Parsable(Provider.rules) THEN ToFetch ELSE Retry
  /\ UNCHANGED <<apiVars, cacheVars, known, timers, now, historyVars, left>>

UpdateDynamic == InLoop("update") /\ Provider.key \in PortraitTypes
Seen == cachedHp[Provider.key]

KeepHorizontalPortrait ==
  /\ UpdateDynamic
  /\ Seen.exists /\ Seen.spec = Provider.spec
  /\ ToFetch
  /\ UNCHANGED <<apiVars, cacheVars, known, triggerVars, now, historyVars, left>>

CreateHorizontalPortrait ==
  /\ UpdateDynamic
  /\ ~ Seen.exists /\ ~ hp[Provider.key].exists
  /\ hp' = [hp EXCEPT ![Provider.key] =
              [exists |-> TRUE, owner |-> copy.uid, deleting |-> FALSE, spec |-> Provider.spec,
               data |-> Nil]]
  /\ ToFetch
  /\ UNCHANGED <<ihpa, cacheVars, known, triggerVars, now, historyVars, left>>

PatchHorizontalPortrait ==
  /\ UpdateDynamic
  /\ Seen.exists /\ Seen.spec # Provider.spec
  /\ hp[Provider.key].exists
  /\ hp' = [hp EXCEPT ![Provider.key].spec = Provider.spec]
  /\ ToFetch
  /\ UNCHANGED <<ihpa, cacheVars, known, triggerVars, now, historyVars, left>>

\* AlreadyExists, or NotFound: the cache was behind.
UpdateMisses ==
  /\ UpdateDynamic
  /\ \/ ~ Seen.exists /\ hp[Provider.key].exists
     \/ Seen.exists /\ Seen.spec # Provider.spec /\ ~ hp[Provider.key].exists
  /\ Retry
  /\ UNCHANGED <<apiVars, cacheVars, known, triggerVars, now, historyVars, left>>

UpdateFails ==
  /\ UpdateDynamic
  /\ ~ Seen.exists \/ Seen.spec # Provider.spec
  /\ Spend("failure")
  /\ Retry
  /\ UNCHANGED <<apiVars, cacheVars, known, triggerVars, now, historyVars>>

-----------------------------------------------------------------------------
(***************************************************************************)
(* FetchPortraitValue.  A value beats the candidate if it has a higher     *)
(* priority, or the same one and more replicas.  That it has not expired   *)
(* is asked of a time before it was fetched: no value fails that.          *)
(***************************************************************************)
Beats(value, priority) ==
  \/ best.value = Nil
  \/ priority > best.priority
  \/ priority = best.priority /\ value.replicas > best.value.replicas

Fetched(value) ==
  /\ best' = IF value # Nil /\ Beats(value, Provider.priority)
             THEN [value |-> value, priority |-> Provider.priority] ELSE best
  /\ pc' = "update"
  /\ next' = next + 1
  /\ UNCHANGED <<queued, copy, todo>>

FetchStatic ==
  /\ InLoop("fetch")
  /\ Provider.key = "Static"
  /\ Fetched(StaticValue(Provider.replicas))
  /\ UNCHANGED <<apiVars, cacheVars, known, triggerVars, now, historyVars, left>>

FetchCron ==
  /\ InLoop("fetch")
  /\ Provider.key = "Cron"
  /\ IF Unreadable(Provider.rules, now) THEN Retry ELSE Fetched(RulesValue(Provider.rules, now))
  /\ UNCHANGED <<apiVars, cacheVars, known, triggerVars, now, historyVars, left>>

FetchDynamic == InLoop("fetch") /\ Provider.key \in PortraitTypes

\* The portrait was just created, or is gone: not in the cache.
FetchMisses ==
  /\ FetchDynamic
  /\ ~ Seen.exists
  /\ Retry
  /\ UNCHANGED <<apiVars, cacheVars, known, triggerVars, now, historyVars, left>>

FetchNoData ==
  /\ FetchDynamic
  /\ Seen.exists /\ Seen.data = Nil
  /\ Fetched(Nil)
  /\ UNCHANGED <<apiVars, cacheVars, known, triggerVars, now, historyVars, left>>

FetchExpired ==
  /\ FetchDynamic
  /\ Seen.exists /\ Seen.data # Nil /\ Expired(Seen.data, now)
  /\ StopTriggers(Provider.key)
  /\ Fetched(Nil)
  /\ UNCHANGED <<apiVars, cacheVars, known, now, historyVars, left>>

FetchData == FetchDynamic /\ Seen.exists /\ Seen.data # Nil /\ ~ Expired(Seen.data, now)

RestartCrontabs ==
  IF Seen.data.type = "Cron" THEN StartCronTaskTrigger(Provider.key, Seen.data.rules)
  ELSE UNCHANGED crons

FetchUnreadable ==
  /\ FetchData
  /\ Seen.data.type = "Cron" /\ Unreadable(Seen.data.rules, now)
  /\ RestartCrontabs
  /\ Retry
  /\ UNCHANGED <<apiVars, cacheVars, known, timers, now, historyVars, left>>

FetchReading ==
  /\ FetchData
  /\ ~ (Seen.data.type = "Cron" /\ Unreadable(Seen.data.rules, now))
  /\ RestartCrontabs
  /\ IF Reading(Seen.data, now).wake = Nil THEN UNCHANGED timers
     ELSE StartTimerTrigger(Provider.key, Reading(Seen.data, now).wake)
  /\ Fetched(DataValue(Provider.key, Seen.data, now))
  /\ UNCHANGED <<apiVars, cacheVars, known, now, historyVars, left>>

Finish ==
  /\ pc = "update"
  /\ next > Len(copy.providers)
  /\ followed' = best.value
  /\ IdleLocals
  /\ UNCHANGED <<apiVars, cacheVars, queued, known, triggerVars, now, overlooked, inherited, left>>

-----------------------------------------------------------------------------
(***************************************************************************)
(* The watches.  Every change of a portrait wakes the controller, its      *)
(* status included.                                                        *)
(***************************************************************************)
DeliverIhpa ==
  /\ cachedIhpa # ihpa
  /\ cachedIhpa' = ihpa
  /\ queued' = TRUE
  /\ UNCHANGED <<apiVars, cachedHp, known, triggerVars, localVars, now, historyVars, left>>

\* A slip: a portrait only wakes the controller when its spec changed.
DeliverHpBySpec(k) ==
  /\ cachedHp[k] # hp[k]
  /\ cachedHp' = [cachedHp EXCEPT ![k] = hp[k]]
  /\ queued' = (queued \/ cachedHp[k].spec # hp[k].spec)
  /\ UNCHANGED <<apiVars, cachedIhpa, known, triggerVars, localVars, now, historyVars, left>>

DeliverHp(k) ==
  /\ cachedHp[k] # hp[k]
  /\ cachedHp' = [cachedHp EXCEPT ![k] = hp[k]]
  /\ queued' = TRUE
  /\ UNCHANGED <<apiVars, cachedIhpa, known, triggerVars, localVars, now, historyVars, left>>

Restart ==
  /\ Spend("crash")
  /\ cachedIhpa' = ihpa
  /\ cachedHp' = hp
  /\ queued' = TRUE
  /\ known' = {}
  /\ crons' = [k \in Keys |-> Nil]
  /\ timers' = [k \in Keys |-> Nil]
  /\ IdleLocals
  /\ overlooked' = overlooked \union {k \in PortraitTypes : hp[k].exists}
  /\ inherited' = {}
  /\ UNCHANGED <<apiVars, now, followed>>

(***************************************************************************)
(* The owner of the autoscaler, who fills the portraits, and who takes     *)
(* them away: their controller when they are deleted, the garbage          *)
(* collector when their owner is gone.                                     *)
(***************************************************************************)
WriteIhpa(new) ==
  /\ Spend("edit")
  /\ ihpa' = new
  /\ UNCHANGED <<hp, cacheVars, queued, known, triggerVars, localVars, now, historyVars>>

EditIhpa(s) ==
  /\ ihpa.exists
  /\ NewIhpa(ihpa.uid, s) # [ihpa EXCEPT !.deleting = FALSE]
  /\ WriteIhpa([ihpa EXCEPT !.paused = s.paused, !.providers = s.providers])

DeleteIhpa == ihpa.exists /\ ~ ihpa.deleting /\ WriteIhpa([ihpa EXCEPT !.deleting = TRUE])

CreateIhpa(s) ==
  /\ ~ ihpa.exists
  /\ WriteIhpa(NewIhpa(ihpa.uid + 1, s))

Fill(k, data) ==
  /\ hp[k].exists /\ hp[k].data # data
  /\ Spend("data")
  /\ hp' = [hp EXCEPT ![k].data = data]
  /\ UNCHANGED <<ihpa, cacheVars, queued, known, triggerVars, localVars, now, historyVars>>

HpGoes(k) ==
  /\ hp[k].exists
  /\ hp[k].deleting \/ ~ ihpa.exists \/ ihpa.uid # hp[k].owner
  /\ hp' = [hp EXCEPT ![k] = NoPortrait]
  /\ UNCHANGED <<ihpa, cacheVars, queued, known, triggerVars, localVars, now, historyVars, left>>

-----------------------------------------------------------------------------
Reconcile ==
  \/ BeginNothingToDo \/ BeginDeletion \/ BeginCleanup
  \/ \E k \in Keys : CleanupPortrait(k)
  \/ BeginProviders
  \/ UpdateStatic \/ UpdateCron
  \/ KeepHorizontalPortrait \/ CreateHorizontalPortrait \/ PatchHorizontalPortrait \/ UpdateMisses
  \/ FetchStatic \/ FetchCron
  \/ FetchMisses \/ FetchNoData \/ FetchExpired \/ FetchUnreadable \/ FetchReading
  \/ Finish

Deliver == DeliverIhpa \/ \E k \in PortraitTypes : DeliverHp(k)
Fire == \E k \in Keys : TimerFires(k) \/ CronFires(k)

Own ==
  \/ DeleteIhpa
  \/ \E s \in Specs : EditIhpa(s) \/ CreateIhpa(s)
  \/ \E k \in PortraitTypes, d \in Datas : Fill(k, d)

Disturb ==
  \/ UpdateFails \/ Restart
  \/ \E k \in Keys : CleanupFails(k)

Next ==
  \/ Reconcile \/ Deliver \/ Fire \/ Tick
  \/ \E k \in PortraitTypes : HpGoes(k)
  \/ Own \/ Disturb

\* The worker, the watches, the goroutines of the triggers, the other
\* controllers and the clock go on.
Fairness ==
  /\ WF_vars(Reconcile)
  /\ WF_vars(DeliverIhpa) /\ \A k \in PortraitTypes : WF_vars(DeliverHp(k)) /\ WF_vars(HpGoes(k))
  /\ \A k \in Keys : WF_vars(TimerFires(k)) /\ WF_vars(CronFires(k))
  /\ WF_vars(Tick)

Spec == Init /\ [][Next]_vars /\ Fairness

-----------------------------------------------------------------------------
ValueType(values) ==
  values \subseteq [provider : Keys, replicas : Nat, expire : Nat \union {Nil}] \union {Nil}

TypeOK ==
  /\ \A a \in {ihpa, cachedIhpa, copy} : KeysOf(a) \subseteq Keys
  /\ \A p \in {hp, cachedHp} : \A k \in PortraitTypes : p[k].data \in Datas \union {Nil}
  /\ queued \in BOOLEAN
  /\ known \subseteq Keys
  /\ \A k \in Keys : crons[k] # Nil => Parsable(crons[k].rules) /\ crons[k].due \in BOOLEAN
  /\ \A k \in Keys : timers[k] # Nil => timers[k].at \in Nat /\ timers[k].fired \in BOOLEAN
  /\ pc \in {"idle", "cleanup", "update", "fetch"}
  /\ todo \subseteq Keys
  /\ next \in Nat
  /\ ValueType({best.value, followed})
  /\ now \in 0 .. Horizon
  /\ overlooked \subseteq PortraitTypes /\ inherited \subseteq Keys
  /\ left \in [TroubleKinds -> Nat]

(***************************************************************************)
(* What the autoscaler has to follow at a time, from the specification of  *)
(* its API: the value of the highest priority, and of those the one with   *)
(* the most replicas (HorizontalPortraitProvider.Priority).                *)
(***************************************************************************)
ProviderValue(p, t) ==
  CASE p.key = "Static" -> StaticValue(p.replicas)
    [] p.key = "Cron"   -> RulesValue(p.rules, t)
    [] OTHER            -> DataValue(p.key, hp[p.key].data, t)

Valid(t) == {i \in DOMAIN ihpa.providers : ProviderValue(ihpa.providers[i], t) # Nil}

Ranked(i, j, t) ==
  LET p == ihpa.providers[i]
      q == ihpa.providers[j]
  IN  \/ p.priority > q.priority
      \/ /\ p.priority = q.priority
         /\ ProviderValue(p, t).replicas >= ProviderValue(q, t).replicas

\* Values that may be followed: more than one if they want the same.
Candidates(t) ==
  IF Valid(t) = {} THEN {Nil}
  ELSE {ProviderValue(ihpa.providers[i], t) :
          i \in {i \in Valid(t) : \A j \in Valid(t) : Ranked(i, j, t)}}

RulesInUse ==
  {ihpa.providers[i].rules : i \in {i \in DOMAIN ihpa.providers : ihpa.providers[i].key = "Cron"}}
  \union {hp[k].data.rules : k \in {k \in PortraitTypes \cap KeysOf(ihpa) :
                                      hp[k].data # Nil /\ hp[k].data.type = "Cron"}}

InCharge == ihpa.exists /\ ~ ihpa.deleting /\ ~ ihpa.paused

AtRest ==
  /\ pc = "idle" /\ ~ queued
  /\ cachedIhpa = ihpa /\ cachedHp = hp
  /\ \A k \in Keys : ~ TimerIsDue(k) /\ ~ CronIsDue(k)

(***************************************************************************)
(* No wake-up is missing: whenever nothing is left to be done, now, the    *)
(* controller follows what its providers are to come up with now.  Values  *)
(* begin and end to hold as time goes by, rules and data are replaced or   *)
(* removed while crontabs and timers for the old ones run, calls fail half *)
(* way, and a restart loses all triggers.                                  *)
(***************************************************************************)
FollowsTheClock == AtRest /\ InCharge => followed \in Candidates(now)

(***************************************************************************)
(* And it gets there: it does not chase its own events forever.  Rules     *)
(* that cannot be parsed or overlap are beyond it.                         *)
(***************************************************************************)
EventuallyInStep ==
  <>[](InCharge /\ (\A rules \in RulesInUse : ~ Unreadable(rules, now)) =>
         followed \in Candidates(now))

(***************************************************************************)
(* The portrait of a provider that was removed from the spec is deleted    *)
(* (CleanupPortrait), also when the deletion fails at first or the         *)
(* provider comes and goes; except that it was not yet in the cache when   *)
(* the provider was removed, or the controller was restarted in between.   *)
(***************************************************************************)
RemovedPortraitsGo ==
  AtRest /\ InCharge =>
    \A k \in PortraitTypes :
      hp[k].exists => k \in KeysOf(ihpa) \/ hp[k].deleting \/ hp[k].owner # ihpa.uid
                      \/ k \in overlooked

(***************************************************************************)
(* Nor does its trigger go on waking the controller, of whichever          *)
(* autoscaler of the name; except the triggers that ran when an autoscaler *)
(* was deleted, which nobody stops (a FIXME of the code), until one with   *)
(* that provider takes them over.                                          *)
(***************************************************************************)
NoStrayTriggers == AtRest /\ InCharge => Triggered \subseteq KeysOf(ihpa) \union inherited
=============================================================================
