---------------------------- MODULE PortraitsProofs ----------------------------
(***************************************************************************)
(* That the triggers of portraits nobody asks for any more are stopped,    *)
(* that the portraits themselves are deleted, and that no wake-up of those *)
(* that are asked for is missing, for any specs, data, edits, failures and *)
(* restarts, and without an end of time.                                   *)
(*                                                                         *)
(* The controller stops the triggers of what it knows and what is no       *)
(* longer in the spec.  The first invariant says that it knows of every    *)
(* trigger but those inherited from an autoscaler that was deleted, and,   *)
(* step by step of a reconcile, which of them it has still to stop; the    *)
(* second says the same of portraits; the third, further down, says which  *)
(* trigger goes off when a value stops to hold.                            *)
(***************************************************************************)
EXTENDS Portraits, WellFoundedInduction, TLAPS

TriggersTypeOK ==
  /\ crons = [k \in Keys |-> crons[k]]
  /\ timers = [k \in Keys |-> timers[k]]
  /\ next \in Nat

IsIhpa(a) ==
  /\ a = [exists |-> a.exists, uid |-> a.uid, deleting |-> a.deleting, paused |-> a.paused,
          providers |-> a.providers]
  /\ DOMAIN a.providers = 1 .. Len(a.providers)

CachesFollow ==
  /\ IsIhpa(ihpa) /\ IsIhpa(cachedIhpa) /\ IsIhpa(copy)
  /\ ihpa.uid \in Nat \ {0}

CopyIsLatest == pc # "idle" /\ ~ queued => copy = cachedIhpa

KnowsWhatItFetches ==
  pc \in {"update", "fetch"} => known = KeysOf(copy) /\ next >= 1

\* What is not known, or not to be stopped next, was inherited.
TriggersKnown ==
  /\ Triggered \subseteq known \union inherited
  /\ pc = "cleanup" => Triggered \subseteq todo \union KeysOf(copy) \union inherited
  /\ pc = "idle" /\ ~ queued /\ cachedIhpa.exists /\ ~ cachedIhpa.paused
       => Triggered \subseteq KeysOf(cachedIhpa) \union inherited

TriggersInv == TriggersTypeOK /\ CachesFollow /\ CopyIsLatest /\ KnowsWhatItFetches /\ TriggersKnown

-----------------------------------------------------------------------------
LEMMA NoIhpaIsIhpa == IsIhpa(NoIhpa)
  BY DEF IsIhpa, NoIhpa

\* What starts no trigger, and leaves the reconcile where it is.
LEMMA AsideKeeps ==
  ASSUME TriggersInv, TriggersTypeOK', Triggered' \subseteq Triggered,
         UNCHANGED <<ihpa, cachedIhpa, known, inherited, pc, copy, todo, next>>,
         UNCHANGED queued \/ queued'
  PROVE  TriggersInv'
  BY DEF TriggersInv, CachesFollow, CopyIsLatest, KnowsWhatItFetches, TriggersKnown, IsIhpa,
         KeysOf

\* What ends the reconcile to have it repeated.
LEMMA RetryKeeps ==
  ASSUME TriggersInv, Retry, TriggersTypeOK', Triggered' \subseteq Triggered,
         UNCHANGED <<ihpa, cachedIhpa, known, inherited>>
  PROVE  TriggersInv'
<1>1. pc' = "idle" /\ queued' /\ IsIhpa(copy')
  BY DEF Retry, IdleLocals, NoIhpa, IsIhpa
<1> QED
  BY <1>1 DEF TriggersInv, CachesFollow, CopyIsLatest, KnowsWhatItFetches, TriggersKnown,
              IsIhpa

\* A reconcile that goes on with a provider may start the triggers of that one.
LEMMA ProviderIsKnown ==
  ASSUME TriggersInv, InLoop("update") \/ InLoop("fetch")
  PROVE  Provider.key \in known
  BY DEF TriggersInv, TriggersTypeOK, InLoop, Provider, KnowsWhatItFetches, CachesFollow, IsIhpa,
         KeysOf

LEMMA LoopKeeps ==
  ASSUME TriggersInv, TriggersTypeOK', InLoop("update") \/ InLoop("fetch"),
         Triggered' \subseteq Triggered \union {Provider.key},
         UNCHANGED <<ihpa, cachedIhpa, known, inherited, queued, copy, todo>>,
         pc' \in {"update", "fetch"}, next' >= next
  PROVE  TriggersInv'
<1>1. Provider.key \in known
  BY ProviderIsKnown
<1>2. pc \in {"update", "fetch"}
  BY DEF InLoop
<1>3. CachesFollow' /\ CopyIsLatest'
  BY <1>2 DEF TriggersInv, CachesFollow, CopyIsLatest, IsIhpa
<1>4. KnowsWhatItFetches'
  <2>1. next \in Nat /\ next' \in Nat
    BY DEF TriggersInv, TriggersTypeOK
  <2>2. known' = KeysOf(copy)' /\ next' >= 1
    BY <1>2, <2>1 DEF TriggersInv, KnowsWhatItFetches, KeysOf
  <2>3. QED
    BY <2>2 DEF KnowsWhatItFetches
<1>5. TriggersKnown'
  <2>1. Triggered' \subseteq known' \union inherited'
    BY <1>1 DEF TriggersInv, TriggersKnown
  <2>2. QED
    BY <2>1 DEF TriggersKnown
<1>6. QED
  BY <1>3, <1>4, <1>5 DEF TriggersInv

\* What the trigger managers start and stop.
LEMMA CronsStart ==
  ASSUME TriggersTypeOK, NEW k, NEW rules, StartCronTaskTrigger(k, rules), UNCHANGED timers,
         next' \in Nat
  PROVE  TriggersTypeOK' /\ Triggered' \subseteq Triggered \union {k}
  BY DEF TriggersTypeOK, StartCronTaskTrigger, Triggered

LEMMA TriggersStop ==
  ASSUME TriggersTypeOK, NEW k, StopTriggers(k), next' \in Nat
  PROVE  TriggersTypeOK' /\ Triggered' \subseteq Triggered \ {k}
  BY DEF TriggersTypeOK, StopTriggers, Triggered

LEMMA FiringKeeps ==
  ASSUME TriggersInv, NEW k \in Keys, TimerFires(k) \/ CronFires(k)
  PROVE  TriggersInv'
<1>1. TriggersTypeOK' /\ Triggered' \subseteq Triggered
  BY DEF TimerFires, CronFires, TimerIsDue, CronIsDue, TriggersInv, TriggersTypeOK, Triggered,
         localVars
<1>2. UNCHANGED <<ihpa, cachedIhpa, known, inherited, pc, copy, todo, next>> /\ queued'
  BY DEF TimerFires, CronFires, apiVars, cacheVars, localVars, historyVars
<1> QED
  BY <1>1, <1>2, AsideKeeps

LEMMA TickKeeps ==
  ASSUME TriggersInv, Tick
  PROVE  TriggersInv'
<1>1. TriggersTypeOK' /\ Triggered' \subseteq Triggered
  BY DEF Tick, TriggersInv, TriggersTypeOK, Triggered, localVars
<1>2. UNCHANGED <<ihpa, cachedIhpa, known, inherited, pc, copy, todo, next, queued>>
  BY DEF Tick, apiVars, cacheVars, localVars, historyVars
<1> QED
  BY <1>1, <1>2, AsideKeeps

-----------------------------------------------------------------------------
LEMMA BeginNothingToDoKeeps ==
  ASSUME TriggersInv, BeginNothingToDo
  PROVE  TriggersInv'
<1>1. /\ UNCHANGED <<ihpa, cachedIhpa, known, inherited, crons, timers, pc, copy, todo, next>>
      /\ pc = "idle"
      /\ ~ cachedIhpa.exists \/ cachedIhpa.paused
  BY DEF BeginNothingToDo, Begin, apiVars, cacheVars, triggerVars, localVars, historyVars
<1> QED
  BY <1>1
     DEF TriggersInv, TriggersTypeOK, CachesFollow, CopyIsLatest, KnowsWhatItFetches, TriggersKnown,
         IsIhpa, Triggered, KeysOf

LEMMA BeginDeletionKeeps ==
  ASSUME TriggersInv, BeginDeletion
  PROVE  TriggersInv'
<1>1. /\ UNCHANGED <<cachedIhpa, crons, timers, pc, copy, todo, next>>
      /\ pc = "idle" /\ inherited' = inherited \union Triggered
      /\ ihpa' = IF ihpa.deleting THEN [NoIhpa EXCEPT !.uid = ihpa.uid] ELSE ihpa
  BY DEF BeginDeletion, Begin, cacheVars, triggerVars, localVars
<1>2. Triggered' \subseteq inherited'
  BY <1>1 DEF Triggered
<1>3. IsIhpa(ihpa') /\ ihpa'.uid = ihpa.uid
  BY <1>1, NoIhpaIsIhpa DEF TriggersInv, CachesFollow, IsIhpa, NoIhpa
<1> QED
  BY <1>1, <1>2, <1>3
     DEF TriggersInv, TriggersTypeOK, CachesFollow, CopyIsLatest, KnowsWhatItFetches, TriggersKnown,
         IsIhpa

LEMMA BeginCleanupKeeps ==
  ASSUME TriggersInv, BeginCleanup
  PROVE  TriggersInv'
<1>1. /\ UNCHANGED <<ihpa, cachedIhpa, known, inherited, crons, timers, next>>
      /\ pc' = "cleanup" /\ copy' = cachedIhpa /\ todo' = known \ KeysOf(cachedIhpa)
  BY DEF BeginCleanup, Begin, apiVars, cacheVars, triggerVars, historyVars
<1>2. Triggered' = Triggered /\ KeysOf(copy') = KeysOf(cachedIhpa)
  BY <1>1 DEF Triggered, KeysOf
<1> QED
  BY <1>1, <1>2
     DEF TriggersInv, TriggersTypeOK, CachesFollow, CopyIsLatest, KnowsWhatItFetches, TriggersKnown,
         IsIhpa, KeysOf

LEMMA CleanupPortraitKeeps ==
  ASSUME TriggersInv, NEW k \in Keys, CleanupPortrait(k)
  PROVE  TriggersInv'
<1>1. /\ UNCHANGED <<ihpa, cachedIhpa, known, inherited, queued, pc, copy, next>>
      /\ pc = "cleanup" /\ todo' = todo \ {k} /\ StopTriggers(k)
  BY DEF CleanupPortrait, cacheVars
<1>2. TriggersTypeOK' /\ Triggered' \subseteq Triggered \ {k}
  BY <1>1, TriggersStop DEF TriggersInv, TriggersTypeOK
<1> QED
  BY <1>1, <1>2
     DEF TriggersInv, CachesFollow, CopyIsLatest, KnowsWhatItFetches, TriggersKnown, IsIhpa,
         KeysOf

LEMMA CleanupFailsKeeps ==
  ASSUME TriggersInv, NEW k \in Keys, CleanupFails(k)
  PROVE  TriggersInv'
<1>1. UNCHANGED <<ihpa, cachedIhpa, known, inherited>> /\ StopTriggers(k) /\ Retry /\ next' \in Nat
  BY DEF CleanupFails, apiVars, cacheVars, historyVars, Retry, IdleLocals
<1> QED
  BY <1>1, TriggersStop, RetryKeeps DEF TriggersInv

\* From here on what is known is what the spec has.
LEMMA BeginProvidersKeeps ==
  ASSUME TriggersInv, BeginProviders
  PROVE  TriggersInv'
<1>1. /\ UNCHANGED <<ihpa, cachedIhpa, queued, crons, timers, copy, todo>>
      /\ pc = "cleanup" /\ todo = {} /\ known' = KeysOf(copy) /\ pc' = "update" /\ next' = 1
      /\ inherited' = inherited \ KeysOf(copy)
  BY DEF BeginProviders, apiVars, cacheVars, triggerVars
<1>2. Triggered' = Triggered /\ KeysOf(copy') = KeysOf(copy)
  BY <1>1 DEF Triggered, KeysOf
<1> QED
  BY <1>1, <1>2
     DEF TriggersInv, TriggersTypeOK, CachesFollow, CopyIsLatest, KnowsWhatItFetches, TriggersKnown,
         IsIhpa

LEMMA UpdateKeeps ==
  ASSUME TriggersInv,
         \/ UpdateStatic \/ UpdateCron
         \/ KeepHorizontalPortrait \/ CreateHorizontalPortrait \/ PatchHorizontalPortrait
  PROVE  TriggersInv'
<1>1. InLoop("update") /\ UNCHANGED <<ihpa, cachedIhpa, known, inherited>>
  BY DEF UpdateStatic, UpdateCron, KeepHorizontalPortrait, CreateHorizontalPortrait,
         PatchHorizontalPortrait, UpdateDynamic, apiVars, cacheVars, historyVars
<1>2. CASE ToFetch /\ UNCHANGED triggerVars
  <2>1. TriggersTypeOK' /\ Triggered' = Triggered
    BY <1>2 DEF ToFetch, triggerVars, TriggersInv, TriggersTypeOK, Triggered
  <2> QED
    BY <1>1, <1>2, <2>1, LoopKeeps DEF ToFetch, TriggersInv, TriggersTypeOK
<1>3. CASE UpdateCron
  <2>1. /\ Provider.key = "Cron" /\ StartCronTaskTrigger("Cron", Provider.rules)
        /\ UNCHANGED timers
        /\ IF Parsable(Provider.rules) THEN ToFetch ELSE Retry
    BY <1>3 DEF UpdateCron
  <2>2. next' \in Nat
    BY <2>1 DEF ToFetch, Retry, IdleLocals, TriggersInv, TriggersTypeOK
  <2>3. TriggersTypeOK' /\ Triggered' \subseteq Triggered \union {"Cron"}
    BY <2>1, <2>2, CronsStart DEF TriggersInv
  <2>4. CASE ToFetch
    BY <1>1, <2>1, <2>3, <2>4, LoopKeeps DEF ToFetch, TriggersInv, TriggersTypeOK
  <2>5. CASE ~ Parsable(Provider.rules) /\ Retry
    <3>1. Triggered' \subseteq Triggered
      BY <2>1, <2>5 DEF StartCronTaskTrigger, CronsStarted, Triggered, TriggersInv, TriggersTypeOK
    <3> QED
      BY <1>1, <2>3, <2>5, <3>1, RetryKeeps
  <2> QED
    BY <2>1, <2>4, <2>5
<1> QED
  BY <1>2, <1>3
     DEF UpdateStatic, KeepHorizontalPortrait, CreateHorizontalPortrait, PatchHorizontalPortrait

\* The calls that miss or fail, or have nothing to read.
LEMMA RetryingKeeps ==
  ASSUME TriggersInv, UpdateMisses \/ UpdateFails \/ FetchMisses \/ (FetchCron /\ Retry)
  PROVE  TriggersInv'
<1>1. UNCHANGED <<ihpa, cachedIhpa, known, inherited, crons, timers>> /\ Retry
  BY DEF UpdateMisses, UpdateFails, FetchMisses, FetchCron, apiVars, cacheVars, triggerVars,
         historyVars
<1>2. TriggersTypeOK' /\ Triggered' = Triggered
  BY <1>1 DEF Retry, IdleLocals, TriggersInv, TriggersTypeOK, Triggered
<1> QED
  BY <1>1, <1>2, RetryKeeps

-----------------------------------------------------------------------------
LEMMA FetchedKeeps ==
  ASSUME TriggersInv, InLoop("fetch"), NEW value, Fetched(value), TriggersTypeOK',
         Triggered' \subseteq Triggered \union {Provider.key},
         UNCHANGED <<ihpa, cachedIhpa, known, inherited>>
  PROVE  TriggersInv'
  BY LoopKeeps DEF Fetched, TriggersInv, TriggersTypeOK

LEMMA FetchedCounts ==
  ASSUME TriggersTypeOK, NEW value, Fetched(value)
  PROVE  next' \in Nat
  BY DEF TriggersTypeOK, Fetched

LEMMA FetchKeeps ==
  ASSUME TriggersInv, FetchStatic \/ FetchCron \/ FetchNoData \/ FetchExpired
  PROVE  TriggersInv'
<1>1. InLoop("fetch") /\ UNCHANGED <<ihpa, cachedIhpa, known, inherited>>
  BY DEF FetchStatic, FetchCron, FetchNoData, FetchExpired, FetchDynamic, apiVars, cacheVars,
         historyVars
<1>2. CASE UNCHANGED triggerVars /\ \E value : Fetched(value)
  <2>1. TriggersTypeOK' /\ Triggered' = Triggered
    BY <1>2, FetchedCounts DEF triggerVars, TriggersInv, TriggersTypeOK, Triggered
  <2> QED
    BY <1>1, <1>2, <2>1, FetchedKeeps
<1>3. CASE FetchCron /\ Retry
  BY <1>3, RetryingKeeps
<1>4. CASE FetchExpired
  <2>1. StopTriggers(Provider.key) /\ Fetched(Nil)
    BY <1>4 DEF FetchExpired
  <2>2. TriggersTypeOK' /\ Triggered' \subseteq Triggered
    BY <2>1, FetchedCounts, TriggersStop DEF TriggersInv
  <2> QED
    BY <1>1, <2>1, <2>2, FetchedKeeps
<1> QED
  BY <1>2, <1>3, <1>4 DEF FetchStatic, FetchCron, FetchNoData

\* The crontabs in the data of a portrait.
LEMMA RestartingCrontabs ==
  ASSUME TriggersTypeOK, RestartCrontabs
  PROVE  /\ crons' = [k \in Keys |-> crons'[k]]
         /\ \A k \in Keys \ {Provider.key} : crons'[k] = crons[k]
  BY DEF TriggersTypeOK, RestartCrontabs, StartCronTaskTrigger

LEMMA FetchReadingKeeps ==
  ASSUME TriggersInv, FetchReading
  PROVE  TriggersInv'
<1> DEFINE wake == Reading(Seen.data, now).wake
<1>1. InLoop("fetch") /\ UNCHANGED <<ihpa, cachedIhpa, known, inherited>>
  BY DEF FetchReading, FetchData, FetchDynamic, apiVars, cacheVars, historyVars
<1>2. RestartCrontabs /\ (UNCHANGED timers \/ StartTimerTrigger(Provider.key, wake))
  BY DEF FetchReading
<1>3. PICK value : Fetched(value)
  BY DEF FetchReading
<1>4. /\ timers' = [k \in Keys |-> timers'[k]]
      /\ \A k \in Keys \ {Provider.key} : timers'[k] = timers[k]
  <2> HIDE DEF wake
  <2> QED
    BY <1>2 DEF StartTimerTrigger, TriggersInv, TriggersTypeOK
<1>5. TriggersTypeOK' /\ Triggered' \subseteq Triggered \union {Provider.key}
  BY <1>2, <1>3, <1>4, RestartingCrontabs, FetchedCounts DEF TriggersInv, TriggersTypeOK, Triggered
<1> QED
  BY <1>1, <1>3, <1>5, FetchedKeeps

LEMMA FetchUnreadableKeeps ==
  ASSUME TriggersInv, FetchUnreadable
  PROVE  TriggersInv'
<1>1. /\ InLoop("fetch") /\ UNCHANGED <<ihpa, cachedIhpa, known, inherited, timers>>
      /\ RestartCrontabs /\ Retry
  BY DEF FetchUnreadable, FetchData, FetchDynamic, apiVars, cacheVars, historyVars
<1>2. pc' = "idle" /\ queued' /\ next' = 0 /\ IsIhpa(copy')
  BY <1>1, NoIhpaIsIhpa DEF Retry, IdleLocals
<1>3. TriggersTypeOK' /\ Triggered' \subseteq Triggered \union {Provider.key}
  BY <1>1, <1>2, RestartingCrontabs DEF TriggersInv, TriggersTypeOK, Triggered
<1>4. Provider.key \in known
  BY <1>1, ProviderIsKnown
<1> QED
  BY <1>1, <1>2, <1>3, <1>4
     DEF TriggersInv, CachesFollow, CopyIsLatest, KnowsWhatItFetches, TriggersKnown, IsIhpa

LEMMA FinishKeeps ==
  ASSUME TriggersInv, Finish
  PROVE  TriggersInv'
<1>1. /\ UNCHANGED <<ihpa, cachedIhpa, known, inherited, queued, crons, timers>>
      /\ pc = "update" /\ pc' = "idle" /\ next' = 0 /\ IsIhpa(copy')
  BY NoIhpaIsIhpa DEF Finish, IdleLocals, apiVars, cacheVars, triggerVars
<1>2. Triggered' = Triggered /\ KeysOf(cachedIhpa') = KeysOf(cachedIhpa)
  BY <1>1 DEF Triggered, KeysOf
<1> QED
  BY <1>1, <1>2
     DEF TriggersInv, TriggersTypeOK, CachesFollow, CopyIsLatest, KnowsWhatItFetches, TriggersKnown,
         IsIhpa

-----------------------------------------------------------------------------
LEMMA DeliverKeeps ==
  ASSUME TriggersInv, Deliver
  PROVE  TriggersInv'
<1>1. CASE DeliverIhpa
  <2>1. /\ UNCHANGED <<ihpa, known, inherited, crons, timers, pc, copy, todo, next>>
        /\ cachedIhpa' = ihpa /\ queued'
    BY <1>1 DEF DeliverIhpa, apiVars, triggerVars, localVars, historyVars
  <2> QED
    BY <2>1
       DEF TriggersInv, TriggersTypeOK, CachesFollow, CopyIsLatest, KnowsWhatItFetches,
           TriggersKnown, IsIhpa, Triggered, KeysOf
<1>2. CASE \E k \in PortraitTypes : DeliverHp(k)
  <2>1. UNCHANGED <<ihpa, cachedIhpa, known, inherited, crons, timers, pc, copy, todo, next>> /\ queued'
    BY <1>2 DEF DeliverHp, apiVars, triggerVars, localVars, historyVars
  <2>2. TriggersTypeOK' /\ Triggered' = Triggered
    BY <2>1 DEF TriggersInv, TriggersTypeOK, Triggered
  <2> QED
    BY <2>1, <2>2, AsideKeeps
<1> QED
  BY <1>1, <1>2 DEF Deliver

LEMMA RestartKeeps ==
  ASSUME TriggersInv, Restart
  PROVE  TriggersInv'
<1>1. /\ UNCHANGED ihpa /\ cachedIhpa' = ihpa /\ queued'
      /\ crons' = [k \in Keys |-> Nil] /\ timers' = [k \in Keys |-> Nil]
      /\ pc' = "idle" /\ next' = 0 /\ IsIhpa(copy')
  BY NoIhpaIsIhpa DEF Restart, IdleLocals, apiVars
<1>2. Triggered' = {} /\ TriggersTypeOK'
  BY <1>1 DEF Triggered, TriggersTypeOK
<1> QED
  BY <1>1, <1>2
     DEF TriggersInv, CachesFollow, CopyIsLatest, KnowsWhatItFetches, TriggersKnown, IsIhpa

LEMMA OwnKeeps ==
  ASSUME TriggersInv, Own \/ \E k \in PortraitTypes : HpGoes(k)
  PROVE  TriggersInv'
<1>1. UNCHANGED <<cachedIhpa, known, inherited, queued, crons, timers, pc, copy, todo, next>>
  BY DEF Own, EditIhpa, DeleteIhpa, CreateIhpa, WriteIhpa, Fill, HpGoes, cacheVars, triggerVars,
         localVars, historyVars
<1>2. IsIhpa(ihpa') /\ ihpa'.uid \in Nat \ {0}
  <2>1. CASE UNCHANGED ihpa
    BY <2>1 DEF TriggersInv, CachesFollow, IsIhpa
  <2>2. CASE \E s \in Specs : EditIhpa(s)
    <3>1. PICK s \in Specs : ihpa' = [ihpa EXCEPT !.paused = s.paused, !.providers = s.providers]
      BY <2>2 DEF EditIhpa, WriteIhpa
    <3>2. IsIhpa(ihpa) /\ ihpa.uid \in Nat \ {0}
      BY DEF TriggersInv, CachesFollow
    <3>3. ihpa' = [exists |-> ihpa.exists, uid |-> ihpa.uid, deleting |-> ihpa.deleting,
                   paused |-> s.paused, providers |-> s.providers]
      BY <3>1, <3>2 DEF IsIhpa
    <3>4. DOMAIN s.providers = 1 .. Len(s.providers)
      BY PortraitsAssumption
    <3> QED
      BY <3>2, <3>3, <3>4 DEF IsIhpa
  <2>3. CASE DeleteIhpa
    BY <2>3 DEF DeleteIhpa, WriteIhpa, TriggersInv, CachesFollow, IsIhpa
  <2>4. CASE \E s \in Specs : CreateIhpa(s)
    BY <2>4, PortraitsAssumption
       DEF CreateIhpa, WriteIhpa, NewIhpa, TriggersInv, CachesFollow, IsIhpa
  <2> QED
    BY <2>1, <2>2, <2>3, <2>4 DEF Own, Fill, HpGoes
<1>3. TriggersTypeOK' /\ Triggered' = Triggered
  BY <1>1 DEF TriggersInv, TriggersTypeOK, Triggered
<1>4. CachesFollow'
  BY <1>1, <1>2 DEF TriggersInv, CachesFollow, IsIhpa
<1>5. CopyIsLatest' /\ KnowsWhatItFetches'
  BY <1>1 DEF TriggersInv, CopyIsLatest, KnowsWhatItFetches, KeysOf
<1>6. TriggersKnown'
  BY <1>1, <1>2, <1>3 DEF TriggersInv, TriggersKnown, KeysOf
<1> QED
  BY <1>3, <1>4, <1>5, <1>6 DEF TriggersInv

LEMMA NextKeeps ==
  ASSUME TriggersInv, [Next]_vars
  PROVE  TriggersInv'
<1>1. CASE Reconcile
  BY <1>1, BeginNothingToDoKeeps, BeginDeletionKeeps, BeginCleanupKeeps, CleanupPortraitKeeps,
     BeginProvidersKeeps, UpdateKeeps, RetryingKeeps, FetchKeeps, FetchUnreadableKeeps,
     FetchReadingKeeps, FinishKeeps
     DEF Reconcile
<1>2. CASE Disturb
  BY <1>2, CleanupFailsKeeps, RetryingKeeps, RestartKeeps DEF Disturb
<1>3. CASE UNCHANGED vars
  <2>1. UNCHANGED <<ihpa, cachedIhpa, known, inherited, queued, crons, timers, pc, copy, todo, next>>
    BY <1>3 DEF vars, apiVars, cacheVars, triggerVars, localVars, historyVars
  <2>2. TriggersTypeOK' /\ Triggered' = Triggered
    BY <2>1 DEF TriggersInv, TriggersTypeOK, Triggered
  <2> QED
    BY <2>1, <2>2, AsideKeeps
<1> QED
  BY <1>1, <1>2, <1>3, DeliverKeeps, FiringKeeps, TickKeeps, OwnKeeps DEF Next, Fire

LEMMA InitHolds == ASSUME Init PROVE TriggersInv
<1>1. IsIhpa(ihpa) /\ ihpa.uid = 1 /\ cachedIhpa = NoIhpa /\ copy = NoIhpa
  BY PortraitsAssumption DEF Init, NewIhpa, IsIhpa
<1>2. /\ crons = [k \in Keys |-> Nil] /\ timers = [k \in Keys |-> Nil]
      /\ pc = "idle" /\ next = 0 /\ ~ cachedIhpa.exists
  BY DEF Init, NoIhpa
<1>3. Triggered = {} /\ TriggersTypeOK
  BY <1>2 DEF Triggered, TriggersTypeOK
<1> QED
  BY <1>1, <1>2, <1>3, NoIhpaIsIhpa
     DEF TriggersInv, CachesFollow, CopyIsLatest, KnowsWhatItFetches, TriggersKnown

-----------------------------------------------------------------------------
(***************************************************************************)
(* No crontab and no timer of a provider that was removed from the spec of *)
(* an autoscaler goes on waking the controller (cleanupRemovedPortraits,   *)
(* and the CleanupPortrait of each provider), however often the spec and   *)
(* the data change and whatever fails in between; except the triggers that *)
(* ran when an autoscaler was deleted, until one with that provider takes  *)
(* them over.                                                              *)
(***************************************************************************)
THEOREM NoTriggersStray == Spec => []NoStrayTriggers
<1>1. TriggersInv /\ [Next]_vars => TriggersInv'
  BY NextKeeps
<1>2. TriggersInv => NoStrayTriggers
  BY DEF TriggersInv, TriggersKnown, NoStrayTriggers, AtRest, InCharge
<1> QED
  BY <1>1, <1>2, InitHolds, PTL DEF Spec

-----------------------------------------------------------------------------
(***************************************************************************)
(* The portraits themselves.  One that was created is deleted when its     *)
(* provider is removed.  The controller has only the keys it knows to find *)
(* out, so these have to name every portrait of the autoscaler that is not *)
(* overlooked, and at each step of the clean-up what is left to do.        *)
(***************************************************************************)
PortraitsWhole ==
  hp = [k \in PortraitTypes |->
          [exists |-> hp[k].exists, owner |-> hp[k].owner, deleting |-> hp[k].deleting,
           spec |-> hp[k].spec, data |-> hp[k].data]]

\* One field of a portrait.
LEMMA PortraitFields ==
  ASSUME NEW p, NEW x,
         p = [exists |-> p.exists, owner |-> p.owner, deleting |-> p.deleting, spec |-> p.spec,
              data |-> p.data]
  PROVE  /\ [p EXCEPT !.deleting = x] = [exists |-> p.exists, owner |-> p.owner, deleting |-> x,
                                         spec |-> p.spec, data |-> p.data]
         /\ [p EXCEPT !.spec = x] = [exists |-> p.exists, owner |-> p.owner,
                                     deleting |-> p.deleting, spec |-> x, data |-> p.data]
         /\ [p EXCEPT !.data = x] = [exists |-> p.exists, owner |-> p.owner,
                                     deleting |-> p.deleting, spec |-> p.spec, data |-> x]
  OBVIOUS

LEMMA EachWhole ==
  ASSUME PortraitsWhole, NEW k \in PortraitTypes
  PROVE  hp[k] = [exists |-> hp[k].exists, owner |-> hp[k].owner, deleting |-> hp[k].deleting,
                  spec |-> hp[k].spec, data |-> hp[k].data]
  BY DEF PortraitsWhole

LEMMA OneIsSet ==
  ASSUME PortraitsWhole, NEW k \in PortraitTypes, NEW p, hp' = [hp EXCEPT ![k] = p],
         p = [exists |-> p.exists, owner |-> p.owner, deleting |-> p.deleting, spec |-> p.spec,
              data |-> p.data]
  PROVE  PortraitsWhole' /\ hp'[k] = p /\ \A j \in PortraitTypes \ {k} : hp'[j] = hp[j]
  BY DEF PortraitsWhole

\* Whose portrait it is tells a uid; a cache may still show the autoscaler before.
OwnersCached ==
  \A k \in PortraitTypes : hp[k].exists => hp[k].owner \in Nat /\ hp[k].owner <= cachedIhpa.uid

UidsFollow ==
  /\ ihpa.uid \in Nat \ {0}
  /\ cachedIhpa.uid \in Nat
  /\ cachedIhpa.uid <= ihpa.uid
  /\ cachedIhpa.exists /\ cachedIhpa.deleting /\ ihpa.exists /\ ihpa.uid = cachedIhpa.uid
       => ihpa.deleting
  /\ cachedIhpa.exists /\ ~ cachedIhpa.deleting => ihpa.exists /\ ihpa.uid = cachedIhpa.uid
  /\ pc # "idle" => copy.exists /\ ihpa.exists /\ copy.uid = ihpa.uid /\ cachedIhpa.uid = ihpa.uid

Owned == {k \in PortraitTypes \ overlooked :
            hp[k].exists /\ ~ hp[k].deleting /\ hp[k].owner = ihpa.uid}

OwnedKnown ==
  ihpa.exists =>
    /\ Owned \subseteq known
    /\ pc = "cleanup" => Owned \subseteq todo \union KeysOf(copy)
    /\ pc = "idle" /\ ~ queued /\ cachedIhpa.exists /\ ~ cachedIhpa.paused /\ ~ cachedIhpa.deleting
         => Owned \subseteq KeysOf(cachedIhpa)

PortraitsInv == PortraitsWhole /\ OwnersCached /\ UidsFollow /\ OwnedKnown

\* Nobody else creates portraits.
NoneIsNew ==
  \A k \in PortraitTypes : hp'[k].exists => hp[k].exists /\ hp'[k].owner = hp[k].owner

\* What leaves the reconcile where it is, and the autoscaler.
LEMMA AsideKeepsPortraits ==
  ASSUME PortraitsInv, PortraitsWhole', NoneIsNew, Owned' \subseteq Owned,
         UNCHANGED <<ihpa, cachedIhpa, known, pc, copy, todo>>,
         UNCHANGED queued \/ queued'
  PROVE  PortraitsInv'
  BY DEF PortraitsInv, NoneIsNew, OwnersCached, UidsFollow, OwnedKnown, KeysOf

LEMMA RetryKeepsPortraits ==
  ASSUME PortraitsInv, Retry, UNCHANGED <<ihpa, hp, cachedIhpa, known, overlooked>>
  PROVE  PortraitsInv'
<1>1. pc' = "idle" /\ queued' /\ Owned' = Owned
  BY DEF Retry, IdleLocals, Owned
<1> QED
  BY <1>1 DEF PortraitsInv, PortraitsWhole, OwnersCached, UidsFollow, OwnedKnown

\* Going on with the providers.
LEMMA LoopKeepsPortraits ==
  ASSUME PortraitsInv, pc \in {"update", "fetch"}, pc' \in {"update", "fetch"},
         PortraitsWhole', OwnersCached', Owned' \subseteq Owned \union known,
         UNCHANGED <<ihpa, cachedIhpa, known, copy>>
  PROVE  PortraitsInv'
  BY DEF PortraitsInv, UidsFollow, OwnedKnown

-----------------------------------------------------------------------------
LEMMA BeginNothingToDoKeepsPortraits ==
  ASSUME PortraitsInv, BeginNothingToDo
  PROVE  PortraitsInv'
<1>1. /\ UNCHANGED <<ihpa, hp, cachedIhpa, known, pc, copy, todo, overlooked>>
      /\ pc = "idle"
      /\ ~ cachedIhpa.exists \/ cachedIhpa.paused
  BY DEF BeginNothingToDo, Begin, apiVars, cacheVars, localVars, historyVars
<1>2. Owned' = Owned
  BY <1>1 DEF Owned
<1> QED
  BY <1>1, <1>2 DEF PortraitsInv, PortraitsWhole, OwnersCached, UidsFollow, OwnedKnown

\* What is known is dropped with an autoscaler that is deleted.  If it was the one
\* before, the one there is now has no portrait yet.
LEMMA BeginDeletionKeepsPortraits ==
  ASSUME PortraitsInv, BeginDeletion
  PROVE  PortraitsInv'
<1>1. /\ UNCHANGED <<hp, cachedIhpa, pc, copy, todo, overlooked>>
      /\ pc = "idle"
      /\ cachedIhpa.exists /\ cachedIhpa.deleting
      /\ ihpa' = IF ihpa.deleting THEN [NoIhpa EXCEPT !.uid = ihpa.uid] ELSE ihpa
  BY DEF BeginDeletion, Begin, cacheVars, localVars
<1>2. CASE ihpa.deleting
  <2>1. ~ ihpa'.exists /\ ihpa'.uid = ihpa.uid
    BY <1>1, <1>2 DEF NoIhpa
  <2> QED
    BY <1>1, <2>1 DEF PortraitsInv, PortraitsWhole, OwnersCached, UidsFollow, OwnedKnown
<1>3. CASE ~ ihpa.deleting
  <2>1. ihpa' = ihpa
    BY <1>1, <1>3
  <2>2. ihpa.exists => Owned' = {}
    BY <1>1, <1>3, <2>1 DEF PortraitsInv, OwnersCached, UidsFollow, Owned
  <2> QED
    BY <1>1, <2>1, <2>2 DEF PortraitsInv, PortraitsWhole, OwnersCached, UidsFollow, OwnedKnown
<1> QED
  BY <1>2, <1>3

LEMMA BeginCleanupKeepsPortraits ==
  ASSUME PortraitsInv, BeginCleanup
  PROVE  PortraitsInv'
<1>1. /\ UNCHANGED <<ihpa, hp, cachedIhpa, known, overlooked>>
      /\ cachedIhpa.exists /\ ~ cachedIhpa.deleting
      /\ pc' = "cleanup" /\ copy' = cachedIhpa /\ todo' = known \ KeysOf(cachedIhpa)
  BY DEF BeginCleanup, Begin, apiVars, cacheVars, historyVars
<1>2. Owned' = Owned /\ KeysOf(copy') = KeysOf(cachedIhpa)
  BY <1>1 DEF Owned, KeysOf
<1> QED
  BY <1>1, <1>2 DEF PortraitsInv, PortraitsWhole, OwnersCached, UidsFollow, OwnedKnown, KeysOf

\* A portrait that is to be cleaned up is deleted, or was not seen.
LEMMA CleanupPortraitKeepsPortraits ==
  ASSUME PortraitsInv, NEW k \in Keys, CleanupPortrait(k)
  PROVE  PortraitsInv'
<1>1. /\ UNCHANGED <<ihpa, cachedIhpa, known, queued, pc, copy>>
      /\ pc = "cleanup" /\ todo' = todo \ {k}
      /\ hp' = IF DeleteIsCalled(k) /\ hp[k].exists THEN [hp EXCEPT ![k].deleting = TRUE] ELSE hp
      /\ overlooked' = IF k \in PortraitTypes /\ hp[k].exists /\ ~ cachedHp[k].exists
                       THEN overlooked \union {k} ELSE overlooked
  BY DEF CleanupPortrait, cacheVars
<1>2. PortraitsWhole' /\ NoneIsNew /\ Owned' \subseteq Owned \ {k}
  <2>1. CASE DeleteIsCalled(k) /\ hp[k].exists
    <3> DEFINE p == [exists |-> hp[k].exists, owner |-> hp[k].owner, deleting |-> TRUE,
                     spec |-> hp[k].spec, data |-> hp[k].data]
    <3>1. k \in PortraitTypes /\ hp' = [hp EXCEPT ![k] = [hp[k] EXCEPT !.deleting = TRUE]]
      BY <1>1, <2>1 DEF DeleteIsCalled
    <3>2. hp' = [hp EXCEPT ![k] = p]
      BY <3>1, EachWhole, PortraitFields DEF PortraitsInv
    <3>3. PortraitsWhole' /\ hp'[k] = p /\ \A j \in PortraitTypes \ {k} : hp'[j] = hp[j]
      BY <3>1, <3>2, OneIsSet DEF PortraitsInv
    <3> QED
      BY <1>1, <2>1, <3>3 DEF NoneIsNew, Owned
  <2>2. CASE ~ (DeleteIsCalled(k) /\ hp[k].exists)
    BY <1>1, <2>2 DEF PortraitsInv, PortraitsWhole, NoneIsNew, Owned, DeleteIsCalled
  <2> QED
    BY <2>1, <2>2
<1> QED
  BY <1>1, <1>2 DEF PortraitsInv, NoneIsNew, OwnersCached, UidsFollow, OwnedKnown, KeysOf

LEMMA BeginProvidersKeepsPortraits ==
  ASSUME PortraitsInv, BeginProviders
  PROVE  PortraitsInv'
<1>1. /\ UNCHANGED <<ihpa, hp, cachedIhpa, copy>>
      /\ pc = "cleanup" /\ todo = {} /\ known' = KeysOf(copy) /\ pc' = "update"
      /\ overlooked' = overlooked \ KeysOf(copy)
  BY DEF BeginProviders, apiVars, cacheVars
<1>2. Owned' \subseteq Owned \union KeysOf(copy)
  BY <1>1 DEF Owned
<1> QED
  BY <1>1, <1>2 DEF PortraitsInv, PortraitsWhole, OwnersCached, UidsFollow, OwnedKnown

-----------------------------------------------------------------------------
LEMMA CreateKeepsPortraits ==
  ASSUME TriggersInv, PortraitsInv, CreateHorizontalPortrait
  PROVE  PortraitsInv'
<1> DEFINE k == Provider.key
           wanted == Provider.spec
           uid == copy.uid
           p == [exists |-> TRUE, owner |-> uid, deleting |-> FALSE, spec |-> wanted, data |-> Nil]
<1>1. /\ UNCHANGED <<ihpa, cachedIhpa, known, copy, overlooked>>
      /\ pc = "update" /\ pc' = "fetch" /\ k \in PortraitTypes /\ uid = copy.uid
      /\ hp' = [hp EXCEPT ![k] = p]
  BY DEF CreateHorizontalPortrait, UpdateDynamic, InLoop, ToFetch, cacheVars, historyVars
<1>2. k \in known
  BY ProviderIsKnown DEF CreateHorizontalPortrait, UpdateDynamic
<1> HIDE DEF k, wanted, uid
<1>3. /\ PortraitsWhole'
      /\ hp'[k].owner = uid /\ \A j \in PortraitTypes \ {k} : hp'[j] = hp[j]
  <2>1. /\ p.owner = uid
        /\ p = [exists |-> p.exists, owner |-> p.owner, deleting |-> p.deleting, spec |-> p.spec,
                data |-> p.data]
    OBVIOUS
  <2> HIDE DEF p
  <2> QED
    BY <1>1, <2>1, OneIsSet DEF PortraitsInv
<1>4. OwnersCached'
  BY <1>1, <1>3 DEF PortraitsInv, OwnersCached, UidsFollow
<1>5. Owned' \subseteq Owned \union known
  BY <1>1, <1>2, <1>3 DEF Owned
<1> QED
  BY <1>1, <1>3, <1>4, <1>5, LoopKeepsPortraits

LEMMA PatchKeepsPortraits ==
  ASSUME PortraitsInv, PatchHorizontalPortrait
  PROVE  PortraitsInv'
<1> DEFINE k == Provider.key
           wanted == Provider.spec
           p == [exists |-> hp[k].exists, owner |-> hp[k].owner, deleting |-> hp[k].deleting,
                 spec |-> wanted, data |-> hp[k].data]
<1>1. /\ UNCHANGED <<ihpa, cachedIhpa, known, copy, overlooked>>
      /\ pc = "update" /\ pc' = "fetch" /\ k \in PortraitTypes
      /\ hp' = [hp EXCEPT ![k] = [hp[k] EXCEPT !.spec = wanted]]
  BY DEF PatchHorizontalPortrait, UpdateDynamic, InLoop, ToFetch, cacheVars, historyVars
<1> HIDE DEF k, wanted
<1>2. PortraitsWhole' /\ hp'[k] = p /\ \A j \in PortraitTypes \ {k} : hp'[j] = hp[j]
  <2>1. hp[k] = [exists |-> hp[k].exists, owner |-> hp[k].owner, deleting |-> hp[k].deleting,
                 spec |-> hp[k].spec, data |-> hp[k].data]
    BY <1>1, EachWhole DEF PortraitsInv
  <2>2. [hp[k] EXCEPT !.spec = wanted] = p
    BY <2>1, PortraitFields
  <2>3. hp' = [hp EXCEPT ![k] = p]
    BY <1>1, <2>2
  <2> QED
    BY <1>1, <2>3, OneIsSet DEF PortraitsInv
<1>3. PortraitsWhole' /\ OwnersCached' /\ Owned' \subseteq Owned
  BY <1>1, <1>2 DEF PortraitsInv, OwnersCached, Owned
<1> QED
  BY <1>1, <1>3, LoopKeepsPortraits

\* The other steps of the loop leave the portraits alone.
LEMMA ProvidersKeepPortraits ==
  ASSUME PortraitsInv,
         \/ UpdateStatic \/ UpdateCron \/ KeepHorizontalPortrait \/ UpdateMisses \/ UpdateFails
         \/ FetchStatic \/ FetchCron \/ FetchMisses \/ FetchNoData \/ FetchExpired
         \/ FetchUnreadable \/ FetchReading
  PROVE  PortraitsInv'
<1>1. UNCHANGED <<ihpa, hp, cachedIhpa, known, overlooked>>
  BY DEF UpdateStatic, UpdateCron, KeepHorizontalPortrait, UpdateMisses, UpdateFails, FetchStatic,
         FetchCron, FetchMisses, FetchNoData, FetchExpired, FetchUnreadable, FetchReading,
         apiVars, cacheVars, historyVars
<1>2. pc \in {"update", "fetch"}
  BY DEF UpdateStatic, UpdateCron, KeepHorizontalPortrait, UpdateMisses, UpdateFails, FetchStatic,
         FetchCron, FetchMisses, FetchNoData, FetchExpired, FetchUnreadable, FetchReading,
         UpdateDynamic, FetchDynamic, FetchData, InLoop
<1>3. Retry \/ (pc' \in {"update", "fetch"} /\ UNCHANGED copy)
  BY DEF UpdateStatic, UpdateCron, KeepHorizontalPortrait, UpdateMisses, UpdateFails, FetchStatic,
         FetchCron, FetchMisses, FetchNoData, FetchExpired, FetchUnreadable, FetchReading,
         ToFetch, Fetched
<1>4. PortraitsWhole' /\ OwnersCached' /\ Owned' = Owned
  BY <1>1 DEF PortraitsInv, PortraitsWhole, OwnersCached, Owned
<1> QED
  BY <1>1, <1>2, <1>3, <1>4, RetryKeepsPortraits, LoopKeepsPortraits

LEMMA FinishKeepsPortraits ==
  ASSUME TriggersInv, PortraitsInv, Finish
  PROVE  PortraitsInv'
<1>1. /\ UNCHANGED <<ihpa, hp, cachedIhpa, known, queued, overlooked>>
      /\ pc = "update" /\ pc' = "idle"
  BY DEF Finish, IdleLocals, apiVars, cacheVars
<1>2. Owned' = Owned /\ KeysOf(cachedIhpa') = KeysOf(cachedIhpa)
  BY <1>1 DEF Owned, KeysOf
<1>3. known = KeysOf(copy) /\ (~ queued => copy = cachedIhpa)
  BY <1>1 DEF TriggersInv, KnowsWhatItFetches, CopyIsLatest
<1> QED
  BY <1>1, <1>2, <1>3 DEF PortraitsInv, PortraitsWhole, OwnersCached, UidsFollow, OwnedKnown

-----------------------------------------------------------------------------
LEMMA DeliverKeepsPortraits ==
  ASSUME PortraitsInv, Deliver
  PROVE  PortraitsInv'
<1>1. CASE DeliverIhpa
  <2>1. /\ UNCHANGED <<ihpa, hp, known, pc, copy, todo, overlooked>>
        /\ cachedIhpa' = ihpa /\ queued'
    BY <1>1 DEF DeliverIhpa, apiVars, localVars, historyVars
  <2>2. Owned' = Owned
    BY <2>1 DEF Owned
  <2> QED
    BY <2>1, <2>2 DEF PortraitsInv, PortraitsWhole, OwnersCached, UidsFollow, OwnedKnown, KeysOf
<1>2. CASE \E k \in PortraitTypes : DeliverHp(k)
  <2>1. UNCHANGED <<ihpa, hp, cachedIhpa, known, pc, copy, todo, overlooked>> /\ queued'
    BY <1>2 DEF DeliverHp, apiVars, localVars, historyVars
  <2>2. PortraitsWhole' /\ NoneIsNew /\ Owned' = Owned
    BY <2>1 DEF PortraitsInv, PortraitsWhole, NoneIsNew, Owned
  <2> QED
    BY <2>1, <2>2, AsideKeepsPortraits
<1> QED
  BY <1>1, <1>2 DEF Deliver

LEMMA RestartKeepsPortraits ==
  ASSUME PortraitsInv, Restart
  PROVE  PortraitsInv'
<1>1. /\ UNCHANGED <<ihpa, hp>> /\ cachedIhpa' = ihpa /\ pc' = "idle"
      /\ overlooked' = overlooked \union {k \in PortraitTypes : hp[k].exists}
  BY DEF Restart, IdleLocals, apiVars
<1>2. Owned' = {}
  BY <1>1 DEF Owned
<1> QED
  BY <1>1, <1>2 DEF PortraitsInv, PortraitsWhole, OwnersCached, UidsFollow, OwnedKnown

\* Triggers and the clock.
LEMMA WakeUpsKeepPortraits ==
  ASSUME PortraitsInv, Fire \/ Tick \/ UNCHANGED vars
  PROVE  PortraitsInv'
<1>1. UNCHANGED <<ihpa, hp, cachedIhpa, known, pc, copy, todo, overlooked>>
  BY DEF Fire, TimerFires, CronFires, Tick, vars, apiVars, cacheVars, localVars, historyVars
<1>2. UNCHANGED queued \/ queued'
  BY DEF Fire, TimerFires, CronFires, Tick, vars
<1>3. PortraitsWhole' /\ NoneIsNew /\ Owned' = Owned
  BY <1>1 DEF PortraitsInv, PortraitsWhole, NoneIsNew, Owned
<1> QED
  BY <1>1, <1>2, <1>3, AsideKeepsPortraits

\* Those who fill portraits and take them away.
LEMMA OthersKeepPortraits ==
  ASSUME PortraitsInv, NEW k \in PortraitTypes, HpGoes(k) \/ \E d \in Datas : Fill(k, d)
  PROVE  PortraitsInv'
<1>1. UNCHANGED <<ihpa, cachedIhpa, queued, known, pc, copy, todo, overlooked>>
  BY DEF HpGoes, Fill, cacheVars, localVars, historyVars
<1>2. PortraitsWhole' /\ NoneIsNew /\ Owned' \subseteq Owned
  <2>1. CASE HpGoes(k)
    <3>1. hp' = [hp EXCEPT ![k] = NoPortrait]
      BY <2>1 DEF HpGoes
    <3> QED
      BY <1>1, <3>1 DEF NoPortrait, PortraitsInv, PortraitsWhole, NoneIsNew, Owned
  <2>2. CASE \E d \in Datas : Fill(k, d)
    <3>1. PICK d \in Datas : hp' = [hp EXCEPT ![k] = [hp[k] EXCEPT !.data = d]]
      BY <2>2 DEF Fill
    <3> DEFINE p == [exists |-> hp[k].exists, owner |-> hp[k].owner, deleting |-> hp[k].deleting,
                     spec |-> hp[k].spec, data |-> d]
    <3>2. hp' = [hp EXCEPT ![k] = p]
      BY <3>1, EachWhole, PortraitFields DEF PortraitsInv
    <3>3. PortraitsWhole' /\ hp'[k] = p /\ \A j \in PortraitTypes \ {k} : hp'[j] = hp[j]
      BY <3>2, OneIsSet DEF PortraitsInv
    <3> QED
      BY <1>1, <3>3 DEF NoneIsNew, Owned
  <2> QED
    BY <2>1, <2>2
<1> QED
  BY <1>1, <1>2, AsideKeepsPortraits

\* An autoscaler that is created again has no portraits: they are all older.
LEMMA OwnerKeepsPortraits ==
  ASSUME TriggersInv, PortraitsInv, DeleteIhpa \/ \E s \in Specs : EditIhpa(s) \/ CreateIhpa(s)
  PROVE  PortraitsInv'
<1>1. UNCHANGED <<hp, cachedIhpa, queued, known, pc, copy, todo, overlooked>>
  BY DEF DeleteIhpa, EditIhpa, CreateIhpa, WriteIhpa, cacheVars, localVars, historyVars
<1>2. CASE DeleteIhpa \/ \E s \in Specs : EditIhpa(s)
  <2>1. /\ ihpa.exists /\ ihpa'.exists /\ ihpa'.uid = ihpa.uid
        /\ ihpa.deleting => ihpa'.deleting
    BY <1>2 DEF DeleteIhpa, EditIhpa, WriteIhpa, TriggersInv, CachesFollow, IsIhpa
  <2>2. Owned' = Owned
    BY <1>1, <2>1 DEF Owned
  <2> QED
    BY <1>1, <2>1, <2>2
       DEF PortraitsInv, PortraitsWhole, OwnersCached, UidsFollow, OwnedKnown, KeysOf
<1>3. CASE \E s \in Specs : CreateIhpa(s)
  <2>1. ~ ihpa.exists /\ ihpa'.exists /\ ihpa'.uid = ihpa.uid + 1
    BY <1>3 DEF CreateIhpa, WriteIhpa, NewIhpa
  <2>2. Owned' = {}
    BY <1>1, <2>1 DEF PortraitsInv, OwnersCached, UidsFollow, Owned
  <2> QED
    BY <1>1, <2>1, <2>2 DEF PortraitsInv, PortraitsWhole, OwnersCached, UidsFollow, OwnedKnown
<1> QED
  BY <1>2, <1>3

LEMMA NextKeepsPortraits ==
  ASSUME TriggersInv, PortraitsInv, [Next]_vars
  PROVE  PortraitsInv'
<1>1. CASE Reconcile
  BY <1>1, BeginNothingToDoKeepsPortraits, BeginDeletionKeepsPortraits, BeginCleanupKeepsPortraits,
     CleanupPortraitKeepsPortraits, BeginProvidersKeepsPortraits, CreateKeepsPortraits,
     PatchKeepsPortraits, ProvidersKeepPortraits, FinishKeepsPortraits
     DEF Reconcile
<1>2. CASE Disturb
  <2>1. CASE \E k \in Keys : CleanupFails(k)
    <3>1. Retry /\ UNCHANGED <<ihpa, hp, cachedIhpa, known, overlooked>>
      BY <2>1 DEF CleanupFails, apiVars, cacheVars, historyVars
    <3> QED
      BY <3>1, RetryKeepsPortraits
  <2> QED
    BY <1>2, <2>1, ProvidersKeepPortraits, RestartKeepsPortraits DEF Disturb
<1>3. CASE Own
  BY <1>3, OwnerKeepsPortraits, OthersKeepPortraits DEF Own
<1> QED
  BY <1>1, <1>2, <1>3, DeliverKeepsPortraits, WakeUpsKeepPortraits, OthersKeepPortraits DEF Next

LEMMA InitHoldsPortraits == ASSUME Init PROVE PortraitsInv
<1>1. /\ ihpa.exists /\ ihpa.uid = 1
      /\ hp = [k \in PortraitTypes |-> NoPortrait]
      /\ cachedIhpa = NoIhpa /\ pc = "idle"
  BY DEF Init, NewIhpa
<1>2. \A k \in PortraitTypes : ~ hp[k].exists
  BY <1>1 DEF NoPortrait
<1>3. PortraitsWhole
  BY <1>1 DEF PortraitsWhole, NoPortrait
<1>4. UidsFollow
  BY <1>1 DEF UidsFollow, NoIhpa
<1> QED
  BY <1>1, <1>2, <1>3, <1>4 DEF PortraitsInv, OwnersCached, OwnedKnown, Owned

(***************************************************************************)
(* A portrait whose provider was removed from the spec is deleted, however *)
(* often the spec changes, the autoscaler is deleted and created again,    *)
(* calls fail, and the manager restarts; except those the controller could *)
(* not see or remember.                                                    *)
(***************************************************************************)
THEOREM RemovedPortraitsAreDeleted == Spec => []RemovedPortraitsGo
<1>1. TriggersInv /\ PortraitsInv /\ [Next]_vars => TriggersInv' /\ PortraitsInv'
  BY NextKeeps, NextKeepsPortraits
<1>2. PortraitsInv => RemovedPortraitsGo
  BY DEF PortraitsInv, OwnedKnown, Owned, RemovedPortraitsGo, AtRest, InCharge
<1> QED
  BY <1>1, <1>2, InitHolds, InitHoldsPortraits, PTL DEF Spec

-----------------------------------------------------------------------------
(***************************************************************************)
(* The value that is followed is that of the moment.  Nobody compares the  *)
(* two again when time goes by, so every provider that was asked has to    *)
(* leave a crontab or a timer behind that goes off when what it said is no *)
(* longer so (Armed).  As long as none has gone off, and nothing else has  *)
(* happened, the values are those that were fetched, and the best of them  *)
(* is the one that is followed, or the best up to the provider the loop    *)
(* has come to.  All of this is about what the caches show: they may be    *)
(* behind, but then there is an event to come.                             *)
(***************************************************************************)
Lists == {s.providers : s \in Specs} \union {<<>>}

ListsTyped == {ihpa.providers, cachedIhpa.providers, copy.providers} \subseteq Lists

DatasTyped ==
  /\ cachedHp = [k \in PortraitTypes |-> cachedHp[k]]
  /\ \A k \in PortraitTypes : {hp[k].data, cachedHp[k].data} \subseteq Datas \union {Nil}

CronsTyped == \A k \in Keys : crons[k] # Nil => crons[k] \in [rules : SUBSET Rules, due : BOOLEAN]

\* A timer does not go off before its time.
TimersTyped ==
  \A k \in Keys :
    timers[k] # Nil =>
      timers[k] \in [at : Nat, fired : BOOLEAN] /\ (timers[k].fired => timers[k].at <= now)

ClockTyped == now \in Nat /\ ListsTyped /\ DatasTyped /\ CronsTyped /\ TimersTyped

\* What a provider says at a time, by the data in the cache.
SaysAt(p, t) ==
  CASE p.key = "Static" -> StaticValue(p.replicas)
    [] p.key = "Cron"   -> RulesValue(p.rules, t)
    [] OTHER            -> DataValue(p.key, cachedHp[p.key].data, t)

Says(p) == SaysAt(p, now)

\* Something that goes off when it says something else.
CronsRun(k, rules) == crons[k] # Nil /\ crons[k].rules = rules /\ Parsable(rules)
TimerRuns(k, t) == timers[k] # Nil /\ timers[k].at = t

CronDataArmed(k, d) ==
  /\ CronsRun(k, d.rules)
  /\ d.expire # Nil => TimerRuns(k, d.expire) \/ \E r \in d.rules : NextAt(now, r.end) < d.expire

SeriesArmed(k, d) ==
  TimeSeriesReading(d, now).wake # Nil => TimerRuns(k, TimeSeriesReading(d, now).wake)

DataArmed(k, d) ==
  \/ d = Nil
  \/ Expired(d, now)
  \/ d.type = "Static" /\ (d.expire # Nil => TimerRuns(k, d.expire))
  \/ d.type = "Cron" /\ CronDataArmed(k, d)
  \/ d.type = "TimeSeries" /\ SeriesArmed(k, d)

Armed(p) ==
  /\ p.key = "Cron" => CronsRun("Cron", p.rules)
  /\ p.key \in PortraitTypes => DataArmed(p.key, cachedHp[p.key].data)

Due(k) == TimerIsDue(k) \/ CronIsDue(k)

NoneDue(ps, n) == \A i \in 1 .. n : ~ Due(ps[i].key)
AllArmed(ps, n) == \A i \in 1 .. n : Armed(ps[i])

\* No value of the first n providers comes before that of p.
Leads(ps, n, p) ==
  /\ Says(p) # Nil
  /\ \A i \in 1 .. n :
       Says(ps[i]) # Nil =>
         \/ p.priority > ps[i].priority
         \/ p.priority = ps[i].priority /\ Says(p).replicas >= Says(ps[i]).replicas

NoneSays(ps, n) == \A i \in 1 .. n : Says(ps[i]) = Nil

Chosen(ps, n, value) ==
  \/ value = Nil /\ NoneSays(ps, n)
  \/ \E i \in 1 .. n : Leads(ps, n, ps[i]) /\ value = Says(ps[i])

ChosenSoFar(ps, n, candidate) ==
  \/ candidate = NoCandidate /\ NoneSays(ps, n)
  \/ \E i \in 1 .. n :
       /\ Leads(ps, n, ps[i])
       /\ candidate = [value |-> Says(ps[i]), priority |-> ps[i].priority]

InProviders == pc \in {"update", "fetch"}
Following == cachedIhpa.exists /\ ~ cachedIhpa.paused /\ ~ cachedIhpa.deleting

\* The loop over the providers.
LoopInv ==
  InProviders =>
    LET ps == copy.providers
        n  == next - 1
    IN  /\ n \in 0 .. Len(ps)
        /\ pc = "fetch" => n < Len(ps)
        /\ pc = "fetch" /\ ps[next].key = "Cron" => CronsRun("Cron", ps[next].rules)
        /\ ~ queued /\ NoneDue(ps, n) => AllArmed(ps, n) /\ ChosenSoFar(ps, n, best)

\* And after it.
RestInv ==
  pc = "idle" /\ ~ queued /\ Following =>
    LET ps == cachedIhpa.providers
        n  == Len(ps)
    IN  NoneDue(ps, n) => AllArmed(ps, n) /\ Chosen(ps, n, followed)

ClockInv ==
  /\ ~ InProviders => best = NoCandidate
  /\ LoopInv
  /\ RestInv

-----------------------------------------------------------------------------
\* A set of numbers has a smallest one, and a largest one if it has an end.
LEMMA SmallestNumber ==
  ASSUME NEW T \in SUBSET Nat, T # {}
  PROVE  \E n \in T : \A m \in T : n <= m
<1>1. PICK n \in T : \A m \in T : ~ (<<m, n>> \in OpToRel(<, Nat))
  BY WFMin, NatLessThanWellFounded
<1>2. ASSUME NEW m \in T PROVE n <= m
  <2>1. <<m, n>> \in Nat \X Nat /\ ~ (<<m, n>> \in OpToRel(<, Nat))
    BY <1>1
  <2>2. ~ (m < n)
    BY <2>1 DEF OpToRel
  <2> QED
    BY <2>2
<1> QED
  BY <1>2

LEMMA LargestNumber ==
  ASSUME NEW T \in SUBSET Nat, T # {}, NEW end \in Nat, \A m \in T : m <= end
  PROVE  LatestOf(T) \in T
<1> DEFINE U == {end - m : m \in T}
<1>1. U \in SUBSET Nat /\ U # {}
  <2>1. \A m \in T : m \in Nat /\ m <= end
    OBVIOUS
  <2>2. \A m \in T : end - m \in Nat
    BY <2>1
  <2> QED
    BY <2>2
<1>2. PICK u \in U : \A v \in U : u <= v
  BY <1>1, SmallestNumber
<1>3. PICK n \in T : u = end - n
  OBVIOUS
<1>4. \A m \in T : n >= m
  <2> SUFFICES ASSUME NEW m \in T PROVE n >= m
    OBVIOUS
  <2>1. end - n <= end - m /\ n \in Nat /\ m \in Nat
    BY <1>2, <1>3
  <2> QED
    BY <2>1
<1> QED
  BY <1>4 DEF LatestOf

LEMMA EarliestIsFirst ==
  ASSUME NEW T \in SUBSET Nat, T # {}
  PROVE  Earliest(T) \in T /\ \A m \in T : Earliest(T) <= m
  BY SmallestNumber DEF Earliest

-----------------------------------------------------------------------------
(* The slots of a period. *)

LEMMA NextAtLater ==
  ASSUME NEW t \in Nat, NEW slot \in Slots
  PROVE  NextAt(t, slot) \in Nat /\ NextAt(t, slot) > t
<1>1. (slot - t - 1) % Period \in 0 .. Period - 1
  BY PortraitsAssumption DEF Slots
<1> QED
  BY <1>1, PortraitsAssumption DEF NextAt

LEMMA RemainderIs ==
  ASSUME NEW p \in Nat \ {0}, NEW q \in Int, NEW r \in 0 .. p - 1, NEW a \in Int, a = p * q + r
  PROVE  a % p = r
  OBVIOUS

LEMMA RemainderOf ==
  ASSUME NEW p \in Nat \ {0}, NEW a \in Int
  PROVE  a % p \in 0 .. p - 1 /\ a \div p \in Int /\ a = p * (a \div p) + (a % p)
  OBVIOUS

\* A slot that does not come now comes when it would have come.
LEMMA SlotStays ==
  ASSUME NEW t \in Nat, NEW slot \in Slots, (t + 1) % Period # slot
  PROVE  NextAt(t + 1, slot) = NextAt(t, slot)
<1> DEFINE a == slot - t - 1
           q == a \div Period
           r == a % Period
<1>1. Period \in Nat \ {0} /\ a \in Int /\ slot \in 0 .. Period - 1
  BY PortraitsAssumption DEF Slots
<1>2. r \in 0 .. Period - 1 /\ q \in Int /\ a = Period * q + r
  BY <1>1, RemainderOf
<1>3. r # 0
  <2> SUFFICES ASSUME r = 0 PROVE FALSE
    OBVIOUS
  <2>1. t + 1 = Period * (0 - q) + slot
    <3>1. Period * q \in Int /\ Period * (0 - q) = 0 - Period * q
      BY <1>1, <1>2
    <3> QED
      BY <1>2, <3>1, <1>1
  <2>2. 0 - q \in Int /\ t + 1 \in Int
    BY <1>2
  <2> HIDE DEF a, q, r
  <2> QED
    BY <1>1, <2>1, <2>2, RemainderIs
<1>4. (a - 1) % Period = r - 1
  <2>1. a - 1 = Period * q + (r - 1)
    <3>1. Period * q \in Int
      BY <1>1, <1>2
    <3> QED
      BY <3>1, <1>1, <1>2
  <2>2. r - 1 \in 0 .. Period - 1 /\ a - 1 \in Int
    BY <1>1, <1>2, <1>3
  <2> HIDE DEF a, q, r
  <2> QED
    BY <1>1, <1>2, <2>1, <2>2, RemainderIs
<1>5. slot - (t + 1) - 1 = a - 1
  BY <1>1
<1>6. NextAt(t + 1, slot) = t + 2 + (r - 1)
  BY <1>4, <1>5 DEF NextAt
<1>7. NextAt(t, slot) = t + 1 + r
  BY DEF NextAt
<1> QED
  BY <1>1, <1>2, <1>6, <1>7

\* As long as no rule begins or ends, the rules are the same and end when they would.
LEMMA RulesStay ==
  ASSUME NEW t \in Nat, NEW rules \in SUBSET Rules, Parsable(rules), ~ GoesOff(rules, t + 1)
  PROVE  /\ ActiveRules(rules, t + 1) = ActiveRules(rules, t)
         /\ \A r \in rules : NextAt(t + 1, r.end) = NextAt(t, r.end)
<1>1. ASSUME NEW r \in rules
      PROVE  /\ NextAt(t + 1, r.start) = NextAt(t, r.start)
             /\ NextAt(t + 1, r.end) = NextAt(t, r.end)
  <2>1. r.start \in Slots /\ r.end \in Slots
    BY DEF Parsable, Rules
  <2>2. (t + 1) % Period # r.start /\ (t + 1) % Period # r.end
    BY DEF GoesOff
  <2> QED
    BY <2>1, <2>2, SlotStays
<1>2. \A r \in rules : IsCronActive(t + 1, r) <=> IsCronActive(t, r)
  BY <1>1 DEF IsCronActive
<1> QED
  BY <1>1, <1>2 DEF ActiveRules

LEMMA RulesValueStays ==
  ASSUME NEW t \in Nat, NEW rules \in SUBSET Rules, Parsable(rules), ~ GoesOff(rules, t + 1)
  PROVE  RulesValue(rules, t + 1) = RulesValue(rules, t)
<1>1. ActiveRules(rules, t + 1) = ActiveRules(rules, t)
  BY RulesStay
<1>2. CASE ActiveRules(rules, t) = {}
  BY <1>1, <1>2 DEF RulesValue
<1>3. CASE ActiveRules(rules, t) # {}
  <2> DEFINE r == CHOOSE r \in ActiveRules(rules, t) : TRUE
  <2>1. r \in rules
    BY <1>3 DEF ActiveRules
  <2>2. NextAt(t + 1, r.end) = NextAt(t, r.end)
    BY <2>1, RulesStay
  <2>3. RulesValue(rules, t) =
          [provider |-> "Cron", replicas |-> r.replicas, expire |-> NextAt(t, r.end)]
    BY <1>3 DEF RulesValue
  <2>4. RulesValue(rules, t + 1) =
          [provider |-> "Cron", replicas |-> r.replicas, expire |-> NextAt(t + 1, r.end)]
    BY <1>1, <1>3 DEF RulesValue
  <2> QED
    BY <2>2, <2>3, <2>4
<1> QED
  BY <1>2, <1>3

-----------------------------------------------------------------------------
(* When time goes by. *)

LEMMA ClockTicks ==
  ASSUME Tick, ClockTyped
  PROVE  /\ now' = now + 1 /\ now \in Nat /\ now' \in Nat
         /\ UNCHANGED <<ihpa, hp, cachedIhpa, cachedHp, queued, timers, pc,
                         copy, next, best, followed>>
         /\ \A k \in Keys :
              crons'[k] = IF crons[k] # Nil /\ GoesOff(crons[k].rules, now')
                          THEN [crons[k] EXCEPT !.due = TRUE] ELSE crons[k]
  BY DEF Tick, ClockTyped, apiVars, cacheVars, localVars, historyVars

LEMMA DueStaysDue ==
  ASSUME Tick, ClockTyped, NEW k \in Keys, ~ Due(k)'
  PROVE  ~ Due(k)
<1>1. ASSUME TimerIsDue(k) PROVE TimerIsDue(k)'
  <2>1. timers[k].at \in Nat /\ timers' = timers /\ now' = now + 1 /\ now \in Nat
    BY <1>1, ClockTicks DEF TimerIsDue, ClockTyped, TimersTyped
  <2> QED
    BY <1>1, <2>1 DEF TimerIsDue
<1>2. ASSUME CronIsDue(k) PROVE CronIsDue(k)'
  <2>1. crons[k] \in [rules : SUBSET Rules, due : BOOLEAN] /\ crons[k].due
    BY <1>2 DEF CronIsDue, ClockTyped, CronsTyped
  <2>2. [crons[k] EXCEPT !.due = TRUE] = crons[k]
    BY <2>1
  <2>3. crons'[k] = crons[k]
    BY <2>2, ClockTicks
  <2> QED
    BY <1>2, <2>3 DEF CronIsDue
<1> QED
  BY <1>1, <1>2 DEF Due

LEMMA CronsGoOn ==
  ASSUME Tick, ClockTyped, NEW k \in Keys, ~ CronIsDue(k)', NEW rules, CronsRun(k, rules)
  PROVE  ~ GoesOff(rules, now + 1) /\ CronsRun(k, rules)' /\ rules \in SUBSET Rules
<1>1. crons[k] \in [rules : SUBSET Rules, due : BOOLEAN] /\ crons[k].rules = rules
  BY DEF CronsRun, ClockTyped, CronsTyped
<1>2. ~ GoesOff(rules, now')
  <2> SUFFICES ASSUME GoesOff(rules, now') PROVE FALSE
    OBVIOUS
  <2>1. crons'[k] = [crons[k] EXCEPT !.due = TRUE]
    BY <1>1, ClockTicks DEF CronsRun
  <2>2. crons'[k] \in [rules : SUBSET Rules, due : BOOLEAN] /\ crons'[k].due
    BY <1>1, <2>1
  <2>3. crons'[k] # Nil
    BY <2>2, NilAssumption
  <2> QED
    BY <2>2, <2>3 DEF CronIsDue
<1>3. crons'[k] = crons[k]
  BY <1>1, <1>2, ClockTicks
<1> QED
  BY <1>1, <1>2, <1>3, ClockTicks DEF CronsRun, Parsable

LEMMA TimerGoesOn ==
  ASSUME Tick, ClockTyped, NEW k \in Keys, ~ TimerIsDue(k)', NEW t \in Nat, t > now, TimerRuns(k, t)
  PROVE  t > now + 1 /\ TimerRuns(k, t)'
<1>1. /\ timers[k] \in [at : Nat, fired : BOOLEAN] /\ timers[k].at = t
      /\ timers[k].fired => timers[k].at <= now
  BY DEF TimerRuns, ClockTyped, TimersTyped
<1>2. now' = now + 1 /\ now \in Nat /\ timers' = timers
  BY ClockTicks
<1>3. ~ timers[k].fired
  BY <1>1, <1>2
<1>4. ~ (timers[k].at <= now')
  BY <1>2, <1>3 DEF TimerIsDue, TimerRuns
<1> QED
  BY <1>1, <1>2, <1>4 DEF TimerRuns

\* Data that have not expired hold at least until their timer goes off.
LEMMA HoldsOn ==
  ASSUME Tick, ClockTyped, NEW k \in Keys, ~ TimerIsDue(k)',
         NEW d \in Datas, ~ Expired(d, now), d.expire # Nil => TimerRuns(k, d.expire)
  PROVE  ~ Expired(d, now + 1) /\ (d.expire # Nil => TimerRuns(k, d.expire)')
<1>1. now \in Nat
  BY ClockTicks
<1>2. CASE d.expire = Nil
  BY <1>2 DEF Expired
<1>3. CASE d.expire # Nil
  <2>1. d.expire \in Nat /\ d.expire > now
    BY <1>1, <1>3, DatasAssumption DEF Expired
  <2>2. d.expire > now + 1 /\ TimerRuns(k, d.expire)'
    BY <1>3, <2>1, TimerGoesOn
  <2> QED
    BY <1>1, <2>1, <2>2 DEF Expired
<1> QED
  BY <1>2, <1>3

\* Static data.
LEMMA StaticDataGoOn ==
  ASSUME Tick, ClockTyped, NEW k \in Keys, ~ Due(k)',
         NEW d \in Datas, d.type = "Static", ~ Expired(d, now),
         d.expire # Nil => TimerRuns(k, d.expire)
  PROVE  DataValue(k, d, now + 1) = DataValue(k, d, now) /\ DataArmed(k, d)'
<1>1. ~ Expired(d, now + 1) /\ (d.expire # Nil => TimerRuns(k, d.expire)')
  BY HoldsOn DEF Due
<1>2. Reading(d, now + 1) = StaticReading(d) /\ Reading(d, now) = StaticReading(d)
  BY DEF Reading
<1> QED
  BY <1>1, <1>2 DEF DataValue, DataArmed

\* Data with rules.
LEMMA CronDataGoOn ==
  ASSUME Tick, ClockTyped, NEW k \in Keys, ~ Due(k)',
         NEW d \in Datas, d.type = "Cron", ~ Expired(d, now), CronDataArmed(k, d)
  PROVE  DataValue(k, d, now + 1) = DataValue(k, d, now) /\ DataArmed(k, d)'
<1>1. /\ ~ GoesOff(d.rules, now + 1) /\ CronsRun(k, d.rules)' /\ d.rules \in SUBSET Rules
      /\ Parsable(d.rules)
  BY CronsGoOn DEF Due, CronDataArmed, CronsRun
<1>2. now' = now + 1 /\ now \in Nat
  BY ClockTicks
<1>3. /\ ActiveRules(d.rules, now + 1) = ActiveRules(d.rules, now)
      /\ \A r \in d.rules : NextAt(now + 1, r.end) = NextAt(now, r.end)
  BY <1>1, <1>2, RulesStay
<1>4. {NextAt(now + 1, r.end) : r \in ActiveRules(d.rules, now + 1)}
        = {NextAt(now, r.end) : r \in ActiveRules(d.rules, now)}
  BY <1>3 DEF ActiveRules
<1>5. CronReading(d, now + 1) = CronReading(d, now)
  BY <1>3, <1>4 DEF CronReading
<1>6. /\ ~ Expired(d, now + 1)
      /\ d.expire # Nil =>
           TimerRuns(k, d.expire)' \/ \E r \in d.rules : NextAt(now + 1, r.end) < d.expire
  <2>1. CASE d.expire # Nil => TimerRuns(k, d.expire)
    BY <2>1, HoldsOn DEF Due
  <2>2. CASE d.expire # Nil /\ ~ TimerRuns(k, d.expire)
    <3>1. PICK r \in d.rules : NextAt(now, r.end) < d.expire
      BY <2>2 DEF CronDataArmed
    <3>2. NextAt(now + 1, r.end) \in Nat /\ NextAt(now + 1, r.end) > now + 1
      BY <1>1, <1>2, NextAtLater DEF Rules
    <3>3. NextAt(now + 1, r.end) < d.expire
      BY <1>3, <3>1
    <3>4. d.expire \in Nat
      BY <2>2, DatasAssumption
    <3>5. ~ (now + 1 >= d.expire)
      BY <1>2, <3>2, <3>3, <3>4
    <3> QED
      BY <3>3, <3>5 DEF Expired
  <2> QED
    BY <2>1, <2>2
<1>7. CronDataArmed(k, d)'
  BY <1>1, <1>2, <1>6 DEF CronDataArmed
<1>8. Reading(d, now + 1) = CronReading(d, now + 1) /\ Reading(d, now) = CronReading(d, now)
  BY DEF Reading
<1> QED
  BY <1>5, <1>6, <1>7, <1>8 DEF DataValue, DataArmed

\* Data that change from point to point.
LEMMA PointsTyped ==
  ASSUME NEW d \in Datas, d.type = "TimeSeries", NEW t \in Nat
  PROVE  /\ Later(d, t) \in SUBSET Nat
         /\ \A p \in Later(d, t) : p > t
         /\ DOMAIN d.points \in SUBSET Nat
  BY DatasAssumption DEF Later

LEMMA SeriesWake ==
  ASSUME NEW d \in Datas, d.type = "TimeSeries", NEW t \in Nat, ~ Expired(d, t),
         NEW w, w = TimeSeriesReading(d, t).wake
  PROVE  /\ w # Nil => w \in Nat /\ w > t
         /\ d.expire # Nil => w # Nil /\ w <= d.expire
         /\ \A p \in Later(d, t) : w # Nil /\ w <= p
<1> DEFINE ends == Times(d.expire) \union Times(Earliest(Later(d, t)))
<1>1. w = Earliest(ends)
  BY DEF TimeSeriesReading
<1>2. d.expire # Nil => d.expire \in Nat /\ d.expire > t
  BY DatasAssumption DEF Expired
<1>3. Later(d, t) # {} =>
        /\ Earliest(Later(d, t)) \in Later(d, t)
        /\ \A p \in Later(d, t) : Earliest(Later(d, t)) <= p
  BY PointsTyped, EarliestIsFirst
<1>4. Later(d, t) = {} => Earliest(Later(d, t)) = Nil
  BY DEF Earliest
<1>5. ends \in SUBSET Nat /\ \A e \in ends : e > t
  BY <1>2, <1>3, <1>4, PointsTyped DEF Times
<1>6. ends # {} => w \in ends /\ \A e \in ends : w <= e
  BY <1>1, <1>5, EarliestIsFirst
<1>7. ends = {} => w = Nil
  BY <1>1 DEF Earliest
<1>8. d.expire # Nil => d.expire \in ends
  BY DEF Times
<1>9. Later(d, t) # {} => Earliest(Later(d, t)) \in ends
  BY <1>3, PointsTyped, NilAssumption DEF Times
<1> HIDE DEF ends
<1>10. w # Nil => w \in Nat /\ w > t
  BY <1>5, <1>6, <1>7
<1>11. d.expire # Nil => w # Nil /\ w <= d.expire
  BY <1>5, <1>6, <1>8, NilAssumption
<1>12. ASSUME NEW p \in Later(d, t) PROVE w # Nil /\ w <= p
  <2>1. Earliest(Later(d, t)) \in ends /\ Earliest(Later(d, t)) <= p
    BY <1>3, <1>9
  <2>2. w \in ends /\ w <= Earliest(Later(d, t))
    BY <1>6, <2>1
  <2>3. w \in Nat /\ Earliest(Later(d, t)) \in Nat /\ p \in Nat
    BY <1>5, <2>1, <2>2, PointsTyped
  <2> QED
    BY <2>1, <2>2, <2>3, NilAssumption
<1> QED
  BY <1>10, <1>11, <1>12

LEMMA SeriesDataGoOn ==
  ASSUME Tick, ClockTyped, NEW k \in Keys, ~ Due(k)',
         NEW d \in Datas, d.type = "TimeSeries", ~ Expired(d, now), SeriesArmed(k, d)
  PROVE  DataValue(k, d, now + 1) = DataValue(k, d, now) /\ DataArmed(k, d)'
<1>0. PICK w : w = TimeSeriesReading(d, now).wake
  OBVIOUS
<1>1. now' = now + 1 /\ now \in Nat
  BY ClockTicks
<1>2. /\ w # Nil => w \in Nat /\ w > now
      /\ d.expire # Nil => w # Nil /\ w <= d.expire
      /\ \A p \in Later(d, now) : w # Nil /\ w <= p
  BY <1>0, <1>1, SeriesWake
<1>3. w # Nil => w > now + 1 /\ TimerRuns(k, w)'
  <2> SUFFICES ASSUME w # Nil PROVE w > now + 1 /\ TimerRuns(k, w)'
    OBVIOUS
  <2>1. w \in Nat /\ w > now /\ TimerRuns(k, w)
    BY <1>0, <1>2 DEF SeriesArmed
  <2> QED
    BY <2>1, TimerGoesOn DEF Due
<1>4. ~ Expired(d, now + 1)
  <2>1. d.expire # Nil => d.expire \in Nat /\ w \in Nat
    BY <1>2, DatasAssumption
  <2> QED
    BY <1>1, <1>2, <1>3, <2>1 DEF Expired
<1>5. Later(d, now + 1) = Later(d, now)
  <2>1. ASSUME NEW p \in Later(d, now) PROVE p > now + 1
    <3>1. w \in Nat /\ w <= p /\ w > now + 1 /\ p \in Nat
      BY <1>1, <1>2, <1>3, PointsTyped
    <3> QED
      BY <1>1, <3>1
  <2>2. DOMAIN d.points \in SUBSET Nat
    BY <1>1, PointsTyped
  <2> QED
    BY <1>1, <2>1, <2>2 DEF Later
<1>6. TimeSeriesReading(d, now + 1) = TimeSeriesReading(d, now)
  BY <1>5 DEF TimeSeriesReading, InEffect
<1>7. SeriesArmed(k, d)'
  BY <1>0, <1>1, <1>3, <1>6 DEF SeriesArmed, TimerRuns
<1>8. /\ Reading(d, now + 1) = TimeSeriesReading(d, now + 1)
      /\ Reading(d, now) = TimeSeriesReading(d, now)
  BY DEF Reading
<1> QED
  BY <1>4, <1>6, <1>7, <1>8 DEF DataValue, DataArmed

LEMMA DataGoOn ==
  ASSUME Tick, ClockTyped, NEW k \in Keys, ~ Due(k)',
         NEW d \in Datas \union {Nil}, DataArmed(k, d)
  PROVE  DataValue(k, d, now + 1) = DataValue(k, d, now) /\ DataArmed(k, d)'
<1>1. now' = now + 1 /\ now \in Nat
  BY ClockTicks
<1>2. CASE d = Nil
  BY <1>2 DEF DataValue, DataArmed
<1>3. CASE d # Nil /\ Expired(d, now)
  <2>1. d.expire \in Nat
    BY <1>3, DatasAssumption DEF Expired
  <2>2. Expired(d, now + 1)
    BY <1>1, <1>3, <2>1 DEF Expired
  <2> QED
    BY <1>1, <1>3, <2>2 DEF DataValue, DataArmed
<1>4. CASE d # Nil /\ ~ Expired(d, now)
  BY <1>4, StaticDataGoOn, CronDataGoOn, SeriesDataGoOn DEF DataArmed
<1> QED
  BY <1>2, <1>3, <1>4

IsProvider(p) ==
  /\ p.key \in Keys
  /\ p.priority \in Int
  /\ p.key = "Static" => p.replicas \in Nat
  /\ p.key = "Cron" => p.rules \in SUBSET Rules

LEMMA ProviderGoesOn ==
  ASSUME Tick, ClockTyped, NEW p, IsProvider(p), ~ Due(p.key)', Armed(p)
  PROVE  Says(p)' = Says(p) /\ Armed(p)'
<1>1. now' = now + 1 /\ now \in Nat /\ cachedHp' = cachedHp
  BY ClockTicks
<1>2. CASE p.key = "Static"
  BY <1>2, PortraitsAssumption DEF Says, SaysAt, Armed
<1>3. CASE p.key = "Cron"
  <2>1. /\ ~ GoesOff(p.rules, now + 1) /\ CronsRun("Cron", p.rules)'
        /\ p.rules \in SUBSET Rules /\ Parsable(p.rules)
    BY <1>3, CronsGoOn DEF Due, Armed, CronsRun, Keys
  <2>2. RulesValue(p.rules, now + 1) = RulesValue(p.rules, now)
    BY <1>1, <2>1, RulesValueStays
  <2> QED
    BY <1>1, <1>3, <2>1, <2>2, PortraitsAssumption DEF Says, SaysAt, Armed
<1>4. CASE p.key \notin {"Static", "Cron"}
  <2>1. p.key \in PortraitTypes /\ cachedHp[p.key].data \in Datas \union {Nil}
    BY <1>4 DEF IsProvider, Keys, ClockTyped, DatasTyped
  <2>2. PICK d \in Datas \union {Nil} : d = cachedHp[p.key].data
    BY <2>1
  <2>3. DataArmed(p.key, d)
    BY <2>1, <2>2 DEF Armed
  <2>4. DataValue(p.key, d, now + 1) = DataValue(p.key, d, now) /\ DataArmed(p.key, d)'
    BY <2>1, <2>3, DataGoOn DEF IsProvider
  <2>5. Says(p) = DataValue(p.key, d, now) /\ Says(p)' = DataValue(p.key, d, now + 1)
    BY <1>1, <1>4, <2>2 DEF Says, SaysAt
  <2>6. cachedHp'[p.key].data = d
    BY <1>1, <2>2
  <2>7. Armed(p)'
    BY <1>4, <2>4, <2>6
       DEF Armed, DataArmed, CronDataArmed, SeriesArmed, TimerRuns, CronsRun
  <2> QED
    BY <2>4, <2>5, <2>7
<1> QED
  BY <1>2, <1>3, <1>4

-----------------------------------------------------------------------------
(* The providers of a spec. *)

LEMMA ListHasProviders ==
  ASSUME NEW ps \in Lists, NEW i \in 1 .. Len(ps)
  PROVE  /\ IsProvider(ps[i])
         /\ \A j \in 1 .. Len(ps) : ps[i].key = ps[j].key => i = j \/ ps[i].key = "Static"
<1>1. ps # <<>>
  OBVIOUS
<1>2. PICK s \in Specs : ps = s.providers
  BY <1>1 DEF Lists
<1>3. DOMAIN ps = 1 .. Len(ps)
  BY <1>2, PortraitsAssumption
<1> QED
  BY <1>2, <1>3, SpecsAssumption DEF IsProvider

LEMMA ListCounts ==
  ASSUME NEW ps \in Lists
  PROVE  Len(ps) \in Nat /\ DOMAIN ps = 1 .. Len(ps)
  BY PortraitsAssumption DEF Lists

\* A step that lets neither time pass nor data in, and no trigger of a provider alone.
LEMMA SaysTheSame ==
  ASSUME UNCHANGED <<now, cachedHp>>, NEW p
  PROVE  Says(p)' = Says(p)
  BY DEF Says, SaysAt

LEMMA ArmedTheSame ==
  ASSUME UNCHANGED <<now, cachedHp>>, NEW p,
         crons'[p.key] = crons[p.key], timers'[p.key] = timers[p.key]
  PROVE  /\ Armed(p)' <=> Armed(p)
         /\ Due(p.key)' <=> Due(p.key)
<1>1. Due(p.key)' <=> Due(p.key)
  BY DEF Due, TimerIsDue, CronIsDue
<1> QED
  BY <1>1 DEF Armed, DataArmed, CronDataArmed, SeriesArmed, TimerRuns, CronsRun

\* What was chosen goes on being chosen as long as all say the same.
LEMMA ChosenStays ==
  ASSUME NEW ps, NEW n, \A i \in 1 .. n : Says(ps[i])' = Says(ps[i])
  PROVE  /\ \A value : Chosen(ps, n, value) => Chosen(ps, n, value)'
         /\ \A c : ChosenSoFar(ps, n, c) => ChosenSoFar(ps, n, c)'
<1>1. NoneSays(ps, n) => NoneSays(ps, n)'
  BY DEF NoneSays
<1>2. \A i \in 1 .. n : Leads(ps, n, ps[i]) => Leads(ps, n, ps[i])'
  BY DEF Leads
<1> QED
  BY <1>1, <1>2 DEF Chosen, ChosenSoFar

\* The invariants of the next state, in terms of a list and a number.
LEMMA LoopNext ==
  ASSUME NEW ps, NEW n \in Nat, NEW c, copy'.providers = ps, next' = n + 1, best' = c,
         n <= Len(ps), pc' = "fetch" => n < Len(ps),
         pc' = "fetch" /\ ps[n + 1].key = "Cron" => CronsRun("Cron", ps[n + 1].rules)',
         ~ queued' /\ NoneDue(ps, n)' => AllArmed(ps, n)' /\ ChosenSoFar(ps, n, c)',
         Len(ps) \in Nat
  PROVE  LoopInv'
<1>1. next' - 1 = n
  OBVIOUS
<1>2. ASSUME NoneDue(copy.providers, next - 1)'
      PROVE  NoneDue(ps, n)'
  BY <1>1, <1>2 DEF NoneDue, Due, TimerIsDue, CronIsDue
<1>3. ASSUME AllArmed(ps, n)'
      PROVE  AllArmed(copy.providers, next - 1)'
  <2>1. ASSUME NEW i \in 1 .. n
        PROVE  Armed(copy.providers[i])'
    <3>1. Armed(ps[i])'
      BY <1>3 DEF AllArmed
    <3> QED
      BY <3>1 DEF Armed, DataArmed, CronDataArmed, SeriesArmed, TimerRuns, CronsRun
  <2> QED
    BY <1>1, <2>1 DEF AllArmed
<1>4. ASSUME ChosenSoFar(ps, n, c)'
      PROVE  ChosenSoFar(copy.providers, next - 1, best)'
  <2>1. CASE c = NoCandidate /\ NoneSays(ps, n)'
    <3>1. NoneSays(copy.providers, next - 1)'
      BY <1>1, <2>1 DEF NoneSays, Says, SaysAt
    <3> QED
      BY <2>1, <3>1 DEF ChosenSoFar
  <2>2. CASE \E i \in 1 .. n : /\ Leads(ps, n, ps[i])'
                               /\ c = [value |-> Says(ps[i])', priority |-> ps[i].priority]
    <3>1. PICK i \in 1 .. n : /\ Leads(ps, n, ps[i])'
                              /\ c = [value |-> Says(ps[i])', priority |-> ps[i].priority]
      BY <2>2
    <3>2. Leads(copy.providers, next - 1, copy.providers[i])'
      BY <1>1, <3>1 DEF Leads, Says, SaysAt
    <3>3. best' = [value |-> Says(copy.providers[i]), priority |-> copy.providers[i].priority]'
      BY <3>1 DEF Says, SaysAt
    <3> QED
      BY <1>1, <3>2, <3>3 DEF ChosenSoFar
  <2> QED
    BY <1>4, <2>1, <2>2 DEF ChosenSoFar
<1>5. ASSUME CronsRun("Cron", ps[n + 1].rules)'
      PROVE  CronsRun("Cron", copy.providers[next].rules)'
  BY <1>5 DEF CronsRun
<1> QED
  BY <1>1, <1>2, <1>3, <1>4, <1>5 DEF LoopInv

LEMMA RestNext ==
  ASSUME NEW ps, NEW value, cachedIhpa'.providers = ps, followed' = value,
         ~ queued' /\ Following' /\ NoneDue(ps, Len(ps))' =>
           AllArmed(ps, Len(ps))' /\ Chosen(ps, Len(ps), value)'
  PROVE  RestInv'
<1>1. PICK n : n = Len(ps)
  OBVIOUS
<1>2. ASSUME NoneDue(cachedIhpa.providers, Len(cachedIhpa.providers))'
      PROVE  NoneDue(ps, n)'
  BY <1>1, <1>2 DEF NoneDue, Due, TimerIsDue, CronIsDue
<1>3. ASSUME AllArmed(ps, n)'
      PROVE  AllArmed(cachedIhpa.providers, Len(cachedIhpa.providers))'
  <2>1. ASSUME NEW i \in 1 .. n
        PROVE  Armed(cachedIhpa.providers[i])'
    <3>1. Armed(ps[i])'
      BY <1>3 DEF AllArmed
    <3> QED
      BY <3>1 DEF Armed, DataArmed, CronDataArmed, SeriesArmed, TimerRuns, CronsRun
  <2> QED
    BY <1>1, <2>1 DEF AllArmed
<1>4. ASSUME Chosen(ps, n, value)'
      PROVE  Chosen(cachedIhpa.providers, Len(cachedIhpa.providers), followed)'
  <2>1. CASE value = Nil /\ NoneSays(ps, n)'
    <3>1. NoneSays(cachedIhpa.providers, Len(cachedIhpa.providers))'
      BY <1>1, <2>1 DEF NoneSays, Says, SaysAt
    <3> QED
      BY <2>1, <3>1 DEF Chosen
  <2>2. CASE \E i \in 1 .. n : Leads(ps, n, ps[i])' /\ value = Says(ps[i])'
    <3>1. PICK i \in 1 .. n : Leads(ps, n, ps[i])' /\ value = Says(ps[i])'
      BY <2>2
    <3>2. /\ Leads(cachedIhpa.providers, n, cachedIhpa.providers[i])'
          /\ followed' = Says(cachedIhpa.providers[i])'
      BY <3>1 DEF Leads, Says, SaysAt
    <3> QED
      BY <1>1, <3>1, <3>2 DEF Chosen
  <2> QED
    BY <1>4, <2>1, <2>2 DEF Chosen
<1>5. NoneDue(ps, n)' /\ ~ queued' /\ Following' => AllArmed(ps, n)' /\ Chosen(ps, n, value)'
  BY <1>1
<1> QED
  BY <1>2, <1>3, <1>4, <1>5 DEF RestInv

-----------------------------------------------------------------------------
(* The types. *)

LEMMA ProviderTyped ==
  ASSUME TriggersInv, ClockTyped, LoopInv, InLoop("update") \/ InLoop("fetch")
  PROVE  /\ IsProvider(Provider)
         /\ copy.providers \in Lists /\ next \in 1 .. Len(copy.providers)
<1>1. copy.providers \in Lists
  BY DEF ClockTyped, ListsTyped
<1>2. Len(copy.providers) \in Nat
  BY <1>1, ListCounts
<1>3. next - 1 \in 0 .. Len(copy.providers) /\ next <= Len(copy.providers)
  BY DEF InLoop, LoopInv, InProviders
<1>4. next \in 1 .. Len(copy.providers)
  BY <1>2, <1>3 DEF TriggersInv, TriggersTypeOK
<1> QED
  BY <1>1, <1>4, ListHasProviders DEF Provider

LEMMA ListsStayTyped ==
  ASSUME TriggersInv, ClockTyped, [Next]_vars
  PROVE  ListsTyped'
<1>1. <<>> \in Lists /\ NoIhpa.providers = <<>> /\ \A s \in Specs : s.providers \in Lists
  BY DEF Lists, NoIhpa
<1>2. ihpa'.providers \in Lists
  <2>1. CASE UNCHANGED ihpa
    BY <2>1 DEF ClockTyped, ListsTyped
  <2>2. CASE BeginDeletion
    <3>1. ihpa' = [NoIhpa EXCEPT !.uid = ihpa.uid] \/ ihpa' = ihpa
      BY <2>2 DEF BeginDeletion
    <3>2. [NoIhpa EXCEPT !.uid = ihpa.uid].providers = <<>>
      BY DEF NoIhpa
    <3> QED
      BY <1>1, <2>1, <3>1, <3>2
  <2>3. CASE \E s \in Specs : EditIhpa(s)
    <3>1. PICK s \in Specs : ihpa' = [ihpa EXCEPT !.paused = s.paused, !.providers = s.providers]
      BY <2>3 DEF EditIhpa, WriteIhpa
    <3>2. ihpa'.providers = s.providers
      BY <3>1 DEF TriggersInv, CachesFollow, IsIhpa
    <3> QED
      BY <1>1, <3>2
  <2>4. CASE DeleteIhpa
    <3>1. ihpa' = [ihpa EXCEPT !.deleting = TRUE]
      BY <2>4 DEF DeleteIhpa, WriteIhpa
    <3>2. ihpa'.providers = ihpa.providers
      BY <3>1 DEF TriggersInv, CachesFollow, IsIhpa
    <3> QED
      BY <3>2 DEF ClockTyped, ListsTyped
  <2>5. CASE \E s \in Specs : CreateIhpa(s)
    <3>1. PICK s \in Specs : ihpa' = NewIhpa(ihpa.uid + 1, s)
      BY <2>5 DEF CreateIhpa, WriteIhpa
    <3>2. ihpa'.providers = s.providers
      BY <3>1 DEF NewIhpa
    <3> QED
      BY <1>1, <3>2
  <2>6. \/ UNCHANGED ihpa \/ BeginDeletion \/ DeleteIhpa
        \/ \E s \in Specs : EditIhpa(s) \/ CreateIhpa(s)
    BY DEF Next, Reconcile, Deliver, Fire, Own, Disturb, vars, apiVars,
           BeginNothingToDo, BeginCleanup, CleanupPortrait, BeginProviders, UpdateStatic,
           UpdateCron,
           KeepHorizontalPortrait, CreateHorizontalPortrait, PatchHorizontalPortrait, UpdateMisses,
           FetchStatic, FetchCron, FetchMisses, FetchNoData, FetchExpired, FetchUnreadable,
           FetchReading, Finish, DeliverIhpa, DeliverHp, TimerFires, CronFires, Tick, HpGoes, Fill,
           UpdateFails, Restart, CleanupFails
  <2> QED
    BY <2>1, <2>2, <2>3, <2>4, <2>5, <2>6
<1>3. cachedIhpa'.providers \in Lists
  <2>1. UNCHANGED cachedIhpa \/ cachedIhpa' = ihpa
    BY DEF Next, Reconcile, Deliver, Fire, Own, Disturb, vars, cacheVars, Begin,
           BeginNothingToDo, BeginDeletion, BeginCleanup, CleanupPortrait, BeginProviders,
           UpdateStatic, UpdateCron, KeepHorizontalPortrait, CreateHorizontalPortrait,
           PatchHorizontalPortrait, UpdateMisses, FetchStatic, FetchCron, FetchMisses, FetchNoData,
           FetchExpired, FetchUnreadable, FetchReading, Finish, DeliverIhpa, DeliverHp, TimerFires,
           CronFires, Tick, HpGoes, Fill, EditIhpa, DeleteIhpa, CreateIhpa, WriteIhpa, UpdateFails,
           Restart, CleanupFails
  <2> QED
    BY <2>1 DEF ClockTyped, ListsTyped
<1>4. copy'.providers \in Lists
  <2>1. UNCHANGED copy \/ copy' = cachedIhpa \/ copy' = NoIhpa
    BY DEF Next, Reconcile, Deliver, Fire, Own, Disturb, vars, localVars, IdleLocals, Retry,
           ToFetch, Fetched,
           BeginNothingToDo, BeginDeletion, BeginCleanup, CleanupPortrait, BeginProviders,
           UpdateStatic, UpdateCron, KeepHorizontalPortrait, CreateHorizontalPortrait,
           PatchHorizontalPortrait, UpdateMisses, FetchStatic, FetchCron, FetchMisses, FetchNoData,
           FetchExpired, FetchUnreadable, FetchReading, Finish, DeliverIhpa, DeliverHp, TimerFires,
           CronFires, Tick, HpGoes, Fill, EditIhpa, DeleteIhpa, CreateIhpa, WriteIhpa, UpdateFails,
           Restart, CleanupFails
  <2> QED
    BY <1>1, <2>1 DEF ClockTyped, ListsTyped
<1> QED
  BY <1>2, <1>3, <1>4 DEF ListsTyped

\* What is done to a portrait in the server: nothing, to one, or its data are new.
LEMMA DataStayTyped ==
  ASSUME PortraitsInv, ClockTyped, [Next]_vars
  PROVE  DatasTyped'
<1>1. \A k \in PortraitTypes : hp'[k].data \in Datas \union {Nil}
  <2>1. CASE UNCHANGED hp
    BY <2>1 DEF ClockTyped, DatasTyped
  <2>2. CASE \E k \in Keys : CleanupPortrait(k)
    <3>1. PICK k \in Keys : CleanupPortrait(k)
      BY <2>2
    <3>2. \/ hp' = hp
          \/ k \in PortraitTypes /\ hp' = [hp EXCEPT ![k] = [hp[k] EXCEPT !.deleting = TRUE]]
      BY <3>1 DEF CleanupPortrait, DeleteIsCalled
    <3>3. k \in PortraitTypes => [hp[k] EXCEPT !.deleting = TRUE].data = hp[k].data
      BY EachWhole, PortraitFields DEF PortraitsInv
    <3> QED
      BY <2>1, <3>2, <3>3 DEF ClockTyped, DatasTyped, PortraitsInv, PortraitsWhole
  <2>3. CASE CreateHorizontalPortrait
    BY <2>3 DEF CreateHorizontalPortrait, ClockTyped, DatasTyped, PortraitsInv, PortraitsWhole
  <2>4. CASE PatchHorizontalPortrait
    <3> DEFINE k == Provider.key
               wanted == Provider.spec
    <3>1. k \in PortraitTypes /\ hp' = [hp EXCEPT ![k] = [hp[k] EXCEPT !.spec = wanted]]
      BY <2>4 DEF PatchHorizontalPortrait, UpdateDynamic
    <3> HIDE DEF k, wanted
    <3>2. [hp[k] EXCEPT !.spec = wanted].data = hp[k].data
      BY <3>1, EachWhole, PortraitFields DEF PortraitsInv
    <3> QED
      BY <3>1, <3>2 DEF ClockTyped, DatasTyped, PortraitsInv, PortraitsWhole
  <2>5. CASE \E k \in PortraitTypes, d \in Datas : Fill(k, d)
    <3>1. PICK k \in PortraitTypes, d \in Datas : hp' = [hp EXCEPT ![k] = [hp[k] EXCEPT !.data = d]]
      BY <2>5 DEF Fill
    <3>2. [hp[k] EXCEPT !.data = d].data = d
      BY EachWhole, PortraitFields DEF PortraitsInv
    <3> QED
      BY <3>1, <3>2 DEF ClockTyped, DatasTyped, PortraitsInv, PortraitsWhole
  <2>6. CASE \E k \in PortraitTypes : HpGoes(k)
    <3>1. PICK k \in PortraitTypes : hp' = [hp EXCEPT ![k] = NoPortrait]
      BY <2>6 DEF HpGoes
    <3>2. NoPortrait.data = Nil
      BY DEF NoPortrait
    <3> QED
      BY <3>1, <3>2 DEF ClockTyped, DatasTyped, PortraitsInv, PortraitsWhole
  <2>7. \/ UNCHANGED hp \/ \E k \in Keys : CleanupPortrait(k)
        \/ CreateHorizontalPortrait \/ PatchHorizontalPortrait
        \/ \E k \in PortraitTypes, d \in Datas : Fill(k, d)
        \/ \E k \in PortraitTypes : HpGoes(k)
    BY DEF Next, Reconcile, Deliver, Fire, Own, Disturb, vars, apiVars,
           BeginNothingToDo, BeginDeletion, BeginCleanup, BeginProviders, UpdateStatic, UpdateCron,
           KeepHorizontalPortrait, UpdateMisses, FetchStatic, FetchCron, FetchMisses, FetchNoData,
           FetchExpired, FetchUnreadable, FetchReading, Finish, DeliverIhpa, DeliverHp, TimerFires,
           CronFires, Tick, EditIhpa, DeleteIhpa, CreateIhpa, WriteIhpa, UpdateFails,
           Restart, CleanupFails
  <2> QED
    BY <2>1, <2>2, <2>3, <2>4, <2>5, <2>6, <2>7
<1>2. \/ UNCHANGED cachedHp \/ cachedHp' = hp
      \/ \E k \in PortraitTypes : cachedHp' = [cachedHp EXCEPT ![k] = hp[k]]
  BY DEF Next, Reconcile, Deliver, Fire, Own, Disturb, vars, cacheVars, Begin,
         BeginNothingToDo, BeginDeletion, BeginCleanup, CleanupPortrait, BeginProviders,
         UpdateStatic, UpdateCron, KeepHorizontalPortrait, CreateHorizontalPortrait,
         PatchHorizontalPortrait, UpdateMisses, FetchStatic, FetchCron, FetchMisses, FetchNoData,
         FetchExpired, FetchUnreadable, FetchReading, Finish, DeliverIhpa, DeliverHp, TimerFires,
         CronFires, Tick, HpGoes, Fill, EditIhpa, DeleteIhpa, CreateIhpa, WriteIhpa, UpdateFails,
         Restart, CleanupFails
<1>3. hp = [k \in PortraitTypes |-> hp[k]]
  BY DEF PortraitsInv, PortraitsWhole
<1> QED
  BY <1>1, <1>2, <1>3 DEF ClockTyped, DatasTyped

\* The times for which timers are set.
LEMMA WakeTyped ==
  ASSUME ClockTyped, LoopInv, FetchData, Reading(Seen.data, now).wake # Nil
  PROVE  Reading(Seen.data, now).wake \in Nat
<1>1. PICK d : d = Seen.data
  OBVIOUS
<1>2. d \in Datas /\ ~ Expired(d, now) /\ now \in Nat
  BY <1>1 DEF FetchData, FetchDynamic, Seen, ClockTyped, DatasTyped
<1>3. CASE d.type = "Static"
  BY <1>1, <1>2, <1>3, DatasAssumption DEF Reading, StaticReading
<1>4. CASE d.type = "Cron"
  BY <1>1, <1>2, <1>4, DatasAssumption DEF Reading, CronReading
<1>5. CASE d.type = "TimeSeries"
  BY <1>1, <1>2, <1>5, SeriesWake DEF Reading
<1> QED
  BY <1>2, <1>3, <1>4, <1>5, DatasAssumption

\* The trigger managers.
LEMMA CronsStartTyped ==
  ASSUME TriggersInv, CronsTyped, NEW k \in Keys, NEW rules \in SUBSET Rules,
         StartCronTaskTrigger(k, rules)
  PROVE  /\ CronsTyped'
         /\ Parsable(rules) => CronsRun(k, rules)'
<1>1. crons' = [crons EXCEPT ![k] = CronsStarted(k, rules)] /\ crons = [j \in Keys |-> crons[j]]
  BY DEF StartCronTaskTrigger, TriggersInv, TriggersTypeOK
<1>2. crons'[k] = CronsStarted(k, rules) /\ \A j \in Keys \ {k} : crons'[j] = crons[j]
  BY <1>1
<1>3. Running(rules) \in [rules : SUBSET Rules, due : BOOLEAN] /\ Running(rules).rules = rules
  BY DEF Running
<1>4. crons'[k] # Nil => crons'[k] \in [rules : SUBSET Rules, due : BOOLEAN]
  BY <1>2, <1>3 DEF CronsStarted, CronsTyped
<1>5. CronsTyped'
  BY <1>2, <1>4 DEF CronsTyped
<1>6. Parsable(rules) => crons'[k] # Nil /\ crons'[k].rules = rules
  BY <1>2, <1>3, NilAssumption DEF CronsStarted
<1> QED
  BY <1>5, <1>6 DEF CronsRun, Parsable

LEMMA TimerStartTyped ==
  ASSUME TriggersInv, TimersTyped, UNCHANGED now,
         NEW k \in Keys, NEW t \in Nat, StartTimerTrigger(k, t)
  PROVE  TimersTyped' /\ TimerRuns(k, t)'
<1>1. timers = [j \in Keys |-> timers[j]]
  BY DEF TriggersInv, TriggersTypeOK
<1>2. CASE timers' = timers /\ timers[k] # Nil /\ timers[k].at = t
  BY <1>2 DEF TimersTyped, TimerRuns
<1>3. CASE timers' = [timers EXCEPT ![k] = [at |-> t, fired |-> FALSE]]
  <2>1. timers'[k] = [at |-> t, fired |-> FALSE] /\ \A j \in Keys \ {k} : timers'[j] = timers[j]
    BY <1>1, <1>3
  <2>2. PICK w : w = [at |-> t, fired |-> FALSE]
    OBVIOUS
  <2>3. w \in [at : Nat, fired : BOOLEAN] /\ w.at = t /\ ~ w.fired
    BY <2>2
  <2>4. w # Nil
    BY <2>3, NilAssumption
  <2> QED
    BY <2>1, <2>2, <2>3, <2>4 DEF TimersTyped, TimerRuns
<1> QED
  BY <1>2, <1>3 DEF StartTimerTrigger

LEMMA StopTyped ==
  ASSUME TriggersInv, CronsTyped, TimersTyped, UNCHANGED now, NEW k, StopTriggers(k)
  PROVE  CronsTyped' /\ TimersTyped'
<1>1. crons = [j \in Keys |-> crons[j]] /\ timers = [j \in Keys |-> timers[j]]
  BY DEF TriggersInv, TriggersTypeOK
<1>2. \A j \in Keys : crons'[j] \in {crons[j], Nil} /\ timers'[j] \in {timers[j], Nil}
  BY <1>1 DEF StopTriggers
<1> QED
  BY <1>2 DEF CronsTyped, TimersTyped

LEMMA SeenTyped ==
  ASSUME ClockTyped, FetchData
  PROVE  /\ Provider.key \in PortraitTypes /\ Provider.key \in Keys
         /\ Seen.data \in Datas /\ ~ Expired(Seen.data, now)
  BY DEF ClockTyped, DatasTyped, FetchData, FetchDynamic, Seen, Keys

LEMMA RestartingTyped ==
  ASSUME TriggersInv, ClockTyped, FetchData, RestartCrontabs
  PROVE  CronsTyped'
<1>1. CASE UNCHANGED crons
  BY <1>1 DEF ClockTyped, CronsTyped
<1>2. CASE Seen.data.type = "Cron" /\ StartCronTaskTrigger(Provider.key, Seen.data.rules)
  <2>1. PICK k \in Keys, rules \in SUBSET Rules : k = Provider.key /\ rules = Seen.data.rules
    BY <1>2, SeenTyped, DatasAssumption
  <2> QED
    BY <1>2, <2>1, CronsStartTyped DEF ClockTyped
<1> QED
  BY <1>1, <1>2 DEF RestartCrontabs

LEMMA CronsStayTyped ==
  ASSUME TriggersInv, ClockTyped, LoopInv, [Next]_vars
  PROVE  CronsTyped'
<1>1. CASE UNCHANGED crons
  BY <1>1 DEF ClockTyped, CronsTyped
<1>2. CASE UNCHANGED now /\ \E k : StopTriggers(k)
  BY <1>2, StopTyped DEF ClockTyped
<1>3. CASE UpdateCron
  <2>1. PICK rules : rules = Provider.rules
    OBVIOUS
  <2>2. InLoop("update") /\ Provider.key = "Cron" /\ StartCronTaskTrigger("Cron", rules)
    BY <1>3, <2>1 DEF UpdateCron
  <2>3. rules \in SUBSET Rules /\ "Cron" \in Keys
    BY <2>1, <2>2, ProviderTyped DEF IsProvider, Keys
  <2> QED
    BY <2>2, <2>3, CronsStartTyped DEF ClockTyped
<1>4. CASE FetchUnreadable \/ FetchReading
  BY <1>4, RestartingTyped DEF FetchUnreadable, FetchReading
<1>5. CASE \E k \in Keys : CronFires(k)
  <2>1. PICK k \in Keys : CronFires(k)
    BY <1>5
  <2>2. crons[k] \in [rules : SUBSET Rules, due : BOOLEAN]
    BY <2>1 DEF CronFires, CronIsDue, ClockTyped, CronsTyped
  <2>3. [crons[k] EXCEPT !.due = FALSE] \in [rules : SUBSET Rules, due : BOOLEAN]
    BY <2>2
  <2>4. \A j \in Keys : crons'[j] = IF j = k THEN [crons[k] EXCEPT !.due = FALSE] ELSE crons[j]
    BY <2>1 DEF CronFires, TriggersInv, TriggersTypeOK
  <2> QED
    BY <2>3, <2>4 DEF ClockTyped, CronsTyped
<1>6. CASE Tick
  <2> SUFFICES ASSUME NEW k \in Keys, crons'[k] # Nil
               PROVE  crons'[k] \in [rules : SUBSET Rules, due : BOOLEAN]
    BY DEF CronsTyped
  <2>1. \/ crons'[k] = [crons[k] EXCEPT !.due = TRUE] /\ crons[k] # Nil
        \/ crons'[k] = crons[k]
    BY <1>6, ClockTicks
  <2>2. crons[k] # Nil => crons[k] \in [rules : SUBSET Rules, due : BOOLEAN]
    BY DEF ClockTyped, CronsTyped
  <2> QED
    BY <2>1, <2>2
<1>7. CASE Restart
  BY <1>7 DEF Restart, CronsTyped
<1> QED
  BY <1>1, <1>2, <1>3, <1>4, <1>5, <1>6, <1>7
     DEF Next, Reconcile, Deliver, Fire, Own, Disturb, vars, triggerVars, Begin,
         BeginNothingToDo, BeginDeletion, BeginCleanup, CleanupPortrait, BeginProviders,
         UpdateStatic, KeepHorizontalPortrait, CreateHorizontalPortrait,
         PatchHorizontalPortrait, UpdateMisses, FetchStatic, FetchCron, FetchMisses, FetchNoData,
         FetchExpired, Finish, DeliverIhpa, DeliverHp, TimerFires,
         HpGoes, Fill, EditIhpa, DeleteIhpa, CreateIhpa, WriteIhpa, UpdateFails, CleanupFails

LEMMA TimersStayTyped ==
  ASSUME TriggersInv, ClockTyped, LoopInv, [Next]_vars
  PROVE  TimersTyped' /\ now' \in Nat
<1>1. CASE UNCHANGED <<timers, now>>
  BY <1>1 DEF ClockTyped, TimersTyped
<1>2. CASE UNCHANGED now /\ \E k : StopTriggers(k)
  BY <1>2, StopTyped DEF ClockTyped
<1>3. CASE FetchReading
  <2>1. PICK k, t : k = Provider.key /\ t = Reading(Seen.data, now).wake
    OBVIOUS
  <2>2. FetchData /\ UNCHANGED now /\ (UNCHANGED timers \/ (t # Nil /\ StartTimerTrigger(k, t)))
    BY <1>3, <2>1 DEF FetchReading
  <2>3. k \in Keys /\ (t # Nil => t \in Nat)
    BY <2>1, <2>2, SeenTyped, WakeTyped
  <2> QED
    BY <1>1, <2>2, <2>3, TimerStartTyped DEF ClockTyped
<1>4. CASE \E k \in Keys : TimerFires(k)
  <2>1. PICK k \in Keys : TimerFires(k)
    BY <1>4
  <2>2. /\ timers[k] \in [at : Nat, fired : BOOLEAN] /\ timers[k].at <= now
        /\ UNCHANGED now
    BY <2>1 DEF TimerFires, TimerIsDue, ClockTyped, TimersTyped
  <2>3. PICK w : w = [timers[k] EXCEPT !.fired = TRUE]
    OBVIOUS
  <2>4. w \in [at : Nat, fired : BOOLEAN] /\ w.at = timers[k].at
    BY <2>2, <2>3
  <2>5. \A j \in Keys : timers'[j] = IF j = k THEN w ELSE timers[j]
    BY <2>1, <2>3 DEF TimerFires, TriggersInv, TriggersTypeOK
  <2>6. \A j \in Keys \ {k} : timers'[j] = timers[j]
    BY <2>5
  <2>7. timers'[k] = w
    BY <2>5
  <2> QED
    BY <2>2, <2>4, <2>6, <2>7 DEF ClockTyped, TimersTyped
<1>5. CASE Tick
  <2>1. now' = now + 1 /\ now \in Nat /\ timers' = timers
    BY <1>5, ClockTicks
  <2>2. ASSUME NEW k \in Keys, timers[k] # Nil, timers[k].fired PROVE timers[k].at <= now'
    <3>1. timers[k].at \in Nat /\ timers[k].at <= now
      BY <2>2 DEF ClockTyped, TimersTyped
    <3> QED
      BY <2>1, <3>1
  <2> QED
    BY <2>1, <2>2 DEF ClockTyped, TimersTyped
<1>6. CASE Restart
  BY <1>6 DEF Restart, ClockTyped, TimersTyped
<1> QED
  BY <1>1, <1>2, <1>3, <1>4, <1>5, <1>6
     DEF Next, Reconcile, Deliver, Fire, Own, Disturb, vars, triggerVars, Begin,
         BeginNothingToDo, BeginDeletion, BeginCleanup, CleanupPortrait, BeginProviders,
         UpdateStatic, UpdateCron, KeepHorizontalPortrait, CreateHorizontalPortrait,
         PatchHorizontalPortrait, UpdateMisses, FetchStatic, FetchCron, FetchMisses, FetchNoData,
         FetchExpired, FetchUnreadable, Finish, DeliverIhpa, DeliverHp, CronFires,
         HpGoes, Fill, EditIhpa, DeleteIhpa, CreateIhpa, WriteIhpa, UpdateFails, CleanupFails

LEMMA ClockStaysTyped ==
  ASSUME TriggersInv, PortraitsInv, ClockTyped, LoopInv, [Next]_vars
  PROVE  ClockTyped'
  BY ListsStayTyped, DataStayTyped, CronsStayTyped, TimersStayTyped DEF ClockTyped

-----------------------------------------------------------------------------
(* Going on from provider to provider. *)

LEMMA ReadingTyped ==
  ASSUME NEW d \in Datas, NEW t \in Nat
  PROVE  Reading(d, t).replicas \in Nat
<1>1. CASE d.type = "Static"
  BY <1>1, DatasAssumption DEF Reading, StaticReading
<1>2. CASE d.type = "Cron"
  <2>1. ActiveRules(d.rules, t) \subseteq Rules
    BY <1>2, DatasAssumption DEF ActiveRules
  <2>2. ActiveRules(d.rules, t) # {} => (CHOOSE r \in ActiveRules(d.rules, t) : TRUE) \in Rules
    BY <2>1
  <2>3. ActiveRules(d.rules, t) = {} => {NextAt(t, r.end) : r \in ActiveRules(d.rules, t)} = {}
    OBVIOUS
  <2>4. ActiveRules(d.rules, t) # {} => {NextAt(t, r.end) : r \in ActiveRules(d.rules, t)} # {}
    OBVIOUS
  <2> QED
    BY <1>2, <2>2, <2>3, <2>4 DEF Reading, CronReading, Rules
<1>3. CASE d.type = "TimeSeries"
  <2>1. /\ InEffect(d, t) \in SUBSET Nat /\ InEffect(d, t) \subseteq DOMAIN d.points
        /\ \A p \in InEffect(d, t) : p <= t
    BY <1>3, PointsTyped DEF InEffect, Later
  <2>2. InEffect(d, t) # {} => LatestOf(InEffect(d, t)) \in DOMAIN d.points
    BY <2>1, LargestNumber
  <2>3. InEffect(d, t) # {} => d.points[LatestOf(InEffect(d, t))] \in Nat
    BY <1>3, <2>2, DatasAssumption
  <2> QED
    BY <1>3, <2>3 DEF Reading, TimeSeriesReading
<1> QED
  BY <1>1, <1>2, <1>3, DatasAssumption

LEMMA SaysTyped ==
  ASSUME ClockTyped, NEW p, IsProvider(p), Says(p) # Nil
  PROVE  Says(p).replicas \in Nat
<1>1. now \in Nat
  BY DEF ClockTyped
<1>2. CASE p.key = "Static"
  BY <1>2 DEF Says, SaysAt, StaticValue, IsProvider
<1>3. CASE p.key = "Cron"
  <2>1. Says(p) = RulesValue(p.rules, now) /\ p.rules \in SUBSET Rules
    BY <1>3 DEF Says, SaysAt, IsProvider
  <2>2. ActiveRules(p.rules, now) # {} /\ ActiveRules(p.rules, now) \subseteq Rules
    BY <2>1 DEF RulesValue, ActiveRules
  <2>3. (CHOOSE r \in ActiveRules(p.rules, now) : TRUE) \in Rules
    BY <2>2
  <2> QED
    BY <2>1, <2>2, <2>3 DEF RulesValue, Rules
<1>4. CASE p.key \notin {"Static", "Cron"}
  <2>1. PICK d : d = cachedHp[p.key].data
    OBVIOUS
  <2>2. d \in Datas \union {Nil}
    BY <1>4, <2>1 DEF IsProvider, Keys, ClockTyped, DatasTyped
  <2>3. Says(p) = DataValue(p.key, d, now)
    BY <1>4, <2>1 DEF Says, SaysAt
  <2>4. d # Nil /\ Says(p).replicas = Reading(d, now).replicas
    BY <2>3 DEF DataValue
  <2> QED
    BY <1>1, <2>2, <2>4, ReadingTyped
<1> QED
  BY <1>2, <1>3, <1>4

\* One more provider: its value is the candidate if it beats the one there is.
LEMMA OneMore ==
  ASSUME ClockTyped, NEW ps \in Lists, NEW n \in Nat, n + 1 <= Len(ps),
         NEW c, ChosenSoFar(ps, n, c),
         NEW b, NEW p, p = ps[n + 1], NEW value, value = Says(p),
         b = IF /\ value # Nil
                /\ \/ c.value = Nil
                   \/ p.priority > c.priority
                   \/ p.priority = c.priority /\ value.replicas > c.value.replicas
             THEN [value |-> value, priority |-> p.priority] ELSE c
  PROVE  ChosenSoFar(ps, n + 1, b)
<1>1. Len(ps) \in Nat
  BY ListCounts
<1>2. \A i \in 1 .. n + 1 : i \in 1 .. Len(ps)
  BY <1>1
<1>3. \A i \in 1 .. n + 1 :
        ps[i].priority \in Int /\ (Says(ps[i]) # Nil => Says(ps[i]).replicas \in Nat)
  BY <1>2, ListHasProviders, SaysTyped DEF IsProvider
<1>4. n + 1 \in 1 .. n + 1 /\ \A i \in 1 .. n + 1 : i \in 1 .. n \/ i = n + 1
  OBVIOUS
<1>5. 1 .. n \subseteq 1 .. n + 1
  OBVIOUS
<1>6. CASE value = Nil
  <2>1. b = c
    BY <1>6
  <2>2. NoneSays(ps, n) => NoneSays(ps, n + 1)
    BY <1>4, <1>6 DEF NoneSays
  <2>3. \A i \in 1 .. n : Leads(ps, n, ps[i]) => Leads(ps, n + 1, ps[i])
    BY <1>4, <1>6 DEF Leads
  <2> QED
    BY <1>5, <2>1, <2>2, <2>3 DEF ChosenSoFar
<1>7. CASE value # Nil /\ c = NoCandidate /\ NoneSays(ps, n)
  <2>1. b = [value |-> value, priority |-> p.priority]
    BY <1>7 DEF NoCandidate
  <2>2. Leads(ps, n + 1, p)
    BY <1>3, <1>4, <1>7 DEF Leads, NoneSays
  <2> QED
    BY <1>4, <2>1, <2>2 DEF ChosenSoFar
<1>8. CASE /\ value # Nil
           /\ \E i \in 1 .. n : /\ Leads(ps, n, ps[i])
                                /\ c = [value |-> Says(ps[i]), priority |-> ps[i].priority]
  <2>1. PICK i \in 1 .. n : /\ Leads(ps, n, ps[i])
                            /\ c = [value |-> Says(ps[i]), priority |-> ps[i].priority]
    BY <1>8
  <2>2. c.value = Says(ps[i]) /\ c.priority = ps[i].priority /\ Says(ps[i]) # Nil
    BY <2>1 DEF Leads
  <2>3. /\ p.priority \in Int /\ value.replicas \in Nat
        /\ c.priority \in Int /\ c.value.replicas \in Nat
    BY <1>3, <1>4, <1>5, <1>8, <2>2
  <2>4. ASSUME NEW j \in 1 .. n, Says(ps[j]) # Nil
        PROVE  /\ ps[j].priority \in Int /\ Says(ps[j]).replicas \in Nat
               /\ \/ c.priority > ps[j].priority
                  \/ c.priority = ps[j].priority /\ c.value.replicas >= Says(ps[j]).replicas
    BY <1>3, <1>5, <2>1, <2>2, <2>4 DEF Leads
  <2>5. CASE \/ p.priority > c.priority
             \/ p.priority = c.priority /\ value.replicas > c.value.replicas
    <3>1. b = [value |-> value, priority |-> p.priority]
      BY <1>8, <2>5
    <3>2. ASSUME NEW j \in 1 .. n + 1, Says(ps[j]) # Nil
          PROVE  \/ p.priority > ps[j].priority
                 \/ p.priority = ps[j].priority /\ value.replicas >= Says(ps[j]).replicas
      <4>1. CASE j \in 1 .. n
        <5>1. /\ ps[j].priority \in Int /\ Says(ps[j]).replicas \in Nat
              /\ \/ c.priority > ps[j].priority
                 \/ c.priority = ps[j].priority /\ c.value.replicas >= Says(ps[j]).replicas
          BY <2>4, <3>2, <4>1
        <5>2. PICK a, u : a = p.priority /\ u = value.replicas
          OBVIOUS
        <5>3. PICK m, v : m = c.priority /\ v = c.value.replicas
          OBVIOUS
        <5>4. PICK z, w : z = ps[j].priority /\ w = Says(ps[j]).replicas
          OBVIOUS
        <5>5. a \in Int /\ m \in Int /\ z \in Int /\ u \in Nat /\ v \in Nat /\ w \in Nat
          BY <2>3, <5>1, <5>2, <5>3, <5>4
        <5>6. /\ a > m \/ (a = m /\ u > v)
              /\ m > z \/ (m = z /\ v >= w)
          BY <2>5, <5>1, <5>2, <5>3, <5>4
        <5>7. a > z \/ (a = z /\ u >= w)
          BY <5>5, <5>6
        <5> QED
          BY <5>2, <5>4, <5>7
      <4>2. CASE j = n + 1
        BY <2>3, <4>2
      <4> QED
        BY <1>4, <4>1, <4>2
    <3>3. Leads(ps, n + 1, p)
      BY <1>8, <3>2 DEF Leads
    <3> QED
      BY <1>4, <3>1, <3>3 DEF ChosenSoFar
  <2>6. CASE ~ \/ p.priority > c.priority
               \/ p.priority = c.priority /\ value.replicas > c.value.replicas
    <3>1. b = c
      BY <2>2, <2>6
    <3>2. c.priority > p.priority \/ (c.priority = p.priority /\ c.value.replicas >= value.replicas)
      BY <2>3, <2>6
    <3>3. ASSUME NEW j \in 1 .. n + 1, Says(ps[j]) # Nil
          PROVE  \/ c.priority > ps[j].priority
                 \/ c.priority = ps[j].priority /\ c.value.replicas >= Says(ps[j]).replicas
      <4>1. CASE j \in 1 .. n
        BY <2>4, <3>3, <4>1
      <4>2. CASE j = n + 1
        BY <3>2, <4>2
      <4> QED
        BY <1>4, <4>1, <4>2
    <3>4. Leads(ps, n + 1, ps[i])
      BY <2>2, <3>3 DEF Leads
    <3> QED
      BY <1>5, <2>1, <3>1, <3>4 DEF ChosenSoFar
  <2> QED
    BY <2>5, <2>6
<1> QED
  BY <1>6, <1>7, <1>8 DEF ChosenSoFar

\* As far as the providers before it are concerned, nothing changes.
LEMMA EarlierStay ==
  ASSUME UNCHANGED <<now, cachedHp>>, NEW ps \in Lists, NEW n \in Nat, n <= Len(ps),
         \A i \in 1 .. n :
           crons'[ps[i].key] = crons[ps[i].key] /\ timers'[ps[i].key] = timers[ps[i].key],
         NoneDue(ps, n)' \/ NoneDue(ps, n)
  PROVE  /\ NoneDue(ps, n)
         /\ AllArmed(ps, n) => AllArmed(ps, n)'
         /\ \A i \in 1 .. n : Says(ps[i])' = Says(ps[i])
<1>1. ASSUME NEW i \in 1 .. n
      PROVE  /\ Due(ps[i].key)' <=> Due(ps[i].key)
             /\ Armed(ps[i])' <=> Armed(ps[i])
             /\ Says(ps[i])' = Says(ps[i])
  <2>1. PICK p : p = ps[i]
    OBVIOUS
  <2>2. crons'[p.key] = crons[p.key] /\ timers'[p.key] = timers[p.key]
    BY <2>1
  <2> QED
    BY <2>1, <2>2, ArmedTheSame, SaysTheSame
<1> QED
  BY <1>1 DEF NoneDue, AllArmed

LEMMA LoopAt ==
  ASSUME TriggersInv, ClockTyped, LoopInv, InProviders
  PROVE  \E ps \in Lists, n \in Nat :
           /\ ps = copy.providers /\ n = next - 1 /\ next = n + 1
           /\ n <= Len(ps) /\ Len(ps) \in Nat
           /\ pc = "fetch" => n < Len(ps)
           /\ pc = "fetch" /\ ps[next].key = "Cron" => CronsRun("Cron", ps[next].rules)
           /\ ~ queued /\ NoneDue(ps, n) => AllArmed(ps, n) /\ ChosenSoFar(ps, n, best)
<1>1. copy.providers \in Lists
  BY DEF ClockTyped, ListsTyped
<1>2. Len(copy.providers) \in Nat
  BY <1>1, ListCounts
<1>3. next \in Nat
  BY DEF TriggersInv, TriggersTypeOK
<1>4. next - 1 \in Nat /\ next - 1 <= Len(copy.providers) /\ next = (next - 1) + 1
  BY <1>2, <1>3 DEF LoopInv
<1> QED
  BY <1>1, <1>2, <1>4 DEF LoopInv

\* No trigger but those of one key is touched.  Static providers have none.
OthersTheSame(key) ==
  \A k \in Keys : k # key \/ k = "Static" => crons'[k] = crons[k] /\ timers'[k] = timers[k]

\* The portrait, or the crontabs, of a provider are up to date: its value is next.
LEMMA UpdatedGoesOn ==
  ASSUME TriggersInv, ClockTyped, LoopInv, InLoop("update"), ToFetch,
         UNCHANGED <<now, cachedHp>>,
         OthersTheSame(Provider.key),
         Provider.key = "Cron" => CronsRun("Cron", Provider.rules)'
  PROVE  LoopInv'
<1>1. PICK ps \in Lists, n \in Nat :
        /\ ps = copy.providers /\ n = next - 1 /\ next = n + 1
        /\ n <= Len(ps) /\ Len(ps) \in Nat
        /\ ~ queued /\ NoneDue(ps, n) => AllArmed(ps, n) /\ ChosenSoFar(ps, n, best)
  BY LoopAt DEF InLoop, InProviders
<1>2. PICK c : c = best
  OBVIOUS
<1>3. /\ copy'.providers = ps /\ next' = n + 1 /\ best' = c /\ pc' = "fetch" /\ queued' = queued
      /\ n + 1 <= Len(ps) /\ Provider = ps[n + 1]
  BY <1>1, <1>2 DEF ToFetch, InLoop, Provider
<1>4. n < Len(ps)
  BY <1>1, <1>3
<1>5. ps[n + 1].key = "Cron" => CronsRun("Cron", ps[n + 1].rules)'
  <2>1. ASSUME Provider.key = "Cron" PROVE CronsRun("Cron", ps[n + 1].rules)'
    <3>1. PICK rules : rules = Provider.rules
      OBVIOUS
    <3>2. Provider' = Provider
      BY DEF ToFetch, Provider
    <3>3. CronsRun("Cron", rules)'
      BY <2>1, <3>1, <3>2 DEF CronsRun
    <3> QED
      BY <1>3, <3>1, <3>3 DEF CronsRun
  <2> QED
    BY <1>3, <2>1
<1>6. \A i \in 1 .. n :
        crons'[ps[i].key] = crons[ps[i].key] /\ timers'[ps[i].key] = timers[ps[i].key]
  <2>1. ASSUME NEW i \in 1 .. n
        PROVE  ps[i].key \in Keys /\ (ps[i].key # ps[n + 1].key \/ ps[i].key = "Static")
    <3>1. i \in 1 .. Len(ps) /\ n + 1 \in 1 .. Len(ps) /\ i # n + 1
      BY <1>1, <1>4
    <3> QED
      BY <3>1, ListHasProviders DEF IsProvider
  <2> QED
    BY <1>3, <2>1 DEF OthersTheSame
<1>7. ~ queued' /\ NoneDue(ps, n)' => AllArmed(ps, n)' /\ ChosenSoFar(ps, n, c)'
  BY <1>1, <1>2, <1>3, <1>6, EarlierStay, ChosenStays
<1> QED
  BY <1>1, <1>3, <1>4, <1>5, <1>7, LoopNext

LEMMA FetchedGoesOn ==
  ASSUME TriggersInv, ClockTyped, LoopInv, InLoop("fetch"), NEW value, Fetched(value),
         UNCHANGED <<now, cachedHp>>,
         OthersTheSame(Provider.key),
         value = Says(Provider), NEW p, p = Provider, Armed(p)'
  PROVE  LoopInv'
<1>1. PICK ps \in Lists, n \in Nat :
        /\ ps = copy.providers /\ n = next - 1 /\ next = n + 1
        /\ n <= Len(ps) /\ Len(ps) \in Nat
        /\ ~ queued /\ NoneDue(ps, n) => AllArmed(ps, n) /\ ChosenSoFar(ps, n, best)
  BY LoopAt DEF InLoop, InProviders
<1>2. PICK c, b : c = best /\ b = best'
  OBVIOUS
<1>3. /\ copy'.providers = ps /\ next' = n + 2 /\ pc' = "update" /\ queued' = queued
      /\ n + 1 <= Len(ps) /\ p = ps[n + 1]
      /\ b = IF /\ value # Nil
                /\ \/ c.value = Nil
                   \/ p.priority > c.priority
                   \/ p.priority = c.priority /\ value.replicas > c.value.replicas
             THEN [value |-> value, priority |-> p.priority] ELSE c
  BY <1>1, <1>2 DEF Fetched, Beats, InLoop, Provider
<1>4. n + 1 \in 1 .. Len(ps) /\ n + 1 \in 1 .. n + 1 /\ 1 .. n \subseteq 1 .. n + 1
  BY <1>1, <1>3
<1>5. \A i \in 1 .. n :
        crons'[ps[i].key] = crons[ps[i].key] /\ timers'[ps[i].key] = timers[ps[i].key]
  <2>1. ASSUME NEW i \in 1 .. n
        PROVE  ps[i].key \in Keys /\ (ps[i].key # ps[n + 1].key \/ ps[i].key = "Static")
    <3>1. i \in 1 .. Len(ps) /\ i # n + 1
      BY <1>1, <1>4
    <3> QED
      BY <1>4, <3>1, ListHasProviders DEF IsProvider
  <2>2. Provider = p
    OBVIOUS
  <2> QED
    BY <1>3, <2>1, <2>2 DEF OthersTheSame
<1>6. ASSUME ~ queued', NoneDue(ps, n + 1)'
      PROVE  AllArmed(ps, n + 1)' /\ ChosenSoFar(ps, n + 1, b)'
  <2>1. NoneDue(ps, n)'
    BY <1>4, <1>6 DEF NoneDue
  <2>2. NoneDue(ps, n) /\ AllArmed(ps, n)' /\ ChosenSoFar(ps, n, c)
        /\ \A i \in 1 .. n : Says(ps[i])' = Says(ps[i])
    BY <1>1, <1>2, <1>3, <1>5, <1>6, <2>1, EarlierStay
  <2>3. Says(p)' = Says(p) /\ Says(p) = value
    BY SaysTheSame DEF Says
  <2>4. ChosenSoFar(ps, n + 1, b)
    BY <1>1, <1>3, <2>2, <2>3, OneMore
  <2>5. \A i \in 1 .. n + 1 : i \in 1 .. n \/ i = n + 1
    BY <1>1
  <2>6. AllArmed(ps, n + 1)'
    BY <1>3, <2>2, <2>5 DEF AllArmed
  <2>7. \A i \in 1 .. n + 1 : Says(ps[i])' = Says(ps[i])
    BY <1>3, <2>2, <2>3, <2>5
  <2>8. n + 1 \in Nat
    OBVIOUS
  <2> QED
    BY <2>4, <2>6, <2>7, ChosenStays
<1>7. n + 1 \in Nat /\ next' = (n + 1) + 1 /\ best' = b
  BY <1>2, <1>3
<1> QED
  BY <1>1, <1>3, <1>6, <1>7, LoopNext

-----------------------------------------------------------------------------
(* What each step does to the clock. *)

\* Steps after which there is no reconcile that has asked a provider.
LEMMA OutsideKeepsClock ==
  ASSUME pc' \notin {"update", "fetch"}, best' = NoCandidate,
         queued' \/ ~ Following' \/ pc' # "idle"
  PROVE  ClockInv'
  BY DEF ClockInv, LoopInv, RestInv, InProviders

LEMMA RetryKeepsClock ==
  ASSUME Retry
  PROVE  ClockInv'
  BY OutsideKeepsClock DEF Retry, IdleLocals

LEMMA BeginKeepsClock ==
  ASSUME ClockInv, BeginNothingToDo \/ BeginDeletion \/ BeginCleanup
  PROVE  ClockInv'
<1>1. pc = "idle" /\ best = NoCandidate /\ best' = best /\ cachedIhpa' = cachedIhpa
  BY DEF BeginNothingToDo, BeginDeletion, BeginCleanup, Begin, cacheVars, localVars, ClockInv,
         InProviders
<1>2. CASE BeginNothingToDo \/ BeginDeletion
  <2>1. pc' = pc /\ ~ Following'
    BY <1>1, <1>2 DEF BeginNothingToDo, BeginDeletion, localVars, Following
  <2> QED
    BY <1>1, <2>1, OutsideKeepsClock
<1>3. CASE BeginCleanup
  BY <1>1, <1>3, OutsideKeepsClock DEF BeginCleanup
<1> QED
  BY <1>2, <1>3

LEMMA CleanupKeepsClock ==
  ASSUME ClockInv, NEW k \in Keys, CleanupPortrait(k)
  PROVE  ClockInv'
<1>1. pc = "cleanup" /\ pc' = pc /\ best' = best /\ best = NoCandidate
  BY DEF CleanupPortrait, ClockInv, InProviders
<1> QED
  BY <1>1, OutsideKeepsClock

LEMMA BeginProvidersKeepsClock ==
  ASSUME TriggersInv, ClockTyped, ClockInv, BeginProviders
  PROVE  ClockInv'
<1>1. PICK ps : ps = copy.providers
  OBVIOUS
<1>2. /\ copy'.providers = ps /\ next' = 0 + 1 /\ best' = NoCandidate /\ pc' = "update"
      /\ Len(ps) \in Nat
  BY <1>1, ListCounts
     DEF BeginProviders, ClockInv, InProviders, ClockTyped, ListsTyped
<1>3. AllArmed(ps, 0)' /\ ChosenSoFar(ps, 0, NoCandidate)'
  BY DEF AllArmed, ChosenSoFar, NoneSays
<1>4. LoopInv'
  BY <1>2, <1>3, LoopNext
<1> QED
  BY <1>2, <1>4 DEF ClockInv, RestInv, InProviders

\* The steps of the loop.
LEMMA InTheLoop ==
  ASSUME pc' \in {"update", "fetch"}, LoopInv'
  PROVE  ClockInv'
  BY DEF ClockInv, RestInv, InProviders

LEMMA UpdateKeepsClock ==
  ASSUME TriggersInv, ClockTyped, ClockInv,
         \/ UpdateStatic \/ UpdateCron
         \/ KeepHorizontalPortrait \/ CreateHorizontalPortrait \/ PatchHorizontalPortrait
  PROVE  ClockInv'
<1>1. /\ InLoop("update") /\ UNCHANGED <<now, cachedHp>>
      /\ pc = "update" /\ LoopInv
  BY DEF UpdateStatic, UpdateCron, KeepHorizontalPortrait, CreateHorizontalPortrait,
         PatchHorizontalPortrait, UpdateDynamic, InLoop, cacheVars, ClockInv
<1>2. CASE \/ UpdateStatic \/ KeepHorizontalPortrait
           \/ CreateHorizontalPortrait \/ PatchHorizontalPortrait
  <2>1. ToFetch /\ UNCHANGED <<crons, timers>> /\ Provider.key # "Cron"
    BY <1>2, PortraitsAssumption
       DEF UpdateStatic, KeepHorizontalPortrait, CreateHorizontalPortrait, PatchHorizontalPortrait,
           UpdateDynamic, triggerVars
  <2>2. LoopInv' /\ pc' = "fetch"
    BY <1>1, <2>1, UpdatedGoesOn DEF ToFetch, OthersTheSame
  <2> QED
    BY <2>2, InTheLoop
<1>3. CASE UpdateCron
  <2>1. CASE Retry
    BY <2>1, RetryKeepsClock
  <2>2. CASE Parsable(Provider.rules) /\ ToFetch
    <3>1. PICK rules : rules = Provider.rules
      OBVIOUS
    <3>2. /\ StartCronTaskTrigger("Cron", rules) /\ UNCHANGED timers /\ Provider.key = "Cron"
          /\ Provider' = Provider
      BY <1>3, <2>2, <3>1 DEF UpdateCron, ToFetch, Provider
    <3>3. rules \in SUBSET Rules /\ "Cron" \in Keys
      BY <1>1, <3>1, <3>2, ProviderTyped DEF IsProvider, Keys
    <3>4. CronsRun("Cron", rules)'
      BY <2>2, <3>1, <3>2, <3>3, CronsStartTyped DEF ClockTyped
    <3>5. CronsRun("Cron", Provider.rules)'
      BY <3>1, <3>2, <3>4 DEF CronsRun
    <3>6. \A k \in Keys \ {"Cron"} : crons'[k] = crons[k]
      BY <3>2 DEF StartCronTaskTrigger, TriggersInv, TriggersTypeOK
    <3>7. LoopInv' /\ pc' = "fetch"
      BY <1>1, <2>2, <3>2, <3>5, <3>6, UpdatedGoesOn DEF ToFetch, OthersTheSame
    <3> QED
      BY <3>7, InTheLoop
  <2> QED
    BY <1>3, <2>1, <2>2 DEF UpdateCron
<1> QED
  BY <1>2, <1>3

LEMMA FetchStaticKeepsClock ==
  ASSUME TriggersInv, ClockTyped, ClockInv, FetchStatic
  PROVE  ClockInv'
<1>1. PICK p : p = Provider
  OBVIOUS
<1>2. /\ InLoop("fetch") /\ UNCHANGED <<now, cachedHp, crons, timers>> /\ LoopInv
      /\ p.key = "Static" /\ Fetched(StaticValue(p.replicas))
  BY <1>1 DEF FetchStatic, cacheVars, triggerVars, ClockInv
<1>3. Armed(p)' /\ Says(Provider) = StaticValue(p.replicas)
  BY <1>1, <1>2, PortraitsAssumption DEF Armed, Says, SaysAt
<1>4. LoopInv' /\ pc' = "update"
  BY <1>1, <1>2, <1>3, FetchedGoesOn DEF Fetched, OthersTheSame
<1> QED
  BY <1>4, InTheLoop

LEMMA FetchCronKeepsClock ==
  ASSUME TriggersInv, ClockTyped, ClockInv, FetchCron
  PROVE  ClockInv'
<1>1. CASE Retry
  BY <1>1, RetryKeepsClock
<1>2. CASE ~ Retry
  <2>1. PICK p, value : p = Provider /\ value = RulesValue(p.rules, now)
    OBVIOUS
  <2>2. /\ InLoop("fetch") /\ UNCHANGED <<now, cachedHp, crons, timers>> /\ LoopInv
        /\ p.key = "Cron" /\ Fetched(value)
    BY <1>2, <2>1 DEF FetchCron, cacheVars, triggerVars, ClockInv
  <2>3. CronsRun("Cron", p.rules)
    BY <2>1, <2>2 DEF LoopInv, InLoop, InProviders, Provider
  <2>4. Armed(p)' /\ Says(Provider) = value
    BY <2>1, <2>2, <2>3, PortraitsAssumption DEF Armed, Says, SaysAt, CronsRun
  <2>5. LoopInv' /\ pc' = "update"
    BY <2>1, <2>2, <2>4, FetchedGoesOn DEF Fetched, OthersTheSame
  <2> QED
    BY <2>5, InTheLoop
<1> QED
  BY <1>1, <1>2

\* There is nothing, or not any more.
LEMMA FetchNothingKeepsClock ==
  ASSUME TriggersInv, ClockTyped, ClockInv, FetchNoData \/ FetchExpired
  PROVE  ClockInv'
<1>1. PICK p, d : p = Provider /\ d = cachedHp[p.key].data
  OBVIOUS
<1>2. /\ InLoop("fetch") /\ UNCHANGED <<now, cachedHp>> /\ LoopInv
      /\ p.key \in PortraitTypes /\ Fetched(Nil)
      /\ d = Nil \/ Expired(d, now)
      /\ UNCHANGED <<crons, timers>> \/ StopTriggers(p.key)
  BY <1>1 DEF FetchNoData, FetchExpired, FetchDynamic, Seen, cacheVars, triggerVars, ClockInv
<1>3. \A k \in Keys \ {p.key} : crons'[k] = crons[k] /\ timers'[k] = timers[k]
  BY <1>2 DEF StopTriggers, TriggersInv, TriggersTypeOK
<1>4. p.key \notin {"Static", "Cron"}
  BY <1>2, PortraitsAssumption
<1>5. Says(Provider) = Nil
  BY <1>1, <1>2, <1>4 DEF Says, SaysAt, DataValue
<1>6. DataArmed(p.key, d)'
  BY <1>2 DEF DataArmed
<1>7. Armed(p)'
  <2>1. cachedHp'[p.key].data = d
    BY <1>1, <1>2
  <2> QED
    BY <1>2, <1>4, <2>1 DEF Armed, DataArmed
<1>8. LoopInv' /\ pc' = "update"
  BY <1>1, <1>2, <1>3, <1>4, <1>5, <1>7, FetchedGoesOn DEF Fetched, OthersTheSame
<1> QED
  BY <1>8, InTheLoop

\* The timer is set for the end of the data, or a crontab goes off before that.
LEMMA CronReadingArms ==
  ASSUME NEW d \in Datas, d.type = "Cron", NEW t \in Nat, d.expire # Nil, NEW w,
         w = CronReading(d, t).wake
  PROVE  w = d.expire \/ \E r \in d.rules : NextAt(t, r.end) < d.expire
<1> DEFINE ends  == {NextAt(t, r.end) : r \in ActiveRules(d.rules, t)}
           times == Times(d.expire) \union ends
<1>1. d.rules \subseteq Rules /\ d.expire \in Nat /\ ActiveRules(d.rules, t) \subseteq d.rules
  BY DatasAssumption DEF ActiveRules
<1>2. ends \in SUBSET Nat /\ \A e \in ends : \E r \in d.rules : e = NextAt(t, r.end)
  BY <1>1, NextAtLater DEF Rules
<1>3. times \in SUBSET Nat /\ d.expire \in times /\ \A e \in times : e = d.expire \/ e \in ends
  BY <1>1, <1>2 DEF Times
<1>4. w = IF Earliest(times) = d.expire THEN Earliest(times) ELSE Nil
  BY DEF CronReading
<1> HIDE DEF ends, times
<1>5. Earliest(times) \in times /\ Earliest(times) <= d.expire
  BY <1>3, EarliestIsFirst
<1>6. CASE Earliest(times) = d.expire
  BY <1>4, <1>6
<1>7. CASE Earliest(times) # d.expire
  <2>1. PICK e : e = Earliest(times)
    OBVIOUS
  <2>2. e \in ends /\ e \in Nat /\ e <= d.expire /\ e # d.expire
    BY <1>3, <1>5, <1>7, <2>1
  <2>3. e < d.expire
    BY <1>1, <2>2
  <2> QED
    BY <1>2, <2>2, <2>3
<1> QED
  BY <1>6, <1>7

LEMMA FetchReadingKeepsClock ==
  ASSUME TriggersInv, ClockTyped, ClockInv, FetchReading
  PROVE  ClockInv'
<1>1. PICK p, k, d, w, t :
        /\ p = Provider /\ k = p.key /\ d = cachedHp[k].data /\ t = now
        /\ w = Reading(d, t).wake
  OBVIOUS
<1>2. /\ InLoop("fetch") /\ UNCHANGED <<now, cachedHp>> /\ LoopInv /\ FetchData
      /\ Fetched(DataValue(k, d, t))
      /\ d.type = "Cron" => StartCronTaskTrigger(k, d.rules) /\ ~ Unreadable(d.rules, t)
      /\ d.type # "Cron" => UNCHANGED crons
      /\ w = Nil => UNCHANGED timers
      /\ w # Nil => StartTimerTrigger(k, w)
  BY <1>1 DEF FetchReading, FetchData, FetchDynamic, RestartCrontabs, Seen, cacheVars, ClockInv
<1>3. k \in PortraitTypes /\ k \in Keys /\ d \in Datas /\ ~ Expired(d, t) /\ t \in Nat
  BY <1>1, <1>2, SeenTyped DEF Seen, ClockTyped
<1>4. k \notin {"Static", "Cron"}
  BY <1>3, PortraitsAssumption
<1>5. \A j \in Keys \ {k} : crons'[j] = crons[j] /\ timers'[j] = timers[j]
  <2>1. \A j \in Keys \ {k} : crons'[j] = crons[j]
    BY <1>2 DEF StartCronTaskTrigger, TriggersInv, TriggersTypeOK
  <2>2. \A j \in Keys \ {k} : timers'[j] = timers[j]
    BY <1>2 DEF StartTimerTrigger, TriggersInv, TriggersTypeOK
  <2> QED
    BY <2>1, <2>2
<1>6. Says(Provider) = DataValue(k, d, t)
  BY <1>1, <1>4 DEF Says, SaysAt
<1>7. w # Nil => TimerRuns(k, w)'
  <2>1. w # Nil => w \in Nat
    BY <1>1, <1>2, WakeTyped DEF Seen
  <2> QED
    BY <1>2, <1>3, <2>1, TimerStartTyped DEF ClockTyped
<1>8. DataArmed(k, d)'
  <2>1. CASE d.type = "Static"
    BY <1>1, <1>7, <2>1 DEF Reading, StaticReading, DataArmed
  <2>2. CASE d.type = "Cron"
    <3>1. d.rules \in SUBSET Rules /\ Parsable(d.rules)
      BY <1>2, <1>3, <2>2, DatasAssumption DEF Unreadable
    <3>2. CronsRun(k, d.rules)'
      BY <1>2, <1>3, <2>2, <3>1, CronsStartTyped DEF ClockTyped
    <3>3. ASSUME d.expire # Nil
          PROVE  TimerRuns(k, d.expire)' \/ \E r \in d.rules : NextAt(t, r.end) < d.expire
      <4>1. w = CronReading(d, t).wake
        BY <1>1, <2>2 DEF Reading
      <4> QED
        BY <1>3, <1>7, <2>2, <3>3, <4>1, CronReadingArms
    <3>4. now' = t
      BY <1>1, <1>2
    <3> QED
      BY <2>2, <3>2, <3>3, <3>4 DEF DataArmed, CronDataArmed
  <2>3. CASE d.type = "TimeSeries"
    <3>1. w = TimeSeriesReading(d, t).wake /\ now' = t
      BY <1>1, <1>2, <2>3 DEF Reading
    <3>2. SeriesArmed(k, d)'
      BY <1>7, <3>1 DEF SeriesArmed, TimerRuns
    <3> QED
      BY <2>3, <3>2 DEF DataArmed
  <2> QED
    BY <1>3, <2>1, <2>2, <2>3, DatasAssumption
<1>9. Armed(p)'
  <2>1. cachedHp'[k].data = d
    BY <1>1, <1>2
  <2> QED
    BY <1>1, <1>4, <1>8, <2>1
       DEF Armed, DataArmed, CronDataArmed, SeriesArmed, TimerRuns, CronsRun
<1>10. LoopInv' /\ pc' = "update"
  <2>1. PICK value : value = DataValue(k, d, t)
    OBVIOUS
  <2> QED
    BY <1>1, <1>2, <1>4, <1>5, <1>6, <1>9, <2>1, FetchedGoesOn DEF Fetched, OthersTheSame
<1> QED
  BY <1>10, InTheLoop

\* What was chosen is followed.
LEMMA FinishKeepsClock ==
  ASSUME TriggersInv, ClockTyped, ClockInv, Finish
  PROVE  ClockInv'
<1>1. PICK ps \in Lists, n \in Nat :
        /\ ps = copy.providers /\ n = next - 1 /\ next = n + 1
        /\ n <= Len(ps) /\ Len(ps) \in Nat
        /\ ~ queued /\ NoneDue(ps, n) => AllArmed(ps, n) /\ ChosenSoFar(ps, n, best)
  BY LoopAt DEF Finish, InProviders, ClockInv
<1>2. PICK c, value : c = best /\ value = best.value
  OBVIOUS
<1>3. /\ pc = "update" /\ pc' = "idle" /\ best' = NoCandidate /\ followed' = value
      /\ UNCHANGED <<cachedIhpa, cachedHp, queued, crons, timers, now>> /\ next > Len(ps)
  BY <1>1, <1>2 DEF Finish, IdleLocals, cacheVars, triggerVars
<1>4. n = Len(ps)
  BY <1>1, <1>3
<1>5. CASE queued
  BY <1>3, <1>5, OutsideKeepsClock
<1>6. CASE ~ queued
  <2>1. cachedIhpa'.providers = ps
    BY <1>1, <1>3, <1>6 DEF TriggersInv, CopyIsLatest
  <2>2. ASSUME NoneDue(ps, n)'
        PROVE  AllArmed(ps, n)' /\ Chosen(ps, n, value)'
    <3>1. AllArmed(ps, n)' /\ ChosenSoFar(ps, n, c)'
      BY <1>1, <1>2, <1>3, <1>6, <2>2, EarlierStay, ChosenStays
    <3>2. Chosen(ps, n, value)'
      BY <1>2, <3>1 DEF ChosenSoFar, Chosen, NoCandidate
    <3> QED
      BY <3>1, <3>2
  <2>3. RestInv'
    BY <1>3, <1>4, <2>1, <2>2, RestNext
  <2> QED
    BY <1>3, <2>3 DEF ClockInv, LoopInv, InProviders
<1> QED
  BY <1>5, <1>6

-----------------------------------------------------------------------------
\* Time goes by.
LEMMA AllGoOn ==
  ASSUME Tick, ClockTyped, NEW ps \in Lists, NEW n \in Nat, n <= Len(ps), NoneDue(ps, n)',
         NoneDue(ps, n) => AllArmed(ps, n)
  PROVE  /\ NoneDue(ps, n) /\ AllArmed(ps, n)'
         /\ \A i \in 1 .. n : Says(ps[i])' = Says(ps[i])
<1>1. ASSUME NEW i \in 1 .. n
      PROVE  IsProvider(ps[i]) /\ ~ Due(ps[i].key)' /\ ~ Due(ps[i].key)
  <2>1. i \in 1 .. Len(ps)
    BY ListCounts
  <2>2. PICK k \in Keys : k = ps[i].key
    BY <2>1, ListHasProviders DEF IsProvider
  <2>3. ~ Due(k)'
    BY <2>2 DEF NoneDue
  <2> QED
    BY <2>1, <2>2, <2>3, ListHasProviders, DueStaysDue
<1>2. NoneDue(ps, n)
  BY <1>1 DEF NoneDue
<1>3. ASSUME NEW i \in 1 .. n
      PROVE  Armed(ps[i])' /\ Says(ps[i])' = Says(ps[i])
  <2>1. PICK p : p = ps[i]
    OBVIOUS
  <2>2. IsProvider(p) /\ ~ Due(p.key)' /\ Armed(p)
    BY <1>1, <1>2, <2>1 DEF AllArmed
  <2> QED
    BY <2>1, <2>2, ProviderGoesOn
<1> QED
  BY <1>2, <1>3 DEF AllArmed

LEMMA CronsKeepRunning ==
  ASSUME TriggersInv, ClockTyped, Tick \/ \E k \in Keys : CronFires(k),
         NEW rules, CronsRun("Cron", rules)
  PROVE  CronsRun("Cron", rules)'
<1>1. /\ "Cron" \in Keys
      /\ crons["Cron"] \in [rules : SUBSET Rules, due : BOOLEAN] /\ crons["Cron"].rules = rules
  BY DEF Keys, CronsRun, ClockTyped, CronsTyped
<1>2. \/ crons'["Cron"] = crons["Cron"]
      \/ crons'["Cron"] = [crons["Cron"] EXCEPT !.due = TRUE]
      \/ crons'["Cron"] = [crons["Cron"] EXCEPT !.due = FALSE]
  BY <1>1, ClockTicks DEF CronFires, TriggersInv, TriggersTypeOK
<1>3. crons'["Cron"] \in [rules : SUBSET Rules, due : BOOLEAN] /\ crons'["Cron"].rules = rules
  BY <1>1, <1>2
<1>4. crons'["Cron"] # Nil
  BY <1>3, NilAssumption
<1> QED
  BY <1>3, <1>4 DEF CronsRun, Parsable

\* A step of nobody the reconcile would see.
LEMMA WaitingKeepsClock ==
  ASSUME TriggersInv, ClockTyped, ClockInv,
         UNCHANGED <<cachedIhpa, queued, pc, copy, next, best, followed>>,
         \A rules : CronsRun("Cron", rules) => CronsRun("Cron", rules)',
         \A ps \in Lists, n \in Nat :
           n <= Len(ps) /\ NoneDue(ps, n)' /\ (NoneDue(ps, n) => AllArmed(ps, n)) =>
             /\ NoneDue(ps, n) /\ AllArmed(ps, n)'
             /\ \A i \in 1 .. n : Says(ps[i])' = Says(ps[i])
  PROVE  ClockInv'
<1>1. CASE InProviders
  <2>1. PICK ps \in Lists, n \in Nat :
          /\ ps = copy.providers /\ n = next - 1 /\ next = n + 1
          /\ n <= Len(ps) /\ Len(ps) \in Nat
          /\ pc = "fetch" => n < Len(ps)
          /\ pc = "fetch" /\ ps[next].key = "Cron" => CronsRun("Cron", ps[next].rules)
          /\ ~ queued /\ NoneDue(ps, n) => AllArmed(ps, n) /\ ChosenSoFar(ps, n, best)
    BY <1>1, LoopAt DEF ClockInv
  <2>2. PICK c : c = best
    OBVIOUS
  <2>3. pc' = "fetch" /\ ps[n + 1].key = "Cron" => CronsRun("Cron", ps[n + 1].rules)'
    BY <2>1
  <2>4. ~ queued' /\ NoneDue(ps, n)' => AllArmed(ps, n)' /\ ChosenSoFar(ps, n, c)'
    BY <2>1, <2>2, ChosenStays
  <2>5. LoopInv'
    BY <2>1, <2>2, <2>3, <2>4, LoopNext
  <2> QED
    BY <1>1, <2>5, InTheLoop DEF InProviders
<1>2. CASE ~ InProviders
  <2>1. PICK ps, value : ps = cachedIhpa.providers /\ value = followed
    OBVIOUS
  <2>2. ps \in Lists /\ Len(ps) \in Nat
    BY <2>1, ListCounts DEF ClockTyped, ListsTyped
  <2>3. ASSUME pc = "idle", ~ queued', Following', NoneDue(ps, Len(ps))'
        PROVE  AllArmed(ps, Len(ps))' /\ Chosen(ps, Len(ps), value)'
    <3>1. PICK n \in Nat : n = Len(ps)
      BY <2>2
    <3>2. NoneDue(ps, n) => AllArmed(ps, n) /\ Chosen(ps, n, value)
      BY <2>1, <2>3, <3>1 DEF ClockInv, RestInv, Following
    <3>3. n <= Len(ps) /\ NoneDue(ps, n)'
      BY <2>3, <3>1
    <3>4. /\ NoneDue(ps, n) /\ AllArmed(ps, n)'
          /\ \A i \in 1 .. n : Says(ps[i])' = Says(ps[i])
      BY <2>2, <3>2, <3>3
    <3>5. Chosen(ps, n, value)'
      BY <3>2, <3>4, ChosenStays
    <3> QED
      BY <3>1, <3>4, <3>5
  <2>4. best' = NoCandidate /\ pc' \notin {"update", "fetch"} /\ pc' = pc
    BY <1>2 DEF ClockInv, InProviders
  <2>5. CASE pc = "idle"
    <3>1. RestInv'
      BY <2>1, <2>3, <2>5, RestNext
    <3> QED
      BY <2>4, <3>1 DEF ClockInv, LoopInv, InProviders
  <2>6. CASE pc # "idle"
    BY <2>4, <2>6, OutsideKeepsClock
  <2> QED
    BY <2>5, <2>6
<1> QED
  BY <1>1, <1>2

LEMMA TickKeepsClock ==
  ASSUME TriggersInv, ClockTyped, ClockInv, Tick
  PROVE  ClockInv'
  BY ClockTicks, CronsKeepRunning, AllGoOn, WaitingKeepsClock

\* Events, of which the reconcile hears when it is over.
LEMMA EventKeepsClock ==
  ASSUME TriggersInv, ClockTyped, ClockInv, Deliver \/ Fire
  PROVE  ClockInv'
<1>1. queued' /\ UNCHANGED <<pc, copy, next, best>>
  BY DEF Deliver, DeliverIhpa, DeliverHp, Fire, TimerFires, CronFires, localVars
<1>2. ASSUME NEW rules, CronsRun("Cron", rules) PROVE CronsRun("Cron", rules)'
  <2>1. CASE UNCHANGED crons
    BY <1>2, <2>1 DEF CronsRun
  <2> QED
    BY <1>2, <2>1, CronsKeepRunning
       DEF Deliver, DeliverIhpa, DeliverHp, Fire, TimerFires, triggerVars
<1>3. CASE ~ InProviders
  BY <1>1, <1>3, OutsideKeepsClock DEF ClockInv, InProviders
<1>4. CASE InProviders
  <2>1. PICK ps \in Lists, n \in Nat :
          /\ ps = copy.providers /\ n = next - 1 /\ next = n + 1
          /\ n <= Len(ps) /\ Len(ps) \in Nat
          /\ pc = "fetch" => n < Len(ps)
          /\ pc = "fetch" /\ ps[next].key = "Cron" => CronsRun("Cron", ps[next].rules)
    BY <1>4, LoopAt DEF ClockInv
  <2>2. pc' = "fetch" /\ ps[n + 1].key = "Cron" => CronsRun("Cron", ps[n + 1].rules)'
    BY <1>1, <1>2, <2>1
  <2>3. PICK c : c = best
    OBVIOUS
  <2>4. LoopInv'
    BY <1>1, <2>1, <2>2, <2>3, LoopNext
  <2> QED
    BY <1>1, <1>4, <2>4, InTheLoop DEF InProviders
<1> QED
  BY <1>3, <1>4

\* Of what others do to the API objects the controller knows nothing yet.
LEMMA UnseenKeepsClock ==
  ASSUME TriggersInv, ClockTyped, ClockInv,
         UNCHANGED <<cachedIhpa, cachedHp, queued, crons, timers, pc, copy,
                     next, best, now, followed>>
  PROVE  ClockInv'
<1>1. \A rules : CronsRun("Cron", rules) => CronsRun("Cron", rules)'
  BY DEF CronsRun
<1>2. ASSUME NEW ps \in Lists, NEW n \in Nat, n <= Len(ps), NoneDue(ps, n)',
             NoneDue(ps, n) => AllArmed(ps, n)
      PROVE  /\ NoneDue(ps, n) /\ AllArmed(ps, n)'
             /\ \A i \in 1 .. n : Says(ps[i])' = Says(ps[i])
  BY <1>2, EarlierStay
<1> QED
  BY <1>1, <1>2, WaitingKeepsClock

LEMMA NextKeepsClock ==
  ASSUME TriggersInv, PortraitsInv, ClockTyped, ClockInv, [Next]_vars
  PROVE  ClockTyped' /\ ClockInv'
<1>1. ClockTyped'
  BY ClockStaysTyped DEF ClockInv
<1> SUFFICES ClockInv'
  BY <1>1
<1>2. CASE \/ UpdateMisses \/ UpdateFails \/ FetchMisses \/ FetchUnreadable
           \/ \E k \in Keys : CleanupFails(k)
  BY <1>2, RetryKeepsClock
     DEF UpdateMisses, UpdateFails, FetchMisses, FetchUnreadable, CleanupFails
<1>3. CASE Restart
  BY <1>3, OutsideKeepsClock DEF Restart, IdleLocals
<1>4. CASE UNCHANGED vars \/ Own \/ \E k \in PortraitTypes : HpGoes(k)
  <2>1. UNCHANGED <<cachedIhpa, cachedHp, queued, crons, timers, pc, copy,
                    next, best, now, followed>>
    BY <1>4 DEF Own, EditIhpa, DeleteIhpa, CreateIhpa, WriteIhpa, Fill, HpGoes, vars, cacheVars,
                triggerVars, localVars, historyVars
  <2> QED
    BY <2>1, UnseenKeepsClock
<1>5. CASE Reconcile
  BY <1>2, <1>5, BeginKeepsClock, CleanupKeepsClock, BeginProvidersKeepsClock, UpdateKeepsClock,
     FetchStaticKeepsClock, FetchCronKeepsClock, FetchNothingKeepsClock, FetchReadingKeepsClock,
     FinishKeepsClock
     DEF Reconcile
<1> QED
  BY <1>2, <1>3, <1>4, <1>5, EventKeepsClock, TickKeepsClock DEF Next, Disturb

LEMMA InitHoldsClock ==
  ASSUME Init
  PROVE  ClockTyped /\ ClockInv
<1>1. ListsTyped
  <2>1. ihpa.providers \in Lists
    BY DEF Init, NewIhpa, Lists
  <2>2. cachedIhpa.providers = <<>> /\ copy.providers = <<>> /\ <<>> \in Lists
    BY DEF Init, NoIhpa, Lists
  <2> QED
    BY <2>1, <2>2 DEF ListsTyped
<1>2. DatasTyped
  BY DEF Init, NoPortrait, DatasTyped
<1>3. CronsTyped /\ TimersTyped /\ now \in Nat
  BY DEF Init, CronsTyped, TimersTyped
<1>4. pc = "idle" /\ best = NoCandidate /\ ~ Following
  BY DEF Init, NoIhpa, Following
<1> QED
  BY <1>1, <1>2, <1>3, <1>4 DEF ClockTyped, ClockInv, LoopInv, RestInv, InProviders

LEMMA AtRestFollowed ==
  ASSUME ClockTyped, ClockInv, AtRest, InCharge
  PROVE  followed \in Candidates(now)
<1>1. /\ pc = "idle" /\ ~ queued /\ cachedIhpa = ihpa /\ cachedHp = hp
      /\ \A k \in Keys : ~ Due(k)
  BY DEF AtRest, Due
<1>2. PICK ps \in Lists : ps = ihpa.providers
  BY DEF ClockTyped, ListsTyped
<1>3. PICK n \in Nat : n = Len(ps) /\ DOMAIN ps = 1 .. n
  BY ListCounts
<1>4. NoneDue(ps, n)
  BY <1>1, <1>3, ListHasProviders DEF NoneDue, IsProvider
<1>5. Chosen(ps, n, followed)
  BY <1>1, <1>2, <1>3, <1>4 DEF ClockInv, RestInv, Following, InCharge
<1>6. \A p : ProviderValue(p, now) = Says(p)
  BY <1>1 DEF ProviderValue, Says, SaysAt
<1>7. Valid(now) = {i \in 1 .. n : Says(ps[i]) # Nil}
  BY <1>2, <1>3, <1>6 DEF Valid
<1>8. CASE followed = Nil /\ NoneSays(ps, n)
  BY <1>7, <1>8 DEF NoneSays, Candidates
<1>9. CASE \E i \in 1 .. n : Leads(ps, n, ps[i]) /\ followed = Says(ps[i])
  <2>1. PICK i \in 1 .. n : Leads(ps, n, ps[i]) /\ followed = Says(ps[i])
    BY <1>9
  <2>2. i \in Valid(now)
    BY <1>7, <2>1 DEF Leads
  <2>3. \A j \in Valid(now) : Ranked(i, j, now)
    BY <1>2, <1>6, <1>7, <2>1 DEF Leads, Ranked
  <2>4. followed = ProviderValue(ihpa.providers[i], now)
    BY <1>2, <1>6, <2>1
  <2> QED
    BY <2>2, <2>3, <2>4 DEF Candidates
<1> QED
  BY <1>5, <1>8, <1>9 DEF Chosen

(***************************************************************************)
(* Whenever nothing is left to be done, the autoscaler follows the value   *)
(* its providers are to come up with at that very time, however long ago   *)
(* it was chosen: for any spec, any data, any rules and any number of      *)
(* edits, failures and restarts, no wake-up is missing                     *)
(* (updateAndFetchPortraitValue, the providers and their trigger managers).*)
(***************************************************************************)
THEOREM NoWakeUpIsMissing == Spec => []FollowsTheClock
<1>1. /\ TriggersInv /\ PortraitsInv /\ ClockTyped /\ ClockInv /\ [Next]_vars
      => TriggersInv' /\ PortraitsInv' /\ ClockTyped' /\ ClockInv'
  BY NextKeeps, NextKeepsPortraits, NextKeepsClock
<1>2. ClockTyped /\ ClockInv => FollowsTheClock
  BY AtRestFollowed DEF FollowsTheClock
<1> QED
  BY <1>1, <1>2, InitHolds, InitHoldsPortraits, InitHoldsClock, PTL DEF Spec
=============================================================================
