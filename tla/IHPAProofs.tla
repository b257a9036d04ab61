------------------------------ MODULE IHPAProofs ------------------------------
(***************************************************************************)
(* What is proved of the IHPA controller.  For every set of specs and      *)
(* portrait values and any number of disturbances: the types, so that the  *)
(* replicas it asks for stay numbers whatever the gray change computes,    *)
(* and that at rest the condition tells of the latest spec.  For one       *)
(* change of the portrait value, from a profile at rest, with any number   *)
(* of restarts: that the profile follows at the pace of its gray strategy, *)
(* and that no pod is given up before it was observed.                     *)
(***************************************************************************)
EXTENDS MCIHPA, NaturalsInduction, WellFoundedInduction, TLAPS

-----------------------------------------------------------------------------
(***************************************************************************)
(* The types, with what they need: the value a reconcile acts on is there, *)
(* and there are no more edits left than there were.                       *)
(***************************************************************************)
AutoscalerTyped == ihpa \in Autoscaler /\ lagging \in BOOLEAN
ProfileTyped == rp \in ReplicaProfile /\ rpLagging \in BOOLEAN /\ sinceChange \in 0 .. MaxAge
CacheTyped == cachedIhpa \in Autoscaler /\ cachedRp \in ReplicaProfile
WakeTyped == queued \in BOOLEAN /\ timer \in 1 .. MaxAge \union {Nil}
CopyTyped ==
  /\ pc \in ProgramCounters
  /\ copy \in Autoscaler
  /\ original \in IHPAStatus
  /\ conflict \in BOOLEAN
  /\ remain \in 0 .. MaxAge
  /\ pc \in {"storeValue", "act"} => copy.status.current # Nil
AroundTyped ==
  /\ portrait \in PortraitValue \union {Nil}
  /\ left \in [TroubleKinds -> Nat]
  /\ left["edit"] <= MostEdits

TypeInv ==
  /\ AutoscalerTyped
  /\ ProfileTyped
  /\ CacheTyped
  /\ WakeTyped
  /\ CopyTyped
  /\ AroundTyped

-----------------------------------------------------------------------------
(***************************************************************************)
(* The values the variables are given.                                     *)
(***************************************************************************)

\* The constants of the module are well typed.
LEMMA ConstantsTyped ==
  /\ NoStatus \in IHPAStatus
  /\ NoAutoscaler \in Autoscaler
  /\ NoProfile \in ReplicaProfile
  /\ MaxAge \in Nat
<1>1. NoCondition \in Condition
  BY DEF NoCondition, Condition, Reasons
<1>2. NoStatus \in IHPAStatus
  BY <1>1 DEF NoStatus, IHPAStatus
<1>3. NoBehavior \in ScalingBehavior
  BY DEF NoBehavior, ScalingBehavior
<1>4. NoAutoscaler \in Autoscaler
  BY <1>2, <1>3 DEF NoAutoscaler, Autoscaler, IHPASpec, ScaleModes
<1>5. NoProfile \in ReplicaProfile
  BY DEF NoProfile, ReplicaProfile, ProfileSpec, ScalingDirections
<1>6. QED
  BY <1>2, <1>4, <1>5, MaxAgeAssumption

\* A new autoscaler is well typed.
LEMMA NewAutoscalerTyped ==
  ASSUME NEW g \in Nat, NEW s \in IHPASpec
  PROVE  /\ NewAutoscaler(g, s) \in Autoscaler
         /\ NewAutoscaler(g, s).generation = g
BY ConstantsTyped DEF NewAutoscaler, Autoscaler

\* A condition set on a status leaves a status.
LEMMA WithConditionTyped ==
  ASSUME NEW status \in IHPAStatus, NEW type \in {"active", "limited", "progressing"},
         NEW reason \in Reasons, copy \in Autoscaler
  PROVE  /\ WithCondition(status, type, reason) \in IHPAStatus
         /\ WithCondition(status, type, reason).current = status.current
         /\ type = "active" =>
              WithCondition(status, type, reason).active.generation = copy.generation
<1>1. [reason |-> reason, generation |-> copy.generation] \in Condition
  BY DEF Condition, Autoscaler
<1>2. QED
  BY <1>1 DEF WithCondition, IHPAStatus

\* What is stored of a portrait value is a portrait value.
LEMMA StoredValueTyped ==
  ASSUME NEW v \in PortraitValue \union {Nil}
  PROVE  /\ StoredValue(v) \in PortraitValue \union {Nil}
         /\ StoredValue(v) = Nil <=> v = Nil
<1>1. CASE v = Nil
  BY <1>1 DEF StoredValue
<1>2. CASE v # Nil /\ v.from = "zero"
  <2>1. v \in PortraitValue
    BY <1>2
  <2>2. [v EXCEPT !.from = "forever"] \in PortraitValue
    BY <2>1 DEF PortraitValue, Provenance
  <2>3. QED
    BY <1>2, <2>2, NilAssumption DEF StoredValue
<1>3. CASE v # Nil /\ v.from # "zero"
  BY <1>3 DEF StoredValue
<1>4. QED
  BY <1>1, <1>2, <1>3

\* A stored status is a status, with the same condition.
LEMMA StoredTyped ==
  ASSUME NEW status \in IHPAStatus
  PROVE  /\ Stored(status) \in IHPAStatus
         /\ Stored(status).active = status.active
         /\ Stored(status).current = Nil <=> status.current = Nil
<1>1. /\ status.previous \in PortraitValue \union {Nil}
      /\ status.current \in PortraitValue \union {Nil}
  BY DEF IHPAStatus
<1> DEFINE p == StoredValue(status.previous)
           c == StoredValue(status.current)
<1>2. /\ p \in PortraitValue \union {Nil} /\ c \in PortraitValue \union {Nil}
      /\ c = Nil <=> status.current = Nil
  BY <1>1, StoredValueTyped
<1>3. Stored(status) = [status EXCEPT !.previous = p, !.current = c]
  BY DEF Stored
<1> HIDE DEF p, c
<1>4. QED
  BY <1>2, <1>3 DEF IHPAStatus

\* An autoscaler with another status is an autoscaler.
LEMMA WithStatusTyped ==
  ASSUME NEW a \in Autoscaler, NEW status \in IHPAStatus
  PROVE  /\ [a EXCEPT !.status = status] \in Autoscaler
         /\ [a EXCEPT !.status = status].status = status
         /\ [a EXCEPT !.status = status].generation = a.generation
         /\ [a EXCEPT !.status = status].exists = a.exists
         /\ [a EXCEPT !.status = status].deleting = a.deleting
         /\ [a EXCEPT !.status = status].spec = a.spec
BY DEF Autoscaler

\* Its parts.
LEMMA AutoscalerParts ==
  ASSUME NEW a \in Autoscaler
  PROVE  /\ a.status \in IHPAStatus /\ a.spec \in IHPASpec
         /\ a.generation \in Nat /\ a.uid \in Nat
         /\ a.exists \in BOOLEAN /\ a.deleting \in BOOLEAN
BY DEF Autoscaler

\* Storing a status.
LEMMA StoreStatusTyped ==
  ASSUME AutoscalerTyped, NEW status \in IHPAStatus, StoreStatus(status) \/ LeaveStatus
  PROVE  AutoscalerTyped'
<1>1. CASE StoreStatus(status)
  <2>1. ihpa' = [ihpa EXCEPT !.status = Stored(status)] /\ lagging' \in BOOLEAN
    BY <1>1 DEF StoreStatus, AutoscalerTyped
  <2>2. QED
    BY <2>1, StoredTyped, WithStatusTyped DEF AutoscalerTyped
<1>2. CASE LeaveStatus
  BY <1>2 DEF LeaveStatus, AutoscalerTyped
<1>3. QED
  BY <1>1, <1>2

\* Recording a failure.
LEMMA ErrorOutTyped ==
  ASSUME AutoscalerTyped, NEW status \in IHPAStatus, ErrorOut(status)
  PROVE  AutoscalerTyped'
BY StoreStatusTyped DEF ErrorOut

\* The failure that is recorded is a status.
LEMMA FailedTyped ==
  ASSUME copy \in Autoscaler, NEW status \in IHPAStatus
  PROVE  Failed(status) \in IHPAStatus /\ Failed(status).active.generation = copy.generation
BY WithConditionTyped DEF Failed, Reasons

\* A profile that is written or left alone.
LEMMA WriteProfileTyped ==
  ASSUME ProfileTyped, NEW new \in ReplicaProfile, WriteProfile(new)
  PROVE  ProfileTyped'
<1>1. 0 \in 0 .. MaxAge
  BY ConstantsTyped
<1>2. QED
  BY <1>1 DEF WriteProfile, ProfileTyped

LEMMA LeaveProfileTyped ==
  ASSUME ProfileTyped, LeaveProfile
  PROVE  ProfileTyped'
BY DEF LeaveProfile, ProfileTyped

\* Between reconciles the copies hold nothing.
LEMMA IdleTyped ==
  ASSUME IdleLocals
  PROVE  CopyTyped'
<1>1. 0 \in 0 .. MaxAge
  BY ConstantsTyped
<1>2. QED
  BY <1>1, ConstantsTyped DEF IdleLocals, CopyTyped, ProgramCounters

\* The ways a reconcile ends.
LEMMA EndTyped ==
  ASSUME WakeTyped, NEW n \in 0 .. MaxAge, DoneAfter(n) \/ Retry
  PROVE  WakeTyped' /\ CopyTyped'
<1>1. MaxAge \in Nat
  BY ConstantsTyped
<1>2. CASE DoneAfter(n)
  <2>1. timer' \in 1 .. MaxAge \union {Nil}
    <3>1. CASE n = 0
      BY <1>2, <3>1 DEF DoneAfter, WakeTyped
    <3>2. CASE n > 0 /\ timer = Nil
      BY <1>1, <1>2, <3>2 DEF DoneAfter
    <3>3. CASE n > 0 /\ timer # Nil
      <4>1. timer \in 1 .. MaxAge /\ n \in 1 .. MaxAge
        BY <1>1, <3>3 DEF WakeTyped
      <4>2. timer' = LesserOf(timer, n)
        BY <1>2, <3>3 DEF DoneAfter
      <4>3. QED
        BY <4>1, <4>2 DEF LesserOf
    <3>4. QED
      BY <1>1, <3>1, <3>2, <3>3
  <2>2. QED
    BY <1>2, <2>1, IdleTyped DEF DoneAfter, WakeTyped
<1>3. CASE Retry
  BY <1>3, IdleTyped DEF Retry, WakeTyped
<1>4. QED
  BY <1>2, <1>3

LEMMA DoneTyped ==
  ASSUME WakeTyped, Done \/ Retry
  PROVE  WakeTyped' /\ CopyTyped'
<1>1. 0 \in 0 .. MaxAge
  BY ConstantsTyped
<1>2. QED
  BY <1>1, EndTyped DEF Done

\* The status update that ends a reconcile.
LEMMA StoreStatusAndReturnTyped ==
  ASSUME AutoscalerTyped, WakeTyped, NEW status \in IHPAStatus, NEW n \in 0 .. MaxAge,
         StoreStatusAndReturn(status, n)
  PROVE  AutoscalerTyped' /\ WakeTyped' /\ CopyTyped'
BY StoreStatusTyped, EndTyped DEF StoreStatusAndReturn

\* A disturbance leaves no more edits than there were.
LEMMA SpendTyped ==
  ASSUME left \in [TroubleKinds -> Nat], left["edit"] <= MostEdits, MostEdits \in Nat,
         NEW kind \in TroubleKinds, Spend(kind)
  PROVE  left' \in [TroubleKinds -> Nat] /\ left'["edit"] <= MostEdits
<1>1. left[kind] \in Nat /\ left[kind] > 0 /\ "edit" \in TroubleKinds
  BY DEF Spend, TroubleKinds
<1>2. left' = [left EXCEPT ![kind] = left[kind] - 1]
  BY DEF Spend
<1>3. left[kind] - 1 \in Nat
  BY <1>1
<1>4. left'["edit"] = IF kind = "edit" THEN left["edit"] - 1 ELSE left["edit"]
  BY <1>1, <1>2
<1>5. QED
  BY <1>1, <1>2, <1>3, <1>4

\* The bounds on the edits have a largest.
LEMMA MostEditsFacts ==
  /\ MostEdits \in Nat
  /\ \A t \in Troubles : t["edit"] <= MostEdits
<1>1. /\ Troubles \subseteq [TroubleKinds -> Nat] /\ "edit" \in TroubleKinds
      /\ \E most \in Troubles : \A t \in Troubles : t["edit"] <= most["edit"]
  BY ConstantsAssumption DEF ConstantsAssumption, TroubleKinds
<1>2. \E n \in {t["edit"] : t \in Troubles} : \A t \in Troubles : t["edit"] <= n
  BY <1>1
<1>3. /\ MostEdits \in {t["edit"] : t \in Troubles}
      /\ \A t \in Troubles : t["edit"] <= MostEdits
  BY <1>2 DEF MostEdits
<1>4. QED
  BY <1>1, <1>3

\* Edits leave a positive generation.
LEMMA NextGenerationTyped ==
  ASSUME AroundTyped
  PROVE  NextGeneration \in Nat /\ NextGeneration >= 2
<1>1. left["edit"] \in Nat /\ left["edit"] <= MostEdits /\ MostEdits \in Nat
  BY MostEditsFacts DEF AroundTyped, TroubleKinds
<1>2. QED
  BY <1>1 DEF NextGeneration

-----------------------------------------------------------------------------
(***************************************************************************)
(* What a reconcile computes: the capped value, the gray step and the      *)
(* replicas to ask for are numbers and statuses again.                     *)
(***************************************************************************)

\* A capped status is a status.
LEMMA CappedTyped ==
  ASSUME NEW spec \in IHPASpec, NEW status \in IHPAStatus, status.current # Nil
  PROVE  /\ CappedStatus(spec, status) \in IHPAStatus
         /\ CappedStatus(spec, status).current \in PortraitValue
         /\ CappedStatus(spec, status).active = status.active
         /\ Limit(spec, status.current.replicas) \in Reasons
<1>1. status.current \in PortraitValue /\ spec.min \in Nat /\ spec.max \in Nat
  BY DEF IHPAStatus, IHPASpec
<1> DEFINE n == Capped(spec, status.current.replicas)
           value == [status.current EXCEPT !.replicas = n]
<1>2. n \in Nat
  BY <1>1 DEF Capped, LesserOf, GreaterOf, PortraitValue
<1>3. value \in PortraitValue
  <2> HIDE DEF n
  <2>1. QED
    BY <1>1, <1>2 DEF PortraitValue
<1>4. CappedStatus(spec, status) = [status EXCEPT !.current = value]
  BY <1>1 DEF CappedStatus, IHPAStatus, PortraitValue
<1>5. Limit(spec, status.current.replicas) \in Reasons
  BY DEF Limit, Reasons
<1> HIDE DEF value
<1>6. QED
  BY <1>3, <1>4, <1>5 DEF IHPAStatus

\* A gray step is a gray status, and its remaining time a time.
LEMMA NextGrayTyped ==
  ASSUME NEW strategy \in GrayStrategy, NEW gray \in GrayStatus
  PROVE  /\ NextGray(strategy, gray) \in GrayStatus
         /\ GrayRemainTime(strategy, gray) \in 0 .. MaxAge
<1>1. /\ MaxAge \in Nat /\ strategy.percent \in 1 .. 100
      /\ strategy.interval \in 0 .. MaxAge /\ strategy.observation \in 0 .. MaxAge
      /\ gray.percent \in 0 .. 100 /\ gray.age \in 0 .. MaxAge
  BY ConstantsTyped DEF GrayStrategy, GrayStatus
<1>2. Wait(strategy, gray.percent) \in 0 .. MaxAge
  BY <1>1 DEF Wait
<1>3. GrayRemainTime(strategy, gray) \in 0 .. MaxAge
  <2> DEFINE w == Wait(strategy, gray.percent)
             a == gray.age
  <2>1. w \in 0 .. MaxAge /\ a \in 0 .. MaxAge
    BY <1>1, <1>2
  <2>2. GreaterOf(0, w - a) \in 0 .. MaxAge
    <3> HIDE DEF w, a
    <3>1. QED
      BY <1>1, <2>1 DEF GreaterOf
  <2>3. QED
    BY <2>2 DEF GrayRemainTime
<1>4. LesserOf(100, gray.percent + strategy.percent) \in 0 .. 100 /\ 0 \in 0 .. MaxAge
  <2>1. PICK p \in 0 .. 100, c \in 1 .. 100 : p = gray.percent /\ c = strategy.percent
    BY <1>1
  <2>2. LesserOf(100, p + c) \in 0 .. 100
    BY DEF LesserOf
  <2>3. 0 \in 0 .. MaxAge
    BY <1>1
  <2>4. QED
    BY <2>1, <2>2, <2>3
<1>5. NextGray(strategy, gray) \in GrayStatus
  BY <1>4 DEF NextGray, GrayStatus
<1>6. QED
  BY <1>3, <1>5

\* A share of a difference is not beyond it, so what is subtracted is there.
LEMMA GrayReplicasTyped ==
  ASSUME NEW a \in Nat, NEW b \in Nat, a # b, NEW percent \in 0 .. 100,
         NEW status, status.current.replicas = a, status.previous.replicas = b
  PROVE  /\ GrayReplicas(status, percent) \in Nat
         /\ a < b => b - GrayReplicas(status, percent) \in Nat
<1> DEFINE d == AbsOf(a - b)
           share == (d * percent) \div 100
<1>1. d \in Nat /\ d >= 1 /\ (a < b => d = b - a)
  BY DEF AbsOf
<1>2. share \in Nat /\ share <= d
  <2> HIDE DEF d
  <2>1. PICK e \in Nat : 100 = percent + e
    <3>1. 100 - percent \in Nat /\ 100 = percent + (100 - percent)
      OBVIOUS
    <3>2. QED
      BY <3>1
  <2>2. d * 100 = d * percent + d * e
    BY <1>1, <2>1
  <2>3. d * percent \in Nat /\ d * e \in Nat
    BY <1>1, <2>1
  <2> DEFINE x == d * percent
             y == d * e
  <2>4. x \in Nat /\ y \in Nat /\ d * 100 = x + y
    BY <2>2, <2>3
  <2>5. (x \div 100) \in Nat /\ (x \div 100) <= d
    <3> HIDE DEF x, y
    <3>1. QED
      BY <1>1, <2>4
  <2>6. QED
    BY <2>5
<1>3. GrayReplicas(status, percent) = GreaterOf(1, share)
  BY DEF GrayReplicas
<1> HIDE DEF share, d
<1>4. GreaterOf(1, share) \in Nat /\ GreaterOf(1, share) <= d
  BY <1>1, <1>2 DEF GreaterOf
<1> DEFINE g == GrayReplicas(status, percent)
<1>5. g \in Nat /\ g <= d
  BY <1>3, <1>4
<1> HIDE DEF g
<1>6. a < b => b - g \in Nat
  BY <1>1, <1>5
<1>7. QED
  BY <1>5, <1>6 DEF g

\* The data of a gray step.
LEMMA GrayDataTyped ==
  ASSUME NEW spec \in IHPASpec, NEW status \in IHPAStatus, status.current \in PortraitValue,
         IsGrayActive(spec, status), NEW strategy, NEW percent \in 0 .. 100
  PROVE  GrayData(status, strategy, percent) \in ReplicaData
<1>1. CurrentGrayStrategy(spec, status) # Nil
  BY DEF IsGrayActive
<1>2. /\ status.previous # Nil
      /\ ScalesUp(status) <=> status.current.replicas > status.previous.replicas
      /\ ScalesDown(status) <=> status.current.replicas < status.previous.replicas
      /\ ScalesUp(status) \/ ScalesDown(status)
  BY <1>1 DEF CurrentGrayStrategy, ScalesUp, ScalesDown, Scales
<1>3. status.previous \in PortraitValue
  BY <1>2 DEF IHPAStatus
<1> DEFINE a == status.current.replicas
           b == status.previous.replicas
           changed == GrayReplicas(status, percent)
<1>4. a \in Nat /\ b \in Nat
  BY <1>3 DEF PortraitValue
<1>5. a # b
  BY <1>2, <1>4
<1>6. changed \in Nat /\ (a < b => b - changed \in Nat)
  BY <1>4, <1>5, GrayReplicasTyped
<1>7. GrayData(status, strategy, percent) =
        [online  |-> IF ScalesUp(status) THEN b + changed ELSE b - changed,
         cutoff  |-> IF ScalesDown(status) /\ strategy.state = "Cutoff" THEN changed ELSE 0,
         standby |-> IF ScalesDown(status) /\ strategy.state = "Standby" THEN changed ELSE 0]
  BY DEF GrayData
<1>8. ScalesUp(status) \/ a < b
  BY <1>2
<1> HIDE DEF a, b, changed
<1>9. (IF ScalesUp(status) THEN b + changed ELSE b - changed) \in Nat
  BY <1>4, <1>6, <1>8
<1>10. QED
  BY <1>6, <1>7, <1>9 DEF ReplicaData

\* What generateIHPAReplicaData answers.
LEMMA GenerateTyped ==
  ASSUME NEW spec \in IHPASpec, NEW status \in IHPAStatus, status.current \in PortraitValue,
         ~ HasNoGrayStatus(spec, status)
  PROVE  /\ GenerateReplicaData(spec, status).data \in ReplicaData
         /\ GenerateReplicaData(spec, status).gray \in GrayStatus \union {Nil}
         /\ GenerateReplicaData(spec, status).remain \in 0 .. MaxAge
<1> DEFINE strategy == CurrentGrayStrategy(spec, status)
           next == NextGray(strategy, status.gray)
<1>1. 0 \in 0 .. MaxAge /\ status.gray \in GrayStatus \union {Nil}
  BY ConstantsTyped DEF IHPAStatus
<1>2. CASE ~ IsGrayActive(spec, status) \/ GrayEnded(strategy, status.gray)
  <2>1. GenerateReplicaData(spec, status) =
          [data |-> SettledData(status), gray |-> status.gray, remain |-> 0]
    BY <1>2 DEF GenerateReplicaData
  <2>2. SettledData(status) \in ReplicaData
    BY DEF SettledData, ReplicaData, PortraitValue
  <2>3. QED
    BY <1>1, <2>1, <2>2
<1>3. CASE IsGrayActive(spec, status) /\ ~ GrayEnded(strategy, status.gray)
  <2>1. GenerateReplicaData(spec, status) =
          [data |-> GrayData(status, strategy, next.percent), gray |-> next,
           remain |-> GrayRemainTime(strategy, status.gray)]
    BY <1>3 DEF GenerateReplicaData
  <2>2. status.gray \in GrayStatus
    BY <1>1, <1>3 DEF HasNoGrayStatus
  <2>3. strategy \in GrayStrategy
    BY <1>3 DEF IsGrayActive, CurrentGrayStrategy, IHPASpec, ScalingBehavior
  <2>4. next \in GrayStatus /\ GrayRemainTime(strategy, status.gray) \in 0 .. MaxAge
    BY <2>2, <2>3, NextGrayTyped
  <2> HIDE DEF strategy, next
  <2>5. next.percent \in 0 .. 100
    BY <2>4 DEF GrayStatus
  <2>6. GrayData(status, strategy, next.percent) \in ReplicaData
    BY <1>3, <2>5, GrayDataTyped
  <2>7. QED
    BY <2>1, <2>4, <2>6
<1>4. QED
  BY <1>2, <1>3

\* The profile a reconcile wants, and the statuses it goes on with.
LEMMA GeneratedTyped ==
  ASSUME CopyTyped, Generate
  PROVE  /\ Wanted \in ProfileSpec /\ Generated.remain \in 0 .. MaxAge
         /\ GeneratedStatus \in IHPAStatus
         /\ \A online : ProgressingStatus(online) \in IHPAStatus
<1>1. /\ copy \in Autoscaler /\ copy.spec \in IHPASpec /\ copy.status \in IHPAStatus
      /\ copy.status.current # Nil
  BY AutoscalerParts DEF CopyTyped, Generate, AutoMode
<1>2. /\ CopyCapped \in IHPAStatus /\ CopyCapped.current \in PortraitValue
      /\ Limit(copy.spec, copy.status.current.replicas) \in Reasons
  BY <1>1, CappedTyped DEF CopyCapped
<1>3. /\ Generated.data \in ReplicaData /\ Generated.gray \in GrayStatus \union {Nil}
      /\ Generated.remain \in 0 .. MaxAge
  BY <1>1, <1>2, GenerateTyped DEF Generated, Generate
<1>4. AllowedScalingDirection(copy.spec) \in ScalingDirections
  BY DEF AllowedScalingDirection, ScalingDirections
<1>5. Wanted \in ProfileSpec
  <2>1. /\ Generated.data.online \in Nat /\ Generated.data.cutoff \in Nat
        /\ Generated.data.standby \in Nat
    BY <1>3 DEF ReplicaData
  <2>2. copy.spec.paused \in BOOLEAN /\ copy.spec.profile \in {"Default", "Custom"}
    BY <1>1 DEF IHPASpec
  <2>3. QED
    BY <1>4, <2>1, <2>2 DEF Wanted, WantedProfileSpec, ProfileSpec
<1>6. [CopyCapped EXCEPT !.gray = Generated.gray] \in IHPAStatus
  BY <1>2, <1>3 DEF IHPAStatus
<1>7. GeneratedStatus \in IHPAStatus
  BY <1>1, <1>2, <1>6, WithConditionTyped DEF GeneratedStatus
<1>8. ASSUME NEW online
      PROVE  ProgressingStatus(online) \in IHPAStatus
  <2> DEFINE reason == IF GeneratedStatus.current.replicas = online THEN "Match" ELSE "NotMatch"
  <2>1. reason \in Reasons
    BY DEF Reasons
  <2> HIDE DEF reason
  <2>2. WithCondition(GeneratedStatus, "progressing", reason) \in IHPAStatus
    BY <1>1, <1>7, <2>1, WithConditionTyped
  <2>3. QED
    BY <2>2 DEF ProgressingStatus, reason
<1>9. QED
  BY <1>3, <1>5, <1>7, <1>8

\* A value that is adopted, with the gray change it starts.
LEMMA AdoptedTyped ==
  ASSUME NEW spec, NEW status \in IHPAStatus, NEW value \in PortraitValue
  PROVE  /\ Adopted(spec, status, value) \in IHPAStatus
         /\ Adopted(spec, status, value).current = value
         /\ Adopted(spec, status, value).active = status.active
<1> DEFINE p == IF status.current = Nil THEN status.previous ELSE status.current
           adopted == [status EXCEPT !.previous = p, !.current = value]
           begun == [percent |-> 0, age |-> 0]
<1>1. p \in PortraitValue \union {Nil}
  BY DEF IHPAStatus
<1>2. Adopted(spec, status, value) =
        IF IsGrayActive(spec, adopted) THEN [adopted EXCEPT !.gray = begun] ELSE adopted
  BY DEF Adopted
<1> HIDE DEF p
<1>3. adopted \in IHPAStatus /\ adopted.current = value /\ adopted.active = status.active
  BY <1>1 DEF IHPAStatus
<1>4. begun \in GrayStatus
  BY ConstantsTyped DEF GrayStatus
<1> HIDE DEF adopted, begun
<1>5. /\ [adopted EXCEPT !.gray = begun] \in IHPAStatus
      /\ [adopted EXCEPT !.gray = begun].current = value
      /\ [adopted EXCEPT !.gray = begun].active = status.active
  BY <1>3, <1>4 DEF IHPAStatus
<1>6. QED
  BY <1>2, <1>3, <1>5

\* Ages grow up to their bound.
LEMMA AgedTyped ==
  ASSUME NEW status \in IHPAStatus
  PROVE  /\ Aged(status) \in IHPAStatus
         /\ Aged(status).active = status.active
         /\ Aged(status).current = status.current
<1>1. CASE status.gray = Nil
  BY <1>1 DEF Aged
<1>2. CASE status.gray # Nil
  <2> DEFINE age == LesserOf(MaxAge, status.gray.age + 1)
             gray == [status.gray EXCEPT !.age = age]
  <2>1. status.gray \in GrayStatus
    BY <1>2 DEF IHPAStatus
  <2>2. age \in 0 .. MaxAge
    BY <2>1, ConstantsTyped DEF LesserOf, GrayStatus
  <2>3. Aged(status) = [status EXCEPT !.gray = gray]
    BY <1>2, <2>1 DEF Aged, IHPAStatus, GrayStatus
  <2> HIDE DEF age
  <2>4. gray \in GrayStatus
    BY <2>1, <2>2 DEF GrayStatus
  <2> HIDE DEF gray
  <2>5. QED
    BY <2>3, <2>4 DEF IHPAStatus
<1>3. QED
  BY <1>1, <1>2

-----------------------------------------------------------------------------
(***************************************************************************)
(* The actions keep the types.                                             *)
(***************************************************************************)

\* The head of a reconcile.
LEMMA BeginTyped ==
  ASSUME TypeInv, BeginNothingToDo \/ BeginDeletion \/ BeginFirst \/ BeginAgain
  PROVE  TypeInv'
<1> USE DEF TypeInv, Begin, cacheVars
<1>1. cachedIhpa \in Autoscaler /\ cachedIhpa.status \in IHPAStatus
  BY AutoscalerParts DEF CacheTyped
<1>2. /\ AutoscalerTyped' /\ ProfileTyped' /\ CacheTyped' /\ WakeTyped' /\ AroundTyped'
  BY DEF BeginNothingToDo, BeginDeletion, BeginFirst, BeginAgain, AutoscalerTyped, ProfileTyped,
         CacheTyped, WakeTyped, AroundTyped
<1>3. CASE BeginNothingToDo
  BY <1>2, <1>3 DEF BeginNothingToDo, localVars, CopyTyped
<1>4. CASE BeginDeletion \/ BeginFirst \/ BeginAgain
  <2>1. /\ pc' \in {"removeFinalizer", "addFinalizer", "pause", "fetch"}
        /\ copy' = cachedIhpa /\ original' = cachedIhpa.status /\ conflict' = lagging
        /\ remain' = remain
    BY <1>4 DEF BeginDeletion, BeginFirst, BeginAgain, Take, AfterFinalizer
  <2>2. CopyTyped'
    BY <1>1, <2>1 DEF CopyTyped, AutoscalerTyped, ProgramCounters
  <2>3. QED
    BY <1>2, <2>2
<1>5. QED
  BY <1>3, <1>4

\* The patches of the finalizer.
LEMMA FinalizerTyped ==
  ASSUME TypeInv, RemoveFinalizer \/ AddFinalizer \/ FinalizerPatchMisses
  PROVE  TypeInv'
<1> USE DEF TypeInv, cacheVars
<1>1. ihpa \in Autoscaler
  BY DEF AutoscalerTyped
<1>2. /\ [ihpa EXCEPT !.finalizer = TRUE] \in Autoscaler
      /\ [ihpa EXCEPT !.finalizer = FALSE] \in Autoscaler
  BY <1>1 DEF Autoscaler
<1>3. CacheTyped' /\ AroundTyped' /\ ProfileTyped'
  BY LeaveProfileTyped
  DEF RemoveFinalizer, AddFinalizer, FinalizerPatchMisses, CacheTyped, AroundTyped, LeaveProfile
<1>4. CASE RemoveFinalizer
  <2>1. AutoscalerTyped'
    BY <1>2, <1>4, ConstantsTyped DEF RemoveFinalizer, AutoscalerTyped
  <2>2. WakeTyped' /\ CopyTyped'
    BY <1>4, DoneTyped DEF RemoveFinalizer
  <2>3. QED
    BY <1>3, <2>1, <2>2
<1>5. CASE AddFinalizer
  <2>1. /\ ihpa' = [ihpa EXCEPT !.finalizer = TRUE] /\ lagging' = TRUE
        /\ copy' = ihpa' /\ original' = ihpa'.status
        /\ pc' \in {"pause", "fetch"} /\ conflict' = FALSE /\ remain' = remain
    BY <1>5 DEF AddFinalizer, AfterFinalizer
  <2>2. AutoscalerTyped' /\ ihpa'.status \in IHPAStatus
    BY <1>2, <2>1, AutoscalerParts DEF AutoscalerTyped
  <2>3. CopyTyped'
    BY <2>1, <2>2 DEF CopyTyped, AutoscalerTyped, ProgramCounters
  <2>4. WakeTyped'
    BY <1>5 DEF AddFinalizer, WakeTyped
  <2>5. QED
    BY <1>3, <2>2, <2>3, <2>4
<1>6. CASE FinalizerPatchMisses
  <2>1. AutoscalerTyped'
    BY <1>6 DEF FinalizerPatchMisses, AutoscalerTyped
  <2>2. WakeTyped' /\ CopyTyped'
    BY <1>6, DoneTyped DEF FinalizerPatchMisses
  <2>3. QED
    BY <1>3, <2>1, <2>2
<1>7. QED
  BY <1>4, <1>5, <1>6

\* A paused autoscaler.
LEMMA PauseTyped ==
  ASSUME TypeInv, Pause \/ PauseMisses \/ PauseReport
  PROVE  TypeInv'
<1> USE DEF TypeInv
<1>1. copy \in Autoscaler /\ copy.status \in IHPAStatus /\ 0 \in 0 .. MaxAge
  BY AutoscalerParts, ConstantsTyped DEF CopyTyped
<1>2. CASE Pause
  <2>1. [rp EXCEPT !.spec.paused = TRUE] \in ReplicaProfile
    BY DEF ProfileTyped, ReplicaProfile, ProfileSpec
  <2>2. ProfileTyped'
    BY <1>2, <2>1, WriteProfileTyped, LeaveProfileTyped DEF Pause
  <2>3. QED
    BY <1>2, <2>2
    DEF Pause, AutoscalerTyped, CacheTyped, WakeTyped, CopyTyped, AroundTyped, ProgramCounters
<1>3. CASE PauseMisses
  <2>1. AutoscalerTyped'
    BY <1>1, <1>3, ErrorOutTyped, FailedTyped DEF PauseMisses
  <2>2. WakeTyped' /\ CopyTyped' /\ ProfileTyped'
    BY <1>3, DoneTyped, LeaveProfileTyped DEF PauseMisses
  <2>3. QED
    BY <1>3, <2>1, <2>2 DEF PauseMisses, CacheTyped, AroundTyped
<1>4. CASE PauseReport
  <2>1. PausedStatus \in IHPAStatus
    BY <1>1, WithConditionTyped DEF PausedStatus, Reasons
  <2>2. AutoscalerTyped' /\ WakeTyped' /\ CopyTyped' /\ ProfileTyped'
    BY <1>1, <1>4, <2>1, StoreStatusAndReturnTyped, LeaveProfileTyped DEF PauseReport
  <2>3. QED
    BY <1>4, <2>2 DEF PauseReport, CacheTyped, AroundTyped
<1>5. QED
  BY <1>2, <1>3, <1>4

\* Fetching the value and storing it.
LEMMA FetchTyped ==
  ASSUME TypeInv,
         \/ FetchNothing \/ FetchNothingUnrecorded \/ Fetch
         \/ StoreValue \/ StoreValueConflict
  PROVE  TypeInv'
<1> USE DEF TypeInv, cacheVars
<1>1. copy \in Autoscaler /\ copy.status \in IHPAStatus
  BY AutoscalerParts DEF CopyTyped
<1>2. CASE FetchNothing
  <2>1. WithCondition(copy.status, "active", "NoValue") \in IHPAStatus
    BY <1>1, WithConditionTyped DEF Reasons
  <2>2. AutoscalerTyped'
    BY <1>2, <2>1, ErrorOutTyped DEF FetchNothing
  <2>3. WakeTyped' /\ CopyTyped' /\ ProfileTyped'
    BY <1>2, DoneTyped, LeaveProfileTyped DEF FetchNothing
  <2>4. QED
    BY <1>2, <2>2, <2>3 DEF FetchNothing, CacheTyped, AroundTyped
<1>3. CASE FetchNothingUnrecorded
  <2>1. WakeTyped' /\ CopyTyped'
    BY <1>3, DoneTyped DEF FetchNothingUnrecorded
  <2>2. AroundTyped'
    BY <1>3, SpendTyped, MostEditsFacts DEF FetchNothingUnrecorded, AroundTyped, TroubleKinds
  <2>3. QED
    BY <1>3, <2>1, <2>2
    DEF FetchNothingUnrecorded, AutoscalerTyped, ProfileTyped, CacheTyped
<1>4. CASE Fetch
  <2>1. portrait \in PortraitValue
    BY <1>4 DEF Fetch, AroundTyped
  <2>2. CopyTyped'
    <3>1. CASE copy.status.current = portrait
      BY <1>4, <3>1 DEF Fetch, CopyTyped, ProgramCounters
    <3>2. CASE copy.status.current # portrait
      <4> DEFINE adopted == Adopted(copy.spec, copy.status, portrait)
      <4>1. adopted \in IHPAStatus /\ adopted.current = portrait
        BY <1>1, <2>1, AdoptedTyped
      <4>2. copy' = [copy EXCEPT !.status = adopted] /\ pc' = "storeValue"
        BY <1>4, <3>2 DEF Fetch
      <4> HIDE DEF adopted
      <4>3. copy' \in Autoscaler /\ copy'.status = adopted
        BY <1>1, <4>1, <4>2, WithStatusTyped
      <4>4. copy'.status.current # Nil
        BY <1>4, <4>1, <4>3 DEF Fetch
      <4>5. QED
        BY <1>4, <4>2, <4>3, <4>4 DEF Fetch, CopyTyped, ProgramCounters
    <3>3. QED
      BY <3>1, <3>2
  <2>3. QED
    BY <1>4, <2>2 DEF Fetch, AutoscalerTyped, ProfileTyped, CacheTyped, WakeTyped, AroundTyped
<1>5. CASE StoreValue
  <2>1. AutoscalerTyped'
    BY <1>1, <1>5, StoreStatusTyped DEF StoreValue
  <2>2. /\ Stored(copy.status) \in IHPAStatus
        /\ Stored(copy.status).current # Nil
    BY <1>1, <1>5, StoredTyped DEF StoreValue, CopyTyped
  <2>3. copy' = [copy EXCEPT !.status = Stored(copy.status)]
    BY <1>5 DEF StoreValue
  <2>4. copy' \in Autoscaler /\ copy'.status = Stored(copy.status)
    BY <1>1, <2>2, <2>3, WithStatusTyped
  <2>5. CopyTyped'
    BY <1>5, <2>2, <2>4 DEF StoreValue, CopyTyped, ProgramCounters
  <2>6. QED
    BY <1>5, <2>1, <2>5, LeaveProfileTyped DEF StoreValue, CacheTyped, WakeTyped, AroundTyped
<1>6. CASE StoreValueConflict
  <2>1. WakeTyped' /\ CopyTyped'
    BY <1>6, DoneTyped DEF StoreValueConflict
  <2>2. QED
    BY <1>6, <2>1
    DEF StoreValueConflict, AutoscalerTyped, ProfileTyped, CacheTyped, AroundTyped
<1>7. QED
  BY <1>2, <1>3, <1>4, <1>5, <1>6

\* What a patch makes of a profile is a profile spec.
LEMMA PatchedTyped ==
  ASSUME Wanted \in ProfileSpec, rp \in ReplicaProfile
  PROVE  Patched \in ProfileSpec
<1> DEFINE w == Wanted
           s == rp.spec
           c == cachedRp.spec
<1>1. w \in ProfileSpec /\ s \in ProfileSpec
  BY DEF ReplicaProfile
<1>2. DOMAIN w = {"online", "cutoff", "standby", "paused", "direction", "behavior"}
  BY <1>1 DEF ProfileSpec
<1>3. Patched = [f \in DOMAIN w |-> IF c[f] = w[f] THEN s[f] ELSE w[f]]
  BY DEF Patched
<1> HIDE DEF w, s, c
<1>4. [f \in DOMAIN w |-> IF c[f] = w[f] THEN s[f] ELSE w[f]] \in ProfileSpec
  BY <1>1, <1>2 DEF ProfileSpec
<1>5. QED
  BY <1>3, <1>4

\* Creating, patching or keeping the profile.
LEMMA GenerateActionsTyped ==
  ASSUME TypeInv,
         \/ GeneratePanics \/ CreateProfile \/ KeepProfile \/ PatchProfile \/ ProfileCallMisses
  PROVE  TypeInv'
<1> USE DEF TypeInv, cacheVars
<1>1. copy \in Autoscaler /\ rp \in ReplicaProfile
  BY DEF CopyTyped, ProfileTyped
<1>2. ASSUME NEW online, Generate, ReportNext(online), ProfileTyped'
      PROVE  TypeInv'
  <2>1. ProgressingStatus(online) \in IHPAStatus /\ Generated.remain \in 0 .. MaxAge
    BY <1>2, GeneratedTyped
  <2>2. copy' = [copy EXCEPT !.status = ProgressingStatus(online)]
    BY <1>2 DEF ReportNext
  <2>3. copy' \in Autoscaler
    BY <1>1, <2>1, <2>2, WithStatusTyped
  <2>4. CopyTyped'
    BY <1>2, <2>1, <2>3 DEF ReportNext, CopyTyped, ProgramCounters
  <2>5. QED
    BY <1>2, <2>4 DEF ReportNext, AutoscalerTyped, CacheTyped, WakeTyped, AroundTyped
<1>3. CASE GeneratePanics
  <2>1. WakeTyped' /\ CopyTyped'
    BY <1>3, DoneTyped DEF GeneratePanics
  <2>2. QED
    BY <1>3, <2>1
    DEF GeneratePanics, AutoscalerTyped, ProfileTyped, CacheTyped, AroundTyped
<1>4. CASE CreateProfile
  <2> DEFINE new == [exists |-> TRUE, owner |-> copy.uid, deleting |-> FALSE, spec |-> Wanted]
  <2>1. Wanted \in ProfileSpec /\ copy.uid \in Nat
    BY <1>1, <1>4, GeneratedTyped, AutoscalerParts DEF CreateProfile
  <2>2. new \in ReplicaProfile
    BY <2>1 DEF ReplicaProfile
  <2>3. WriteProfile(new)
    BY <1>4 DEF CreateProfile
  <2> HIDE DEF new
  <2>4. ProfileTyped'
    BY <2>2, <2>3, WriteProfileTyped
  <2>5. QED
    BY <1>2, <1>4, <2>4 DEF CreateProfile
<1>5. CASE KeepProfile
  BY <1>2, <1>5, LeaveProfileTyped DEF KeepProfile
<1>6. CASE PatchProfile
  <2>1. Patched \in ProfileSpec
    BY <1>1, <1>6, GeneratedTyped, PatchedTyped DEF PatchProfile, NeedsPatch
  <2>2. [rp EXCEPT !.spec = Patched] \in ReplicaProfile
    BY <1>1, <2>1 DEF ReplicaProfile
  <2>3. ProfileTyped'
    BY <1>6, <2>2, WriteProfileTyped DEF PatchProfile
  <2>4. QED
    BY <1>2, <1>6, <2>3 DEF PatchProfile, NeedsPatch
<1>7. CASE ProfileCallMisses
  <2>1. Failed(GeneratedStatus) \in IHPAStatus
    BY <1>1, <1>7, GeneratedTyped, FailedTyped DEF ProfileCallMisses, NeedsPatch
  <2>2. AutoscalerTyped' /\ WakeTyped' /\ CopyTyped' /\ ProfileTyped'
    BY <1>7, <2>1, ErrorOutTyped, DoneTyped, LeaveProfileTyped DEF ProfileCallMisses
  <2>3. QED
    BY <1>7, <2>2 DEF ProfileCallMisses, CacheTyped, AroundTyped
<1>8. QED
  BY <1>3, <1>4, <1>5, <1>6, <1>7

\* The preview, and the report at the end.
LEMMA ReportTyped ==
  ASSUME TypeInv, DeleteProfile \/ Report
  PROVE  TypeInv'
<1> USE DEF TypeInv
<1>1. copy \in Autoscaler /\ copy.status \in IHPAStatus
  BY AutoscalerParts DEF CopyTyped
<1>2. CASE DeleteProfile
  <2>1. [rp EXCEPT !.deleting = TRUE] \in ReplicaProfile
    BY DEF ProfileTyped, ReplicaProfile
  <2>2. ProfileTyped'
    BY <1>2, <2>1, WriteProfileTyped, LeaveProfileTyped DEF DeleteProfile
  <2>3. QED
    BY <1>2, <2>2
    DEF DeleteProfile, AutoscalerTyped, CacheTyped, WakeTyped, CopyTyped, AroundTyped,
        ProgramCounters
<1>3. CASE Report
  <2>1. FinalStatus \in IHPAStatus /\ remain \in 0 .. MaxAge
    BY <1>1, WithConditionTyped DEF FinalStatus, Reasons, CopyTyped
  <2>2. AutoscalerTyped' /\ WakeTyped' /\ CopyTyped' /\ ProfileTyped'
    BY <1>3, <2>1, StoreStatusAndReturnTyped, LeaveProfileTyped DEF Report
  <2>3. QED
    BY <1>3, <2>2 DEF Report, CacheTyped, AroundTyped
<1>4. QED
  BY <1>2, <1>3

\* Failed calls and a restart.
LEMMA FailuresTyped ==
  ASSUME TypeInv, CallFails \/ Restart
  PROVE  TypeInv'
<1> USE DEF TypeInv
<1>1. copy \in Autoscaler /\ copy.status \in IHPAStatus
  BY AutoscalerParts DEF CopyTyped
<1>2. AroundTyped'
  BY SpendTyped, MostEditsFacts DEF CallFails, Restart, AroundTyped, TroubleKinds
<1>3. CASE CallFails
  <2>1. AutoscalerTyped'
    <3>1. CASE GenerateCallNext /\ ErrorOut(Failed(GeneratedStatus))
      <4>1. Failed(GeneratedStatus) \in IHPAStatus
        BY <1>1, <3>1, GeneratedTyped, FailedTyped DEF GenerateCallNext
      <4>2. QED
        BY <3>1, <4>1, ErrorOutTyped
    <3>2. CASE ErrorOut(Failed(copy.status))
      BY <1>1, <3>2, FailedTyped, ErrorOutTyped
    <3>3. CASE LeaveStatus
      BY <3>3 DEF LeaveStatus, AutoscalerTyped
    <3>4. QED
      BY <1>3, <3>1, <3>2, <3>3 DEF CallFails
  <2>2. WakeTyped' /\ CopyTyped' /\ ProfileTyped'
    BY <1>3, DoneTyped, LeaveProfileTyped DEF CallFails
  <2>3. QED
    BY <1>2, <1>3, <2>1, <2>2 DEF CallFails, CacheTyped
<1>4. CASE Restart
  <2>1. CopyTyped'
    BY <1>4, IdleTyped DEF Restart
  <2>2. WakeTyped'
    <3>1. (ihpa.exists \/ rp.exists) \in BOOLEAN
      OBVIOUS
    <3>2. QED
      BY <1>4, <3>1 DEF Restart, WakeTyped
  <2>3. QED
    BY <1>2, <1>4, <2>1, <2>2 DEF Restart, AutoscalerTyped, ProfileTyped, CacheTyped
<1>5. QED
  BY <1>3, <1>4

\* The watches and the clock.
LEMMA DeliverTyped ==
  ASSUME TypeInv, DeliverIhpa \/ DeliverRp
  PROVE  TypeInv'
BY DEF DeliverIhpa, DeliverRp, TypeInv, AutoscalerTyped, ProfileTyped, CacheTyped, WakeTyped,
       CopyTyped, AroundTyped, localVars

LEMMA TickTyped ==
  ASSUME TypeInv, Tick
  PROVE  TypeInv'
<1> USE DEF TypeInv
<1>1. MaxAge \in Nat
  BY ConstantsTyped
<1>2. /\ ihpa \in Autoscaler /\ cachedIhpa \in Autoscaler /\ copy \in Autoscaler
      /\ original \in IHPAStatus
  BY DEF AutoscalerTyped, CacheTyped, CopyTyped
<1>3. /\ ihpa.status \in IHPAStatus /\ cachedIhpa.status \in IHPAStatus
      /\ copy.status \in IHPAStatus
  BY <1>2, AutoscalerParts
<1>4. /\ ihpa' = [ihpa EXCEPT !.status = Aged(ihpa.status)]
      /\ cachedIhpa' = [cachedIhpa EXCEPT !.status = Aged(cachedIhpa.status)]
      /\ copy' = [copy EXCEPT !.status = Aged(copy.status)]
      /\ original' = Aged(original)
  BY DEF Tick
<1>5. /\ ihpa' \in Autoscaler /\ cachedIhpa' \in Autoscaler /\ original' \in IHPAStatus
  BY <1>2, <1>3, <1>4, AgedTyped, WithStatusTyped
<1>6. copy' \in Autoscaler /\ copy'.status.current = copy.status.current
  BY <1>2, <1>3, <1>4, AgedTyped, WithStatusTyped
<1>7. AutoscalerTyped' /\ CopyTyped' /\ CacheTyped'
  BY <1>5, <1>6 DEF Tick, AutoscalerTyped, CopyTyped, CacheTyped
<1>8. ProfileTyped'
  BY <1>1 DEF Tick, ProfileTyped, LesserOf
<1>9. timer' \in 1 .. MaxAge \union {Nil} /\ queued' \in BOOLEAN
  <2>1. CASE timer \in {Nil, 1}
    BY <2>1 DEF Tick, WakeTyped
  <2>2. CASE timer \notin {Nil, 1}
    BY <1>1, <2>2 DEF Tick, WakeTyped
  <2>3. QED
    BY <2>1, <2>2
<1>10. QED
  BY <1>7, <1>8, <1>9 DEF Tick, WakeTyped, AroundTyped

\* Edits, deletion and creation of the autoscaler.
LEMMA OwnTyped ==
  ASSUME TypeInv, Own
  PROVE  TypeInv'
<1> USE DEF TypeInv
<1>1. Specs \subseteq IHPASpec /\ NextGeneration \in Nat
  BY ConstantsAssumption, NextGenerationTyped DEF ConstantsAssumption
<1>2. ASSUME NEW new \in Autoscaler, WriteIhpa(new)
      PROVE  TypeInv'
  <2>1. AroundTyped'
    BY <1>2, SpendTyped, MostEditsFacts DEF WriteIhpa, AroundTyped, TroubleKinds
  <2>2. (pc # "idle") \in BOOLEAN
    OBVIOUS
  <2>3. QED
    BY <1>2, <2>1, <2>2, LeaveProfileTyped
    DEF WriteIhpa, AutoscalerTyped, CacheTyped, WakeTyped, CopyTyped
<1>3. ihpa \in Autoscaler
  BY DEF AutoscalerTyped
<1>4. ASSUME NEW s \in Specs, EditIhpa(s)
      PROVE  TypeInv'
  <2>1. [ihpa EXCEPT !.spec = s, !.generation = NextGeneration] \in Autoscaler
    BY <1>1, <1>3 DEF Autoscaler
  <2>2. QED
    BY <1>2, <1>4, <2>1 DEF EditIhpa
<1>5. CASE DeleteIhpa
  <2>1. [ihpa EXCEPT !.deleting = TRUE, !.generation = NextGeneration] \in Autoscaler
    BY <1>1, <1>3 DEF Autoscaler
  <2>2. QED
    BY <1>2, <1>5, <2>1, ConstantsTyped DEF DeleteIhpa
<1>6. ASSUME NEW s \in Specs, CreateIhpa(s)
      PROVE  TypeInv'
  <2>1. NewAutoscaler(NextGeneration, s) \in Autoscaler
    BY <1>1, NewAutoscalerTyped
  <2>2. QED
    BY <1>2, <1>6, <2>1 DEF CreateIhpa
<1>7. QED
  BY <1>4, <1>5, <1>6 DEF Own

\* What others do to the portrait and to the profile.
LEMMA OthersTyped ==
  ASSUME TypeInv,
         \/ CollectProfile \/ ProfileGoes
         \/ \E v \in Portraits : PortraitChanges(v)
         \/ \E n \in ByHand : EditProfile(n)
  PROVE  TypeInv'
<1> USE DEF TypeInv, cacheVars, localVars
<1>1. rp \in ReplicaProfile
  BY DEF ProfileTyped
<1>2. Portraits \subseteq PortraitValue \union {Nil} /\ ByHand \subseteq Nat
  BY ConstantsAssumption DEF ConstantsAssumption
<1>3. CASE CollectProfile
  <2>1. [rp EXCEPT !.deleting = TRUE] \in ReplicaProfile
    BY <1>1 DEF ReplicaProfile
  <2>2. ProfileTyped'
    BY <1>3, <2>1, WriteProfileTyped DEF CollectProfile
  <2>3. QED
    BY <1>3, <2>2
    DEF CollectProfile, AutoscalerTyped, CacheTyped, WakeTyped, CopyTyped, AroundTyped
<1>4. CASE ProfileGoes
  <2>1. ProfileTyped'
    BY <1>4, ConstantsTyped, WriteProfileTyped DEF ProfileGoes
  <2>2. QED
    BY <1>4, <2>1
    DEF ProfileGoes, AutoscalerTyped, CacheTyped, WakeTyped, CopyTyped, AroundTyped
<1>5. ASSUME NEW v \in Portraits, PortraitChanges(v)
      PROVE  TypeInv'
  <2>1. AroundTyped'
    BY <1>2, <1>5, SpendTyped, MostEditsFacts DEF PortraitChanges, AroundTyped, TroubleKinds
  <2>2. QED
    BY <1>5, <2>1
    DEF PortraitChanges, AutoscalerTyped, ProfileTyped, CacheTyped, WakeTyped, CopyTyped
<1>6. ASSUME NEW n \in ByHand, EditProfile(n)
      PROVE  TypeInv'
  <2>1. [rp EXCEPT !.spec.online = n] \in ReplicaProfile
    BY <1>1, <1>2 DEF ReplicaProfile, ProfileSpec
  <2>2. ProfileTyped'
    BY <1>6, <2>1, WriteProfileTyped DEF EditProfile
  <2>3. AroundTyped'
    BY <1>6, SpendTyped, MostEditsFacts DEF EditProfile, AroundTyped, TroubleKinds
  <2>4. QED
    BY <1>6, <2>2, <2>3 DEF EditProfile, AutoscalerTyped, CacheTyped, WakeTyped, CopyTyped
<1>7. QED
  BY <1>3, <1>4, <1>5, <1>6

\* The types hold at first.
LEMMA InitTyped ==
  ASSUME Init
  PROVE  TypeInv
<1>1. /\ Specs \subseteq IHPASpec /\ Portraits \subseteq PortraitValue \union {Nil}
      /\ Troubles \subseteq [TroubleKinds -> Nat]
      /\ 0 \in 0 .. MaxAge /\ MaxAge \in 0 .. MaxAge
  BY ConstantsAssumption, ConstantsTyped DEF ConstantsAssumption
<1>2. ihpa \in Autoscaler /\ AutoscalerTyped
  BY <1>1, NewAutoscalerTyped DEF Init, AutoscalerTyped
<1>3. ProfileTyped /\ CacheTyped /\ WakeTyped
  BY <1>1, ConstantsTyped DEF Init, ProfileTyped, CacheTyped, WakeTyped
<1>4. CopyTyped
  BY <1>1, ConstantsTyped DEF Init, CopyTyped, ProgramCounters
<1>5. AroundTyped
  BY <1>1, MostEditsFacts DEF Init, AroundTyped
<1>6. QED
  BY <1>2, <1>3, <1>4, <1>5 DEF TypeInv

\* Every step keeps the types.
LEMMA StepTyped ==
  ASSUME TypeInv, [Next]_vars
  PROVE  TypeInv'
<1>1. CASE UNCHANGED vars
  BY <1>1
  DEF vars, cacheVars, localVars, TypeInv, AutoscalerTyped, ProfileTyped, CacheTyped, WakeTyped,
      CopyTyped, AroundTyped
<1>2. CASE Reconcile
  BY <1>2, BeginTyped, FinalizerTyped, PauseTyped, FetchTyped, GenerateActionsTyped, ReportTyped
  DEF Reconcile
<1>3. CASE Disturb
  BY <1>3, FailuresTyped, FetchTyped, OthersTyped DEF Disturb
<1>4. CASE Next /\ ~ Reconcile /\ ~ Disturb
  BY <1>4, DeliverTyped, TickTyped, OwnTyped, OthersTyped DEF Next
<1>5. QED
  BY <1>1, <1>2, <1>3, <1>4 DEF Next

(***************************************************************************)
(* Every variable keeps its type: in particular the replicas the           *)
(* controller asks for are never negative, whatever bounds, strategies and *)
(* portrait values it meets, and no wait is beyond the longest.            *)
(***************************************************************************)
THEOREM TypeCorrect == Spec => []TypeOK
<1>1. Init => TypeInv
  BY InitTyped
<1>2. TypeInv /\ [Next]_vars => TypeInv'
  BY StepTyped
<1>3. TypeInv => TypeOK
  BY DEF TypeInv, AutoscalerTyped, ProfileTyped, CacheTyped, WakeTyped, CopyTyped, AroundTyped,
         TypeOK
<1>4. QED
  BY <1>1, <1>2, <1>3, PTL DEF Spec

-----------------------------------------------------------------------------
(***************************************************************************)
(* At rest the condition tells of the latest spec.  An edit takes a new    *)
(* generation, so every copy of an older autoscaler is told from the       *)
(* stored one by its generation: a wake-up is queued or still to come      *)
(* while the cached copy is older (Pending).  A reconcile that leaves      *)
(* without retrying has recorded the generation of its copy or found it    *)
(* recorded, but for one that found no portrait value (Unpromised).        *)
(***************************************************************************)
Live == ihpa.exists /\ ~ ihpa.deleting
Pending == queued \/ cachedIhpa.generation # ihpa.generation
Recorded == ihpa.status.active.generation = ihpa.generation
Unpromised == portrait = Nil /\ ~ ihpa.spec.paused

\* A copy of the stored generation tells of the stored autoscaler, and what it came with
\* as recorded is recorded.
CopyTells(a, status) ==
  ihpa.exists /\ a.generation = ihpa.generation =>
    /\ a.exists
    /\ a.deleting <=> ihpa.deleting
    /\ a.spec.paused <=> ihpa.spec.paused
    /\ status.active.generation = a.generation => Recorded

\* Every generation was given by an edit, and the next edit gives a new one.
GenerationsOld ==
  /\ ihpa.generation < NextGeneration
  /\ cachedIhpa.generation < NextGeneration
  /\ copy.generation < NextGeneration

CacheTells ==
  /\ ~ lagging => cachedIhpa = ihpa
  /\ CopyTells(cachedIhpa, cachedIhpa.status)

\* What a reconcile in flight works on.
ReconcileTells ==
  pc # "idle" =>
    /\ CopyTells(copy, original)
    /\ ~ conflict /\ ihpa.exists =>
         /\ copy.generation = ihpa.generation
         /\ original.active = ihpa.status.active
    /\ pc = "removeFinalizer" => copy.deleting
    /\ pc = "fetch" => ~ copy.spec.paused
    /\ pc \in {"fetch", "storeValue"} => copy.status.active = original.active
    /\ Live => Pending \/ copy.generation = ihpa.generation

LatestInv ==
  /\ GenerationsOld
  /\ CacheTells
  /\ ReconcileTells
  /\ Live /\ pc = "idle" => Pending \/ Recorded \/ Unpromised

\* The stored autoscaler stays the same object, and what is recorded stays recorded.
StaysRecorded ==
  /\ ihpa'.generation = ihpa.generation
  /\ ihpa'.exists <=> ihpa.exists
  /\ ihpa'.deleting <=> ihpa.deleting
  /\ ihpa'.spec = ihpa.spec
  /\ Recorded => Recorded'

SameView ==
  /\ cachedIhpa' = cachedIhpa
  /\ ~ lagging' => ~ lagging /\ ihpa' = ihpa
  /\ NextGeneration' = NextGeneration
  /\ portrait' = portrait
  /\ queued => queued'

\* Only an edit takes a generation.
LEMMA GenerationTaken ==
  ASSUME TypeInv, NEW kind \in TroubleKinds, Spend(kind)
  PROVE  NextGeneration' = IF kind = "edit" THEN NextGeneration + 1 ELSE NextGeneration
<1>1. left \in [TroubleKinds -> Nat] /\ "edit" \in TroubleKinds /\ MostEdits \in Nat
  BY MostEditsFacts DEF TypeInv, AroundTyped, TroubleKinds
<1>2. left' = [left EXCEPT ![kind] = left[kind] - 1]
  BY DEF Spend
<1>3. left'["edit"] = IF kind = "edit" THEN left["edit"] - 1 ELSE left["edit"]
  BY <1>1, <1>2
<1>4. /\ left["edit"] \in Nat
      /\ NextGeneration = 2 + MostEdits - left["edit"]
      /\ NextGeneration' = 2 + MostEdits - left'["edit"]
  BY <1>1 DEF NextGeneration
<1>5. QED
  BY <1>1, <1>3, <1>4

\* Generations are positive, so that of a reconcile that ended is old.
LEMMA NoGenerationOld ==
  ASSUME TypeInv
  PROVE  /\ NextGeneration \in Nat /\ NoAutoscaler.generation < NextGeneration
         /\ ~ NoAutoscaler.exists /\ NoAutoscaler.generation = 0
         /\ ihpa.generation \in Nat /\ cachedIhpa.generation \in Nat
         /\ copy.generation \in Nat
<1>1. NextGeneration \in Nat /\ NextGeneration >= 2
  BY NextGenerationTyped DEF TypeInv
<1>2. NoAutoscaler.generation = 0 /\ ~ NoAutoscaler.exists
  BY DEF NoAutoscaler
<1>3. ihpa \in Autoscaler /\ cachedIhpa \in Autoscaler /\ copy \in Autoscaler
  BY DEF TypeInv, AutoscalerTyped, CacheTyped, CopyTyped
<1>4. QED
  BY <1>1, <1>2, <1>3, AutoscalerParts

\* The copy in the cache goes on telling.
LEMMA CacheGoesOnTelling ==
  ASSUME CacheTells, StaysRecorded, SameView
  PROVE  CacheTells'
BY DEF CacheTells, CopyTells, StaysRecorded, SameView

\* A reconcile that ends, and has recorded what it read or is woken again.
LEMMA EndKeepsLatestInv ==
  ASSUME TypeInv, LatestInv, StaysRecorded, SameView, IdleLocals,
         queued' \/ (Live => Pending \/ Recorded' \/ Unpromised)
  PROVE  LatestInv'
<1>1. GenerationsOld'
  BY NoGenerationOld DEF LatestInv, GenerationsOld, StaysRecorded, SameView, IdleLocals
<1>2. CacheTells'
  BY CacheGoesOnTelling DEF LatestInv
<1>3. Live' => Pending' \/ Recorded' \/ Unpromised'
  BY DEF Live, Pending, Unpromised, StaysRecorded, SameView
<1>4. QED
  BY <1>1, <1>2, <1>3 DEF LatestInv, ReconcileTells, IdleLocals

\* Nothing is written.
LEMMA UnwrittenStaysRecorded ==
  ASSUME ihpa' = ihpa
  PROVE  StaysRecorded
BY DEF StaysRecorded, Recorded

\* A status is only stored by a reconcile of the stored autoscaler.
LEMMA StoringRecords ==
  ASSUME TypeInv, LatestInv, pc # "idle", NEW status \in IHPAStatus,
         status.active.generation = copy.generation, CanStoreStatus, StoreStatus(status)
  PROVE  StaysRecorded /\ Recorded' /\ (~ lagging' => ~ lagging /\ ihpa' = ihpa)
<1>1. copy.generation = ihpa.generation
  BY DEF LatestInv, ReconcileTells, CanStoreStatus
<1>2. ihpa \in Autoscaler /\ Stored(status) \in IHPAStatus /\ Stored(status).active = status.active
  BY StoredTyped DEF TypeInv, AutoscalerTyped
<1>3. /\ ihpa' = [ihpa EXCEPT !.status = Stored(status)]
      /\ lagging' = (lagging \/ Stored(status) # ihpa.status)
  BY DEF StoreStatus
<1>4. /\ ihpa'.generation = ihpa.generation
      /\ ihpa'.exists = ihpa.exists
      /\ ihpa'.deleting = ihpa.deleting
      /\ ihpa'.spec = ihpa.spec
      /\ ihpa'.status = Stored(status)
  BY <1>2, <1>3, WithStatusTyped
<1>5. Stored(status) = ihpa.status => ihpa' = ihpa
  BY <1>2, <1>3 DEF Autoscaler
<1>6. QED
  BY <1>1, <1>2, <1>3, <1>4, <1>5 DEF StaysRecorded, Recorded

\* An attempt to record a failure stores the generation of the copy, or nothing.
LEMMA ErrorOutStaysRecorded ==
  ASSUME TypeInv, LatestInv, pc # "idle", NEW status \in IHPAStatus,
         status.active.generation = copy.generation, ErrorOut(status)
  PROVE  StaysRecorded /\ (~ lagging' => ~ lagging /\ ihpa' = ihpa)
<1>1. CASE LeaveStatus
  BY <1>1, UnwrittenStaysRecorded DEF LeaveStatus
<1>2. CASE CanStoreStatus /\ StoreStatus(status)
  BY <1>2, StoringRecords
<1>3. QED
  BY <1>1, <1>2 DEF ErrorOut

\* What a reconcile finds recorded already is recorded, or it reconciled an old copy.
LEMMA FoundRecorded ==
  ASSUME LatestInv, Live, pc # "idle",
         original.active.generation = copy.generation
  PROVE  Pending \/ Recorded
BY DEF LatestInv, ReconcileTells, CopyTells, Live

\* The status update that ends a reconcile: stored, found recorded, or tried again.
LEMMA StoreAndReturnKeepsLatestInv ==
  ASSUME TypeInv, LatestInv, pc # "idle", NEW status \in IHPAStatus, NEW n,
         status.active.generation = copy.generation, StoreStatusAndReturn(status, n),
         cachedIhpa' = cachedIhpa, left' = left, portrait' = portrait
  PROVE  LatestInv'
<1>1. NextGeneration' = NextGeneration
  BY DEF NextGeneration
<1>2. CASE StatusUpToDate(status) /\ LeaveStatus /\ DoneAfter(n)
  <2>1. Live => Pending \/ Recorded
    BY <1>2, FoundRecorded DEF StatusUpToDate
  <2>2. StaysRecorded /\ SameView
    BY <1>1, <1>2, UnwrittenStaysRecorded DEF LeaveStatus, DoneAfter, SameView
  <2>3. IdleLocals
    BY <1>2 DEF DoneAfter
  <2>4. Live => Pending \/ Recorded'
    BY <2>1, <2>2 DEF StaysRecorded
  <2>5. QED
    BY <2>2, <2>3, <2>4, EndKeepsLatestInv
<1>3. CASE CanStoreStatus /\ StoreStatus(status) /\ DoneAfter(n)
  <2>1. StaysRecorded /\ Recorded' /\ (~ lagging' => ~ lagging /\ ihpa' = ihpa)
    BY <1>3, StoringRecords
  <2>2. SameView /\ IdleLocals
    BY <1>1, <1>3, <2>1 DEF DoneAfter, SameView
  <2>3. QED
    BY <2>1, <2>2, EndKeepsLatestInv
<1>4. CASE LeaveStatus /\ Retry
  BY <1>1, <1>4, UnwrittenStaysRecorded, EndKeepsLatestInv DEF LeaveStatus, Retry, SameView
<1>5. QED
  BY <1>2, <1>3, <1>4 DEF StoreStatusAndReturn

\* A failure that is recorded if possible, before a retry.
LEMMA ErrorOutAndRetryKeepsLatestInv ==
  ASSUME TypeInv, LatestInv, pc # "idle", NEW status \in IHPAStatus,
         status.active.generation = copy.generation, ErrorOut(status), Retry,
         cachedIhpa' = cachedIhpa, NextGeneration' = NextGeneration, portrait' = portrait
  PROVE  LatestInv'
<1>1. StaysRecorded /\ SameView
  BY ErrorOutStaysRecorded DEF SameView, Retry
<1>2. QED
  BY <1>1, EndKeepsLatestInv DEF Retry

\* A retry without anything written.
LEMMA RetryKeepsLatestInv ==
  ASSUME TypeInv, LatestInv, ihpa' = ihpa, cachedIhpa' = cachedIhpa, lagging' = lagging,
         NextGeneration' = NextGeneration, portrait' = portrait, Retry
  PROVE  LatestInv'
<1>1. StaysRecorded /\ SameView
  BY UnwrittenStaysRecorded DEF SameView, Retry
<1>2. QED
  BY <1>1, EndKeepsLatestInv DEF Retry

\* Steps of a reconcile that write nothing to the autoscaler.
LEMMA OwnWorkKeepsLatestInv ==
  ASSUME TypeInv, LatestInv, ihpa' = ihpa, cachedIhpa' = cachedIhpa, lagging' = lagging,
         queued' = queued, original' = original, conflict' = conflict, left' = left,
         portrait' = portrait,
         copy'.generation = copy.generation, copy'.exists = copy.exists,
         copy'.deleting = copy.deleting, copy'.spec = copy.spec,
         pc # "idle", pc' \notin {"idle", "removeFinalizer", "fetch"},
         pc' = "storeValue" => copy'.status.active = original.active
  PROVE  LatestInv'
<1>1. NextGeneration' = NextGeneration
  BY DEF NextGeneration
<1>2. GenerationsOld' /\ CacheTells'
  BY <1>1 DEF LatestInv, GenerationsOld, CacheTells, CopyTells, Recorded
<1>3. ReconcileTells'
  BY DEF LatestInv, ReconcileTells, CopyTells, Live, Pending, Recorded
<1>4. QED
  BY <1>2, <1>3 DEF LatestInv

\* The head of a reconcile: the copy is the cached one.
LEMMA BeginKeepsLatestInv ==
  ASSUME TypeInv, LatestInv, BeginNothingToDo \/ BeginDeletion \/ BeginFirst \/ BeginAgain
  PROVE  LatestInv'
<1> USE DEF Begin, cacheVars
<1>1. NextGeneration' = NextGeneration
  BY DEF BeginNothingToDo, BeginDeletion, BeginFirst, BeginAgain, NextGeneration
<1>2. CASE BeginNothingToDo
  <2>1. Live => cachedIhpa.generation # ihpa.generation
    BY <1>2 DEF BeginNothingToDo, LatestInv, CacheTells, CopyTells, Live
  <2>2. QED
    BY <1>1, <1>2, <2>1
    DEF BeginNothingToDo, localVars, LatestInv, GenerationsOld, CacheTells, ReconcileTells,
        CopyTells, Live, Pending, Recorded
<1>3. CASE BeginDeletion \/ BeginFirst \/ BeginAgain
  <2>1. /\ pc' \in {"removeFinalizer", "addFinalizer", "pause", "fetch"}
        /\ pc' = "removeFinalizer" => cachedIhpa.deleting
        /\ pc' = "fetch" => ~ cachedIhpa.spec.paused
        /\ copy' = cachedIhpa /\ original' = cachedIhpa.status /\ conflict' = lagging
        /\ ihpa' = ihpa /\ cachedIhpa' = cachedIhpa /\ lagging' = lagging
    BY <1>3 DEF BeginDeletion, BeginFirst, BeginAgain, Take, AfterFinalizer
  <2>2. GenerationsOld' /\ CacheTells'
    BY <1>1, <2>1 DEF LatestInv, GenerationsOld, CacheTells, CopyTells, Recorded
  <2>3. ReconcileTells'
    BY <2>1 DEF LatestInv, CacheTells, ReconcileTells, CopyTells, Live, Pending, Recorded
  <2>4. QED
    BY <2>1, <2>2, <2>3 DEF LatestInv
<1>4. QED
  BY <1>2, <1>3

\* The patches of the finalizer: a copy that is being deleted is not one of a live autoscaler.
LEMMA FinalizerKeepsLatestInv ==
  ASSUME TypeInv, LatestInv, RemoveFinalizer \/ AddFinalizer \/ FinalizerPatchMisses
  PROVE  LatestInv'
<1>1. NextGeneration' = NextGeneration
  BY DEF RemoveFinalizer, AddFinalizer, FinalizerPatchMisses, NextGeneration
<1>2. ihpa \in Autoscaler
  BY DEF TypeInv, AutoscalerTyped
<1>3. CASE RemoveFinalizer /\ ihpa.deleting
  <2>1. ihpa' = NoAutoscaler /\ IdleLocals /\ lagging' /\ cachedIhpa' = cachedIhpa
    BY <1>3 DEF RemoveFinalizer, Done, DoneAfter
  <2>2. ~ ihpa'.exists
    BY <2>1, NoGenerationOld
  <2>3. GenerationsOld'
    BY <1>1, <2>1, NoGenerationOld DEF LatestInv, GenerationsOld, IdleLocals
  <2>4. QED
    BY <2>1, <2>2, <2>3 DEF LatestInv, CacheTells, ReconcileTells, CopyTells, Live, IdleLocals
<1>4. CASE RemoveFinalizer /\ ~ ihpa.deleting
  <2>1. /\ ihpa' = [ihpa EXCEPT !.finalizer = FALSE]
        /\ IdleLocals /\ lagging' /\ cachedIhpa' = cachedIhpa /\ queued' = queued
        /\ portrait' = portrait /\ pc = "removeFinalizer" /\ ihpa.exists
    BY <1>4 DEF RemoveFinalizer, Done, DoneAfter
  <2>2. /\ ihpa'.generation = ihpa.generation
        /\ ihpa'.exists = ihpa.exists
        /\ ihpa'.deleting = ihpa.deleting
        /\ ihpa'.spec = ihpa.spec
        /\ ihpa'.status = ihpa.status
    BY <1>2, <2>1 DEF Autoscaler
  <2>3. StaysRecorded /\ SameView
    BY <1>1, <2>1, <2>2 DEF StaysRecorded, SameView, Recorded
  <2>4. Pending
    BY <1>4, <2>1 DEF LatestInv, ReconcileTells, CopyTells, Live
  <2>5. QED
    BY <2>1, <2>3, <2>4, EndKeepsLatestInv
<1>5. CASE AddFinalizer
  <2>1. /\ ihpa' = [ihpa EXCEPT !.finalizer = TRUE]
        /\ copy' = ihpa' /\ original' = ihpa'.status
        /\ pc' \in {"pause", "fetch"} /\ (pc' = "fetch" => ~ ihpa'.spec.paused)
        /\ lagging' /\ cachedIhpa' = cachedIhpa /\ queued' = queued /\ portrait' = portrait
    BY <1>5 DEF AddFinalizer, AfterFinalizer
  <2>2. /\ ihpa'.generation = ihpa.generation
        /\ ihpa'.exists = ihpa.exists
        /\ ihpa'.deleting = ihpa.deleting
        /\ ihpa'.spec = ihpa.spec
        /\ ihpa'.status = ihpa.status
    BY <1>2, <2>1 DEF Autoscaler
  <2>3. StaysRecorded /\ SameView
    BY <1>1, <2>1, <2>2 DEF StaysRecorded, SameView, Recorded
  <2>4. GenerationsOld'
    BY <1>1, <2>1, <2>2 DEF LatestInv, GenerationsOld
  <2>5. CacheTells'
    BY <2>3, CacheGoesOnTelling DEF LatestInv
  <2>6. ihpa'.exists => copy'.exists
    BY <2>1
  <2>7. ReconcileTells'
    BY <2>1, <2>6 DEF ReconcileTells, CopyTells, Recorded
  <2>8. QED
    BY <2>1, <2>4, <2>5, <2>7 DEF LatestInv
<1>6. CASE FinalizerPatchMisses
  BY <1>1, <1>6, RetryKeepsLatestInv DEF FinalizerPatchMisses, cacheVars
<1>7. QED
  BY <1>3, <1>4, <1>5, <1>6

\* A paused autoscaler.
LEMMA PauseKeepsLatestInv ==
  ASSUME TypeInv, LatestInv, Pause \/ PauseMisses \/ PauseReport
  PROVE  LatestInv'
<1>1. copy \in Autoscaler /\ copy.status \in IHPAStatus
  BY AutoscalerParts DEF TypeInv, CopyTyped
<1>2. CASE Pause
  BY <1>2, OwnWorkKeepsLatestInv DEF Pause
<1>3. CASE PauseMisses
  <2>1. /\ Failed(copy.status) \in IHPAStatus
        /\ Failed(copy.status).active.generation = copy.generation
    BY <1>1, FailedTyped
  <2>2. NextGeneration' = NextGeneration
    BY <1>3 DEF PauseMisses, NextGeneration
  <2>3. QED
    BY <1>3, <2>1, <2>2, ErrorOutAndRetryKeepsLatestInv DEF PauseMisses
<1>4. CASE PauseReport
  <2>1. /\ PausedStatus \in IHPAStatus
        /\ PausedStatus.active.generation = copy.generation
    BY <1>1, WithConditionTyped DEF PausedStatus, Reasons
  <2>2. QED
    BY <1>4, <2>1, StoreAndReturnKeepsLatestInv DEF PauseReport
<1>5. QED
  BY <1>2, <1>3, <1>4

\* Only a reconcile that finds no value for an autoscaler that is not paused may leave
\* without a record.
LEMMA NoValueIsUnpromised ==
  ASSUME LatestInv, NoValue, Live
  PROVE  Pending \/ Unpromised
BY DEF LatestInv, ReconcileTells, CopyTells, NoValue, Live, Unpromised

\* Fetching the value and storing it: the condition is not touched before the end.
LEMMA FetchKeepsLatestInv ==
  ASSUME TypeInv, LatestInv,
         \/ FetchNothing \/ FetchNothingUnrecorded \/ Fetch
         \/ StoreValue \/ StoreValueConflict
  PROVE  LatestInv'
<1>1. copy \in Autoscaler /\ copy.status \in IHPAStatus
  BY AutoscalerParts DEF TypeInv, CopyTyped
<1>2. NextGeneration' = NextGeneration
  <2>1. left' = left => NextGeneration' = NextGeneration
    BY DEF NextGeneration
  <2>2. QED
    BY <2>1, GenerationTaken
    DEF FetchNothing, FetchNothingUnrecorded, Fetch, StoreValue, StoreValueConflict, TroubleKinds
<1>3. CASE FetchNothing
  <2> DEFINE status == WithCondition(copy.status, "active", "NoValue")
  <2>1. status \in IHPAStatus /\ status.active.generation = copy.generation
    BY <1>1, WithConditionTyped DEF Reasons
  <2>2. ErrorOut(status) /\ DoneAfter(0)
    BY <1>3 DEF FetchNothing, Done
  <2> HIDE DEF status
  <2>3. /\ NoValue /\ pc # "idle"
        /\ cachedIhpa' = cachedIhpa /\ portrait' = portrait
    BY <1>3 DEF FetchNothing, NoValue
  <2>4. StaysRecorded /\ SameView
    BY <1>2, <2>1, <2>2, <2>3, ErrorOutStaysRecorded DEF SameView, DoneAfter
  <2>5. QED
    BY <2>2, <2>3, <2>4, NoValueIsUnpromised, EndKeepsLatestInv DEF DoneAfter
<1>4. CASE FetchNothingUnrecorded
  <2>1. StaysRecorded /\ SameView /\ IdleLocals
    BY <1>2, <1>4, UnwrittenStaysRecorded
    DEF FetchNothingUnrecorded, Done, DoneAfter, SameView, cacheVars
  <2>2. QED
    BY <1>4, <2>1, NoValueIsUnpromised, EndKeepsLatestInv DEF FetchNothingUnrecorded
<1>5. CASE Fetch
  <2>1. /\ copy'.generation = copy.generation /\ copy'.exists = copy.exists
        /\ copy'.deleting = copy.deleting /\ copy'.spec = copy.spec
        /\ copy'.status.active = copy.status.active
    <3>1. CASE copy' = copy
      BY <3>1
    <3>2. CASE copy' # copy
      <4> DEFINE adopted == Adopted(copy.spec, copy.status, portrait)
      <4>1. portrait \in PortraitValue
        BY <1>5 DEF Fetch, TypeInv, AroundTyped
      <4>2. adopted \in IHPAStatus /\ adopted.active = copy.status.active
        BY <1>1, <4>1, AdoptedTyped
      <4>3. copy' = [copy EXCEPT !.status = adopted]
        BY <1>5, <3>2 DEF Fetch
      <4> HIDE DEF adopted
      <4>4. QED
        BY <1>1, <4>2, <4>3, WithStatusTyped
    <3>3. QED
      BY <3>1, <3>2
  <2>2. copy.status.active = original.active
    BY <1>5 DEF Fetch, LatestInv, ReconcileTells
  <2>3. pc # "idle" /\ pc' \in {"act", "storeValue"}
    BY <1>5 DEF Fetch
  <2>4. QED
    BY <1>5, <2>1, <2>2, <2>3, OwnWorkKeepsLatestInv DEF Fetch, cacheVars
<1>6. CASE StoreValue
  <2> DEFINE stored == Stored(copy.status)
  <2>1. stored \in IHPAStatus /\ stored.active = copy.status.active
    BY <1>1, StoredTyped
  <2>2. /\ copy' = [copy EXCEPT !.status = stored] /\ original' = stored /\ pc' = "act"
        /\ ihpa' = [ihpa EXCEPT !.status = stored]
        /\ lagging' = (lagging \/ stored # ihpa.status)
        /\ cachedIhpa' = cachedIhpa /\ queued' = queued /\ conflict' = conflict
        /\ portrait' = portrait
    BY <1>6 DEF StoreValue, StoreStatus
  <2> HIDE DEF stored
  <2>3. ihpa \in Autoscaler
    BY DEF TypeInv, AutoscalerTyped
  <2>4. /\ ihpa'.generation = ihpa.generation /\ ihpa'.exists = ihpa.exists
        /\ ihpa'.deleting = ihpa.deleting /\ ihpa'.spec = ihpa.spec /\ ihpa'.status = stored
        /\ stored = ihpa.status => ihpa' = ihpa
    BY <2>1, <2>2, <2>3, WithStatusTyped DEF Autoscaler
  <2>5. /\ copy'.generation = copy.generation /\ copy'.exists = copy.exists
        /\ copy'.deleting = copy.deleting /\ copy'.spec = copy.spec
    BY <1>1, <2>1, <2>2, WithStatusTyped
  <2>6. /\ pc = "storeValue" /\ CanStoreStatus
    BY <1>6 DEF StoreValue
  <2>7. stored.active = ihpa.status.active /\ original.active = stored.active
    BY <2>1, <2>6 DEF LatestInv, ReconcileTells, CanStoreStatus
  <2>8. StaysRecorded /\ SameView
    BY <1>2, <2>2, <2>4, <2>7 DEF StaysRecorded, SameView, Recorded
  <2>9. GenerationsOld'
    BY <1>2, <2>2, <2>4, <2>5 DEF LatestInv, GenerationsOld
  <2>10. CacheTells'
    BY <2>8, CacheGoesOnTelling DEF LatestInv
  <2>11. ReconcileTells'
    BY <2>2, <2>4, <2>5, <2>6, <2>7
    DEF LatestInv, ReconcileTells, CopyTells, Live, Pending, Recorded
  <2>12. QED
    BY <2>2, <2>9, <2>10, <2>11 DEF LatestInv
<1>7. CASE StoreValueConflict
  BY <1>2, <1>7, RetryKeepsLatestInv DEF StoreValueConflict, cacheVars
<1>8. QED
  BY <1>3, <1>4, <1>5, <1>6, <1>7

\* What the failure of a generated profile records.
LEMMA GeneratedFailure ==
  ASSUME TypeInv, Generate
  PROVE  /\ Failed(GeneratedStatus) \in IHPAStatus
         /\ Failed(GeneratedStatus).active.generation = copy.generation
BY GeneratedTyped, FailedTyped DEF TypeInv, CopyTyped

\* Acting on the value, and the report.
LEMMA ActKeepsLatestInv ==
  ASSUME TypeInv, LatestInv,
         \/ GeneratePanics \/ CreateProfile \/ KeepProfile \/ PatchProfile \/ ProfileCallMisses
         \/ DeleteProfile \/ Report
  PROVE  LatestInv'
<1>1. copy \in Autoscaler /\ copy.status \in IHPAStatus
  BY AutoscalerParts DEF TypeInv, CopyTyped
<1>2. NextGeneration' = NextGeneration
  BY DEF GeneratePanics, CreateProfile, KeepProfile, PatchProfile, ProfileCallMisses,
         DeleteProfile, Report, ReportNext, NextGeneration
<1>3. ASSUME NEW online, Generate, ReportNext(online)
      PROVE  LatestInv'
  <2>1. ProgressingStatus(online) \in IHPAStatus
    BY <1>3, GeneratedTyped DEF TypeInv
  <2>2. copy' = [copy EXCEPT !.status = ProgressingStatus(online)]
    BY <1>3 DEF ReportNext
  <2>3. /\ copy'.generation = copy.generation /\ copy'.exists = copy.exists
        /\ copy'.deleting = copy.deleting /\ copy'.spec = copy.spec
    BY <1>1, <2>1, <2>2, WithStatusTyped
  <2>4. pc = "act"
    BY <1>3 DEF Generate, AutoMode
  <2>5. QED
    BY <1>3, <2>3, <2>4, OwnWorkKeepsLatestInv DEF ReportNext
<1>4. CASE GeneratePanics
  BY <1>2, <1>4, RetryKeepsLatestInv DEF GeneratePanics, cacheVars
<1>5. CASE CreateProfile \/ KeepProfile
  BY <1>3, <1>5 DEF CreateProfile, KeepProfile
<1>6. CASE PatchProfile
  BY <1>3, <1>6 DEF PatchProfile, NeedsPatch
<1>7. CASE ProfileCallMisses
  <2>1. Generate /\ pc # "idle"
    BY <1>7 DEF ProfileCallMisses, NeedsPatch, Generate, AutoMode
  <2>2. QED
    BY <1>2, <1>7, <2>1, GeneratedFailure, ErrorOutAndRetryKeepsLatestInv DEF ProfileCallMisses
<1>8. CASE DeleteProfile
  BY <1>8, OwnWorkKeepsLatestInv DEF DeleteProfile, PreviewMode
<1>9. CASE Report
  <2>1. FinalStatus \in IHPAStatus /\ FinalStatus.active.generation = copy.generation
    BY <1>1, WithConditionTyped DEF FinalStatus, Reasons
  <2>2. QED
    BY <1>9, <2>1, StoreAndReturnKeepsLatestInv DEF Report
<1>10. QED
  BY <1>4, <1>5, <1>6, <1>7, <1>8, <1>9

\* Failed calls and a restart.
LEMMA FailuresKeepLatestInv ==
  ASSUME TypeInv, LatestInv, CallFails \/ Restart
  PROVE  LatestInv'
<1>1. copy \in Autoscaler /\ copy.status \in IHPAStatus
  BY AutoscalerParts DEF TypeInv, CopyTyped
<1>2. NextGeneration' = NextGeneration
  BY GenerationTaken DEF CallFails, Restart, TroubleKinds
<1>3. CASE CallFails
  <2>1. /\ pc # "idle" /\ Retry /\ cachedIhpa' = cachedIhpa /\ portrait' = portrait
    BY <1>3
    DEF CallFails, GenerateCallNext, OtherCallNext, StatusCallNext, Generate, AutoMode, PreviewMode
  <2>2. CASE LeaveStatus
    BY <1>2, <2>1, <2>2, RetryKeepsLatestInv DEF LeaveStatus
  <2>3. CASE GenerateCallNext /\ ErrorOut(Failed(GeneratedStatus))
    BY <1>2, <2>1, <2>3, GeneratedFailure, ErrorOutAndRetryKeepsLatestInv DEF GenerateCallNext
  <2>4. CASE ErrorOut(Failed(copy.status))
    BY <1>1, <1>2, <2>1, <2>4, FailedTyped, ErrorOutAndRetryKeepsLatestInv
  <2>5. QED
    BY <1>3, <2>2, <2>3, <2>4 DEF CallFails
<1>4. CASE Restart
  <2>1. /\ ihpa' = ihpa /\ cachedIhpa' = ihpa /\ IdleLocals
        /\ ihpa.exists => queued'
    BY <1>4 DEF Restart
  <2>2. GenerationsOld'
    BY <1>2, <2>1, NoGenerationOld DEF LatestInv, GenerationsOld, IdleLocals
  <2>3. CacheTells'
    BY <2>1 DEF CacheTells, CopyTells, Recorded
  <2>4. QED
    BY <2>1, <2>2, <2>3 DEF LatestInv, ReconcileTells, IdleLocals, Live, Pending
<1>5. QED
  BY <1>3, <1>4

\* The watch queues an autoscaler of another generation.
LEMMA DeliverKeepsLatestInv ==
  ASSUME TypeInv, LatestInv, DeliverIhpa
  PROVE  LatestInv'
<1>1. /\ ihpa' = ihpa /\ cachedIhpa' = ihpa /\ pc' = pc /\ copy' = copy
      /\ original' = original /\ conflict' = conflict /\ portrait' = portrait
      /\ queued' = (queued \/ cachedIhpa.generation # ihpa.generation)
      /\ NextGeneration' = NextGeneration
  BY DEF DeliverIhpa, localVars, NextGeneration
<1>2. GenerationsOld'
  BY <1>1 DEF LatestInv, GenerationsOld
<1>3. CacheTells'
  BY <1>1 DEF CacheTells, CopyTells, Recorded
<1>4. /\ Live' <=> Live
      /\ Recorded' <=> Recorded
      /\ Unpromised' <=> Unpromised
      /\ Pending => Pending'
  BY <1>1 DEF Live, Recorded, Unpromised, Pending
<1>5. ReconcileTells'
  BY <1>1, <1>4 DEF LatestInv, ReconcileTells, CopyTells
<1>6. QED
  BY <1>1, <1>2, <1>3, <1>4, <1>5 DEF LatestInv

\* The ages in the stored status and in its copies grow alike, and nothing else does.
LEMMA TickKeepsLatestInv ==
  ASSUME TypeInv, LatestInv, Tick
  PROVE  LatestInv'
<1>1. /\ ihpa \in Autoscaler /\ cachedIhpa \in Autoscaler /\ copy \in Autoscaler
      /\ original \in IHPAStatus
  BY DEF TypeInv, AutoscalerTyped, CacheTyped, CopyTyped
<1>2. ASSUME NEW a \in Autoscaler, NEW b, b = [a EXCEPT !.status = Aged(a.status)]
      PROVE  /\ b.generation = a.generation /\ b.exists = a.exists
             /\ b.deleting = a.deleting /\ b.spec = a.spec
             /\ b.status.active = a.status.active
  <2>1. Aged(a.status) \in IHPAStatus /\ Aged(a.status).active = a.status.active
    BY AutoscalerParts, AgedTyped
  <2>2. QED
    BY <1>2, <2>1, WithStatusTyped
<1>3. /\ ihpa' = [ihpa EXCEPT !.status = Aged(ihpa.status)]
      /\ cachedIhpa' = [cachedIhpa EXCEPT !.status = Aged(cachedIhpa.status)]
      /\ copy' = [copy EXCEPT !.status = Aged(copy.status)]
      /\ original' = Aged(original)
      /\ lagging' = lagging /\ pc' = pc /\ conflict' = conflict /\ portrait' = portrait
      /\ NextGeneration' = NextGeneration /\ (queued => queued')
  BY DEF Tick, NextGeneration
<1>4. /\ ihpa'.generation = ihpa.generation /\ ihpa'.exists = ihpa.exists
      /\ ihpa'.deleting = ihpa.deleting /\ ihpa'.spec = ihpa.spec
      /\ ihpa'.status.active = ihpa.status.active
  BY <1>1, <1>2, <1>3
<1>5. /\ cachedIhpa'.generation = cachedIhpa.generation
      /\ cachedIhpa'.exists = cachedIhpa.exists
      /\ cachedIhpa'.deleting = cachedIhpa.deleting /\ cachedIhpa'.spec = cachedIhpa.spec
      /\ cachedIhpa'.status.active = cachedIhpa.status.active
  BY <1>1, <1>2, <1>3
<1>6. /\ copy'.generation = copy.generation /\ copy'.exists = copy.exists
      /\ copy'.deleting = copy.deleting /\ copy'.spec = copy.spec
      /\ copy'.status.active = copy.status.active
  BY <1>1, <1>2, <1>3
<1>7. original'.active = original.active
  BY <1>1, <1>3, AgedTyped
<1>8. cachedIhpa = ihpa => cachedIhpa' = ihpa'
  BY <1>3
<1>9. GenerationsOld'
  BY <1>3, <1>4, <1>5, <1>6 DEF LatestInv, GenerationsOld
<1>10. /\ Live' <=> Live
       /\ Recorded' <=> Recorded
       /\ Unpromised' <=> Unpromised
       /\ Pending => Pending'
  BY <1>3, <1>4, <1>5 DEF Live, Recorded, Unpromised, Pending
<1>11. CacheTells'
  BY <1>3, <1>4, <1>5, <1>8, <1>10 DEF LatestInv, CacheTells, CopyTells
<1>12. CopyTells(copy, original) => CopyTells(copy, original)'
  BY <1>4, <1>6, <1>7, <1>10 DEF CopyTells
<1>13. ReconcileTells'
  BY <1>3, <1>4, <1>6, <1>7, <1>10, <1>12 DEF LatestInv, ReconcileTells
<1>14. QED
  BY <1>3, <1>9, <1>10, <1>11, <1>13 DEF LatestInv

\* An edit, a deletion or a creation makes every copy an older one.
LEMMA OwnKeepsLatestInv ==
  ASSUME TypeInv, LatestInv, Own
  PROVE  LatestInv'
<1>1. ihpa \in Autoscaler
  BY DEF TypeInv, AutoscalerTyped
<1>2. /\ NextGeneration' = NextGeneration + 1
      /\ lagging' /\ (conflict' <=> pc # "idle") /\ cachedIhpa' = cachedIhpa
      /\ copy' = copy /\ original' = original /\ pc' = pc /\ queued' = queued
  BY GenerationTaken DEF Own, EditIhpa, DeleteIhpa, CreateIhpa, WriteIhpa, TroubleKinds
<1>3. \/ ~ ihpa'.exists /\ ihpa'.generation = 0
      \/ ihpa'.generation = NextGeneration
  <2>1. ASSUME NEW s \in Specs, EditIhpa(s)
        PROVE  ihpa'.generation = NextGeneration
    BY <1>1, <2>1 DEF EditIhpa, WriteIhpa, Autoscaler
  <2>2. CASE DeleteIhpa
    <3>1. CASE ihpa.finalizer
      <4>1. ihpa' = [ihpa EXCEPT !.deleting = TRUE, !.generation = NextGeneration]
        BY <2>2, <3>1 DEF DeleteIhpa, WriteIhpa
      <4>2. QED
        BY <1>1, <4>1 DEF Autoscaler
    <3>2. CASE ~ ihpa.finalizer
      BY <2>2, <3>2, NoGenerationOld DEF DeleteIhpa, WriteIhpa
    <3>3. QED
      BY <3>1, <3>2
  <2>3. ASSUME NEW s \in Specs, CreateIhpa(s)
        PROVE  ihpa'.generation = NextGeneration
    <3>1. NextGeneration \in Nat /\ s \in IHPASpec
      BY NoGenerationOld, ConstantsAssumption DEF ConstantsAssumption
    <3>2. QED
      BY <2>3, <3>1, NewAutoscalerTyped DEF CreateIhpa, WriteIhpa
  <2>4. QED
    BY <2>1, <2>2, <2>3 DEF Own
<1>4. GenerationsOld'
  BY <1>2, <1>3, NoGenerationOld DEF LatestInv, GenerationsOld
<1>5. ihpa'.exists => /\ cachedIhpa'.generation # ihpa'.generation
                      /\ copy'.generation # ihpa'.generation
  BY <1>2, <1>3, NoGenerationOld DEF LatestInv, GenerationsOld
<1>6. CacheTells'
  BY <1>2, <1>5 DEF CacheTells, CopyTells
<1>7. ReconcileTells'
  BY <1>2, <1>5 DEF LatestInv, ReconcileTells, CopyTells, Live, Pending
<1>8. QED
  BY <1>2, <1>4, <1>5, <1>6, <1>7 DEF LatestInv, Live, Pending

\* A portrait that changes wakes the controller; the profile is not looked at.
LEMMA OthersKeepLatestInv ==
  ASSUME TypeInv, LatestInv,
         \/ DeliverRp \/ CollectProfile \/ ProfileGoes
         \/ \E v \in Portraits : PortraitChanges(v)
         \/ \E n \in ByHand : EditProfile(n)
  PROVE  LatestInv'
<1> DEFINE Apart ==
             /\ ihpa' = ihpa /\ cachedIhpa' = cachedIhpa /\ lagging' = lagging /\ copy' = copy
             /\ original' = original /\ conflict' = conflict /\ pc' = pc
             /\ queued => queued'
             /\ portrait' = portrait \/ queued'
<1>1. Apart
  <2>1. CASE DeliverRp
    BY <2>1 DEF DeliverRp, localVars
  <2>2. CASE CollectProfile \/ ProfileGoes
    BY <2>2 DEF CollectProfile, ProfileGoes, localVars
  <2>3. ASSUME NEW v \in Portraits, PortraitChanges(v)
        PROVE  Apart
    BY <2>3 DEF PortraitChanges, cacheVars, localVars
  <2>4. ASSUME NEW n \in ByHand, EditProfile(n)
        PROVE  Apart
    BY <2>4 DEF EditProfile, localVars
  <2>5. QED
    BY <2>1, <2>2, <2>3, <2>4
<1>2. NextGeneration' = NextGeneration
  <2>1. left' = left => NextGeneration' = NextGeneration
    BY DEF NextGeneration
  <2>2. QED
    BY <2>1, GenerationTaken
    DEF DeliverRp, CollectProfile, ProfileGoes, PortraitChanges, EditProfile, TroubleKinds
<1>3. QED
  BY <1>1, <1>2
  DEF LatestInv, GenerationsOld, CacheTells, ReconcileTells, CopyTells, Live, Pending, Recorded,
      Unpromised

\* Every step keeps the invariant.
LEMMA StepKeepsLatestInv ==
  ASSUME TypeInv, LatestInv, [Next]_vars
  PROVE  LatestInv'
<1>1. CASE UNCHANGED vars
  BY <1>1
  DEF vars, cacheVars, localVars, LatestInv, GenerationsOld, CacheTells, ReconcileTells,
      CopyTells, Live, Pending, Recorded, Unpromised, NextGeneration
<1>2. CASE Reconcile
  BY <1>2, BeginKeepsLatestInv, FinalizerKeepsLatestInv, PauseKeepsLatestInv,
     FetchKeepsLatestInv, ActKeepsLatestInv
  DEF Reconcile
<1>3. CASE Disturb
  BY <1>3, FailuresKeepLatestInv, FetchKeepsLatestInv, OthersKeepLatestInv DEF Disturb
<1>4. CASE Next /\ ~ Reconcile /\ ~ Disturb
  BY <1>4, DeliverKeepsLatestInv, TickKeepsLatestInv, OwnKeepsLatestInv, OthersKeepLatestInv
  DEF Next
<1>5. QED
  BY <1>1, <1>2, <1>3, <1>4 DEF Next

\* At first the cache holds nothing and the creation is still to be seen.
LEMMA InitLatestInv ==
  ASSUME Init
  PROVE  LatestInv
<1>1. TypeInv
  BY InitTyped
<1>2. NextGeneration >= 2 /\ NextGeneration \in Nat
  BY <1>1, NextGenerationTyped DEF TypeInv
<1>3. ihpa.generation = 1 /\ cachedIhpa.generation = 0 /\ copy.generation = 0
  BY <1>1, NoGenerationOld, NewAutoscalerTyped, ConstantsAssumption
  DEF Init, ConstantsAssumption
<1>4. QED
  BY <1>2, <1>3
  DEF Init, LatestInv, GenerationsOld, CacheTells, ReconcileTells, CopyTells, Pending

(***************************************************************************)
(* At rest the condition was written for the spec the autoscaler has now,  *)
(* for every set of specs and portraits and every number of edits,         *)
(* failures, conflicts and restarts, unless there is no portrait value to  *)
(* report about.                                                           *)
(***************************************************************************)
THEOREM LatestSpecReported == Spec => []ReportsLatestSpec
<1>1. Init => TypeInv /\ LatestInv
  BY InitTyped, InitLatestInv
<1>2. TypeInv /\ LatestInv /\ [Next]_vars => (TypeInv /\ LatestInv)'
  BY StepTyped, StepKeepsLatestInv
<1>3. TypeInv /\ LatestInv => ReportsLatestSpec
  BY DEF LatestInv, CacheTells, ReportsLatestSpec, Quiescent, Live, Pending, Recorded, Unpromised
<1>4. QED
  BY <1>1, <1>2, <1>3, PTL DEF Spec

-----------------------------------------------------------------------------
(***************************************************************************)
(* One change of the portrait value, from the value from to the value to,  *)
(* of an autoscaler with the spec s, that nobody edits, while no call      *)
(* fails.  There may be any number of restarts.                            *)
(***************************************************************************)
OneChange ==
  /\ \A s \in Specs : s.mode = "Auto" /\ ~ s.paused
  /\ \A s \in Specs, v \in Portraits : s.min <= v.replicas /\ v.replicas <= s.max
  /\ \A v \in Portraits : v # Nil /\ v.from # "zero"
  /\ \A t \in Troubles : /\ t["portrait"] <= 1
                         /\ t["edit"] = 0 /\ t["failure"] = 0 /\ t["tamper"] = 0

StrategyOf(s, from, to) ==
  CASE to.replicas > from.replicas -> s.up.gray
    [] to.replicas < from.replicas -> s.down.gray
    [] OTHER -> Nil

Span(from, to) == AbsOf(to.replicas - from.replicas)

\* The pods of a percentage of the change, and what is asked for when x pods have changed.
PodsAt(from, to, percent) ==
  IF percent = 0 THEN 0 ELSE GreaterOf(1, (Span(from, to) * percent) \div 100)

Kept(s, from, to, state, x) ==
  IF /\ to.replicas < from.replicas
     /\ StrategyOf(s, from, to) # Nil
     /\ StrategyOf(s, from, to).state = state
  THEN x ELSE 0

Moved(s, from, to, x) ==
  WantedProfileSpec(s,
    [online |-> IF to.replicas > from.replicas THEN from.replicas + x ELSE from.replicas - x,
     cutoff |-> Kept(s, from, to, "Cutoff", x),
     standby |-> Kept(s, from, to, "Standby", x)])

AtRestWith(s, v) ==
  WantedProfileSpec(s, [online |-> v.replicas, cutoff |-> 0, standby |-> 0])

(***************************************************************************)
(* A status does not know of the change, or does.                          *)
(***************************************************************************)
Unaware(status, from) ==
  status.previous = Nil /\ status.current = from /\ status.gray = Nil

Aware(status, s, from, to) ==
  /\ status.previous = from /\ status.current = to
  /\ IF StrategyOf(s, from, to) = Nil THEN status.gray = Nil ELSE status.gray \in GrayStatus

(***************************************************************************)
(* Where the profile is, seen from the gray status that is stored: at its  *)
(* percentage; at the next one already, because that has to be stored      *)
(* still; or at the end.                                                   *)
(***************************************************************************)
InStep(s, from, to, gray, asked, since) ==
  /\ asked = Moved(s, from, to, PodsAt(from, to, gray.percent))
  /\ IF gray.percent = 0 THEN since = MaxAge ELSE gray.age <= since

Due(strategy, gray) == gray.percent < 100 /\ GrayRemainTime(strategy, gray) = 0
Next100(strategy, gray) == LesserOf(100, gray.percent + strategy.percent)

Ahead(s, from, to, gray, asked) ==
  LET strategy == StrategyOf(s, from, to)
  IN  /\ Due(strategy, gray)
      /\ asked = Moved(s, from, to, PodsAt(from, to, Next100(strategy, gray)))

Through(s, from, to, gray, asked) ==
  GrayEnded(StrategyOf(s, from, to), gray) /\ asked = AtRestWith(s, to)

Standing(s, from, to, gray, asked, since) ==
  IF StrategyOf(s, from, to) = Nil
  THEN asked \in {AtRestWith(s, from), AtRestWith(s, to)}
  ELSE \/ InStep(s, from, to, gray, asked, since)
       \/ Ahead(s, from, to, gray, asked)
       \/ Through(s, from, to, gray, asked)

\* The cached profile is an earlier one.
Earlier(s, from, to, seen, asked) ==
  \/ \E x, y \in 0 .. Span(from, to) :
       x <= y /\ seen = Moved(s, from, to, x) /\ asked = Moved(s, from, to, y)
  \/ /\ asked = AtRestWith(s, to)
     /\ \/ seen = AtRestWith(s, to)
        \/ \E x \in 0 .. Span(from, to) : seen = Moved(s, from, to, x)

(***************************************************************************)
(* An earlier status: it does not know of the change, or is at the same    *)
(* percentage, or one step before it, and everybody has done that step.    *)
(***************************************************************************)
OneBehind(s, from, to, gray) ==
  LET strategy == StrategyOf(s, from, to)
  IN  /\ strategy # Nil
      /\ Due(strategy, gray)
      /\ ihpa.status.gray.percent = Next100(strategy, gray)
      /\ InStep(s, from, to, ihpa.status.gray, rp.spec, sinceChange)

Trails(status, s, from, to) ==
  \/ Unaware(status, from)
  \/ /\ Aware(status, s, from, to) /\ Aware(ihpa.status, s, from, to)
     /\ status.gray = ihpa.status.gray \/ OneBehind(s, from, to, status.gray)

UpToDate(status, from) == Unaware(status, from) \/ status.gray = ihpa.status.gray

-----------------------------------------------------------------------------
(***************************************************************************)
(* The invariant of the change.                                            *)
(***************************************************************************)
Undisturbed(s, from, to) ==
  /\ ihpa.exists /\ ~ ihpa.deleting /\ ihpa.finalizer /\ ihpa.spec = s
  /\ cachedIhpa.exists /\ ~ cachedIhpa.deleting /\ cachedIhpa.finalizer /\ cachedIhpa.spec = s
  /\ rp.exists /\ ~ rp.deleting /\ rp.owner = ihpa.uid
  /\ cachedRp.exists
  /\ ~ lagging => cachedIhpa.status = ihpa.status
  /\ pc \in {"idle", "fetch", "storeValue", "act", "report"}
  /\ pc # "idle" => copy.spec = s
  /\ portrait = to
  /\ left["portrait"] <= 1 /\ left["edit"] = 0 /\ left["failure"] = 0 /\ left["tamper"] = 0
  /\ left["portrait"] = 1 => from = to

Before(s, from, to) ==
  /\ Unaware(ihpa.status, from)
  /\ Unaware(cachedIhpa.status, from)
  /\ rp.spec = AtRestWith(s, from) /\ cachedRp.spec = AtRestWith(s, from)
  /\ sinceChange = MaxAge

During(s, from, to) ==
  /\ from # to
  /\ Aware(ihpa.status, s, from, to)
  /\ Trails(cachedIhpa.status, s, from, to)
  /\ Standing(s, from, to, ihpa.status.gray, rp.spec, sinceChange)
  /\ Earlier(s, from, to, cachedRp.spec, rp.spec)

Fetching(s, from, to) ==
  pc \in {"fetch", "act"} =>
    /\ copy.status = original
    /\ Trails(copy.status, s, from, to)
    /\ UpToDate(copy.status, from) => UpToDate(cachedIhpa.status, from)
    /\ pc = "act" /\ Unaware(copy.status, from) => Unaware(ihpa.status, from)

Adopting(s, from, to) ==
  pc = "storeValue" =>
    /\ from # to
    /\ Aware(copy.status, s, from, to)
    /\ StrategyOf(s, from, to) # Nil => copy.status.gray.percent = 0
    /\ ~ conflict => Unaware(ihpa.status, from)

\* What is to be stored is what is stored, or one step further.
Stepped(s, from, to) ==
  LET strategy == StrategyOf(s, from, to)
  IN  /\ strategy # Nil
      /\ Due(strategy, ihpa.status.gray)
      /\ copy.status.gray.percent = Next100(strategy, ihpa.status.gray)
      /\ InStep(s, from, to, copy.status.gray, rp.spec, sinceChange)

Reporting(s, from, to) ==
  pc = "report" /\ ~ conflict =>
    /\ UpToDate(cachedIhpa.status, from)
    /\ \/ Unaware(ihpa.status, from) /\ Unaware(copy.status, from)
       \/ /\ Aware(ihpa.status, s, from, to) /\ Aware(copy.status, s, from, to)
          /\ copy.status.gray = ihpa.status.gray \/ Stepped(s, from, to)

Course(s, from, to) ==
  /\ Undisturbed(s, from, to)
  /\ Before(s, from, to) \/ During(s, from, to)
  /\ pc # "idle" /\ ~ conflict => original = ihpa.status
  /\ Fetching(s, from, to)
  /\ Adopting(s, from, to)
  /\ Reporting(s, from, to)

CourseInv == \E s \in Specs, from, to \in Portraits : Course(s, from, to)

-----------------------------------------------------------------------------
(***************************************************************************)
(* The pods of a percentage.                                               *)
(***************************************************************************)

\* What the constants say of one change.
Change(s, from, to) ==
  /\ s \in IHPASpec /\ s.mode = "Auto" /\ ~ s.paused
  /\ from \in PortraitValue /\ from.from # "zero"
  /\ to \in PortraitValue /\ to.from # "zero"
  /\ s.min <= from.replicas /\ from.replicas <= s.max
  /\ s.min <= to.replicas /\ to.replicas <= s.max

\* They say it of every spec and every two values.
LEMMA ChangeFacts ==
  ASSUME OneChange, NEW s \in Specs, NEW from \in Portraits, NEW to \in Portraits
  PROVE  Change(s, from, to)
<1>1. s \in IHPASpec /\ from \in PortraitValue /\ to \in PortraitValue
  BY ConstantsAssumption DEF ConstantsAssumption, OneChange
<1>2. QED
  BY <1>1 DEF OneChange, Change

\* The numbers of it.
LEMMA NumbersOfChange ==
  ASSUME NEW s, NEW from, NEW to, Change(s, from, to)
  PROVE  /\ from.replicas \in Nat /\ to.replicas \in Nat
         /\ Span(from, to) \in Nat
         /\ to.replicas >= from.replicas => Span(from, to) = to.replicas - from.replicas
         /\ to.replicas <= from.replicas => Span(from, to) = from.replicas - to.replicas
         /\ StrategyOf(s, from, to) \in GrayStrategy \union {Nil}
         /\ StrategyOf(s, from, to) # Nil => Span(from, to) >= 1
<1>1. from.replicas \in Nat /\ to.replicas \in Nat
  BY DEF Change, PortraitValue
<1>2. /\ Span(from, to) \in Nat
      /\ to.replicas >= from.replicas => Span(from, to) = to.replicas - from.replicas
      /\ to.replicas <= from.replicas => Span(from, to) = from.replicas - to.replicas
      /\ from.replicas # to.replicas => Span(from, to) >= 1
  BY <1>1 DEF Span, AbsOf
<1>3. s.up.gray \in GrayStrategy \union {Nil} /\ s.down.gray \in GrayStrategy \union {Nil}
  BY DEF Change, IHPASpec, ScalingBehavior
<1>4. /\ StrategyOf(s, from, to) \in GrayStrategy \union {Nil}
      /\ StrategyOf(s, from, to) # Nil => from.replicas # to.replicas
  BY <1>1, <1>3 DEF StrategyOf
<1>5. QED
  BY <1>1, <1>2, <1>4

\* The product grows with the percentage.
LEMMA ProductGrows ==
  ASSUME NEW n \in Nat, NEW p \in Nat, NEW q \in Nat, p <= q
  PROVE  n * p <= n * q
<1>1. PICK d \in Nat : q = p + d
  <2>1. q - p \in Nat /\ q = p + (q - p)
    OBVIOUS
  <2>2. QED
    BY <2>1
<1>2. n * q = n * p + n * d
  BY <1>1
<1>3. n * d \in Nat /\ n * p \in Nat
  OBVIOUS
<1>4. QED
  BY <1>2, <1>3

\* At least one pod changes at every percentage, and no more than there are to change.
LEMMA PodsAtBounds ==
  ASSUME NEW from, NEW to, Span(from, to) \in Nat, Span(from, to) >= 1, NEW p \in 0 .. 100
  PROVE  /\ PodsAt(from, to, p) \in 0 .. Span(from, to)
         /\ p = 0 => PodsAt(from, to, p) = 0
         /\ p # 0 => PodsAt(from, to, p) >= 1
         /\ p = 100 => PodsAt(from, to, p) = Span(from, to)
<1> DEFINE n == Span(from, to)
           a == n * p
           b == n * 100
<1>1. n \in Nat /\ n >= 1 /\ p \in Nat /\ p <= 100
  OBVIOUS
<1>2. a \in Nat /\ a <= b
  BY <1>1, ProductGrows
<1>3. b \div 100 = n /\ b \in Nat
  BY <1>1
<1>4. p = 100 => a = b
  OBVIOUS
<1>5. PodsAt(from, to, p) = IF p = 0 THEN 0 ELSE GreaterOf(1, a \div 100)
  BY DEF PodsAt
<1> HIDE DEF n, a, b
<1>6. (a \div 100) \in Nat /\ (a \div 100) <= n
  <2>1. (a \div 100) \in Nat /\ (a \div 100) <= (b \div 100)
    BY <1>2, <1>3
  <2>2. QED
    BY <1>3, <2>1
<1>7. /\ GreaterOf(1, a \div 100) \in 0 .. n /\ GreaterOf(1, a \div 100) >= 1
      /\ a = b => GreaterOf(1, a \div 100) = n
  <2> DEFINE d == a \div 100
  <2>1. d \in Nat /\ d <= n /\ (a = b => d = n)
    BY <1>3, <1>6
  <2> HIDE DEF d
  <2>2. /\ GreaterOf(1, d) \in 0 .. n /\ GreaterOf(1, d) >= 1
        /\ d = n => GreaterOf(1, d) = n
    BY <1>1, <2>1 DEF GreaterOf
  <2>3. QED
    BY <2>1, <2>2 DEF d
<1>8. QED
  BY <1>1, <1>4, <1>5, <1>7 DEF n

\* More pods change at a higher percentage.
LEMMA PodsAtGrow ==
  ASSUME NEW from, NEW to, Span(from, to) \in Nat, Span(from, to) >= 1,
         NEW p \in 0 .. 100, NEW q \in 0 .. 100, p <= q
  PROVE  PodsAt(from, to, p) <= PodsAt(from, to, q)
<1>1. CASE p = 0
  BY <1>1, PodsAtBounds
<1>2. CASE p # 0
  <2> DEFINE n == Span(from, to)
             a == n * p
             b == n * q
  <2>1. a \in Nat /\ b \in Nat /\ a <= b
    BY ProductGrows
  <2>2. /\ PodsAt(from, to, p) = GreaterOf(1, a \div 100)
        /\ PodsAt(from, to, q) = GreaterOf(1, b \div 100)
    BY <1>2 DEF PodsAt
  <2> HIDE DEF n, a, b
  <2>3. (a \div 100) \in Nat /\ (b \div 100) \in Nat /\ (a \div 100) <= (b \div 100)
    BY <2>1
  <2>4. GreaterOf(1, a \div 100) <= GreaterOf(1, b \div 100)
    <3> DEFINE d == a \div 100
               e == b \div 100
    <3> HIDE DEF d, e
    <3>1. d \in Nat /\ e \in Nat /\ d <= e
      BY <2>3 DEF d, e
    <3>2. GreaterOf(1, d) <= GreaterOf(1, e)
      BY <3>1 DEF GreaterOf
    <3>3. QED
      BY <3>2 DEF d, e
  <2>5. QED
    BY <2>2, <2>4
<1>3. QED
  BY <1>1, <1>2

\* A step changes no more than its share of the change, rounded up.
LEMMA PodsAtStep ==
  ASSUME NEW from, NEW to, Span(from, to) \in Nat, Span(from, to) >= 1,
         NEW p \in 0 .. 100, NEW c \in 1 .. 100, NEW q \in 0 .. 100, q <= p + c
  PROVE  PodsAt(from, to, q) - PodsAt(from, to, p) <= (Span(from, to) * c + 99) \div 100
<1> DEFINE n == Span(from, to)
           x == n * p
           y == n * c
           z == n * q
<1>1. x \in Nat /\ y \in Nat /\ z \in Nat /\ z <= x + y /\ y >= 1
  <2>1. n * q <= n * (p + c) /\ n * (p + c) = n * p + n * c
    BY ProductGrows
  <2>2. n * 1 <= n * c
    BY ProductGrows
  <2>3. QED
    BY <2>1, <2>2
<1>2. /\ PodsAt(from, to, p) = IF p = 0 THEN 0 ELSE GreaterOf(1, x \div 100)
      /\ PodsAt(from, to, q) = IF q = 0 THEN 0 ELSE GreaterOf(1, z \div 100)
      /\ p = 0 => x = 0
  BY DEF PodsAt
<1>3. Span(from, to) * c = y
  OBVIOUS
<1> HIDE DEF n, x, y, z
<1>4. GreaterOf(1, z \div 100) - GreaterOf(1, x \div 100) <= (y + 99) \div 100
  BY <1>1 DEF GreaterOf
<1>5. x = 0 => GreaterOf(1, z \div 100) <= (y + 99) \div 100
  BY <1>1 DEF GreaterOf
<1>6. GreaterOf(1, x \div 100) \in Nat /\ (y + 99) \div 100 \in Nat
      /\ GreaterOf(1, z \div 100) \in Nat
  BY <1>1 DEF GreaterOf
<1>7. PodsAt(from, to, q) - PodsAt(from, to, p) <= (y + 99) \div 100
  BY <1>2, <1>4, <1>5, <1>6
<1>8. QED
  BY <1>3, <1>7

\* A set of numbers with a bound has a largest one.
LEMMA LargestNumber ==
  ASSUME NEW N \in SUBSET Nat, N # {}, NEW b \in Nat, \A t \in N : t <= b
  PROVE  \E n \in N : \A t \in N : t <= n
<1> DEFINE Short == {b - t : t \in N}
<1>1. Short \in SUBSET Nat /\ Short # {}
  <2>1. ASSUME NEW t \in N PROVE b - t \in Nat
    <3>1. t \in Nat /\ t <= b
      OBVIOUS
    <3>2. QED
      BY <3>1
  <2>2. QED
    BY <2>1
<1>2. PICK d \in Short : \A e \in Short : ~ (<<e, d>> \in OpToRel(<, Nat))
  BY <1>1, WFMin, NatLessThanWellFounded
<1>3. PICK n \in N : d = b - n
  OBVIOUS
<1>4. ASSUME NEW t \in N PROVE t <= n
  <2>1. b - t \in Short /\ b - t \in Nat /\ d \in Nat
    BY <1>1
  <2>2. <<b - t, d>> \in Nat \X Nat /\ ~ (<<b - t, d>> \in OpToRel(<, Nat))
    BY <1>2, <2>1
  <2>3. ~ (b - t < d)
    BY <2>2 DEF OpToRel
  <2>4. t \in Nat /\ n \in Nat
    OBVIOUS
  <2>5. QED
    BY <1>3, <2>1, <2>3, <2>4
<1>5. QED
  BY <1>4

\* The largest change is there, and none is larger.
LEMMA LargestChangeFacts ==
  ASSUME OneChange, NEW s \in Specs, NEW from \in Portraits, NEW to \in Portraits
  PROVE  LargestChange \in Nat /\ Span(from, to) <= LargestChange
<1> DEFINE All == Portraits \ {Nil}
           Changes == {AbsOf(v.replicas - w.replicas) : v, w \in All}
<1>1. s.max \in Nat /\ from \in All /\ to \in All
  BY ChangeFacts DEF Change, IHPASpec, OneChange
<1>2. ASSUME NEW v \in All, NEW w \in All
      PROVE  AbsOf(v.replicas - w.replicas) \in Nat /\ AbsOf(v.replicas - w.replicas) <= s.max
  <2>1. /\ v.replicas \in Nat /\ v.replicas <= s.max
        /\ w.replicas \in Nat /\ w.replicas <= s.max
    BY ChangeFacts DEF Change, PortraitValue
  <2>2. QED
    BY <1>1, <2>1 DEF AbsOf
<1>3. Changes \in SUBSET Nat /\ \A t \in Changes : t <= s.max
  BY <1>2
<1>4. \A v, w \in All : AbsOf(v.replicas - w.replicas) \in Changes
  OBVIOUS
<1>5. LargestChange = CHOOSE m \in Changes : \A v, w \in All : AbsOf(v.replicas - w.replicas) <= m
  BY DEF LargestChange
<1> HIDE DEF Changes, All
<1>6. Changes # {}
  BY <1>1, <1>4
<1>7. PICK n \in Changes : \A t \in Changes : t <= n
  BY <1>1, <1>3, <1>6, LargestNumber
<1>8. \A v, w \in All : AbsOf(v.replicas - w.replicas) <= n
  BY <1>4, <1>7
<1>9. /\ LargestChange \in Changes
      /\ \A v, w \in All : AbsOf(v.replicas - w.replicas) <= LargestChange
  BY <1>5, <1>8
<1>10. Span(from, to) <= LargestChange
  BY <1>1, <1>9 DEF Span
<1>11. QED
  BY <1>3, <1>9, <1>10

\* A step's share of a change is not beyond its share of the largest.
LEMMA ShareOfLargest ==
  ASSUME NEW n \in Nat, NEW m \in Nat, n <= m, NEW c \in 1 .. 100
  PROVE  (n * c + 99) \div 100 <= (m * c + 99) \div 100
<1> DEFINE x == n * c
           y == m * c
<1>1. c * n <= c * m
  BY ProductGrows
<1>2. x = c * n /\ y = c * m /\ x \in Nat /\ y \in Nat
  OBVIOUS
<1>3. x <= y
  BY <1>1, <1>2
<1> HIDE DEF x, y
<1>4. (x + 99) \div 100 <= (y + 99) \div 100
  BY <1>2, <1>3
<1>5. QED
  BY <1>4 DEF x, y

-----------------------------------------------------------------------------
(***************************************************************************)
(* The profile in the course of the change.                                *)
(***************************************************************************)

\* The fields of the profiles.
LEMMA MovedFields ==
  ASSUME NEW s, NEW from, NEW to, NEW x
  PROVE  /\ Moved(s, from, to, x) =
              [online |-> IF to.replicas > from.replicas
                          THEN from.replicas + x ELSE from.replicas - x,
               cutoff |-> Kept(s, from, to, "Cutoff", x),
               standby |-> Kept(s, from, to, "Standby", x),
               paused |-> s.paused, direction |-> AllowedScalingDirection(s),
               behavior |-> s.profile]
         /\ AtRestWith(s, to) =
              [online |-> to.replicas, cutoff |-> 0, standby |-> 0,
               paused |-> s.paused, direction |-> AllowedScalingDirection(s),
               behavior |-> s.profile]
BY DEF Moved, AtRestWith, WantedProfileSpec

\* Nothing has changed at first; at the end the online replicas are those of the new value.
LEMMA MovedEnds ==
  ASSUME NEW s, NEW from, NEW to, Change(s, from, to)
  PROVE  /\ Moved(s, from, to, 0) = AtRestWith(s, from)
         /\ Moved(s, from, to, Span(from, to)).online = to.replicas
         /\ AtRestWith(s, to).online = to.replicas
<1>1. /\ from.replicas \in Nat /\ to.replicas \in Nat /\ Span(from, to) \in Nat
      /\ to.replicas >= from.replicas => Span(from, to) = to.replicas - from.replicas
      /\ to.replicas <= from.replicas => Span(from, to) = from.replicas - to.replicas
  BY NumbersOfChange
<1>2. Moved(s, from, to, 0) = AtRestWith(s, from)
  <2>1. from.replicas + 0 = from.replicas /\ from.replicas - 0 = from.replicas
    BY <1>1
  <2>2. Kept(s, from, to, "Cutoff", 0) = 0 /\ Kept(s, from, to, "Standby", 0) = 0
    BY DEF Kept
  <2>3. QED
    BY <2>1, <2>2 DEF Moved, AtRestWith
<1>3. Moved(s, from, to, Span(from, to)).online = to.replicas
  BY <1>1, MovedFields
<1>4. QED
  BY <1>2, <1>3, MovedFields

\* The online replicas tell how many pods have changed.
LEMMA MovedTellsApart ==
  ASSUME NEW s, NEW from, NEW to, Change(s, from, to),
         NEW x \in 0 .. Span(from, to), NEW y \in 0 .. Span(from, to)
  PROVE  Moved(s, from, to, x).online = Moved(s, from, to, y).online => x = y
<1>1. /\ from.replicas \in Nat /\ x \in Nat /\ y \in Nat
  BY NumbersOfChange
<1>2. QED
  BY <1>1, MovedFields

\* A profile that has come to the end in any way shows that all pods have changed.
LEMMA RestIsTheEnd ==
  ASSUME NEW s, NEW from, NEW to, Change(s, from, to),
         NEW x \in 0 .. Span(from, to), Moved(s, from, to, x) = AtRestWith(s, to)
  PROVE  x = Span(from, to)
<1>1. Span(from, to) \in 0 .. Span(from, to)
  BY NumbersOfChange
<1>2. Moved(s, from, to, x).online = Moved(s, from, to, Span(from, to)).online
  BY MovedEnds
<1>3. QED
  BY <1>1, <1>2, MovedTellsApart

\* What the cache shows of a profile that is on its way was on its way too.
LEMMA EarlierMoved ==
  ASSUME NEW s, NEW from, NEW to, Change(s, from, to), NEW seen,
         NEW y \in 0 .. Span(from, to), Earlier(s, from, to, seen, Moved(s, from, to, y))
  PROVE  \E x \in 0 .. Span(from, to) : x <= y /\ seen = Moved(s, from, to, x)
<1>1. CASE \E x, z \in 0 .. Span(from, to) :
             /\ x <= z /\ seen = Moved(s, from, to, x)
             /\ Moved(s, from, to, y) = Moved(s, from, to, z)
  <2>1. PICK x \in 0 .. Span(from, to), z \in 0 .. Span(from, to) :
          /\ x <= z /\ seen = Moved(s, from, to, x)
          /\ Moved(s, from, to, y) = Moved(s, from, to, z)
    BY <1>1
  <2>2. y = z
    BY <2>1, MovedTellsApart
  <2>3. QED
    BY <2>1, <2>2
<1>2. CASE /\ Moved(s, from, to, y) = AtRestWith(s, to)
           /\ \/ seen = AtRestWith(s, to)
              \/ \E x \in 0 .. Span(from, to) : seen = Moved(s, from, to, x)
  <2>1. y = Span(from, to) /\ Span(from, to) \in Nat
    BY <1>2, RestIsTheEnd, NumbersOfChange
  <2>2. QED
    BY <1>2, <2>1
<1>3. QED
  BY <1>1, <1>2 DEF Earlier

\* Whatever the cache shows, and however far the profile goes on, it shows an earlier one.
LEMMA EarlierGoesOn ==
  ASSUME NEW s, NEW from, NEW to, Change(s, from, to), NEW seen, NEW asked,
         Earlier(s, from, to, seen, asked)
  PROVE  /\ Earlier(s, from, to, asked, asked)
         /\ Earlier(s, from, to, seen, AtRestWith(s, to))
<1>1. Span(from, to) \in Nat
  BY NumbersOfChange
<1>2. QED
  BY <1>1 DEF Earlier

\* The replicas of the profile in its course.
LEMMA MovedTotal ==
  ASSUME NEW s, NEW from, NEW to, Change(s, from, to), NEW x \in Nat, NEW y \in Nat,
         x <= y
  PROVE  /\ Moved(s, from, to, x).online \in Int /\ Moved(s, from, to, y).online \in Int
         /\ to.replicas > from.replicas =>
              /\ Moved(s, from, to, x).online <= Moved(s, from, to, y).online
              /\ Moved(s, from, to, y).online - Moved(s, from, to, x).online = y - x
              /\ Total(Moved(s, from, to, x)) <= Total(Moved(s, from, to, y))
         /\ ~ (to.replicas > from.replicas) =>
              /\ Moved(s, from, to, y).online <= Moved(s, from, to, x).online
              /\ Moved(s, from, to, x).online - Moved(s, from, to, y).online = y - x
         /\ to.replicas < from.replicas /\ KeepsPods(StrategyOf(s, from, to)) =>
              Total(Moved(s, from, to, x)) = Total(Moved(s, from, to, y))
<1>1. from.replicas \in Nat /\ to.replicas \in Nat
  BY NumbersOfChange
<1> DEFINE f == from.replicas
           t == to.replicas
<1>2. CASE t > f
  <2>1. \A z : Kept(s, from, to, "Cutoff", z) = 0 /\ Kept(s, from, to, "Standby", z) = 0
    BY <1>1, <1>2 DEF Kept
  <2>2. /\ Moved(s, from, to, x).online = f + x /\ Moved(s, from, to, y).online = f + y
        /\ Total(Moved(s, from, to, x)) = f + x + 0 + 0
        /\ Total(Moved(s, from, to, y)) = f + y + 0 + 0
    BY <1>2, <2>1, MovedFields DEF Total
  <2> HIDE DEF f, t
  <2>3. f \in Nat /\ t \in Nat
    BY <1>1 DEF f, t
  <2>4. QED
    BY <1>2, <2>2, <2>3 DEF f, t
<1>3. CASE ~ (t > f)
  <2>1. Moved(s, from, to, x).online = f - x /\ Moved(s, from, to, y).online = f - y
    BY <1>3, MovedFields
  <2>2. ASSUME t < f, KeepsPods(StrategyOf(s, from, to)), NEW z \in Nat
        PROVE  Total(Moved(s, from, to, z)) = f
    <3>1. \/ Kept(s, from, to, "Cutoff", z) = z /\ Kept(s, from, to, "Standby", z) = 0
          \/ Kept(s, from, to, "Cutoff", z) = 0 /\ Kept(s, from, to, "Standby", z) = z
      BY <2>2 DEF Kept, KeepsPods
    <3>2. \/ Total(Moved(s, from, to, z)) = (f - z) + z + 0
          \/ Total(Moved(s, from, to, z)) = (f - z) + 0 + z
      BY <1>3, <3>1, MovedFields DEF Total
    <3>3. QED
      BY <1>1, <3>2
  <2>3. QED
    BY <1>1, <1>3, <2>1, <2>2
<1>4. QED
  BY <1>2, <1>3

-----------------------------------------------------------------------------
(***************************************************************************)
(* What a reconcile wants of the profile.                                  *)
(***************************************************************************)

\* A value within the bounds is not capped.
LEMMA WithinBoundsUncapped ==
  ASSUME NEW s, NEW from, NEW to, Change(s, from, to), copy.spec = s,
         copy.status \in IHPAStatus, copy.status.current \in {from, to}
  PROVE  CopyCapped = copy.status
<1> DEFINE status == copy.status
           n == Capped(copy.spec, status.current.replicas)
           value == [status.current EXCEPT !.replicas = n]
<1>1. /\ status.current \in PortraitValue /\ status.current.replicas \in Nat
      /\ s.min \in Nat /\ s.max \in Nat
      /\ s.min <= status.current.replicas /\ status.current.replicas <= s.max
  BY DEF Change, IHPASpec, PortraitValue
<1>2. n = status.current.replicas
  BY <1>1 DEF Capped, LesserOf, GreaterOf
<1>3. value = status.current
  BY <1>1, <1>2 DEF PortraitValue
<1>4. CopyCapped = [status EXCEPT !.current = value]
  BY <1>1 DEF CopyCapped, CappedStatus, IHPAStatus, PortraitValue
<1>5. status \in IHPAStatus
  OBVIOUS
<1> HIDE DEF status, value
<1>6. CopyCapped = status
  BY <1>3, <1>4, <1>5 DEF IHPAStatus
<1>7. QED
  BY <1>6 DEF status

\* The strategy of the change is the one of the status that knows of it.
LEMMA AwareStrategy ==
  ASSUME NEW s, NEW from, NEW to, Change(s, from, to), NEW status,
         status.previous = from, status.current = to
  PROVE  /\ CurrentGrayStrategy(s, status) = StrategyOf(s, from, to)
         /\ IsGrayActive(s, status) <=> StrategyOf(s, from, to) # Nil
         /\ ScalesUp(status) <=> to.replicas > from.replicas
         /\ ScalesDown(status) <=> to.replicas < from.replicas
<1>1. from # Nil /\ to # Nil /\ s.mode # "Preview"
  BY NilAssumption DEF Change
<1>2. /\ ScalesUp(status) <=> to.replicas > from.replicas
      /\ ScalesDown(status) <=> to.replicas < from.replicas
  BY <1>1 DEF ScalesUp, ScalesDown, Scales
<1>3. CurrentGrayStrategy(s, status) = StrategyOf(s, from, to)
  BY <1>2 DEF CurrentGrayStrategy, StrategyOf
<1>4. QED
  BY <1>1, <1>2, <1>3 DEF IsGrayActive

\* A reconcile that does not know of the change wants what there was before.
LEMMA UnawareWants ==
  ASSUME NEW s, NEW from, NEW to, Change(s, from, to), copy.spec = s,
         copy.status \in IHPAStatus, Unaware(copy.status, from)
  PROVE  /\ Wanted = AtRestWith(s, from) /\ Generated.gray = Nil
         /\ ~ HasNoGrayStatus(copy.spec, CopyCapped)
<1>1. CopyCapped = copy.status
  BY WithinBoundsUncapped DEF Unaware
<1>2. ~ IsGrayActive(s, copy.status)
  BY DEF IsGrayActive, CurrentGrayStrategy, ScalesUp, ScalesDown, Scales, Unaware
<1>3. Generated = [data |-> SettledData(copy.status), gray |-> copy.status.gray, remain |-> 0]
  BY <1>1, <1>2 DEF Generated, GenerateReplicaData
<1>4. QED
  BY <1>1, <1>2, <1>3 DEF Wanted, AtRestWith, SettledData, Unaware, HasNoGrayStatus

\* One that knows of it wants the new value, without a strategy or at the end of it, ...
LEMMA EndWants ==
  ASSUME NEW s, NEW from, NEW to, Change(s, from, to), copy.spec = s,
         copy.status \in IHPAStatus, Aware(copy.status, s, from, to),
         \/ StrategyOf(s, from, to) = Nil
         \/ GrayEnded(StrategyOf(s, from, to), copy.status.gray)
  PROVE  /\ Wanted = AtRestWith(s, to) /\ Generated.gray = copy.status.gray
         /\ ~ HasNoGrayStatus(copy.spec, CopyCapped)
<1>1. CopyCapped = copy.status
  BY WithinBoundsUncapped DEF Aware
<1>2. /\ CurrentGrayStrategy(s, copy.status) = StrategyOf(s, from, to)
      /\ IsGrayActive(s, copy.status) <=> StrategyOf(s, from, to) # Nil
  BY AwareStrategy DEF Aware
<1>3. Generated = [data |-> SettledData(copy.status), gray |-> copy.status.gray, remain |-> 0]
  BY <1>1, <1>2 DEF Generated, GenerateReplicaData
<1>4. ~ HasNoGrayStatus(copy.spec, CopyCapped)
  BY <1>1, <1>2, NilAssumption DEF HasNoGrayStatus, Aware
<1>5. QED
  BY <1>1, <1>3, <1>4 DEF Wanted, AtRestWith, SettledData, Aware

\* The percentage after a step.
LEMMA StepFacts ==
  ASSUME NEW p \in 0 .. 100, NEW c \in 1 .. 100
  PROVE  /\ LesserOf(100, p + c) \in 1 .. 100 /\ LesserOf(100, p + c) <= p + c
         /\ p < 100 => p < LesserOf(100, p + c)
BY DEF LesserOf

\* ... and the pods of the percentage it computes in the course of it.
LEMMA MovingWants ==
  ASSUME NEW s, NEW from, NEW to, Change(s, from, to), copy.spec = s,
         copy.status \in IHPAStatus, Aware(copy.status, s, from, to),
         StrategyOf(s, from, to) # Nil,
         ~ GrayEnded(StrategyOf(s, from, to), copy.status.gray)
  PROVE  LET next == NextGray(StrategyOf(s, from, to), copy.status.gray)
         IN  /\ next \in GrayStatus /\ next.percent # 0
             /\ Generated.gray = next
             /\ Wanted = Moved(s, from, to, PodsAt(from, to, next.percent))
             /\ ~ HasNoGrayStatus(copy.spec, CopyCapped)
<1> DEFINE strategy == StrategyOf(s, from, to)
           gray == copy.status.gray
           next == NextGray(strategy, gray)
<1>1. CopyCapped = copy.status
  BY WithinBoundsUncapped DEF Aware
<1>2. /\ CurrentGrayStrategy(s, copy.status) = strategy
      /\ IsGrayActive(s, copy.status)
      /\ ScalesUp(copy.status) <=> to.replicas > from.replicas
      /\ ScalesDown(copy.status) <=> to.replicas < from.replicas
  BY AwareStrategy DEF Aware
<1>3. gray \in GrayStatus /\ strategy \in GrayStrategy
  BY NumbersOfChange DEF Aware
<1>4. next \in GrayStatus
  BY <1>3, NextGrayTyped
<1>5. next.percent # 0
  <2>1. CASE GrayRemainTime(strategy, gray) = 0
    <3>1. gray.percent \in 0 .. 100 /\ strategy.percent \in 1 .. 100
      BY <1>3 DEF GrayStatus, GrayStrategy
    <3>2. LesserOf(100, gray.percent + strategy.percent) \in 1 .. 100
      BY <3>1, StepFacts
    <3>3. next.percent \in 1 .. 100
      BY <2>1, <3>2 DEF NextGray
    <3>4. QED
      BY <3>3
  <2>2. CASE GrayRemainTime(strategy, gray) # 0
    <3>1. gray.age \in 0 .. MaxAge
      BY <1>3 DEF GrayStatus
    <3>2. gray.percent # 0
      <4>1. SUFFICES ASSUME gray.percent = 0 PROVE FALSE
        OBVIOUS
      <4>2. GrayRemainTime(strategy, gray) = GreaterOf(0, 0 - gray.age)
        BY <4>1 DEF GrayRemainTime, Wait
      <4>3. QED
        BY <2>2, <3>1, <4>2 DEF GreaterOf
    <3>3. QED
      BY <2>2, <3>2 DEF NextGray
  <2>3. QED
    BY <2>1, <2>2
<1>6. Generated =
        [data |-> GrayData(copy.status, strategy, next.percent), gray |-> next,
         remain |-> GrayRemainTime(strategy, gray)]
  BY <1>1, <1>2 DEF Generated, GenerateReplicaData
<1>7. GrayReplicas(copy.status, next.percent) = PodsAt(from, to, next.percent)
  BY <1>5 DEF GrayReplicas, PodsAt, Span, Aware
<1>8. Wanted = Moved(s, from, to, PodsAt(from, to, next.percent))
  <2> DEFINE x == PodsAt(from, to, next.percent)
  <2>1. GrayData(copy.status, strategy, next.percent) =
          [online |-> IF to.replicas > from.replicas THEN from.replicas + x ELSE from.replicas - x,
           cutoff |-> Kept(s, from, to, "Cutoff", x),
           standby |-> Kept(s, from, to, "Standby", x)]
    <3>1. copy.status.previous = from
      BY DEF Aware
    <3>2. GrayReplicas(copy.status, next.percent) = x
      BY <1>7
    <3> HIDE DEF x, next
    <3>3. QED
      BY <1>2, <3>1, <3>2 DEF GrayData, Kept
  <2> HIDE DEF x, next
  <2>2. QED
    BY <1>6, <2>1 DEF Wanted, Moved, x
<1>9. ~ HasNoGrayStatus(copy.spec, CopyCapped)
  BY <1>1, <1>3, NilAssumption DEF HasNoGrayStatus
<1>10. QED
  BY <1>4, <1>5, <1>6, <1>8, <1>9

\* A change whose next step is due has a step to take.
LEMMA DueHasNotEnded ==
  ASSUME NEW strategy, NEW gray, gray.percent \in 0 .. 100, Due(strategy, gray)
  PROVE  gray.percent < 100 /\ ~ GrayEnded(strategy, gray)
<1>1. gray.percent < 100
  BY DEF Due
<1>2. gray.percent # 100
  BY <1>1
<1>3. QED
  BY <1>1, <1>2 DEF GrayEnded

\* Its gray status is one step further if that is due, and the same otherwise.
LEMMA NextIsDue ==
  ASSUME NEW strategy \in GrayStrategy, NEW gray \in GrayStatus, ~ GrayEnded(strategy, gray)
  PROVE  /\ Due(strategy, gray) =>
              /\ NextGray(strategy, gray) = [percent |-> Next100(strategy, gray), age |-> 0]
              /\ gray.percent < Next100(strategy, gray)
              /\ Next100(strategy, gray) <= gray.percent + strategy.percent
              /\ Next100(strategy, gray) \in 0 .. 100
         /\ ~ Due(strategy, gray) => NextGray(strategy, gray) = gray
<1>1. gray.percent \in 0 .. 100 /\ strategy.percent \in 1 .. 100
  BY DEF GrayStatus, GrayStrategy
<1>2. CASE Due(strategy, gray)
  <2>1. gray.percent < 100 /\ GrayRemainTime(strategy, gray) = 0
    BY <1>2 DEF Due
  <2>2. /\ gray.percent < Next100(strategy, gray)
        /\ Next100(strategy, gray) <= gray.percent + strategy.percent
        /\ Next100(strategy, gray) \in 0 .. 100
    <3> DEFINE p == gray.percent
               c == strategy.percent
               next == LesserOf(100, p + c)
    <3>1. p \in 0 .. 100 /\ c \in 1 .. 100 /\ p < 100
      BY <1>1, <2>1
    <3> HIDE DEF p, c
    <3>2. next \in 1 .. 100 /\ next <= p + c /\ (p < 100 => p < next)
      BY <3>1, StepFacts
    <3>3. Next100(strategy, gray) = next
      BY DEF Next100, p, c
    <3> HIDE DEF next
    <3>4. p < next /\ next <= p + c /\ next \in 0 .. 100
      BY <3>1, <3>2
    <3>5. QED
      BY <3>3, <3>4 DEF p, c
  <2>3. NextGray(strategy, gray) = [percent |-> Next100(strategy, gray), age |-> 0]
    BY <2>1 DEF NextGray, Next100
  <2>4. QED
    BY <1>2, <2>2, <2>3
<1>3. CASE ~ Due(strategy, gray)
  <2>1. GrayRemainTime(strategy, gray) # 0
    BY <1>1, <1>3 DEF Due, GrayEnded
  <2>2. QED
    BY <1>3, <2>1 DEF NextGray
<1>4. QED
  BY <1>2, <1>3

\* The status it goes on with.
LEMMA ReportedStatus ==
  ASSUME NEW online, CopyTyped, Generate, CopyCapped = copy.status, ReportNext(online)
  PROVE  /\ copy'.spec = copy.spec
         /\ copy'.status.previous = copy.status.previous
         /\ copy'.status.current = copy.status.current
         /\ copy'.status.gray = Generated.gray
<1>1. /\ ProgressingStatus(online) \in IHPAStatus /\ GeneratedStatus \in IHPAStatus
      /\ copy \in Autoscaler /\ copy.status \in IHPAStatus
  BY GeneratedTyped, AutoscalerParts DEF CopyTyped
<1>2. copy' = [copy EXCEPT !.status = ProgressingStatus(online)]
  BY DEF ReportNext
<1>3. copy'.spec = copy.spec /\ copy'.status = ProgressingStatus(online)
  BY <1>1, <1>2 DEF Autoscaler
<1>4. /\ ProgressingStatus(online).previous = GeneratedStatus.previous
      /\ ProgressingStatus(online).current = GeneratedStatus.current
      /\ ProgressingStatus(online).gray = GeneratedStatus.gray
  BY <1>1 DEF ProgressingStatus, WithCondition, IHPAStatus
<1>5. /\ GeneratedStatus.previous = copy.status.previous
      /\ GeneratedStatus.current = copy.status.current
      /\ GeneratedStatus.gray = Generated.gray
  BY <1>1 DEF GeneratedStatus, WithCondition, IHPAStatus
<1>6. QED
  BY <1>3, <1>4, <1>5

-----------------------------------------------------------------------------
(***************************************************************************)
(* What a patch does to the profile.                                       *)
(***************************************************************************)
ProfileFields == {"online", "cutoff", "standby", "paused", "direction", "behavior"}

\* Field by field, and a profile is told by its fields.
LEMMA PatchedFields ==
  ASSUME Wanted \in ProfileSpec, rp.spec \in ProfileSpec
  PROVE  /\ \A f \in ProfileFields :
              Patched[f] = IF cachedRp.spec[f] = Wanted[f] THEN rp.spec[f] ELSE Wanted[f]
         /\ (\A f \in ProfileFields : Patched[f] = Wanted[f]) => Patched = Wanted
         /\ (\A f \in ProfileFields : Patched[f] = rp.spec[f]) => Patched = rp.spec
<1> DEFINE w == Wanted
           r == rp.spec
           c == cachedRp.spec
<1>1. /\ w = [f \in ProfileFields |-> w[f]] /\ r = [f \in ProfileFields |-> r[f]]
      /\ DOMAIN w = ProfileFields
  BY DEF ProfileSpec, ProfileFields
<1>2. Patched = [f \in ProfileFields |-> IF c[f] = w[f] THEN r[f] ELSE w[f]]
  BY <1>1 DEF Patched
<1> HIDE DEF w, r, c
<1>3. /\ \A f \in ProfileFields : Patched[f] = IF c[f] = w[f] THEN r[f] ELSE w[f]
      /\ Patched = [f \in ProfileFields |-> Patched[f]]
  BY <1>2
<1>4. (\A f \in ProfileFields : Patched[f] = w[f]) => Patched = w
  BY <1>1, <1>3
<1>5. (\A f \in ProfileFields : Patched[f] = r[f]) => Patched = r
  BY <1>1, <1>3
<1>6. QED
  BY <1>3, <1>4, <1>5 DEF w, r, c

\* It misses nothing if the profile is as wanted wherever the cache shows it so.
LEMMA PatchedAsWanted ==
  ASSUME Wanted \in ProfileSpec, rp.spec \in ProfileSpec,
         \A f \in ProfileFields : cachedRp.spec[f] = Wanted[f] => rp.spec[f] = Wanted[f]
  PROVE  Patched = Wanted
BY PatchedFields

\* It does all or nothing if there is but one field to change.
LEMMA PatchedInOneField ==
  ASSUME Wanted \in ProfileSpec, rp.spec \in ProfileSpec, NEW g \in ProfileFields,
         \A f \in ProfileFields \ {g} : rp.spec[f] = Wanted[f]
  PROVE  Patched \in {rp.spec, Wanted}
<1>1. CASE cachedRp.spec[g] = Wanted[g]
  <2>1. \A f \in ProfileFields : Patched[f] = rp.spec[f]
    BY <1>1, PatchedFields
  <2>2. QED
    BY <2>1, PatchedFields
<1>2. CASE cachedRp.spec[g] # Wanted[g]
  <2>1. \A f \in ProfileFields : Patched[f] = Wanted[f]
    BY <1>2, PatchedFields
  <2>2. QED
    BY <2>1, PatchedFields
<1>3. QED
  BY <1>1, <1>2

\* The profile after it is kept or patched.
Acting == KeepProfile \/ PatchProfile

\* Either leaves the profile, or patches it; the pods that change are the last change then.
LEMMA ActingFacts ==
  ASSUME TypeInv, Acting
  PROVE  /\ Wanted \in ProfileSpec /\ rp.spec \in ProfileSpec
         /\ Generate /\ \E online : ReportNext(online)
         /\ rp'.exists = rp.exists /\ rp'.deleting = rp.deleting /\ rp'.owner = rp.owner
         /\ sinceChange' = IF rp'.spec = rp.spec THEN sinceChange ELSE 0
         /\ \/ rp'.spec = rp.spec /\ cachedRp.spec = Wanted
            \/ rp'.spec = Patched
<1>1. CopyTyped /\ rp \in ReplicaProfile /\ rp.spec \in ProfileSpec
  BY DEF TypeInv, ProfileTyped, ReplicaProfile
<1>2. CASE KeepProfile
  <2>1. /\ Generate /\ rp' = rp /\ sinceChange' = sinceChange /\ cachedRp.spec = Wanted
        /\ ReportNext(Wanted.online)
    BY <1>2 DEF KeepProfile, NeedsPatch, LeaveProfile
  <2>2. QED
    BY <1>1, <2>1, GeneratedTyped
<1>3. CASE PatchProfile
  <2>1. /\ Generate /\ WriteProfile([rp EXCEPT !.spec = Patched])
        /\ ReportNext(Patched.online)
    BY <1>3 DEF PatchProfile, NeedsPatch
  <2>2. /\ rp' = [rp EXCEPT !.spec = Patched]
        /\ sinceChange' = IF rp'.spec = rp.spec THEN sinceChange ELSE 0
    BY <2>1 DEF WriteProfile
  <2>3. /\ rp'.exists = rp.exists /\ rp'.deleting = rp.deleting /\ rp'.owner = rp.owner
        /\ rp'.spec = Patched
    BY <1>1, <2>2 DEF ReplicaProfile
  <2>4. QED
    BY <1>1, <2>1, <2>2, <2>3, GeneratedTyped
<1>4. QED
  BY <1>2, <1>3 DEF Acting

\* Nothing changes if the profile is as wanted already.
LEMMA ActingInPlace ==
  ASSUME TypeInv, Acting, rp.spec = Wanted
  PROVE  rp'.spec = rp.spec /\ sinceChange' = sinceChange
<1>1. "online" \in ProfileFields
  BY DEF ProfileFields
<1>2. Patched \in {rp.spec, Wanted}
  BY <1>1, ActingFacts, PatchedInOneField
<1>3. QED
  BY <1>2, ActingFacts

\* A step forward is taken as a whole, whichever earlier profile the cache shows.
LEMMA ActingForward ==
  ASSUME NEW s, NEW from, NEW to, Change(s, from, to), TypeInv, Acting,
         NEW y \in 0 .. Span(from, to), NEW z \in 0 .. Span(from, to), y <= z,
         rp.spec = Moved(s, from, to, y), Wanted = Moved(s, from, to, z),
         Earlier(s, from, to, cachedRp.spec, rp.spec)
  PROVE  /\ rp'.spec = Wanted
         /\ Earlier(s, from, to, cachedRp.spec, Wanted)
<1>1. PICK x \in 0 .. Span(from, to) : x <= y /\ cachedRp.spec = Moved(s, from, to, x)
  BY EarlierMoved
<1>2. x \in Nat /\ y \in Nat /\ z \in Nat /\ x <= z
  BY <1>1, NumbersOfChange
<1>3. Earlier(s, from, to, cachedRp.spec, Wanted)
  BY <1>1, <1>2 DEF Earlier
<1>4. CASE x = z
  <2>1. rp.spec = Wanted
    BY <1>1, <1>2, <1>4
  <2>2. QED
    BY <1>3, <2>1, ActingInPlace
<1>5. CASE x # z
  <2>1. cachedRp.spec.online # Wanted.online
    BY <1>1, <1>5, MovedTellsApart
  <2>2. ASSUME NEW f \in ProfileFields, cachedRp.spec[f] = Wanted[f]
        PROVE  rp.spec[f] = Wanted[f]
    <3>1. f # "online"
      BY <2>1, <2>2
    <3>2. \A g \in {"cutoff", "standby"} :
            Moved(s, from, to, x)[g] = Moved(s, from, to, z)[g] =>
              Moved(s, from, to, y)[g] = Moved(s, from, to, z)[g]
      BY <1>5, MovedFields DEF Kept
    <3>3. \A g \in {"paused", "direction", "behavior"} :
            Moved(s, from, to, y)[g] = Moved(s, from, to, z)[g]
      BY MovedFields
    <3>4. QED
      BY <1>1, <2>2, <3>1, <3>2, <3>3 DEF ProfileFields
  <2>3. Patched = Wanted
    BY <2>2, ActingFacts, PatchedAsWanted
  <2>4. rp'.spec = Patched
    BY <2>1, ActingFacts
  <2>5. QED
    BY <1>3, <2>3, <2>4
<1>6. QED
  BY <1>4, <1>5

\* At the end the profile is asked for the new value, or left until the cache has caught up.
LEMMA ActingAtEnd ==
  ASSUME NEW s, NEW from, NEW to, Change(s, from, to), TypeInv, Acting,
         Wanted = AtRestWith(s, to),
         \/ rp.spec = AtRestWith(s, to)
         \/ rp.spec = AtRestWith(s, from)
         \/ rp.spec = Moved(s, from, to, Span(from, to)),
         Earlier(s, from, to, cachedRp.spec, rp.spec)
  PROVE  /\ rp'.spec \in {rp.spec, AtRestWith(s, to)}
         /\ Earlier(s, from, to, cachedRp.spec, rp'.spec)
<1>1. \E g \in ProfileFields : \A f \in ProfileFields \ {g} : rp.spec[f] = Wanted[f]
  <2>1. CASE rp.spec = AtRestWith(s, to)
    BY <2>1 DEF ProfileFields
  <2>2. CASE rp.spec = AtRestWith(s, from)
    <3>1. \A f \in ProfileFields \ {"online"} : AtRestWith(s, from)[f] = AtRestWith(s, to)[f]
      BY DEF AtRestWith, WantedProfileSpec, ProfileFields
    <3>2. QED
      BY <2>2, <3>1 DEF ProfileFields
  <2>3. CASE rp.spec = Moved(s, from, to, Span(from, to))
    <3> DEFINE m == Moved(s, from, to, Span(from, to))
    <3>1. m.online = to.replicas
      BY MovedEnds
    <3>2. /\ m.cutoff = Kept(s, from, to, "Cutoff", Span(from, to))
          /\ m.standby = Kept(s, from, to, "Standby", Span(from, to))
          /\ m.paused = s.paused /\ m.direction = AllowedScalingDirection(s)
          /\ m.behavior = s.profile
      BY MovedFields
    <3>3. m.cutoff = 0 \/ m.standby = 0
      BY <3>2 DEF Kept
    <3> HIDE DEF m
    <3>4. \/ \A f \in ProfileFields \ {"cutoff"} : m[f] = AtRestWith(s, to)[f]
          \/ \A f \in ProfileFields \ {"standby"} : m[f] = AtRestWith(s, to)[f]
      BY <3>1, <3>2, <3>3 DEF AtRestWith, WantedProfileSpec, ProfileFields
    <3>5. QED
      BY <2>3, <3>4 DEF ProfileFields, m
  <2>4. QED
    BY <2>1, <2>2, <2>3
<1>2. Patched \in {rp.spec, Wanted}
  BY <1>1, ActingFacts, PatchedInOneField
<1>3. rp'.spec \in {rp.spec, AtRestWith(s, to)}
  BY <1>2, ActingFacts
<1>4. QED
  BY <1>3, EarlierGoesOn

-----------------------------------------------------------------------------
(***************************************************************************)
(* What acting does to the profile: nothing; all of the change, without a  *)
(* strategy; its end, once the last step was observed; or the next step,   *)
(* once it is due.                                                         *)
(***************************************************************************)
NoEffect == rp'.spec = rp.spec /\ sinceChange' = sinceChange

AtOnce(s, from, to) ==
  /\ StrategyOf(s, from, to) = Nil
  /\ rp.spec = AtRestWith(s, from) /\ rp'.spec = AtRestWith(s, to)

Ends(s, from, to) ==
  /\ StrategyOf(s, from, to) # Nil /\ ihpa.status.gray \in GrayStatus
  /\ GrayEnded(StrategyOf(s, from, to), ihpa.status.gray)
  /\ InStep(s, from, to, ihpa.status.gray, rp.spec, sinceChange)
  /\ rp'.spec = AtRestWith(s, to)

Steps(s, from, to) ==
  /\ StrategyOf(s, from, to) # Nil /\ ihpa.status.gray \in GrayStatus
  /\ Due(StrategyOf(s, from, to), ihpa.status.gray)
  /\ InStep(s, from, to, ihpa.status.gray, rp.spec, sinceChange)
  /\ rp'.spec = Moved(s, from, to,
       PodsAt(from, to, Next100(StrategyOf(s, from, to), ihpa.status.gray)))

Effect(s, from, to) ==
  NoEffect \/ AtOnce(s, from, to) \/ Ends(s, from, to) \/ Steps(s, from, to)

\* The gray status that is to be stored then.
StepsOn(s, from, to, gray) ==
  LET strategy == StrategyOf(s, from, to)
  IN  /\ strategy # Nil
      /\ Due(strategy, ihpa.status.gray)
      /\ gray.percent = Next100(strategy, ihpa.status.gray)
      /\ InStep(s, from, to, gray, rp'.spec, sinceChange')

ActingKeeps(s, from, to) ==
  /\ Standing(s, from, to, ihpa.status.gray, rp'.spec, sinceChange')
  /\ Earlier(s, from, to, cachedRp.spec, rp'.spec)
  /\ Effect(s, from, to)
  /\ ~ HasNoGrayStatus(copy.spec, CopyCapped)
  /\ IF StrategyOf(s, from, to) = Nil THEN Generated.gray = Nil ELSE Generated.gray \in GrayStatus
  /\ IF copy.status.gray = ihpa.status.gray
     THEN Generated.gray = ihpa.status.gray \/ StepsOn(s, from, to, Generated.gray)
     ELSE NoEffect

\* The change as the reconcile finds it when it comes to act.
Midway(s, from, to) ==
  /\ Change(s, from, to) /\ TypeInv /\ copy.spec = s
  /\ Aware(ihpa.status, s, from, to) /\ Aware(copy.status, s, from, to)
  /\ Standing(s, from, to, ihpa.status.gray, rp.spec, sinceChange)
  /\ Earlier(s, from, to, cachedRp.spec, rp.spec)

\* Its numbers.
LEMMA MidwayFacts ==
  ASSUME NEW s, NEW from, NEW to, Midway(s, from, to)
  PROVE  /\ copy.status \in IHPAStatus /\ sinceChange \in 0 .. MaxAge /\ MaxAge \in Nat
         /\ 0 \in 0 .. MaxAge
         /\ StrategyOf(s, from, to) # Nil =>
              /\ StrategyOf(s, from, to) \in GrayStrategy
              /\ Span(from, to) \in Nat /\ Span(from, to) >= 1
              /\ ihpa.status.gray \in GrayStatus /\ copy.status.gray \in GrayStatus
              /\ ihpa.status.gray.percent \in 0 .. 100 /\ ihpa.status.gray.age \in 0 .. MaxAge
              /\ copy.status.gray.percent \in 0 .. 100
         /\ StrategyOf(s, from, to) = Nil => ihpa.status.gray = Nil /\ copy.status.gray = Nil
<1>1. copy \in Autoscaler /\ sinceChange \in 0 .. MaxAge /\ MaxAge \in Nat
  BY ConstantsTyped DEF Midway, TypeInv, CopyTyped, ProfileTyped
<1>2. copy.status \in IHPAStatus /\ 0 \in 0 .. MaxAge
  BY <1>1, AutoscalerParts
<1>3. ASSUME StrategyOf(s, from, to) # Nil
      PROVE  ihpa.status.gray \in GrayStatus /\ copy.status.gray \in GrayStatus
  BY <1>3 DEF Midway, Aware
<1>4. StrategyOf(s, from, to) = Nil => ihpa.status.gray = Nil /\ copy.status.gray = Nil
  BY DEF Midway, Aware
<1>5. StrategyOf(s, from, to) # Nil =>
        /\ StrategyOf(s, from, to) \in GrayStrategy
        /\ Span(from, to) \in Nat /\ Span(from, to) >= 1
  BY NumbersOfChange DEF Midway
<1>6. QED
  BY <1>1, <1>2, <1>3, <1>4, <1>5 DEF GrayStatus

\* Without a strategy the profile is asked for the new value at once.
LEMMA ActingAtOnce ==
  ASSUME NEW s, NEW from, NEW to, Midway(s, from, to), Acting, StrategyOf(s, from, to) = Nil
  PROVE  ActingKeeps(s, from, to)
<1>1. Wanted = AtRestWith(s, to) /\ Generated.gray = copy.status.gray
      /\ ~ HasNoGrayStatus(copy.spec, CopyCapped)
  BY MidwayFacts, EndWants DEF Midway
<1>2. rp.spec \in {AtRestWith(s, from), AtRestWith(s, to)}
  BY DEF Midway, Standing
<1>3. /\ rp'.spec \in {rp.spec, AtRestWith(s, to)}
      /\ Earlier(s, from, to, cachedRp.spec, rp'.spec)
  BY <1>1, <1>2, ActingAtEnd DEF Midway
<1>4. rp'.spec = rp.spec => sinceChange' = sinceChange
  BY ActingFacts DEF Midway
<1>5. Standing(s, from, to, ihpa.status.gray, rp'.spec, sinceChange')
  BY <1>2, <1>3 DEF Standing
<1>6. Effect(s, from, to)
  BY <1>2, <1>3, <1>4 DEF Effect, NoEffect, AtOnce
<1>7. Generated.gray = Nil /\ copy.status.gray = Nil /\ ihpa.status.gray = Nil
  BY <1>1, MidwayFacts
<1>8. QED
  BY <1>1, <1>3, <1>5, <1>6, <1>7 DEF ActingKeeps

\* With one, the new value is asked for after the last step was observed.
LEMMA ActingEnds ==
  ASSUME NEW s, NEW from, NEW to, Midway(s, from, to), Acting, StrategyOf(s, from, to) # Nil,
         copy.status.gray = ihpa.status.gray,
         GrayEnded(StrategyOf(s, from, to), ihpa.status.gray)
  PROVE  ActingKeeps(s, from, to)
<1>1. /\ Wanted = AtRestWith(s, to) /\ Generated.gray = copy.status.gray
      /\ ~ HasNoGrayStatus(copy.spec, CopyCapped)
  BY MidwayFacts, EndWants DEF Midway
<1>2. ihpa.status.gray.percent = 100 /\ 100 \in 0 .. 100
  BY DEF GrayEnded
<1>3. PodsAt(from, to, 100) = Span(from, to)
  BY <1>2, MidwayFacts, PodsAtBounds
<1>4. \/ InStep(s, from, to, ihpa.status.gray, rp.spec, sinceChange)
      \/ rp.spec = AtRestWith(s, to)
  BY <1>2 DEF Midway, Standing, Ahead, Due, Through
<1>5. rp.spec \in {Moved(s, from, to, Span(from, to)), AtRestWith(s, to)}
  BY <1>2, <1>3, <1>4 DEF InStep
<1>6. /\ rp'.spec \in {rp.spec, AtRestWith(s, to)}
      /\ Earlier(s, from, to, cachedRp.spec, rp'.spec)
  BY <1>1, <1>5, ActingAtEnd DEF Midway
<1>7. rp'.spec = rp.spec => sinceChange' = sinceChange
  BY ActingFacts DEF Midway
<1>8. Standing(s, from, to, ihpa.status.gray, rp'.spec, sinceChange')
  BY <1>4, <1>6, <1>7 DEF Standing, Through
<1>9. Effect(s, from, to)
  BY <1>4, <1>6, <1>7, MidwayFacts DEF Effect, NoEffect, Ends
<1>10. QED
  BY <1>1, <1>6, <1>8, <1>9, MidwayFacts DEF ActingKeeps

\* The next step is taken when it is due, or has been taken and is still to be stored.
LEMMA ActingSteps ==
  ASSUME NEW s, NEW from, NEW to, Midway(s, from, to), Acting, StrategyOf(s, from, to) # Nil,
         copy.status.gray = ihpa.status.gray,
         Due(StrategyOf(s, from, to), ihpa.status.gray)
  PROVE  ActingKeeps(s, from, to)
<1> DEFINE strategy == StrategyOf(s, from, to)
           gray == ihpa.status.gray
           next == Next100(strategy, gray)
           p == gray.percent
<1>1. gray.percent < 100 /\ ~ GrayEnded(strategy, gray)
  <2>1. gray.percent \in 0 .. 100
    BY MidwayFacts
  <2>2. QED
    BY <2>1, DueHasNotEnded
<1>2. /\ NextGray(strategy, gray) = [percent |-> next, age |-> 0]
      /\ p < next /\ next \in 0 .. 100 /\ p \in 0 .. 100
  <2>1. strategy \in GrayStrategy /\ gray \in GrayStatus /\ p \in 0 .. 100 /\ Due(strategy, gray)
    BY MidwayFacts
  <2> HIDE DEF strategy, gray
  <2>2. QED
    BY <1>1, <2>1, NextIsDue
<1>3. /\ Generated.gray = [percent |-> next, age |-> 0] /\ Generated.gray \in GrayStatus
      /\ Wanted = Moved(s, from, to, PodsAt(from, to, next))
      /\ ~ HasNoGrayStatus(copy.spec, CopyCapped)
  <2>1. LET n == NextGray(strategy, gray)
        IN  /\ n \in GrayStatus /\ Generated.gray = n
            /\ Wanted = Moved(s, from, to, PodsAt(from, to, n.percent))
            /\ ~ HasNoGrayStatus(copy.spec, CopyCapped)
    BY <1>1, MidwayFacts, MovingWants DEF Midway
  <2> HIDE DEF next, strategy, gray
  <2>2. QED
    BY <1>2, <2>1
<1>4. /\ PodsAt(from, to, p) \in 0 .. Span(from, to)
      /\ PodsAt(from, to, next) \in 0 .. Span(from, to)
      /\ PodsAt(from, to, p) <= PodsAt(from, to, next)
  <2> HIDE DEF next, p
  <2>1. p \in 0 .. 100 /\ next \in 0 .. 100 /\ p <= next
    BY <1>2
  <2>2. QED
    BY <2>1, MidwayFacts, PodsAtBounds, PodsAtGrow
<1>5. /\ rp'.spec = Wanted /\ Earlier(s, from, to, cachedRp.spec, Wanted)
      /\ \/ InStep(s, from, to, gray, rp.spec, sinceChange)
         \/ rp.spec = Wanted
  <2>1. CASE InStep(s, from, to, gray, rp.spec, sinceChange)
    <3>1. rp.spec = Moved(s, from, to, PodsAt(from, to, p))
      BY <2>1 DEF InStep
    <3>2. QED
      BY <1>3, <1>4, <2>1, <3>1, ActingForward DEF Midway
  <2>2. CASE Ahead(s, from, to, gray, rp.spec)
    <3>1. rp.spec = Wanted
      BY <1>3, <2>2 DEF Ahead
    <3>2. QED
      BY <3>1, ActingInPlace DEF Midway
  <2>3. ~ Through(s, from, to, gray, rp.spec)
    BY <1>1 DEF Through
  <2>4. QED
    BY <2>1, <2>2, <2>3 DEF Midway, Standing
<1>6. rp'.spec = rp.spec => sinceChange' = sinceChange
  BY ActingFacts DEF Midway
<1>7. Ahead(s, from, to, gray, rp'.spec)
  BY <1>3, <1>5 DEF Ahead
<1>8. Standing(s, from, to, gray, rp'.spec, sinceChange')
  BY <1>7 DEF Standing
<1>9. Effect(s, from, to)
  <2>1. CASE InStep(s, from, to, gray, rp.spec, sinceChange)
    <3>1. gray \in GrayStatus /\ rp'.spec = Moved(s, from, to, PodsAt(from, to, next))
      BY <1>3, <1>5, MidwayFacts
    <3>2. Steps(s, from, to)
      BY <2>1, <3>1 DEF Steps
    <3>3. QED
      BY <3>2 DEF Effect
  <2>2. CASE rp.spec = Wanted
    BY <1>5, <1>6, <2>2 DEF Effect, NoEffect
  <2>3. QED
    BY <1>5, <2>1, <2>2
<1>10. sinceChange' \in Nat
  <2>1. sinceChange' = IF rp'.spec = rp.spec THEN sinceChange ELSE 0
    BY ActingFacts DEF Midway
  <2>2. sinceChange \in Nat
    <3>1. sinceChange \in 0 .. MaxAge
      BY MidwayFacts
    <3>2. QED
      BY <3>1
  <2>3. QED
    BY <2>1, <2>2
<1>11. StepsOn(s, from, to, Generated.gray)
  <2>1. /\ Generated.gray.percent = next /\ Generated.gray.age = 0 /\ next # 0
        /\ rp'.spec = Moved(s, from, to, PodsAt(from, to, Generated.gray.percent))
    <3> HIDE DEF next, p
    <3>1. QED
      BY <1>2, <1>3, <1>5
  <2>2. InStep(s, from, to, Generated.gray, rp'.spec, sinceChange')
    <3>1. 0 <= sinceChange'
      BY <1>10
    <3> HIDE DEF next
    <3>2. QED
      BY <2>1, <3>1 DEF InStep
  <2>3. QED
    BY <2>1, <2>2 DEF StepsOn
<1>12. QED
  BY <1>3, <1>5, <1>8, <1>9, <1>11 DEF ActingKeeps

\* Nothing is done while a step has to wait.
LEMMA ActingWaits ==
  ASSUME NEW s, NEW from, NEW to, Midway(s, from, to), Acting, StrategyOf(s, from, to) # Nil,
         copy.status.gray = ihpa.status.gray,
         ~ Due(StrategyOf(s, from, to), ihpa.status.gray),
         ~ GrayEnded(StrategyOf(s, from, to), ihpa.status.gray)
  PROVE  ActingKeeps(s, from, to)
<1> DEFINE strategy == StrategyOf(s, from, to)
           gray == ihpa.status.gray
<1>1. NextGray(strategy, gray) = gray
  <2>1. strategy \in GrayStrategy /\ gray \in GrayStatus
    BY MidwayFacts
  <2>2. QED
    BY <2>1, NextIsDue
<1>2. /\ Generated.gray = gray
      /\ Wanted = Moved(s, from, to, PodsAt(from, to, gray.percent))
      /\ ~ HasNoGrayStatus(copy.spec, CopyCapped)
  <2>1. LET n == NextGray(strategy, gray)
        IN  /\ Generated.gray = n
            /\ Wanted = Moved(s, from, to, PodsAt(from, to, n.percent))
            /\ ~ HasNoGrayStatus(copy.spec, CopyCapped)
    BY MidwayFacts, MovingWants DEF Midway
  <2>2. QED
    BY <1>1, <2>1
<1>3. InStep(s, from, to, gray, rp.spec, sinceChange)
  BY DEF Midway, Standing, Ahead, Through
<1>4. rp.spec = Wanted
  BY <1>2, <1>3 DEF InStep
<1>5. NoEffect
  BY <1>4, ActingInPlace DEF NoEffect, Midway
<1>6. Standing(s, from, to, gray, rp'.spec, sinceChange')
  BY <1>3, <1>5 DEF Standing, NoEffect
<1>7. Earlier(s, from, to, cachedRp.spec, rp'.spec)
  BY <1>5 DEF NoEffect, Midway
<1>8. QED
  BY <1>2, <1>5, <1>6, <1>7, MidwayFacts DEF ActingKeeps, Effect

\* A reconcile that is a step behind wants what is asked for already.
LEMMA ActingBehind ==
  ASSUME NEW s, NEW from, NEW to, Midway(s, from, to), Acting,
         OneBehind(s, from, to, copy.status.gray)
  PROVE  ActingKeeps(s, from, to)
<1> DEFINE strategy == StrategyOf(s, from, to)
           gray == copy.status.gray
           next == Next100(strategy, gray)
<1>1. /\ strategy # Nil /\ Due(strategy, gray) /\ ihpa.status.gray.percent = next
      /\ InStep(s, from, to, ihpa.status.gray, rp.spec, sinceChange)
  BY DEF OneBehind
<1>2. gray.percent < 100 /\ ~ GrayEnded(strategy, gray)
  <2>1. gray.percent \in 0 .. 100
    BY <1>1, MidwayFacts
  <2>2. QED
    BY <1>1, <2>1, DueHasNotEnded
<1>3. /\ NextGray(strategy, gray) = [percent |-> next, age |-> 0]
      /\ gray.percent < next /\ next \in 0 .. 100
  <2>1. strategy \in GrayStrategy /\ gray \in GrayStatus
    BY <1>1, MidwayFacts
  <2> HIDE DEF strategy, gray
  <2>2. QED
    BY <1>1, <1>2, <2>1, NextIsDue
<1>4. /\ Generated.gray \in GrayStatus
      /\ Wanted = Moved(s, from, to, PodsAt(from, to, next))
      /\ ~ HasNoGrayStatus(copy.spec, CopyCapped)
  <2>1. LET n == NextGray(strategy, gray)
        IN  /\ n \in GrayStatus /\ Generated.gray = n
            /\ Wanted = Moved(s, from, to, PodsAt(from, to, n.percent))
            /\ ~ HasNoGrayStatus(copy.spec, CopyCapped)
    BY <1>1, <1>2, MidwayFacts, MovingWants DEF Midway
  <2> HIDE DEF next, strategy, gray
  <2>2. QED
    BY <1>3, <2>1
<1>5. rp.spec = Wanted
  BY <1>1, <1>4 DEF InStep
<1>6. NoEffect
  BY <1>5, ActingInPlace DEF NoEffect, Midway
<1>7. Standing(s, from, to, ihpa.status.gray, rp'.spec, sinceChange')
  BY <1>1, <1>6 DEF Standing, NoEffect
<1>8. Earlier(s, from, to, cachedRp.spec, rp'.spec)
  BY <1>6 DEF NoEffect, Midway
<1>9. copy.status.gray # ihpa.status.gray
  <2>1. gray.percent \in 0 .. 100 /\ next \in 0 .. 100 /\ gray.percent < next
    BY <1>1, <1>3, MidwayFacts
  <2> HIDE DEF next
  <2>2. gray.percent # next
    BY <2>1
  <2>3. QED
    BY <1>1, <2>2
<1>10. QED
  BY <1>1, <1>4, <1>6, <1>7, <1>8, <1>9 DEF ActingKeeps, Effect

\* All of it.
LEMMA ActingMidway ==
  ASSUME NEW s, NEW from, NEW to, Midway(s, from, to), Acting,
         copy.status.gray = ihpa.status.gray \/ OneBehind(s, from, to, copy.status.gray)
  PROVE  ActingKeeps(s, from, to)
BY ActingAtOnce, ActingEnds, ActingSteps, ActingWaits, ActingBehind

-----------------------------------------------------------------------------
(***************************************************************************)
(* The steps keep the course of the change.                                *)
(***************************************************************************)

\* A status that does not know of the change is none that does.
LEMMA AwareOrNot ==
  ASSUME NEW s, NEW from, NEW to, Change(s, from, to), NEW status
  PROVE  ~ (Unaware(status, from) /\ Aware(status, s, from, to))
BY NilAssumption DEF Change, Unaware, Aware

\* Before the change nobody knows of it, from when it is stored on some do.
LEMMA CourseSides ==
  ASSUME NEW s, NEW from, NEW to, Change(s, from, to), Course(s, from, to)
  PROVE  /\ Unaware(ihpa.status, from) => Before(s, from, to)
         /\ Aware(ihpa.status, s, from, to) => During(s, from, to)
         /\ from = to => Before(s, from, to)
BY AwareOrNot DEF Course, Before, During

\* A reconcile that ends without having written anything.
LEMMA EndKeepsCourse ==
  ASSUME NEW s, NEW from, NEW to, Course(s, from, to), pc' = "idle",
         UNCHANGED <<ihpa, rp, portrait, cacheVars, sinceChange, left>>
  PROVE  Course(s, from, to)'
<1> USE DEF cacheVars
<1>1. Undisturbed(s, from, to)'
  BY DEF Course, Undisturbed
<1>2. Before(s, from, to) => Before(s, from, to)'
  BY DEF Before
<1>3. During(s, from, to) => During(s, from, to)'
  BY DEF During, Trails, OneBehind
<1>4. Fetching(s, from, to)' /\ Adopting(s, from, to)' /\ Reporting(s, from, to)'
  BY DEF Fetching, Adopting, Reporting
<1>5. QED
  BY <1>1, <1>2, <1>3, <1>4 DEF Course

\* One that begins takes what the cache shows.
LEMMA BeginKeepsCourse ==
  ASSUME NEW s, NEW from, NEW to, Change(s, from, to), Course(s, from, to), BeginAgain
  PROVE  Course(s, from, to)'
<1> USE DEF cacheVars
<1>1. /\ pc' = AfterFinalizer(cachedIhpa) /\ copy' = cachedIhpa /\ original' = cachedIhpa.status
      /\ conflict' = lagging
      /\ UNCHANGED <<ihpa, rp, portrait, cacheVars, sinceChange, left>>
  BY DEF BeginAgain, Begin, Take
<1>2. pc' = "fetch"
  BY <1>1 DEF AfterFinalizer, Course, Undisturbed, Change
<1>3. Undisturbed(s, from, to)'
  BY <1>1, <1>2 DEF Course, Undisturbed
<1>4. Before(s, from, to) => Before(s, from, to)'
  BY <1>1 DEF Before
<1>5. During(s, from, to) => During(s, from, to)'
  BY <1>1 DEF During, Trails, OneBehind
<1>6. ~ conflict' => original' = ihpa'.status
  BY <1>1 DEF Course, Undisturbed
<1>7. Fetching(s, from, to)'
  <2>1. Trails(cachedIhpa.status, s, from, to)
    BY DEF Course, Before, During, Trails
  <2>2. Trails(copy.status, s, from, to)'
    BY <1>1, <2>1 DEF Trails, OneBehind
  <2>3. QED
    BY <1>1, <1>2, <2>2 DEF Fetching, UpToDate
<1>8. Adopting(s, from, to)' /\ Reporting(s, from, to)'
  BY <1>2 DEF Adopting, Reporting
<1>9. QED
  BY <1>3, <1>4, <1>5, <1>6, <1>7, <1>8 DEF Course

\* What is adopted: the new value, and a gray change that is at its beginning.
LEMMA AdoptedAware ==
  ASSUME NEW s, NEW from, NEW to, Change(s, from, to), NEW status \in IHPAStatus,
         Unaware(status, from)
  PROVE  /\ Aware(Adopted(s, status, to), s, from, to)
         /\ StrategyOf(s, from, to) # Nil => Adopted(s, status, to).gray.percent = 0
<1> DEFINE adopted == [status EXCEPT !.previous = from, !.current = to]
           begun == [percent |-> 0, age |-> 0]
<1>1. from # Nil
  BY NilAssumption DEF Change
<1>2. Adopted(s, status, to) =
        IF IsGrayActive(s, adopted) THEN [adopted EXCEPT !.gray = begun] ELSE adopted
  BY <1>1 DEF Adopted, Unaware
<1>3. adopted.previous = from /\ adopted.current = to /\ adopted.gray = Nil
  BY DEF IHPAStatus, Unaware
<1>4. /\ [adopted EXCEPT !.gray = begun].previous = from
      /\ [adopted EXCEPT !.gray = begun].current = to
      /\ [adopted EXCEPT !.gray = begun].gray = begun
  BY <1>3 DEF IHPAStatus
<1>5. begun \in GrayStatus /\ begun.percent = 0
  BY ConstantsTyped DEF GrayStatus
<1> HIDE DEF adopted, begun
<1>6. IsGrayActive(s, adopted) <=> StrategyOf(s, from, to) # Nil
  BY <1>3, AwareStrategy
<1>7. QED
  BY <1>2, <1>3, <1>4, <1>5, <1>6 DEF Aware

\* One that fetches the value goes on with it, or adopts it first.
LEMMA FetchKeepsCourse ==
  ASSUME NEW s, NEW from, NEW to, Change(s, from, to), TypeInv, Course(s, from, to), Fetch
  PROVE  Course(s, from, to)'
<1> USE DEF cacheVars
<1>1. /\ pc = "fetch"
      /\ UNCHANGED <<ihpa, rp, portrait, cacheVars, original, conflict, sinceChange, left>>
      /\ portrait = to /\ copy.spec = s /\ copy.status = original
      /\ Trails(copy.status, s, from, to)
      /\ UpToDate(copy.status, from) => UpToDate(cachedIhpa.status, from)
      /\ ~ conflict => original = ihpa.status
  BY DEF Fetch, Course, Undisturbed, Fetching
<1>2. copy \in Autoscaler /\ copy.status \in IHPAStatus
  BY AutoscalerParts DEF TypeInv, CopyTyped
<1>3. Before(s, from, to) => Before(s, from, to)'
  BY <1>1 DEF Before
<1>4. During(s, from, to) => During(s, from, to)'
  BY <1>1 DEF During, Trails, OneBehind
<1>5. CASE copy.status.current = portrait
  <2>1. pc' = "act" /\ copy' = copy
    BY <1>5 DEF Fetch
  <2>2. Undisturbed(s, from, to)'
    BY <1>1, <2>1 DEF Course, Undisturbed
  <2>3. Unaware(copy.status, from) => Unaware(ihpa.status, from)
    <3>1. Unaware(copy.status, from) => from = to
      BY <1>1, <1>5 DEF Unaware
    <3>2. QED
      BY <3>1, CourseSides DEF Before
  <2>4. Trails(copy.status, s, from, to)'
    BY <1>1, <2>1 DEF Trails, OneBehind
  <2>5. Fetching(s, from, to)'
    BY <1>1, <2>1, <2>3, <2>4 DEF Fetching, UpToDate
  <2>6. Adopting(s, from, to)' /\ Reporting(s, from, to)'
    BY <2>1 DEF Adopting, Reporting
  <2>7. QED
    BY <1>1, <1>3, <1>4, <2>2, <2>5, <2>6 DEF Course
<1>6. CASE copy.status.current # portrait
  <2>1. /\ pc' = "storeValue"
        /\ copy' = [copy EXCEPT !.status = Adopted(copy.spec, copy.status, portrait)]
    BY <1>6 DEF Fetch
  <2>2. copy'.spec = s /\ copy'.status = Adopted(s, copy.status, to)
    BY <1>1, <1>2, <2>1 DEF Autoscaler
  <2>3. Unaware(copy.status, from) /\ from # to
    BY <1>1, <1>6 DEF Trails, Unaware, Aware
  <2>4. Undisturbed(s, from, to)'
    BY <1>1, <2>1, <2>2 DEF Course, Undisturbed
  <2>5. Aware(Adopted(s, copy.status, to), s, from, to)
        /\ (StrategyOf(s, from, to) # Nil => Adopted(s, copy.status, to).gray.percent = 0)
    BY <1>2, <2>3, AdoptedAware
  <2>6. ~ conflict => Unaware(ihpa.status, from)
    BY <1>1, <2>3
  <2>7. Adopting(s, from, to)'
    <3>1. Aware(copy.status, s, from, to)'
      BY <2>2, <2>5 DEF Aware
    <3>2. QED
      BY <1>1, <2>2, <2>3, <2>5, <2>6, <3>1 DEF Adopting, Unaware
  <2>8. Fetching(s, from, to)' /\ Reporting(s, from, to)'
    BY <2>1 DEF Fetching, Reporting
  <2>9. QED
    BY <1>1, <1>3, <1>4, <2>4, <2>7, <2>8 DEF Course
<1>7. QED
  BY <1>5, <1>6

\* What is stored of a status of the change is that status.
LEMMA StoredAsItIs ==
  ASSUME NEW s, NEW from, NEW to, Change(s, from, to), NEW status \in IHPAStatus,
         status.previous \in {from, Nil}, status.current \in {from, to}
  PROVE  Stored(status) = status
<1>1. /\ StoredValue(status.previous) = status.previous
      /\ StoredValue(status.current) = status.current
  BY DEF StoredValue, Change
<1>2. Stored(status) = [status EXCEPT !.previous = status.previous, !.current = status.current]
  BY <1>1 DEF Stored
<1>3. QED
  BY <1>2 DEF IHPAStatus

\* The value is stored: the change begins.
LEMMA StoreValueKeepsCourse ==
  ASSUME NEW s, NEW from, NEW to, Change(s, from, to), TypeInv, Course(s, from, to), StoreValue
  PROVE  Course(s, from, to)'
<1> USE DEF cacheVars
<1>1. /\ pc = "storeValue" /\ ~ conflict /\ from # to
      /\ Aware(copy.status, s, from, to) /\ Unaware(ihpa.status, from)
      /\ StrategyOf(s, from, to) # Nil => copy.status.gray.percent = 0
      /\ copy.spec = s
  BY DEF StoreValue, CanStoreStatus, Course, Adopting, Undisturbed
<1>2. Before(s, from, to)
  BY <1>1, CourseSides
<1>3. copy \in Autoscaler /\ copy.status \in IHPAStatus /\ ihpa \in Autoscaler
  BY AutoscalerParts DEF TypeInv, CopyTyped, AutoscalerTyped
<1>4. Stored(copy.status) = copy.status
  BY <1>1, <1>3, StoredAsItIs DEF Aware
<1>5. /\ ihpa' = [ihpa EXCEPT !.status = copy.status]
      /\ lagging' = (lagging \/ copy.status # ihpa.status)
      /\ copy' = [copy EXCEPT !.status = copy.status] /\ original' = copy.status
      /\ pc' = "act" /\ conflict' = conflict
      /\ UNCHANGED <<rp, portrait, cachedIhpa, cachedRp, sinceChange, left>>
  BY <1>4 DEF StoreValue, StoreStatus, LeaveProfile
<1>6. /\ ihpa'.status = copy.status /\ ihpa'.spec = ihpa.spec /\ ihpa'.exists = ihpa.exists
      /\ ihpa'.deleting = ihpa.deleting /\ ihpa'.finalizer = ihpa.finalizer
      /\ ihpa'.uid = ihpa.uid
      /\ copy'.status = copy.status /\ copy'.spec = copy.spec
  BY <1>3, <1>5 DEF Autoscaler
<1>7. Undisturbed(s, from, to)'
  BY <1>1, <1>5, <1>6 DEF Course, Undisturbed
<1>8. Standing(s, from, to, copy.status.gray, rp.spec, sinceChange)
  <2>1. rp.spec = AtRestWith(s, from) /\ sinceChange = MaxAge
    BY <1>2 DEF Before
  <2>2. PodsAt(from, to, 0) = 0
    BY DEF PodsAt
  <2>3. QED
    BY <1>1, <2>1, <2>2, MovedEnds DEF Standing, InStep
<1>9. Earlier(s, from, to, cachedRp.spec, rp.spec)
  <2>1. cachedRp.spec = Moved(s, from, to, 0) /\ rp.spec = Moved(s, from, to, 0)
    BY <1>2, MovedEnds DEF Before
  <2>2. 0 \in 0 .. Span(from, to)
    BY NumbersOfChange
  <2>3. QED
    BY <2>1, <2>2 DEF Earlier
<1>10. Aware(ihpa.status, s, from, to)' /\ Aware(copy.status, s, from, to)'
  BY <1>1, <1>6 DEF Aware
<1>11. Unaware(cachedIhpa.status, from)'
  BY <1>2, <1>5 DEF Before, Unaware
<1>12. During(s, from, to)'
  BY <1>1, <1>5, <1>6, <1>8, <1>9, <1>10, <1>11 DEF During, Trails
<1>13. Fetching(s, from, to)'
  <2>1. Trails(copy.status, s, from, to)'
    BY <1>6, <1>10 DEF Trails
  <2>2. ~ Unaware(copy.status, from)'
    BY <1>10, NilAssumption DEF Unaware, Aware, Change
  <2>3. QED
    BY <1>5, <1>6, <1>11, <2>1, <2>2 DEF Fetching, UpToDate
<1>14. Adopting(s, from, to)' /\ Reporting(s, from, to)'
  BY <1>5 DEF Adopting, Reporting
<1>15. QED
  BY <1>5, <1>6, <1>7, <1>12, <1>13, <1>14 DEF Course

\* What the reconcile knows when it comes to act.
LEMMA WhenActing ==
  ASSUME NEW s, NEW from, NEW to, Change(s, from, to), TypeInv, Course(s, from, to), pc = "act"
  PROVE  /\ copy.spec = s /\ copy.status \in IHPAStatus /\ copy.status = original
         /\ ~ conflict => original = ihpa.status
         /\ UpToDate(copy.status, from) => UpToDate(cachedIhpa.status, from)
         /\ \/ Before(s, from, to) /\ Unaware(copy.status, from)
            \/ /\ During(s, from, to) /\ Midway(s, from, to)
               /\ \/ copy.status.gray = ihpa.status.gray
                  \/ OneBehind(s, from, to, copy.status.gray)
<1>1. /\ copy.spec = s /\ copy.status \in IHPAStatus /\ copy.status = original
      /\ ~ conflict => original = ihpa.status
      /\ UpToDate(copy.status, from) => UpToDate(cachedIhpa.status, from)
      /\ Trails(copy.status, s, from, to)
      /\ Unaware(copy.status, from) => Unaware(ihpa.status, from)
  BY AutoscalerParts DEF Course, Undisturbed, Fetching, TypeInv, CopyTyped
<1>2. CASE Unaware(copy.status, from)
  BY <1>1, <1>2, CourseSides
<1>3. CASE ~ Unaware(copy.status, from)
  <2>1. /\ Aware(copy.status, s, from, to) /\ Aware(ihpa.status, s, from, to)
        /\ \/ copy.status.gray = ihpa.status.gray
           \/ OneBehind(s, from, to, copy.status.gray)
    BY <1>1, <1>3 DEF Trails
  <2>2. During(s, from, to)
    BY <2>1, CourseSides
  <2>3. Midway(s, from, to)
    BY <1>1, <2>1, <2>2 DEF Midway, During
  <2>4. QED
    BY <1>1, <2>1, <2>2, <2>3
<1>4. QED
  BY <1>2, <1>3

\* Acting has one of its effects, or none.
LEMMA ActingHasEffect ==
  ASSUME NEW s, NEW from, NEW to, Change(s, from, to), TypeInv, Course(s, from, to), Acting
  PROVE  Effect(s, from, to)
<1>1. pc = "act"
  BY ActingFacts DEF Generate, AutoMode
<1>2. CASE Before(s, from, to) /\ Unaware(copy.status, from)
  <2>1. Wanted = rp.spec
    BY <1>1, <1>2, WhenActing, UnawareWants DEF Before
  <2>2. QED
    BY <2>1, ActingInPlace DEF Effect, NoEffect
<1>3. QED
  BY <1>1, <1>2, WhenActing, ActingMidway DEF ActingKeeps

\* It keeps the course.
LEMMA ActKeepsCourse ==
  ASSUME NEW s, NEW from, NEW to, Change(s, from, to), TypeInv, Course(s, from, to), Acting
  PROVE  Course(s, from, to)'
<1> USE DEF cacheVars
<1>1. /\ Generate /\ pc = "act" /\ pc' = "report"
      /\ UNCHANGED <<ihpa, portrait, cachedIhpa, lagging, cachedRp, original, conflict, left>>
  BY ActingFacts DEF Generate, AutoMode, ReportNext
<1>2. /\ copy.spec = s /\ copy.status \in IHPAStatus /\ copy.status = original
      /\ ~ conflict => original = ihpa.status
      /\ UpToDate(copy.status, from) => UpToDate(cachedIhpa.status, from)
  BY <1>1, WhenActing
<1>3. copy.status.current \in {from, to}
  BY <1>1, WhenActing DEF Unaware, Midway, Aware
<1>4. CopyCapped = copy.status
  BY <1>2, <1>3, WithinBoundsUncapped
<1>5. /\ copy'.spec = s
      /\ copy'.status.previous = copy.status.previous
      /\ copy'.status.current = copy.status.current
      /\ copy'.status.gray = Generated.gray
  <2>1. CopyTyped /\ \E online : ReportNext(online)
    BY ActingFacts DEF TypeInv
  <2>2. QED
    BY <1>1, <1>2, <1>4, <2>1, ReportedStatus
<1>6. rp'.exists = rp.exists /\ rp'.deleting = rp.deleting /\ rp'.owner = rp.owner
  BY ActingFacts
<1>7. Undisturbed(s, from, to)'
  BY <1>1, <1>5, <1>6 DEF Course, Undisturbed
<1>8. Fetching(s, from, to)' /\ Adopting(s, from, to)'
  BY <1>1 DEF Fetching, Adopting
<1>9. ~ conflict' => original' = ihpa'.status
  BY <1>1, <1>2
<1>10. ~ conflict => UpToDate(cachedIhpa.status, from)
  BY <1>2 DEF UpToDate
<1>11. CASE Before(s, from, to) /\ Unaware(copy.status, from)
  <2>1. Wanted = AtRestWith(s, from) /\ Generated.gray = Nil
    BY <1>2, <1>11, UnawareWants
  <2>2. rp'.spec = rp.spec /\ sinceChange' = sinceChange
    BY <1>11, <2>1, ActingInPlace DEF Before
  <2>3. Before(s, from, to)'
    BY <1>1, <1>11, <2>2 DEF Before
  <2>4. Unaware(copy.status, from)' /\ Unaware(ihpa.status, from)'
    BY <1>1, <1>5, <1>11, <2>1 DEF Unaware, Before
  <2>5. Reporting(s, from, to)'
    BY <1>1, <1>10, <2>4 DEF Reporting, UpToDate
  <2>6. QED
    BY <1>7, <1>8, <1>9, <2>3, <2>5 DEF Course
<1>12. CASE /\ During(s, from, to) /\ Midway(s, from, to)
            /\ \/ copy.status.gray = ihpa.status.gray
               \/ OneBehind(s, from, to, copy.status.gray)
  <2>1. ActingKeeps(s, from, to)
    BY <1>12, ActingMidway
  <2>2. Aware(ihpa.status, s, from, to)' /\ Aware(copy.status, s, from, to)'
    <3>1. Aware(ihpa.status, s, from, to) /\ Aware(copy.status, s, from, to)
      BY <1>12 DEF Midway
    <3>2. IF StrategyOf(s, from, to) = Nil THEN copy'.status.gray = Nil
          ELSE copy'.status.gray \in GrayStatus
      BY <1>5, <2>1 DEF ActingKeeps
    <3>3. QED
      BY <1>1, <1>5, <3>1, <3>2 DEF Aware
  <2>3. Trails(cachedIhpa.status, s, from, to)'
    <3>1. Trails(cachedIhpa.status, s, from, to)
      BY <1>12 DEF During
    <3>2. CASE copy.status.gray = ihpa.status.gray
      <4>1. UpToDate(cachedIhpa.status, from)
        BY <1>2, <3>2 DEF UpToDate
      <4>2. QED
        BY <1>1, <2>2, <3>1, <4>1 DEF Trails, UpToDate
    <3>3. CASE copy.status.gray # ihpa.status.gray
      <4>1. rp'.spec = rp.spec /\ sinceChange' = sinceChange
        BY <2>1, <3>3 DEF ActingKeeps, NoEffect
      <4>2. QED
        BY <1>1, <3>1, <4>1 DEF Trails, OneBehind
    <3>4. QED
      BY <3>2, <3>3
  <2>4. During(s, from, to)'
    BY <1>1, <1>12, <2>1, <2>2, <2>3 DEF During, ActingKeeps
  <2>5. ~ conflict => copy'.status.gray = ihpa'.status.gray \/ Stepped(s, from, to)'
    <3>1. SUFFICES ASSUME ~ conflict
                   PROVE  copy'.status.gray = ihpa'.status.gray \/ Stepped(s, from, to)'
      OBVIOUS
    <3>2. copy.status.gray = ihpa.status.gray
      BY <1>2, <3>1
    <3>3. Generated.gray = ihpa.status.gray \/ StepsOn(s, from, to, copy'.status.gray)
      BY <1>5, <2>1, <3>2 DEF ActingKeeps
    <3>4. QED
      BY <1>1, <1>5, <3>3 DEF StepsOn, Stepped
  <2>6. Reporting(s, from, to)'
    BY <1>1, <1>10, <2>2, <2>5 DEF Reporting, UpToDate
  <2>7. QED
    BY <1>7, <1>8, <1>9, <2>4, <2>6 DEF Course
<1>13. QED
  BY <1>1, <1>11, <1>12, WhenActing

\* Its report stores how far the change has come.
LEMMA ReportKeepsCourse ==
  ASSUME NEW s, NEW from, NEW to, Change(s, from, to), TypeInv, Course(s, from, to), Report
  PROVE  Course(s, from, to)'
<1> USE DEF cacheVars
<1> DEFINE status == FinalStatus
<1>1. /\ pc = "report" /\ StoreStatusAndReturn(status, remain)
      /\ UNCHANGED <<rp, portrait, cachedIhpa, cachedRp, rpLagging, sinceChange, left>>
  BY DEF Report, LeaveProfile
<1>2. CASE LeaveStatus /\ pc' = "idle"
  BY <1>1, <1>2, EndKeepsCourse DEF LeaveStatus
<1>3. CASE /\ CanStoreStatus /\ StoreStatus(status) /\ pc' = "idle"
  <2>1. ~ conflict /\ original = ihpa.status /\ copy.spec = s /\ UpToDate(cachedIhpa.status, from)
    BY <1>1, <1>3 DEF CanStoreStatus, Course, Reporting, Undisturbed
  <2>2. copy \in Autoscaler /\ copy.status \in IHPAStatus /\ ihpa \in Autoscaler
    BY AutoscalerParts DEF TypeInv, CopyTyped, AutoscalerTyped
  <2>3. /\ status \in IHPAStatus
        /\ status.previous = copy.status.previous /\ status.current = copy.status.current
        /\ status.gray = copy.status.gray
    <3>1. status \in IHPAStatus
      BY <2>2, WithConditionTyped DEF FinalStatus, Reasons
    <3>2. QED
      BY <2>2, <3>1 DEF FinalStatus, WithCondition, IHPAStatus
  <2> HIDE DEF status
  <2>4. \/ Unaware(ihpa.status, from) /\ Unaware(copy.status, from)
        \/ /\ Aware(ihpa.status, s, from, to) /\ Aware(copy.status, s, from, to)
           /\ copy.status.gray = ihpa.status.gray \/ Stepped(s, from, to)
    BY <1>1, <2>1 DEF Course, Reporting
  <2>5. Stored(status) = status
    BY <2>3, <2>4, StoredAsItIs DEF Unaware, Aware
  <2>6. ihpa' = [ihpa EXCEPT !.status = status] /\ lagging' = (lagging \/ status # ihpa.status)
    BY <1>3, <2>5 DEF StoreStatus
  <2>7. /\ ihpa'.status = status /\ ihpa'.spec = ihpa.spec /\ ihpa'.exists = ihpa.exists
        /\ ihpa'.deleting = ihpa.deleting /\ ihpa'.finalizer = ihpa.finalizer
        /\ ihpa'.uid = ihpa.uid
    BY <2>2, <2>3, <2>6 DEF Autoscaler
  <2>8. Undisturbed(s, from, to)'
    BY <1>1, <1>3, <2>6, <2>7 DEF Course, Undisturbed
  <2>9. Fetching(s, from, to)' /\ Adopting(s, from, to)' /\ Reporting(s, from, to)'
    BY <1>3 DEF Fetching, Adopting, Reporting
  <2>10. CASE Unaware(ihpa.status, from) /\ Unaware(copy.status, from)
    <3>1. Before(s, from, to)
      BY <2>10, CourseSides
    <3>2. Unaware(ihpa.status, from)'
      BY <2>3, <2>7, <2>10 DEF Unaware
    <3>3. Before(s, from, to)'
      BY <1>1, <3>1, <3>2 DEF Before, Unaware
    <3>4. QED
      BY <1>3, <2>8, <2>9, <3>3 DEF Course
  <2>11. CASE /\ Aware(ihpa.status, s, from, to) /\ Aware(copy.status, s, from, to)
              /\ copy.status.gray = ihpa.status.gray \/ Stepped(s, from, to)
    <3>1. During(s, from, to)
      BY <2>11, CourseSides
    <3>2. Aware(ihpa.status, s, from, to)'
      BY <2>3, <2>7, <2>11 DEF Aware
    <3>3. Standing(s, from, to, copy.status.gray, rp.spec, sinceChange)
      BY <2>11, <3>1 DEF During, Stepped, Standing
    <3>4. Trails(cachedIhpa.status, s, from, to)'
      <4>1. CASE Unaware(cachedIhpa.status, from)
        BY <1>1, <4>1 DEF Trails, Unaware
      <4>2. CASE ~ Unaware(cachedIhpa.status, from)
        <5>1. /\ Aware(cachedIhpa.status, s, from, to)
              /\ cachedIhpa.status.gray = ihpa.status.gray
          BY <2>1, <3>1, <4>2 DEF During, Trails, UpToDate
        <5>2. Aware(cachedIhpa.status, s, from, to)'
          BY <1>1, <5>1 DEF Aware
        <5>3. cachedIhpa'.status.gray = ihpa'.status.gray
              \/ OneBehind(s, from, to, cachedIhpa.status.gray)'
          BY <1>1, <2>3, <2>7, <2>11, <5>1 DEF Stepped, OneBehind
        <5>4. QED
          BY <3>2, <5>2, <5>3 DEF Trails
      <4>3. QED
        BY <4>1, <4>2
    <3>5. During(s, from, to)'
      BY <1>1, <2>3, <2>7, <3>1, <3>2, <3>3, <3>4 DEF During
    <3>6. QED
      BY <1>3, <2>8, <2>9, <3>5 DEF Course
  <2>12. QED
    BY <2>4, <2>10, <2>11
<1>4. QED
  BY <1>1, <1>2, <1>3 DEF StoreStatusAndReturn, DoneAfter, Retry, IdleLocals

\* The caches catch up.
LEMMA DeliverKeepsCourse ==
  ASSUME NEW s, NEW from, NEW to, Change(s, from, to), Course(s, from, to),
         DeliverIhpa \/ DeliverRp
  PROVE  Course(s, from, to)'
<1> USE DEF cacheVars, localVars
<1>1. /\ UNCHANGED <<ihpa, rp, portrait, pc, copy, original, conflict, sinceChange, left>>
      /\ \/ cachedIhpa' = ihpa /\ UNCHANGED cachedRp
         \/ cachedRp' = rp /\ UNCHANGED <<cachedIhpa, lagging>>
  BY DEF DeliverIhpa, DeliverRp
<1>2. Undisturbed(s, from, to)'
  BY <1>1 DEF Course, Undisturbed
<1>3. ~ conflict' => (pc' # "idle" => original' = ihpa'.status)
  BY <1>1 DEF Course
<1>4. Adopting(s, from, to)'
  BY <1>1 DEF Course, Adopting, Unaware, Aware
<1>5. UpToDate(cachedIhpa.status, from) => UpToDate(cachedIhpa.status, from)'
  BY <1>1 DEF UpToDate, Unaware
<1>6. Trails(cachedIhpa.status, s, from, to)' /\ Trails(ihpa.status, s, from, to)'
  <2>1. Trails(cachedIhpa.status, s, from, to) /\ Trails(ihpa.status, s, from, to)
    BY DEF Course, Before, During, Trails
  <2>2. QED
    BY <1>1, <2>1 DEF Trails, OneBehind
<1>7. Fetching(s, from, to)'
  <2>1. pc \in {"fetch", "act"} =>
          /\ copy.status = original
          /\ Trails(copy.status, s, from, to)'
          /\ UpToDate(copy.status, from) => UpToDate(cachedIhpa.status, from)
          /\ pc = "act" /\ Unaware(copy.status, from) => Unaware(ihpa.status, from)
    BY <1>1 DEF Course, Fetching, Trails, OneBehind
  <2>2. QED
    BY <1>1, <1>5, <2>1 DEF Fetching, UpToDate
<1>8. Reporting(s, from, to)'
  BY <1>1, <1>5 DEF Course, Reporting, Stepped
<1>9. Before(s, from, to) => Before(s, from, to)'
  BY <1>1 DEF Before
<1>10. During(s, from, to) => During(s, from, to)'
  <2>1. SUFFICES ASSUME During(s, from, to) PROVE During(s, from, to)'
    OBVIOUS
  <2>2. Earlier(s, from, to, cachedRp'.spec, rp'.spec)
    BY <1>1, <2>1, EarlierGoesOn DEF During
  <2>3. QED
    BY <1>1, <1>6, <2>1, <2>2 DEF During
<1>11. QED
  BY <1>2, <1>3, <1>4, <1>7, <1>8, <1>9, <1>10 DEF Course

\* A restart forgets the reconcile and fills the caches.
LEMMA RestartKeepsCourse ==
  ASSUME NEW s, NEW from, NEW to, Change(s, from, to), TypeInv, Course(s, from, to), Restart
  PROVE  Course(s, from, to)'
<1>1. /\ pc' = "idle" /\ cachedIhpa' = ihpa /\ cachedRp' = rp
      /\ UNCHANGED <<ihpa, rp, portrait, sinceChange>>
      /\ left' = [left EXCEPT !["crash"] = @ - 1]
  BY DEF Restart, IdleLocals, Spend
<1>2. \A kind \in {"portrait", "edit", "failure", "tamper"} : left'[kind] = left[kind]
  BY <1>1 DEF TypeInv, AroundTyped, TroubleKinds
<1>3. Undisturbed(s, from, to)'
  BY <1>1, <1>2 DEF Course, Undisturbed
<1>4. Before(s, from, to) => Before(s, from, to)'
  BY <1>1 DEF Before
<1>5. During(s, from, to) => During(s, from, to)'
  <2>1. SUFFICES ASSUME During(s, from, to) PROVE During(s, from, to)'
    OBVIOUS
  <2>2. Earlier(s, from, to, rp.spec, rp.spec)
    BY <2>1, EarlierGoesOn DEF During
  <2>3. QED
    BY <1>1, <2>1, <2>2 DEF During, Trails, Aware
<1>6. Fetching(s, from, to)' /\ Adopting(s, from, to)' /\ Reporting(s, from, to)'
  BY <1>1 DEF Fetching, Adopting, Reporting
<1>7. QED
  BY <1>1, <1>3, <1>4, <1>5, <1>6 DEF Course

\* The portrait changes: that is the change, and nobody knows of it yet.
LEMMA PortraitKeepsCourse ==
  ASSUME NEW s, NEW from, NEW to, Change(s, from, to), TypeInv, Course(s, from, to),
         NEW v, Change(s, from, v), PortraitChanges(v)
  PROVE  Course(s, from, v)'
<1> USE DEF cacheVars, localVars
<1>1. /\ portrait' = v /\ left["portrait"] > 0
      /\ left' = [left EXCEPT !["portrait"] = @ - 1]
      /\ UNCHANGED <<ihpa, rp, cacheVars, localVars, sinceChange>>
  BY DEF PortraitChanges, Spend
<1>2. left \in [TroubleKinds -> Nat] /\ left["portrait"] \in Nat
  BY DEF TypeInv, AroundTyped, TroubleKinds
<1>3. left["portrait"] = 1 /\ from = to
  BY <1>1, <1>2 DEF Course, Undisturbed
<1>4. /\ left'["portrait"] = 0
      /\ \A kind \in {"edit", "failure", "tamper"} : left'[kind] = left[kind]
  BY <1>1, <1>2, <1>3 DEF TroubleKinds
<1>5. Before(s, from, to)
  BY <1>3, CourseSides
<1>6. Undisturbed(s, from, v)'
  BY <1>1, <1>4 DEF Course, Undisturbed
<1>7. Before(s, from, v)'
  BY <1>1, <1>5 DEF Before
<1>8. Unaware(ihpa.status, from) /\ ~ Aware(ihpa.status, s, from, to)
  BY <1>5, AwareOrNot DEF Before
<1>9. pc # "storeValue"
  BY <1>3 DEF Course, Adopting
<1>10. UpToDate(cachedIhpa.status, from)' /\ Unaware(ihpa.status, from)'
  BY <1>1, <1>5 DEF Before, UpToDate, Unaware
<1>11. Fetching(s, from, v)'
  <2>1. pc \in {"fetch", "act"} => copy.status = original /\ Unaware(copy.status, from)
    BY <1>8 DEF Course, Fetching, Trails
  <2>2. QED
    BY <1>1, <1>10, <2>1 DEF Fetching, Trails, Unaware
<1>12. Adopting(s, from, v)'
  BY <1>1, <1>9 DEF Adopting
<1>13. Reporting(s, from, v)'
  <2>1. pc = "report" /\ ~ conflict => Unaware(copy.status, from)
    BY <1>8 DEF Course, Reporting
  <2>2. QED
    BY <1>1, <1>10, <2>1 DEF Reporting, Unaware
<1>14. pc' # "idle" /\ ~ conflict' => original' = ihpa'.status
  BY <1>1 DEF Course
<1>15. QED
  BY <1>6, <1>7, <1>11, <1>12, <1>13, <1>14 DEF Course

\* A status as time passes.
Older(gray) == [gray EXCEPT !.age = LesserOf(MaxAge, @ + 1)]

\* Of a status nothing but the gray status ages.
LEMMA AgedGray ==
  ASSUME NEW status \in IHPAStatus
  PROVE  /\ Aged(status).previous = status.previous
         /\ Aged(status).current = status.current
         /\ status.gray = Nil => Aged(status).gray = Nil
         /\ status.gray # Nil => Aged(status).gray = Older(status.gray)
BY DEF Aged, Older, IHPAStatus

\* The percentage stays, and what need not wait need not wait later.
LEMMA OlderFacts ==
  ASSUME NEW gray \in GrayStatus
  PROVE  /\ Older(gray) \in GrayStatus
         /\ Older(gray).percent = gray.percent
         /\ Older(gray).age = LesserOf(MaxAge, gray.age + 1)
         /\ \A strategy \in GrayStrategy :
              GrayRemainTime(strategy, gray) = 0 => GrayRemainTime(strategy, Older(gray)) = 0
<1>1. gray.age \in 0 .. MaxAge /\ MaxAge \in Nat /\ gray.percent \in 0 .. 100
  BY ConstantsTyped DEF GrayStatus
<1>2. LesserOf(MaxAge, gray.age + 1) \in 0 .. MaxAge /\ LesserOf(MaxAge, gray.age + 1) >= gray.age
  BY <1>1 DEF LesserOf
<1>3. /\ Older(gray) \in GrayStatus
      /\ Older(gray).percent = gray.percent
      /\ Older(gray).age = LesserOf(MaxAge, gray.age + 1)
  BY <1>2 DEF Older, GrayStatus
<1>4. ASSUME NEW strategy \in GrayStrategy, GrayRemainTime(strategy, gray) = 0
      PROVE  GrayRemainTime(strategy, Older(gray)) = 0
  <2> DEFINE w == Wait(strategy, gray.percent)
             a == gray.age
             b == Older(gray).age
  <2>1. w \in Int
    <3>1. strategy.interval \in Int /\ strategy.observation \in Int
      BY <1>1 DEF GrayStrategy
    <3>2. QED
      BY <3>1 DEF Wait
  <2>2. a \in Int /\ b \in Int /\ a <= b
    BY <1>1, <1>2, <1>3
  <2>3. GreaterOf(0, w - a) = 0
    BY <1>4 DEF GrayRemainTime
  <2>4. GrayRemainTime(strategy, Older(gray)) = GreaterOf(0, w - b)
    BY <1>3 DEF GrayRemainTime
  <2> HIDE DEF w, a, b
  <2>5. GreaterOf(0, w - b) = 0
    BY <2>1, <2>2, <2>3 DEF GreaterOf
  <2>6. QED
    BY <2>4, <2>5
<1>5. QED
  BY <1>3, <1>4

\* So what was due or at its end stays so, and the profile in step stays in step.
LEMMA OlderInStep ==
  ASSUME NEW s, NEW from, NEW to, NEW gray \in GrayStatus, NEW strategy \in GrayStrategy,
         NEW asked, NEW since \in 0 .. MaxAge
  PROVE  /\ Due(strategy, gray) => Due(strategy, Older(gray))
         /\ Next100(strategy, Older(gray)) = Next100(strategy, gray)
         /\ GrayEnded(strategy, gray) => GrayEnded(strategy, Older(gray))
         /\ InStep(s, from, to, gray, asked, since) =>
              InStep(s, from, to, Older(gray), asked, LesserOf(MaxAge, since + 1))
<1>1. gray.age \in 0 .. MaxAge /\ MaxAge \in Nat
  BY ConstantsTyped DEF GrayStatus
<1>2. /\ since = MaxAge => LesserOf(MaxAge, since + 1) = MaxAge
      /\ gray.age <= since => LesserOf(MaxAge, gray.age + 1) <= LesserOf(MaxAge, since + 1)
  BY <1>1 DEF LesserOf
<1>3. /\ Older(gray).percent = gray.percent
      /\ Older(gray).age = LesserOf(MaxAge, gray.age + 1)
      /\ GrayRemainTime(strategy, gray) = 0 => GrayRemainTime(strategy, Older(gray)) = 0
  BY OlderFacts
<1>4. InStep(s, from, to, gray, asked, since) =>
        InStep(s, from, to, Older(gray), asked, LesserOf(MaxAge, since + 1))
  BY <1>2, <1>3 DEF InStep
<1>5. QED
  BY <1>3, <1>4 DEF Due, Next100, GrayEnded

\* Statuses as time passes know what they knew.
LEMMA AgedKnows ==
  ASSUME NEW s, NEW from, NEW to, Change(s, from, to), NEW status \in IHPAStatus
  PROVE  /\ Unaware(status, from) => Unaware(Aged(status), from)
         /\ Aware(status, s, from, to) =>
              /\ Aware(Aged(status), s, from, to)
              /\ StrategyOf(s, from, to) # Nil => Aged(status).gray = Older(status.gray)
         /\ \A other \in IHPAStatus :
              status.gray = other.gray => Aged(status).gray = Aged(other).gray
<1>1. Unaware(status, from) => Unaware(Aged(status), from)
  BY AgedGray DEF Unaware
<1>2. ASSUME Aware(status, s, from, to)
      PROVE  /\ Aware(Aged(status), s, from, to)
             /\ StrategyOf(s, from, to) # Nil => Aged(status).gray = Older(status.gray)
  <2>1. CASE StrategyOf(s, from, to) = Nil
    BY <1>2, <2>1, AgedGray DEF Aware
  <2>2. CASE StrategyOf(s, from, to) # Nil
    <3>1. status.gray \in GrayStatus /\ status.gray # Nil
      BY <1>2, <2>2, NilAssumption DEF Aware
    <3>2. Aged(status).gray = Older(status.gray) /\ Older(status.gray) \in GrayStatus
      BY <3>1, AgedGray, OlderFacts
    <3>3. QED
      BY <1>2, <2>2, <3>2, AgedGray DEF Aware
  <2>3. QED
    BY <2>1, <2>2
<1>3. \A other \in IHPAStatus : status.gray = other.gray => Aged(status).gray = Aged(other).gray
  BY AgedGray
<1>4. QED
  BY <1>1, <1>2, <1>3

\* Time passes for all of them alike.
LEMMA TickKeepsCourse ==
  ASSUME NEW s, NEW from, NEW to, Change(s, from, to), TypeInv, Course(s, from, to), Tick
  PROVE  Course(s, from, to)'
<1> DEFINE strategy == StrategyOf(s, from, to)
<1>1. /\ ihpa \in Autoscaler /\ cachedIhpa \in Autoscaler /\ copy \in Autoscaler
      /\ original \in IHPAStatus /\ sinceChange \in 0 .. MaxAge
  BY DEF TypeInv, AutoscalerTyped, CacheTyped, CopyTyped, ProfileTyped
<1>2. /\ ihpa.status \in IHPAStatus /\ cachedIhpa.status \in IHPAStatus
      /\ copy.status \in IHPAStatus
  BY <1>1, AutoscalerParts
<1>3. /\ ihpa' = [ihpa EXCEPT !.status = Aged(ihpa.status)]
      /\ cachedIhpa' = [cachedIhpa EXCEPT !.status = Aged(cachedIhpa.status)]
      /\ copy' = [copy EXCEPT !.status = Aged(copy.status)]
      /\ original' = Aged(original)
      /\ sinceChange' = LesserOf(MaxAge, sinceChange + 1)
      /\ UNCHANGED <<rp, portrait, lagging, cachedRp, pc, conflict, left>>
  BY DEF Tick
<1>4. /\ ihpa'.status = Aged(ihpa.status) /\ ihpa'.spec = ihpa.spec /\ ihpa'.exists = ihpa.exists
      /\ ihpa'.deleting = ihpa.deleting /\ ihpa'.finalizer = ihpa.finalizer
      /\ ihpa'.uid = ihpa.uid
      /\ cachedIhpa'.status = Aged(cachedIhpa.status) /\ cachedIhpa'.spec = cachedIhpa.spec
      /\ cachedIhpa'.exists = cachedIhpa.exists /\ cachedIhpa'.deleting = cachedIhpa.deleting
      /\ cachedIhpa'.finalizer = cachedIhpa.finalizer
      /\ copy'.status = Aged(copy.status) /\ copy'.spec = copy.spec
  BY <1>1, <1>3 DEF Autoscaler
<1>5. Undisturbed(s, from, to)'
  BY <1>3, <1>4 DEF Course, Undisturbed
<1>6. pc' # "idle" /\ ~ conflict' => original' = ihpa'.status
  BY <1>3, <1>4 DEF Course
<1>7. ASSUME NEW status \in IHPAStatus
      PROVE  /\ Unaware(status, from) => Unaware(Aged(status), from)
             /\ Aware(status, s, from, to) => Aware(Aged(status), s, from, to)
             /\ \A other \in IHPAStatus :
                  status.gray = other.gray => Aged(status).gray = Aged(other).gray
  BY AgedKnows
<1>8. ASSUME NEW status \in IHPAStatus, Aware(status, s, from, to), strategy # Nil
      PROVE  /\ status.gray \in GrayStatus /\ strategy \in GrayStrategy
             /\ Aged(status).gray = Older(status.gray)
  BY <1>8, AgedKnows, NumbersOfChange DEF Aware
<1>9. ASSUME NEW status \in IHPAStatus, NEW later \in IHPAStatus,
             Aware(status, s, from, to), Aware(later, s, from, to),
             strategy # Nil, Due(strategy, status.gray),
             later.gray.percent = Next100(strategy, status.gray),
             InStep(s, from, to, later.gray, rp.spec, sinceChange)
      PROVE  /\ Due(strategy, Aged(status).gray)
             /\ Aged(later).gray.percent = Next100(strategy, Aged(status).gray)
             /\ InStep(s, from, to, Aged(later).gray, rp'.spec, sinceChange')
  <2>1. /\ status.gray \in GrayStatus /\ later.gray \in GrayStatus /\ strategy \in GrayStrategy
        /\ Aged(status).gray = Older(status.gray) /\ Aged(later).gray = Older(later.gray)
    BY <1>8, <1>9
  <2> HIDE DEF strategy
  <2>2. /\ Due(strategy, Older(status.gray))
        /\ Next100(strategy, Older(status.gray)) = Next100(strategy, status.gray)
    BY <1>1, <1>9, <2>1, OlderInStep
  <2>3. InStep(s, from, to, Older(later.gray), rp.spec, LesserOf(MaxAge, sinceChange + 1))
    BY <1>1, <1>9, <2>1, OlderInStep
  <2>4. Older(later.gray).percent = later.gray.percent
    BY <2>1, OlderFacts
  <2>5. QED
    BY <1>3, <1>9, <2>1, <2>2, <2>3, <2>4
<1>10. ASSUME NEW status \in IHPAStatus, Trails(status, s, from, to)
       PROVE  \/ Unaware(Aged(status), from)
              \/ /\ Aware(Aged(status), s, from, to) /\ Aware(ihpa.status, s, from, to)'
                 /\ \/ Aged(status).gray = ihpa'.status.gray
                    \/ /\ strategy # Nil
                       /\ Due(strategy, Aged(status).gray)
                       /\ ihpa'.status.gray.percent = Next100(strategy, Aged(status).gray)
                       /\ InStep(s, from, to, ihpa'.status.gray, rp'.spec, sinceChange')
  <2>1. CASE Unaware(status, from)
    BY <1>7, <2>1
  <2>2. CASE /\ Aware(status, s, from, to) /\ Aware(ihpa.status, s, from, to)
             /\ status.gray = ihpa.status.gray \/ OneBehind(s, from, to, status.gray)
    <3>1. Aware(Aged(status), s, from, to) /\ Aware(Aged(ihpa.status), s, from, to)
      BY <1>2, <1>7, <2>2
    <3>2. Aware(ihpa.status, s, from, to)'
      BY <1>4, <3>1 DEF Aware
    <3>3. CASE status.gray = ihpa.status.gray
      BY <1>2, <1>4, <1>7, <3>1, <3>2, <3>3
    <3>4. CASE OneBehind(s, from, to, status.gray)
      BY <1>2, <1>4, <1>9, <2>2, <3>1, <3>2, <3>4 DEF OneBehind
    <3>5. QED
      BY <2>2, <3>3, <3>4
  <2>3. QED
    BY <1>10, <2>1, <2>2 DEF Trails
<1>11. /\ Trails(cachedIhpa.status, s, from, to) => Trails(cachedIhpa.status, s, from, to)'
       /\ Trails(copy.status, s, from, to) => Trails(copy.status, s, from, to)'
  BY <1>2, <1>4, <1>10 DEF Trails, OneBehind, Unaware, Aware
<1>12. ASSUME NEW status \in IHPAStatus, UpToDate(status, from)
       PROVE  Unaware(Aged(status), from) \/ Aged(status).gray = ihpa'.status.gray
  BY <1>2, <1>4, <1>7, <1>12 DEF UpToDate
<1>13. Before(s, from, to) => Before(s, from, to)'
  <2>1. SUFFICES ASSUME Before(s, from, to) PROVE Before(s, from, to)'
    OBVIOUS
  <2>2. Unaware(Aged(ihpa.status), from) /\ Unaware(Aged(cachedIhpa.status), from)
    BY <1>2, <1>7, <2>1 DEF Before
  <2>3. sinceChange' = MaxAge
    BY <1>3, <2>1, ConstantsTyped DEF Before, LesserOf
  <2>4. QED
    BY <1>3, <1>4, <2>1, <2>2, <2>3 DEF Before, Unaware
<1>14. During(s, from, to) => During(s, from, to)'
  <2>1. SUFFICES ASSUME During(s, from, to) PROVE During(s, from, to)'
    OBVIOUS
  <2>2. Aware(ihpa.status, s, from, to) /\ Aware(Aged(ihpa.status), s, from, to)
    BY <1>2, <1>7, <2>1 DEF During
  <2>3. Standing(s, from, to, Aged(ihpa.status).gray, rp.spec, sinceChange')
    <3>1. CASE strategy = Nil
      BY <2>1, <3>1 DEF During, Standing
    <3>2. CASE strategy # Nil
      <4>1. /\ ihpa.status.gray \in GrayStatus /\ strategy \in GrayStrategy
            /\ Aged(ihpa.status).gray = Older(ihpa.status.gray)
        BY <1>2, <1>8, <2>2, <3>2
      <4>2. /\ Due(strategy, ihpa.status.gray) => Due(strategy, Older(ihpa.status.gray))
            /\ Next100(strategy, Older(ihpa.status.gray)) = Next100(strategy, ihpa.status.gray)
            /\ GrayEnded(strategy, ihpa.status.gray) => GrayEnded(strategy, Older(ihpa.status.gray))
            /\ InStep(s, from, to, ihpa.status.gray, rp.spec, sinceChange) =>
                 InStep(s, from, to, Older(ihpa.status.gray), rp.spec, sinceChange')
        <5> HIDE DEF strategy
        <5>1. QED
          BY <1>1, <1>3, <4>1, OlderInStep
      <4>3. \/ InStep(s, from, to, ihpa.status.gray, rp.spec, sinceChange)
            \/ Ahead(s, from, to, ihpa.status.gray, rp.spec)
            \/ Through(s, from, to, ihpa.status.gray, rp.spec)
        BY <2>1, <3>2 DEF During, Standing
      <4>4. QED
        BY <3>2, <4>1, <4>2, <4>3 DEF Standing, Ahead, Through
    <3>3. QED
      BY <3>1, <3>2
  <2>4. Trails(cachedIhpa.status, s, from, to)'
    BY <1>11, <2>1 DEF During
  <2>5. Aware(ihpa.status, s, from, to)'
    BY <1>4, <2>2 DEF Aware
  <2>6. QED
    BY <1>3, <1>4, <2>1, <2>3, <2>4, <2>5 DEF During
<1>15. Fetching(s, from, to)'
  <2>1. SUFFICES ASSUME pc \in {"fetch", "act"} PROVE Fetching(s, from, to)'
    BY <1>3 DEF Fetching
  <2>2. /\ copy.status = original /\ Trails(copy.status, s, from, to)
        /\ UpToDate(copy.status, from) => UpToDate(cachedIhpa.status, from)
        /\ pc = "act" /\ Unaware(copy.status, from) => Unaware(ihpa.status, from)
    BY <2>1 DEF Course, Fetching
  <2>3. UpToDate(copy.status, from)' => UpToDate(copy.status, from)
    <3>1. CASE Unaware(copy.status, from) \/ copy.status.gray = ihpa.status.gray
      BY <3>1 DEF UpToDate
    <3>2. CASE /\ Aware(copy.status, s, from, to) /\ Aware(ihpa.status, s, from, to)
               /\ OneBehind(s, from, to, copy.status.gray)
      <4>1. /\ strategy # Nil /\ Due(strategy, copy.status.gray)
            /\ ihpa.status.gray.percent = Next100(strategy, copy.status.gray)
        BY <3>2 DEF OneBehind
      <4>2. /\ copy.status.gray \in GrayStatus /\ ihpa.status.gray \in GrayStatus
            /\ strategy \in GrayStrategy
            /\ Aged(copy.status).gray = Older(copy.status.gray)
            /\ Aged(ihpa.status).gray = Older(ihpa.status.gray)
        BY <1>2, <1>8, <3>2, <4>1
      <4>3. copy.status.gray.percent # ihpa.status.gray.percent
        <5>1. copy.status.gray.percent < 100 /\ copy.status.gray.percent \in 0 .. 100
          BY <4>1, <4>2 DEF Due, GrayStatus
        <5>2. ~ GrayEnded(strategy, copy.status.gray)
          BY <5>1 DEF GrayEnded
        <5> HIDE DEF strategy
        <5>3. /\ copy.status.gray.percent < Next100(strategy, copy.status.gray)
              /\ Next100(strategy, copy.status.gray) \in 0 .. 100
          BY <4>1, <4>2, <5>2, NextIsDue
        <5>4. QED
          BY <4>1, <5>1, <5>3
      <4>4. copy'.status.gray # ihpa'.status.gray
        <5>1. /\ Older(copy.status.gray).percent = copy.status.gray.percent
              /\ Older(ihpa.status.gray).percent = ihpa.status.gray.percent
          BY <4>2, OlderFacts
        <5>2. QED
          BY <1>4, <4>2, <4>3, <5>1
      <4>5. ~ Unaware(Aged(copy.status), from)
        BY <1>2, <1>7, <3>2, AwareOrNot
      <4>6. ~ Unaware(copy.status, from)'
        BY <1>4, <4>5 DEF Unaware
      <4>7. QED
        BY <4>4, <4>6 DEF UpToDate
    <3>3. QED
      BY <2>2, <3>1, <3>2 DEF Trails
  <2>4. UpToDate(cachedIhpa.status, from) => UpToDate(cachedIhpa.status, from)'
    <3>1. SUFFICES ASSUME UpToDate(cachedIhpa.status, from)
                   PROVE  UpToDate(cachedIhpa.status, from)'
      OBVIOUS
    <3>2. \/ Unaware(Aged(cachedIhpa.status), from)
          \/ Aged(cachedIhpa.status).gray = ihpa'.status.gray
      BY <1>2, <1>12, <3>1
    <3>3. QED
      BY <1>4, <3>2 DEF UpToDate, Unaware
  <2>5. pc = "act" /\ Unaware(copy.status, from)' => Unaware(ihpa.status, from)'
    <3>1. SUFFICES ASSUME pc = "act", Unaware(copy.status, from)'
                   PROVE  Unaware(ihpa.status, from)'
      OBVIOUS
    <3>2. Unaware(Aged(copy.status), from)
      BY <1>4, <3>1 DEF Unaware
    <3>3. Unaware(copy.status, from)
      BY <1>2, <1>7, <2>2, <3>2, AwareOrNot DEF Trails
    <3>4. Unaware(Aged(ihpa.status), from)
      BY <1>2, <1>7, <2>2, <3>1, <3>3
    <3>5. QED
      BY <1>4, <3>4 DEF Unaware
  <2>6. copy'.status = original'
    BY <1>3, <1>4, <2>2
  <2>7. QED
    BY <1>3, <1>11, <2>2, <2>3, <2>4, <2>5, <2>6 DEF Fetching
<1>16. Adopting(s, from, to)'
  <2>1. SUFFICES ASSUME pc = "storeValue" PROVE Adopting(s, from, to)'
    BY <1>3 DEF Adopting
  <2>2. /\ from # to /\ Aware(copy.status, s, from, to)
        /\ strategy # Nil => copy.status.gray.percent = 0
        /\ ~ conflict => Unaware(ihpa.status, from)
    BY <2>1 DEF Course, Adopting
  <2>3. Aware(Aged(copy.status), s, from, to)
    BY <1>2, <1>7, <2>2
  <2>4. strategy # Nil => Aged(copy.status).gray.percent = 0
    <3>1. SUFFICES ASSUME strategy # Nil PROVE Aged(copy.status).gray.percent = 0
      OBVIOUS
    <3>2. copy.status.gray \in GrayStatus /\ Aged(copy.status).gray = Older(copy.status.gray)
      BY <1>2, <1>8, <2>2, <3>1
    <3>3. QED
      BY <2>2, <3>1, <3>2, OlderFacts
  <2>5. ~ conflict => Unaware(Aged(ihpa.status), from)
    BY <1>2, <1>7, <2>2
  <2>6. QED
    BY <1>3, <1>4, <2>2, <2>3, <2>4, <2>5 DEF Adopting, Aware, Unaware
<1>17. Reporting(s, from, to)'
  <2>1. SUFFICES ASSUME pc = "report", ~ conflict PROVE Reporting(s, from, to)'
    BY <1>3 DEF Reporting
  <2>2. /\ UpToDate(cachedIhpa.status, from)
        /\ \/ Unaware(ihpa.status, from) /\ Unaware(copy.status, from)
           \/ /\ Aware(ihpa.status, s, from, to) /\ Aware(copy.status, s, from, to)
              /\ copy.status.gray = ihpa.status.gray \/ Stepped(s, from, to)
    BY <2>1 DEF Course, Reporting
  <2>3. UpToDate(cachedIhpa.status, from)'
    <3>1. \/ Unaware(Aged(cachedIhpa.status), from)
          \/ Aged(cachedIhpa.status).gray = ihpa'.status.gray
      BY <1>2, <1>12, <2>2
    <3>2. QED
      BY <1>4, <3>1 DEF UpToDate, Unaware
  <2>4. CASE Unaware(ihpa.status, from) /\ Unaware(copy.status, from)
    <3>1. Unaware(Aged(ihpa.status), from) /\ Unaware(Aged(copy.status), from)
      BY <1>2, <1>7, <2>4
    <3>2. Unaware(ihpa.status, from)' /\ Unaware(copy.status, from)'
      BY <1>4, <3>1 DEF Unaware
    <3>3. QED
      BY <2>3, <3>2 DEF Reporting
  <2>5. CASE /\ Aware(ihpa.status, s, from, to) /\ Aware(copy.status, s, from, to)
             /\ copy.status.gray = ihpa.status.gray \/ Stepped(s, from, to)
    <3>1. Aware(Aged(ihpa.status), s, from, to) /\ Aware(Aged(copy.status), s, from, to)
      BY <1>2, <1>7, <2>5
    <3>2. Aware(ihpa.status, s, from, to)' /\ Aware(copy.status, s, from, to)'
      BY <1>4, <3>1 DEF Aware
    <3>3. copy.status.gray = ihpa.status.gray => copy'.status.gray = ihpa'.status.gray
      BY <1>2, <1>4, <1>7
    <3>4. Stepped(s, from, to) => Stepped(s, from, to)'
      <4>1. SUFFICES ASSUME Stepped(s, from, to) PROVE Stepped(s, from, to)'
        OBVIOUS
      <4>2. /\ Due(strategy, Aged(ihpa.status).gray)
            /\ Aged(copy.status).gray.percent = Next100(strategy, Aged(ihpa.status).gray)
            /\ InStep(s, from, to, Aged(copy.status).gray, rp'.spec, sinceChange')
            /\ strategy # Nil
        BY <1>2, <1>9, <2>5, <4>1 DEF Stepped
      <4>3. QED
        BY <1>4, <4>2 DEF Stepped
    <3>5. QED
      BY <2>3, <2>5, <3>2, <3>3, <3>4 DEF Reporting
  <2>6. QED
    BY <2>2, <2>4, <2>5
<1>18. QED
  BY <1>5, <1>6, <1>13, <1>14, <1>15, <1>16, <1>17 DEF Course

\* What can happen in the course of it.
Happens ==
  \/ UNCHANGED vars
  \/ BeginAgain \/ Fetch \/ StoreValue \/ StoreValueConflict \/ GeneratePanics \/ Acting \/ Report
  \/ DeliverIhpa \/ DeliverRp \/ Tick \/ Restart
  \/ \E v \in Portraits : PortraitChanges(v)

\* Nothing else can.
LEMMA CourseHappens ==
  ASSUME NEW s, NEW from, NEW to, Change(s, from, to), TypeInv, Course(s, from, to), [Next]_vars
  PROVE  Happens
<1>1. /\ ihpa.exists /\ ~ ihpa.deleting /\ rp.exists /\ ~ rp.deleting /\ rp.owner = ihpa.uid
      /\ cachedIhpa.exists /\ ~ cachedIhpa.deleting /\ cachedIhpa.finalizer /\ cachedRp.exists
      /\ pc \in {"idle", "fetch", "storeValue", "act", "report"}
      /\ portrait = to /\ to # Nil
      /\ left["edit"] = 0 /\ left["failure"] = 0 /\ left["tamper"] = 0
  BY NilAssumption DEF Course, Undisturbed, Change
<1>2. pc = "act" => copy.spec.mode = "Auto"
  BY DEF Course, Undisturbed, Change
<1>3. ~ (0 > 0)
  OBVIOUS
<1>4. CASE Reconcile
  <2>1. /\ ~ BeginNothingToDo /\ ~ BeginDeletion /\ ~ BeginFirst
    BY <1>1 DEF BeginNothingToDo, BeginDeletion, BeginFirst
  <2>2. ~ RemoveFinalizer /\ ~ AddFinalizer /\ ~ FinalizerPatchMisses
    BY <1>1 DEF RemoveFinalizer, AddFinalizer, FinalizerPatchMisses
  <2>3. ~ Pause /\ ~ PauseMisses /\ ~ PauseReport
    BY <1>1 DEF Pause, PauseMisses, PauseReport
  <2>4. ~ FetchNothing
    BY <1>1 DEF FetchNothing, NoValue
  <2>5. ~ CreateProfile /\ ~ ProfileCallMisses
    BY <1>1 DEF CreateProfile, ProfileCallMisses, NeedsPatch
  <2>6. ~ DeleteProfile
    BY <1>2 DEF DeleteProfile, PreviewMode
  <2>7. QED
    BY <1>4, <2>1, <2>2, <2>3, <2>4, <2>5, <2>6 DEF Reconcile, Happens, Acting
<1>5. CASE Disturb
  <2>1. ~ CallFails /\ ~ FetchNothingUnrecorded /\ \A n \in ByHand : ~ EditProfile(n)
    BY <1>1, <1>3 DEF CallFails, FetchNothingUnrecorded, EditProfile, Spend
  <2>2. QED
    BY <1>5, <2>1 DEF Disturb, Happens
<1>6. CASE Own
  <2>1. ASSUME NEW new PROVE ~ WriteIhpa(new)
    BY <1>1, <1>3 DEF WriteIhpa, Spend
  <2>2. QED
    BY <1>6, <2>1 DEF Own, DeleteIhpa, EditIhpa, CreateIhpa
<1>7. ~ CollectProfile /\ ~ ProfileGoes
  BY <1>1 DEF CollectProfile, ProfileGoes
<1>8. QED
  BY <1>4, <1>5, <1>6, <1>7 DEF Next, Happens

\* Every step keeps the course, or is the change itself.
LEMMA StepKeepsCourse ==
  ASSUME OneChange, TypeInv, CourseInv, [Next]_vars
  PROVE  CourseInv'
<1>1. PICK s \in Specs, from \in Portraits, to \in Portraits : Course(s, from, to)
  BY DEF CourseInv
<1>2. Change(s, from, to)
  BY ChangeFacts
<1>3. CASE UNCHANGED vars
  <2>1. Course(s, from, to)'
    BY <1>1, <1>3
    DEF vars, cacheVars, localVars, Course, Undisturbed, Before, During, Trails, OneBehind,
        Fetching, UpToDate, Adopting, Reporting, Stepped
  <2>2. QED
    BY <2>1 DEF CourseInv
<1>4. CASE StoreValueConflict \/ GeneratePanics
  <2>1. Course(s, from, to)'
    BY <1>1, <1>4, EndKeepsCourse DEF StoreValueConflict, GeneratePanics, Retry, IdleLocals
  <2>2. QED
    BY <2>1 DEF CourseInv
<1>5. CASE \/ BeginAgain \/ Fetch \/ StoreValue \/ Acting \/ Report
           \/ DeliverIhpa \/ DeliverRp \/ Tick \/ Restart
  <2>1. Course(s, from, to)'
    BY <1>1, <1>2, <1>5, BeginKeepsCourse, FetchKeepsCourse, StoreValueKeepsCourse,
       ActKeepsCourse, ReportKeepsCourse, DeliverKeepsCourse, TickKeepsCourse, RestartKeepsCourse
  <2>2. QED
    BY <2>1 DEF CourseInv
<1>6. ASSUME NEW v \in Portraits, PortraitChanges(v)
      PROVE  CourseInv'
  <2>1. Change(s, from, v)
    BY ChangeFacts
  <2>2. Course(s, from, v)'
    BY <1>1, <1>2, <1>6, <2>1, PortraitKeepsCourse
  <2>3. QED
    BY <2>2 DEF CourseInv
<1>7. QED
  BY <1>1, <1>2, <1>3, <1>4, <1>5, <1>6, CourseHappens DEF Happens

\* At rest the types are right, ...
LEMMA RestTyped ==
  ASSUME OneChange, RestInit
  PROVE  TypeInv
<1>1. PICK s \in Specs, v \in Portraits :
        /\ ihpa = AtRest(s, v) /\ portrait = v
        /\ rp = [exists |-> TRUE, owner |-> 1, deleting |-> FALSE,
                 spec |-> WantedProfileSpec(s, SettledData(ihpa.status))]
  BY DEF RestInit
<1>2. /\ Change(s, v, v) /\ s \in IHPASpec /\ v \in PortraitValue
      /\ Troubles \subseteq [TroubleKinds -> Nat]
      /\ 0 \in 0 .. MaxAge /\ MaxAge \in 0 .. MaxAge
  BY ChangeFacts, ConstantsAssumption, ConstantsTyped DEF ConstantsAssumption, Change
<1> DEFINE status == [NoStatus EXCEPT
                        !.current = StoredValue(v),
                        !.active = [reason |-> "Succeeded", generation |-> 1],
                        !.limited = [reason |-> "WithinRange", generation |-> 1],
                        !.progressing = [reason |-> "Match", generation |-> 1]]
           new == NewAutoscaler(1, s)
<1>3. StoredValue(v) = v
  BY <1>2 DEF StoredValue, Change
<1>4. status \in IHPAStatus /\ status.current = v
  <2>1. /\ [reason |-> "Succeeded", generation |-> 1] \in Condition
        /\ [reason |-> "WithinRange", generation |-> 1] \in Condition
        /\ [reason |-> "Match", generation |-> 1] \in Condition
    BY DEF Condition, Reasons
  <2>2. NoStatus \in IHPAStatus
    BY ConstantsTyped
  <2>3. QED
    BY <1>2, <1>3, <2>1, <2>2 DEF IHPAStatus
<1>5. new \in Autoscaler
  BY <1>2, NewAutoscalerTyped
<1>6. ihpa = [new EXCEPT !.finalizer = TRUE, !.status = status]
  BY <1>1 DEF AtRest
<1> HIDE DEF status, new
<1>7. ihpa \in Autoscaler /\ ihpa.status = status
  BY <1>4, <1>5, <1>6 DEF Autoscaler
<1>8. rp \in ReplicaProfile
  <2>1. v.replicas \in Nat /\ s.paused \in BOOLEAN /\ s.profile \in {"Default", "Custom"}
    BY <1>2 DEF PortraitValue, IHPASpec
  <2>2. AllowedScalingDirection(s) \in ScalingDirections
    BY DEF AllowedScalingDirection, ScalingDirections
  <2>3. SettledData(ihpa.status) = [online |-> v.replicas, cutoff |-> 0, standby |-> 0]
    BY <1>4, <1>7 DEF SettledData
  <2>4. WantedProfileSpec(s, SettledData(ihpa.status)) \in ProfileSpec
    BY <2>1, <2>2, <2>3 DEF WantedProfileSpec, ProfileSpec
  <2>5. QED
    BY <1>1, <2>4 DEF ReplicaProfile
<1>9. AutoscalerTyped /\ ProfileTyped /\ CacheTyped /\ WakeTyped
  BY <1>2, <1>7, <1>8 DEF RestInit, AutoscalerTyped, ProfileTyped, CacheTyped, WakeTyped
<1>10. CopyTyped
  BY <1>2, ConstantsTyped DEF RestInit, CopyTyped, ProgramCounters
<1>11. AroundTyped
  BY <1>1, <1>2, MostEditsFacts DEF RestInit, AroundTyped
<1>12. QED
  BY <1>9, <1>10, <1>11 DEF TypeInv

\* ... and the change is still to come.
LEMMA RestCourse ==
  ASSUME OneChange, RestInit
  PROVE  CourseInv
<1>1. PICK s \in Specs, v \in Portraits :
        /\ ihpa = AtRest(s, v) /\ portrait = v
        /\ rp = [exists |-> TRUE, owner |-> 1, deleting |-> FALSE,
                 spec |-> WantedProfileSpec(s, SettledData(ihpa.status))]
  BY DEF RestInit
<1>2. Change(s, v, v)
  BY ChangeFacts
<1>3. StoredValue(v) = v
  BY <1>2 DEF StoredValue, Change
<1>4. /\ ihpa.exists /\ ~ ihpa.deleting /\ ihpa.finalizer /\ ihpa.spec = s /\ ihpa.uid = 1
      /\ ihpa.status.previous = Nil /\ ihpa.status.current = v /\ ihpa.status.gray = Nil
  BY <1>1, <1>3 DEF AtRest, NewAutoscaler, NoAutoscaler, NoStatus
<1>5. rp.spec = AtRestWith(s, v)
  BY <1>1, <1>4 DEF AtRestWith, SettledData
<1>6. \A kind \in {"edit", "failure", "tamper"} : left[kind] = 0
  BY DEF RestInit, OneChange
<1>7. left["portrait"] <= 1
  BY DEF RestInit, OneChange
<1>8. /\ cachedIhpa = ihpa /\ cachedRp = rp /\ pc = "idle" /\ sinceChange = MaxAge
      /\ rp.exists /\ ~ rp.deleting /\ rp.owner = 1
  BY <1>1 DEF RestInit
<1>9. Undisturbed(s, v, v)
  BY <1>1, <1>4, <1>6, <1>7, <1>8 DEF Undisturbed
<1>10. Before(s, v, v)
  BY <1>4, <1>5, <1>8 DEF Before, Unaware
<1>11. Fetching(s, v, v) /\ Adopting(s, v, v) /\ Reporting(s, v, v)
  BY <1>8 DEF Fetching, Adopting, Reporting
<1>12. Course(s, v, v)
  BY <1>8, <1>9, <1>10, <1>11 DEF Course
<1>13. QED
  BY <1>12 DEF CourseInv

\* The invariant.
LEMMA CourseHolds ==
  ASSUME OneChange
  PROVE  RestSpec => [](TypeInv /\ CourseInv)
<1>1. RestInit => TypeInv /\ CourseInv
  BY RestTyped, RestCourse
<1>2. TypeInv /\ CourseInv /\ [Next]_vars => (TypeInv /\ CourseInv)'
  BY StepTyped, StepKeepsCourse
<1>3. QED
  BY <1>1, <1>2, PTL DEF RestSpec

-----------------------------------------------------------------------------
(***************************************************************************)
(* The pace of the change.                                                 *)
(***************************************************************************)

\* A step that is due comes an interval after the last change, and the end of it after the
\* observation time.
LEMMA WaitedFor ==
  ASSUME NEW s, NEW from, NEW to, NEW strategy \in GrayStrategy, NEW gray \in GrayStatus,
         NEW asked, NEW since \in 0 .. MaxAge, InStep(s, from, to, gray, asked, since)
  PROVE  /\ Due(strategy, gray) => since >= strategy.interval
         /\ GrayEnded(strategy, gray) => since >= strategy.observation
<1>1. /\ gray.percent \in 0 .. 100 /\ gray.age \in 0 .. MaxAge /\ MaxAge \in Nat
      /\ strategy.interval \in 0 .. MaxAge /\ strategy.observation \in 0 .. MaxAge
  BY ConstantsTyped DEF GrayStatus, GrayStrategy
<1>2. ASSUME NEW w \in 0 .. MaxAge, GreaterOf(0, w - gray.age) = 0
      PROVE  gray.age >= w
  BY <1>1, <1>2 DEF GreaterOf
<1>3. CASE gray.percent = 0
  <2>1. since = MaxAge
    BY <1>3 DEF InStep
  <2>2. QED
    BY <1>1, <2>1
<1>4. CASE gray.percent # 0
  <2>1. gray.age <= since
    BY <1>4 DEF InStep
  <2>2. Due(strategy, gray) => GreaterOf(0, strategy.interval - gray.age) = 0
    BY <1>1, <1>4 DEF Due, GrayRemainTime, Wait
  <2>3. GrayEnded(strategy, gray) => GreaterOf(0, strategy.observation - gray.age) = 0
    BY DEF GrayEnded, GrayRemainTime, Wait
  <2>4. /\ Due(strategy, gray) => gray.age >= strategy.interval
        /\ GrayEnded(strategy, gray) => gray.age >= strategy.observation
    BY <1>1, <1>2, <2>2, <2>3
  <2>5. QED
    BY <1>1, <2>1, <2>4
<1>5. QED
  BY <1>3, <1>4

\* A step of the change: how far it goes, and when.
LEMMA StepsInPace ==
  ASSUME OneChange, NEW s \in Specs, NEW from \in Portraits, NEW to \in Portraits,
         TypeInv, Course(s, from, to), Steps(s, from, to)
  PROVE  LET strategy == StrategyOf(s, from, to)
         IN  \E x, z \in Nat :
               /\ x <= z
               /\ rp.spec = Moved(s, from, to, x) /\ rp'.spec = Moved(s, from, to, z)
               /\ z - x <= (LargestChange * strategy.percent + 99) \div 100
               /\ sinceChange >= strategy.interval
<1> DEFINE strategy == StrategyOf(s, from, to)
           gray == ihpa.status.gray
           p == gray.percent
           next == Next100(strategy, gray)
           c == strategy.percent
           n == Span(from, to)
<1>1. /\ Change(s, from, to) /\ n \in Nat /\ n >= 1
      /\ strategy \in GrayStrategy /\ c \in 1 .. 100
  BY ChangeFacts, NumbersOfChange DEF Steps, GrayStrategy
<1>2. gray \in GrayStatus /\ sinceChange \in 0 .. MaxAge
  BY DEF Steps, TypeInv, ProfileTyped
<1>3. p \in 0 .. 100 /\ p < 100 /\ ~ GrayEnded(strategy, gray) /\ Due(strategy, gray)
  BY <1>2 DEF Steps, Due, GrayEnded, GrayStatus
<1>4. next \in 0 .. 100 /\ p <= next /\ next <= p + c
  <2>1. p < next /\ next <= p + c /\ next \in 0 .. 100
    <3> HIDE DEF strategy, gray
    <3>1. QED
      BY <1>1, <1>2, <1>3, NextIsDue DEF gray
  <2> HIDE DEF next, p
  <2>2. QED
    BY <1>3, <2>1
<1> DEFINE x == PodsAt(from, to, p)
           z == PodsAt(from, to, next)
<1>5. /\ x \in 0 .. n /\ z \in 0 .. n /\ x <= z
      /\ z - x <= (n * c + 99) \div 100
  <2> HIDE DEF p, next, c
  <2>1. QED
    BY <1>1, <1>3, <1>4, PodsAtBounds, PodsAtGrow, PodsAtStep
<1>6. (n * c + 99) \div 100 <= (LargestChange * c + 99) \div 100
  <2>1. LargestChange \in Nat /\ n <= LargestChange
    BY LargestChangeFacts
  <2> HIDE DEF n, c
  <2>2. QED
    BY <1>1, <2>1, ShareOfLargest
<1>7. z - x <= (LargestChange * c + 99) \div 100
  <2> DEFINE a == (n * c + 99) \div 100
             b == (LargestChange * c + 99) \div 100
  <2>1. a \in Int /\ b \in Int
    <3>1. LargestChange \in Nat
      BY LargestChangeFacts
    <3> HIDE DEF n, c
    <3>2. n * c \in Nat /\ LargestChange * c \in Nat
      BY <1>1, <3>1
    <3>3. QED
      BY <3>2
  <2>2. z - x <= a /\ a <= b
    BY <1>5, <1>6
  <2> HIDE DEF a, b, x, z
  <2>3. x \in Int /\ z \in Int
    BY <1>1, <1>5
  <2>4. QED
    BY <2>1, <2>2, <2>3 DEF b
<1>8. rp.spec = Moved(s, from, to, x) /\ rp'.spec = Moved(s, from, to, z)
  BY DEF Steps, InStep
<1>9. sinceChange >= strategy.interval
  BY <1>1, <1>2, <1>3, WaitedFor DEF Steps
<1>10. x \in Nat /\ z \in Nat
  BY <1>1, <1>5
<1> HIDE DEF x, z
<1>11. QED
  BY <1>5, <1>7, <1>8, <1>9, <1>10

\* Whatever happens, the profile is left as it is or acted upon.
LEMMA OnlyActing ==
  ASSUME Happens
  PROVE  rp' = rp \/ Acting
<1>1. CASE UNCHANGED vars
  BY <1>1 DEF vars
<1>2. CASE BeginAgain \/ Fetch \/ StoreValue \/ StoreValueConflict \/ GeneratePanics \/ Report
  BY <1>2 DEF BeginAgain, Begin, Fetch, StoreValue, StoreValueConflict, GeneratePanics, Report,
              LeaveProfile
<1>3. CASE DeliverIhpa \/ DeliverRp \/ Tick \/ Restart \/ \E v \in Portraits : PortraitChanges(v)
  BY <1>3 DEF DeliverIhpa, DeliverRp, Tick, Restart, PortraitChanges
<1>4. QED
  BY <1>1, <1>2, <1>3 DEF Happens

\* What a step does to the profile.
LEMMA StepHasEffect ==
  ASSUME OneChange, TypeInv, CourseInv, [Next]_vars
  PROVE  \E s \in Specs, from, to \in Portraits :
           /\ Change(s, from, to) /\ Course(s, from, to)
           /\ rp'.spec = rp.spec \/ AtOnce(s, from, to) \/ Ends(s, from, to) \/ Steps(s, from, to)
<1>1. PICK s \in Specs, from \in Portraits, to \in Portraits : Course(s, from, to)
  BY DEF CourseInv
<1>2. Change(s, from, to)
  BY ChangeFacts
<1>3. rp' = rp \/ Acting
  BY <1>1, <1>2, CourseHappens, OnlyActing
<1>4. Acting => Effect(s, from, to)
  BY <1>1, <1>2, ActingHasEffect
<1>5. rp'.spec = rp.spec \/ AtOnce(s, from, to) \/ Ends(s, from, to) \/ Steps(s, from, to)
  BY <1>3, <1>4 DEF Effect, NoEffect
<1>6. QED
  BY <1>1, <1>2, <1>5

\* At the end of the change only the pods that were kept go, and they were observed.
LEMMA EndsInPace ==
  ASSUME NEW s, NEW from, NEW to, Change(s, from, to), TypeInv, Ends(s, from, to)
  PROVE  /\ rp'.spec.online = rp.spec.online
         /\ rp.spec = Moved(s, from, to, Span(from, to)) /\ rp'.spec = AtRestWith(s, to)
         /\ sinceChange >= StrategyOf(s, from, to).observation
<1>1. /\ Span(from, to) \in Nat /\ Span(from, to) >= 1 /\ StrategyOf(s, from, to) \in GrayStrategy
      /\ sinceChange \in 0 .. MaxAge /\ 100 \in 0 .. 100
  BY NumbersOfChange DEF Ends, TypeInv, ProfileTyped
<1>2. rp.spec = Moved(s, from, to, Span(from, to))
  BY <1>1, PodsAtBounds DEF Ends, GrayEnded, InStep
<1>3. sinceChange >= StrategyOf(s, from, to).observation
  BY <1>1, WaitedFor DEF Ends
<1>4. QED
  BY <1>2, <1>3, MovedEnds DEF Ends

\* One step keeps the pace ...
LEMMA StepKeepsPace ==
  ASSUME OneChange, TypeInv, CourseInv, [Next]_vars
  PROVE  rp.exists /\ rp'.exists =>
           /\ rp'.spec.online < rp.spec.online => KeepsPace(ihpa.spec.down.gray)
           /\ rp'.spec.online > rp.spec.online => KeepsPace(ihpa.spec.up.gray)
<1>1. PICK s \in Specs, from \in Portraits, to \in Portraits :
        /\ Change(s, from, to) /\ Course(s, from, to)
        /\ rp'.spec = rp.spec \/ AtOnce(s, from, to) \/ Ends(s, from, to) \/ Steps(s, from, to)
  BY StepHasEffect
<1>2. rp.spec.online \in Nat
  BY DEF TypeInv, ProfileTyped, ReplicaProfile, ProfileSpec
<1>3. ihpa.spec = s /\ from.replicas \in Nat /\ to.replicas \in Nat
  BY <1>1, NumbersOfChange DEF Course, Undisturbed
<1>4. CASE rp'.spec = rp.spec \/ Ends(s, from, to)
  <2>1. rp'.spec.online = rp.spec.online
    BY <1>1, <1>4, EndsInPace
  <2>2. QED
    BY <1>2, <2>1
<1>5. CASE AtOnce(s, from, to)
  <2>1. rp.spec.online = from.replicas /\ rp'.spec.online = to.replicas
    BY <1>5 DEF AtOnce, AtRestWith, WantedProfileSpec
  <2>2. /\ to.replicas > from.replicas => s.up.gray = Nil
        /\ to.replicas < from.replicas => s.down.gray = Nil
    BY <1>3, <1>5 DEF AtOnce, StrategyOf
  <2>3. QED
    BY <1>3, <2>1, <2>2 DEF KeepsPace
<1>6. CASE Steps(s, from, to)
  <2> DEFINE strategy == StrategyOf(s, from, to)
             share == (LargestChange * strategy.percent + 99) \div 100
  <2>1. PICK x \in Nat, z \in Nat :
          /\ x <= z
          /\ rp.spec = Moved(s, from, to, x) /\ rp'.spec = Moved(s, from, to, z)
          /\ z - x <= share
          /\ sinceChange >= strategy.interval
    BY <1>1, <1>6, StepsInPace
  <2>2. CASE to.replicas > from.replicas
    <3>1. strategy = s.up.gray
      BY <1>3, <2>2 DEF StrategyOf
    <3>2. /\ rp.spec.online \in Int /\ rp'.spec.online \in Int
          /\ rp.spec.online <= rp'.spec.online
          /\ rp'.spec.online - rp.spec.online = z - x
      BY <1>1, <2>1, <2>2, MovedTotal
    <3>3. AbsOf(rp'.spec.online - rp.spec.online) = z - x
      BY <2>1, <3>2 DEF AbsOf
    <3>4. KeepsPace(s.up.gray)
      <4>1. KeepsPace(strategy)
        BY <2>1, <3>3 DEF KeepsPace
      <4>2. QED
        BY <3>1, <4>1
    <3>5. QED
      BY <1>3, <3>2, <3>4
  <2>3. CASE ~ (to.replicas > from.replicas)
    <3>1. strategy = s.down.gray
      BY <1>3, <1>6, <2>3 DEF Steps, StrategyOf
    <3>2. /\ rp.spec.online \in Int /\ rp'.spec.online \in Int
          /\ rp'.spec.online <= rp.spec.online
          /\ rp.spec.online - rp'.spec.online = z - x
      BY <1>1, <2>1, <2>3, MovedTotal
    <3>3. AbsOf(rp'.spec.online - rp.spec.online) = z - x
      BY <2>1, <3>2 DEF AbsOf
    <3>4. KeepsPace(s.down.gray)
      <4>1. KeepsPace(strategy)
        BY <2>1, <3>3 DEF KeepsPace
      <4>2. QED
        BY <3>1, <4>1
    <3>5. QED
      BY <1>3, <3>2, <3>4
  <2>4. QED
    BY <2>2, <2>3
<1>7. QED
  BY <1>1, <1>4, <1>5, <1>6

\* ... and observes before it gives up.
LEMMA StepObserves ==
  ASSUME OneChange, TypeInv, CourseInv, [Next]_vars
  PROVE  rp.exists /\ rp'.exists /\ Total(rp'.spec) < Total(rp.spec)
           /\ KeepsPods(ihpa.spec.down.gray) =>
             sinceChange >= ihpa.spec.down.gray.observation
<1>1. PICK s \in Specs, from \in Portraits, to \in Portraits :
        /\ Change(s, from, to) /\ Course(s, from, to)
        /\ rp'.spec = rp.spec \/ AtOnce(s, from, to) \/ Ends(s, from, to) \/ Steps(s, from, to)
  BY StepHasEffect
<1>2. SUFFICES ASSUME Total(rp'.spec) < Total(rp.spec), KeepsPods(ihpa.spec.down.gray)
               PROVE  sinceChange >= ihpa.spec.down.gray.observation
  OBVIOUS
<1>3. ihpa.spec = s /\ from.replicas \in Nat /\ to.replicas \in Nat
  BY <1>1, NumbersOfChange DEF Course, Undisturbed
<1>4. Total(rp.spec) \in Nat
  BY DEF TypeInv, ProfileTyped, ReplicaProfile, ProfileSpec, Total
<1>5. s.down.gray # Nil
  BY <1>2, <1>3 DEF KeepsPods
<1>6. rp'.spec # rp.spec
  BY <1>2, <1>4
<1>7. ~ AtOnce(s, from, to)
  <2>1. SUFFICES ASSUME AtOnce(s, from, to) PROVE FALSE
    OBVIOUS
  <2>2. to.replicas >= from.replicas
    BY <1>3, <1>5, <2>1 DEF AtOnce, StrategyOf
  <2>3. Total(rp.spec) = from.replicas + 0 + 0 /\ Total(rp'.spec) = to.replicas + 0 + 0
    BY <2>1 DEF AtOnce, AtRestWith, WantedProfileSpec, Total
  <2>4. QED
    BY <1>2, <1>3, <2>2, <2>3
<1>8. ~ Steps(s, from, to)
  <2>1. SUFFICES ASSUME Steps(s, from, to) PROVE FALSE
    OBVIOUS
  <2>2. PICK x \in Nat, z \in Nat :
          x <= z /\ rp.spec = Moved(s, from, to, x) /\ rp'.spec = Moved(s, from, to, z)
    BY <1>1, <2>1, StepsInPace
  <2>3. CASE to.replicas > from.replicas
    <3>1. Total(rp.spec) <= Total(rp'.spec)
      BY <1>1, <2>2, <2>3, MovedTotal
    <3>2. Total(rp'.spec) \in Int
      <4>1. Kept(s, from, to, "Cutoff", z) = 0 /\ Kept(s, from, to, "Standby", z) = 0
        BY <1>3, <2>3 DEF Kept
      <4>2. Total(rp'.spec) = (from.replicas + z) + 0 + 0
        BY <2>2, <2>3, <4>1, MovedFields DEF Total
      <4>3. QED
        BY <1>3, <4>2
    <3>3. QED
      BY <1>2, <1>4, <3>1, <3>2
  <2>4. CASE ~ (to.replicas > from.replicas)
    <3>1. to.replicas < from.replicas /\ StrategyOf(s, from, to) = s.down.gray
      BY <1>3, <2>1, <2>4 DEF Steps, StrategyOf
    <3>2. KeepsPods(StrategyOf(s, from, to))
      BY <1>2, <1>3, <3>1
    <3>3. Total(rp.spec) = Total(rp'.spec)
      BY <1>1, <2>2, <3>1, <3>2, MovedTotal
    <3>4. QED
      BY <1>2, <1>4, <3>3
  <2>5. QED
    BY <2>3, <2>4
<1>9. Ends(s, from, to)
  BY <1>1, <1>6, <1>7, <1>8
<1>10. CASE to.replicas > from.replicas
  <2>1. rp.spec = Moved(s, from, to, Span(from, to)) /\ rp'.spec = AtRestWith(s, to)
    BY <1>1, <1>9, EndsInPace
  <2>2. /\ Kept(s, from, to, "Cutoff", Span(from, to)) = 0
        /\ Kept(s, from, to, "Standby", Span(from, to)) = 0
    BY <1>3, <1>10 DEF Kept
  <2>3. Total(rp.spec) = to.replicas + 0 + 0 /\ Total(rp'.spec) = to.replicas + 0 + 0
    <3>1. rp.spec.online = to.replicas /\ rp'.spec.online = to.replicas
      BY <1>1, <2>1, MovedEnds
    <3>2. rp.spec.cutoff = 0 /\ rp.spec.standby = 0 /\ rp'.spec.cutoff = 0 /\ rp'.spec.standby = 0
      BY <2>1, <2>2, MovedFields
    <3>3. QED
      BY <3>1, <3>2 DEF Total
  <2>4. QED
    BY <1>2, <1>3, <2>3
<1>11. CASE ~ (to.replicas > from.replicas)
  <2>1. StrategyOf(s, from, to) = s.down.gray
    BY <1>3, <1>9, <1>11 DEF Ends, StrategyOf
  <2>2. QED
    BY <1>1, <1>3, <1>9, <2>1, EndsInPace
<1>12. QED
  BY <1>10, <1>11

(***************************************************************************)
(* In the course of one change of the portrait, from a profile at rest,    *)
(* with any number of restarts: the online replicas of the profile change  *)
(* by no more than a step's share at a time, and no sooner than the        *)
(* interval after the last change (RequeueAfter and GrayStatus, kept in    *)
(* the status from one reconcile to the next).                             *)
(***************************************************************************)
THEOREM GrayKeepsPace ==
  ASSUME OneChange
  PROVE  RestSpec => GrayPace
<1>1. TypeInv /\ CourseInv /\ [Next]_vars =>
        [rp.exists /\ rp'.exists =>
           /\ rp'.spec.online < rp.spec.online => KeepsPace(ihpa.spec.down.gray)
           /\ rp'.spec.online > rp.spec.online => KeepsPace(ihpa.spec.up.gray)]_vars
  BY StepKeepsPace
<1>2. RestSpec => [](TypeInv /\ CourseInv)
  BY CourseHolds
<1>3. QED
  BY <1>1, <1>2, PTL DEF RestSpec, GrayPace

(***************************************************************************)
(* In such a course no pod that a strategy keeps in the gray state is      *)
(* given up before it was left there for the observation time.             *)
(***************************************************************************)
THEOREM GrayObserves ==
  ASSUME OneChange
  PROVE  RestSpec => ObservedBeforeGivenUp
<1>1. TypeInv /\ CourseInv /\ [Next]_vars =>
        [rp.exists /\ rp'.exists /\ Total(rp'.spec) < Total(rp.spec)
           /\ KeepsPods(ihpa.spec.down.gray) =>
             sinceChange >= ihpa.spec.down.gray.observation]_vars
  BY StepObserves
<1>2. RestSpec => [](TypeInv /\ CourseInv)
  BY CourseHolds
<1>3. QED
  BY <1>1, <1>2, PTL DEF RestSpec, ObservedBeforeGivenUp

=============================================================================
