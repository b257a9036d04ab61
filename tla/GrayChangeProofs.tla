-------------------------- MODULE GrayChangeProofs --------------------------
(***************************************************************************)
(* Theorems about one gray change, for every bound on the replicas, every  *)
(* set of percentages and every wait.  All the invariant needs to know of  *)
(* the state is where the change comes from, where it goes to, the         *)
(* percentage it is at, and the replicas asked for last.                   *)
(***************************************************************************)
EXTENDS MCGrayChange, TLAPS

-----------------------------------------------------------------------------
(***************************************************************************)
(* The shares of a change of n pods.                                       *)
(***************************************************************************)
Share(n, percent) == GreaterOf(1, (n * percent) \div 100)

\* Shares grow with the percentage: the product does ...
LEMMA ProductGrows ==
  ASSUME NEW n \in Nat, NEW p \in Nat, NEW q \in Nat, p <= q
  PROVE  n * p <= n * q
<1>1. PICK d \in Nat : q = p + d
  <2>1. q - p \in Nat /\ q = p + (q - p)
    OBVIOUS
  <2>2. QED
    BY <2>1
<1>2. n * q = n * p + n * d
  BY <1>1
<1>3. n * d \in Nat /\ n * p \in Nat
  OBVIOUS
<1>4. QED
  BY <1>2, <1>3

\* ... and whole pods of it do.
LEMMA ShareGrows ==
  ASSUME NEW n \in Nat, NEW p \in Nat, NEW q \in Nat, p <= q
  PROVE  Share(n, p) \in Nat /\ Share(n, p) <= Share(n, q)
<1> DEFINE a == n * p
           b == n * q
<1>1. a \in Nat /\ b \in Nat /\ a <= b
  BY ProductGrows
<1>2. GreaterOf(1, a \div 100) \in Nat /\ GreaterOf(1, a \div 100) <= GreaterOf(1, b \div 100)
  <2> HIDE DEF a, b
  <2>1. QED
    BY <1>1 DEF GreaterOf
<1>3. QED
  BY <1>2 DEF Share

\* A share is at least one pod and at most all of them, and all of them at 100.
LEMMA ShareBounds ==
  ASSUME NEW n \in Nat, n > 0, NEW p \in 0 .. 100
  PROVE  /\ Share(n, p) \in 1 .. n
         /\ Share(n, 100) = n
<1>1. Share(n, 100) = n
  BY DEF Share, GreaterOf
<1>2. Share(n, p) <= Share(n, 100) /\ Share(n, p) \in Nat
  BY ShareGrows
<1>3. Share(n, p) >= 1
  <2> DEFINE a == (n * p) \div 100
  <2>1. a \in Int
    OBVIOUS
  <2> HIDE DEF a
  <2>2. GreaterOf(1, a) >= 1
    BY <2>1 DEF GreaterOf
  <2>3. QED
    BY <2>2 DEF Share, a
<1>4. QED
  BY <1>1, <1>2, <1>3

\* From one step to the next it grows by no more than a step's share, rounded up.
LEMMA ShareStep ==
  ASSUME NEW n \in Nat, n > 0, NEW p \in 0 .. 100, NEW s \in 1 .. 100,
         NEW q \in 0 .. 100, q <= p + s
  PROVE  /\ Share(n, q) - Share(n, p) <= ShareOf(s, n)
         /\ q <= s => Share(n, q) <= ShareOf(s, n)
<1> DEFINE a == n * p
           b == n * s
           c == n * q
<1>1. a \in Nat /\ b \in Nat /\ c \in Nat /\ c <= a + b /\ b >= 1
  <2>1. n * q <= n * (p + s) /\ n * (p + s) = n * p + n * s
    BY ProductGrows
  <2>2. n * 1 <= n * s
    BY ProductGrows
  <2>3. QED
    BY <2>1, <2>2
<1>2. q <= s => c <= b
  BY ProductGrows
<1>3. /\ Share(n, q) = GreaterOf(1, c \div 100)
      /\ Share(n, p) = GreaterOf(1, a \div 100)
      /\ ShareOf(s, n) = (b + 99) \div 100
  BY DEF Share, ShareOf
<1> HIDE DEF a, b, c
<1>4. GreaterOf(1, c \div 100) - GreaterOf(1, a \div 100) <= (b + 99) \div 100
  BY <1>1 DEF GreaterOf
<1>5. c <= b => GreaterOf(1, c \div 100) <= (b + 99) \div 100
  BY <1>1 DEF GreaterOf
<1>6. QED
  BY <1>2, <1>3, <1>4, <1>5

-----------------------------------------------------------------------------
(***************************************************************************)
(* Where the change comes from, the strategy of its direction, and the     *)
(* replicas asked for at a percentage of it.                               *)
(***************************************************************************)
From == status.previous.replicas
Distance == AbsOf(Target - From)

StrategyTo(target) ==
  CASE target > From -> spec.up.gray
    [] target < From -> spec.down.gray
    [] OTHER -> Nil

DataAt(percent) ==
  [online  |-> IF Target > From THEN From + Share(Distance, percent)
                                ELSE From - Share(Distance, percent),
   cutoff  |-> IF Target < From /\ StrategyTo(Target).state = "Cutoff"
               THEN Share(Distance, percent) ELSE 0,
   standby |-> IF Target < From /\ StrategyTo(Target).state = "Standby"
               THEN Share(Distance, percent) ELSE 0]

DataAtEnd == [online |-> Target, cutoff |-> 0, standby |-> 0]
DataAtStart == [online |-> From, cutoff |-> 0, standby |-> 0]

(***************************************************************************)
(* The invariant.  The data last asked for are those of before the change, *)
(* and then its percentage is 0; or those of its percentage; or those of   *)
(* its end, and then it is at 100 percent or needs no steps at all.        *)
(***************************************************************************)
Changing ==
  /\ TypeOK
  /\ status.previous # Nil /\ status.current # Nil
  /\ spec.mode = "Auto"
  /\ spec.min <= From /\ From <= spec.max

NotBegun ==
  /\ status.gray = Nil \/ status.gray.percent = 0
  /\ data = DataAtStart

UnderWay ==
  /\ StrategyTo(Target) # Nil
  /\ status.gray # Nil /\ status.gray.percent > 0
  /\ data = DataAt(status.gray.percent)

AtEnd ==
  /\ data = DataAtEnd
  /\ \/ StrategyTo(Target) = Nil
     \/ status.gray # Nil /\ status.gray.percent = 100

GrayInv == Changing /\ (NotBegun \/ UnderWay \/ AtEnd)

\* What the types say, in the form the steps need it.
LEMMA ChangingFacts ==
  ASSUME Changing
  PROVE  /\ From \in Nat /\ Target \in Nat /\ Distance \in Nat
         /\ spec.min \in Nat /\ spec.max \in Nat
         /\ status.current \in PortraitValue /\ status.previous \in PortraitValue
         /\ Capped(spec, Target) = Target
         /\ StrategyTo(Target) # Nil =>
              StrategyTo(Target) \in GrayStrategy /\ Distance > 0
         /\ status.gray # Nil => status.gray \in GrayStatus
<1>1. /\ status.current \in PortraitValue /\ status.previous \in PortraitValue
      /\ spec \in IHPASpec
      /\ status.gray # Nil => status.gray \in GrayStatus
  BY DEF Changing, TypeOK, IHPAStatus
<1>2. /\ spec.min \in Nat /\ spec.max \in Nat
      /\ spec.up.gray \in GrayStrategy \union {Nil}
      /\ spec.down.gray \in GrayStrategy \union {Nil}
  BY <1>1 DEF IHPASpec, ScalingBehavior
<1>3. From \in Nat /\ status.current.replicas \in Nat
  BY <1>1 DEF From, PortraitValue
<1>4. Target \in Nat /\ Capped(spec, Target) = Target
  BY <1>2, <1>3 DEF Target, Capped, LesserOf, GreaterOf
<1>5. Distance \in Nat /\ (Target # From => Distance > 0)
  BY <1>3, <1>4 DEF Distance, AbsOf
<1>6. StrategyTo(Target) # Nil => StrategyTo(Target) \in GrayStrategy /\ Target # From
  BY <1>2, <1>3, <1>4 DEF StrategyTo
<1>7. QED
  BY <1>1, <1>2, <1>3, <1>4, <1>5, <1>6

\* The calculation of the code, said of the capped status, is the one above.
LEMMA CappedFacts ==
  ASSUME Changing, NEW capped, capped = CappedStatus(spec, status)
  PROVE  /\ capped \in IHPAStatus
         /\ capped.previous = status.previous /\ capped.gray = status.gray
         /\ capped.current = [status.current EXCEPT !.replicas = Target]
         /\ capped.current # Nil
         /\ CurrentGrayStrategy(spec, capped) = StrategyTo(Target)
         /\ IsGrayActive(spec, capped) <=> StrategyTo(Target) # Nil
         /\ SettledData(capped) = DataAtEnd
         /\ \A percent \in 0 .. 100 : StrategyTo(Target) # Nil =>
              GrayData(capped, StrategyTo(Target), percent) = DataAt(percent)
<1>1. status \in IHPAStatus /\ status.current \in PortraitValue /\ Target \in Nat /\ From \in Nat
  BY ChangingFacts DEF Changing, TypeOK
<1>2. capped = [status EXCEPT !.current = [status.current EXCEPT !.replicas = Target]]
  BY <1>1 DEF CappedStatus, Target
<1>3. [status.current EXCEPT !.replicas = Target] \in PortraitValue
  BY <1>1 DEF PortraitValue
<1>4. /\ capped \in IHPAStatus
      /\ capped.previous = status.previous /\ capped.gray = status.gray
      /\ capped.current = [status.current EXCEPT !.replicas = Target]
  BY <1>1, <1>2, <1>3 DEF IHPAStatus
<1>5. capped.current # Nil /\ capped.previous # Nil
  BY <1>3, <1>4, NilAssumption DEF Changing
<1>6. capped.current.replicas = Target /\ capped.previous.replicas = From
  BY <1>1, <1>4 DEF PortraitValue, From
<1>7. Scales(capped) /\ (ScalesUp(capped) <=> Target > From) /\ (ScalesDown(capped) <=> Target < From)
  BY <1>5, <1>6 DEF Scales, ScalesUp, ScalesDown
<1>8. CurrentGrayStrategy(spec, capped) = StrategyTo(Target)
  BY <1>7 DEF CurrentGrayStrategy, StrategyTo
<1>9. IsGrayActive(spec, capped) <=> StrategyTo(Target) # Nil
  BY <1>8 DEF IsGrayActive, Changing
<1>10. SettledData(capped) = DataAtEnd
  BY <1>6 DEF SettledData, DataAtEnd
<1>11. ASSUME NEW percent \in 0 .. 100
       PROVE  GrayData(capped, StrategyTo(Target), percent) = DataAt(percent)
  <2>1. GrayReplicas(capped, percent) = Share(Distance, percent)
    BY <1>6 DEF GrayReplicas, Share, Distance
  <2>2. QED
    BY <1>6, <1>7, <2>1 DEF GrayData, DataAt
<1>12. QED
  BY <1>4, <1>5, <1>8, <1>9, <1>10, <1>11

\* One step further, or the same percentage while there is time to wait.
LEMMA NextGrayFacts ==
  ASSUME NEW strategy \in GrayStrategy, NEW gray \in GrayStatus
  PROVE  /\ NextGray(strategy, gray) \in GrayStatus
         /\ NextGray(strategy, gray).percent > 0
         /\ NextGray(strategy, gray).percent >= gray.percent
         /\ NextGray(strategy, gray).percent <= gray.percent + strategy.percent
         /\ gray.percent > 0 /\ NextGray(strategy, gray).percent # gray.percent =>
              gray.percent < 100 /\ gray.age >= strategy.interval
<1>1. /\ strategy.percent \in 1 .. 100 /\ strategy.interval \in 0 .. MaxAge
      /\ strategy.observation \in 0 .. MaxAge /\ MaxAge \in Nat
      /\ gray.percent \in 0 .. 100 /\ gray.age \in 0 .. MaxAge
  BY MaxAgeAssumption DEF GrayStrategy, GrayStatus
<1> DEFINE step == LesserOf(100, gray.percent + strategy.percent)
<1>2. /\ step \in 0 .. 100 /\ step > 0 /\ step >= gray.percent
      /\ step <= gray.percent + strategy.percent
      /\ gray.percent = 100 => step = 100
  <2>1. PICK p \in 0 .. 100, s \in 1 .. 100 : gray.percent = p /\ strategy.percent = s
    BY <1>1
  <2>2. /\ LesserOf(100, p + s) \in 0 .. 100 /\ LesserOf(100, p + s) > 0
        /\ LesserOf(100, p + s) >= p /\ LesserOf(100, p + s) <= p + s
        /\ p = 100 => LesserOf(100, p + s) = 100
    BY DEF LesserOf
  <2>3. QED
    BY <2>1, <2>2
<1>3. GrayRemainTime(strategy, gray) = 0 =>
        NextGray(strategy, gray) = [percent |-> step, age |-> 0]
  BY DEF NextGray
<1>4. GrayRemainTime(strategy, gray) # 0 =>
        NextGray(strategy, gray) = gray /\ gray.percent # 0
  BY <1>1 DEF NextGray, GrayRemainTime, Wait, GreaterOf
<1>5. /\ [percent |-> step, age |-> 0] \in GrayStatus
      /\ [percent |-> step, age |-> 0].percent = step
  BY <1>1, <1>2 DEF GrayStatus
<1>6. gray.percent > 0 /\ gray.percent < 100 /\ GrayRemainTime(strategy, gray) = 0 =>
        gray.age >= strategy.interval
  BY <1>1 DEF GrayRemainTime, Wait, GreaterOf
<1> HIDE DEF step
<1>7. CASE GrayRemainTime(strategy, gray) = 0
  <2>1. gray.percent > 0 /\ gray.percent # step => gray.percent < 100
    BY <1>1, <1>2
  <2>2. QED
    BY <1>2, <1>3, <1>5, <1>6, <1>7, <2>1
<1>8. CASE GrayRemainTime(strategy, gray) # 0
  <2>1. NextGray(strategy, gray) = gray /\ gray.percent \in 0 .. 100 /\ gray.percent # 0
    BY <1>1, <1>4, <1>8
  <2>2. /\ gray.percent >= gray.percent /\ gray.percent > 0
        /\ gray.percent <= gray.percent + strategy.percent
    <3>1. PICK p \in 0 .. 100, c \in 1 .. 100 : p = gray.percent /\ c = strategy.percent
      BY <1>1
    <3>2. p >= p /\ p <= p + c /\ (p # 0 => p > 0)
      OBVIOUS
    <3>3. QED
      BY <2>1, <3>1, <3>2
  <2>3. QED
    BY <2>1, <2>2
<1>9. QED
  BY <1>7, <1>8

-----------------------------------------------------------------------------
(***************************************************************************)
(* What a step does, in these terms.                                       *)
(***************************************************************************)
Same ==
  /\ spec' = spec /\ From' = From /\ Target' = Target
  /\ status'.previous # Nil /\ status'.current # Nil

SettlesAtOnce ==
  /\ StrategyTo(Target) = Nil
  /\ status'.gray = status.gray /\ data' = DataAtEnd

Settles ==
  /\ StrategyTo(Target) # Nil /\ status.gray # Nil
  /\ GrayEnded(StrategyTo(Target), status.gray)
  /\ status'.gray = status.gray /\ data' = DataAtEnd

GoesOn ==
  /\ StrategyTo(Target) # Nil /\ status.gray # Nil
  /\ status'.gray = NextGray(StrategyTo(Target), status.gray)
  /\ data' = DataAt(status'.gray.percent)

\* A status that asks for no gray change asks for none when it is capped.
LEMMA CapsStrategy ==
  ASSUME Changing, ~ IsGrayActive(spec, status)
  PROVE  StrategyTo(Target) = Nil
<1>1. /\ From \in Nat /\ spec.min \in Nat /\ spec.max \in Nat
      /\ status.current.replicas \in Nat /\ Target \in Nat
  BY ChangingFacts DEF PortraitValue
<1>2. /\ Target > From => status.current.replicas > From
      /\ Target < From => status.current.replicas < From
  BY <1>1 DEF Changing, Target, Capped, LesserOf, GreaterOf
<1>3. /\ ScalesUp(status) <=> status.current.replicas > From
      /\ ScalesDown(status) <=> status.current.replicas < From
  BY DEF ScalesUp, ScalesDown, Scales, Changing, From
<1>4. Target > From => CurrentGrayStrategy(spec, status) = spec.up.gray
  <2>1. Target > From => ScalesUp(status) /\ ~ ScalesDown(status)
    BY <1>1, <1>2, <1>3
  <2>2. QED
    BY <2>1 DEF CurrentGrayStrategy
<1>5. Target < From => CurrentGrayStrategy(spec, status) = spec.down.gray
  <2>1. Target < From => ~ ScalesUp(status) /\ ScalesDown(status)
    BY <1>1, <1>2, <1>3
  <2>2. QED
    BY <2>1 DEF CurrentGrayStrategy
<1>6. CurrentGrayStrategy(spec, status) = Nil
  BY DEF IsGrayActive, Changing
<1>7. QED
  BY <1>1, <1>4, <1>5, <1>6 DEF StrategyTo

\* Data at a percentage are data.
LEMMA DataTyped ==
  ASSUME Changing
  PROVE  /\ DataAtEnd \in ReplicaData
         /\ \A percent \in 0 .. 100 : StrategyTo(Target) # Nil => DataAt(percent) \in ReplicaData
<1>1. From \in Nat /\ Target \in Nat
  BY ChangingFacts
<1>2. DataAtEnd \in ReplicaData
  BY <1>1 DEF DataAtEnd, ReplicaData
<1>3. ASSUME NEW percent \in 0 .. 100, StrategyTo(Target) # Nil
      PROVE  DataAt(percent) \in ReplicaData
  <2>1. Distance \in Nat /\ Distance > 0
    BY <1>3, ChangingFacts
  <2>2. Share(Distance, percent) \in 1 .. Distance
    BY <2>1, ShareBounds
  <2>3. ~ Target > From => From - Share(Distance, percent) \in Nat
    BY <1>1, <2>1, <2>2 DEF Distance, AbsOf
  <2>4. QED
    BY <1>1, <2>1, <2>2, <2>3 DEF DataAt, ReplicaData
<1>4. QED
  BY <1>2, <1>3

\* What a reconcile does to a change, as one of three effects.
LEMMA ReconcileEffect ==
  ASSUME Changing, Reconcile
  PROVE  Same /\ Changing' /\ (SettlesAtOnce \/ Settles \/ GoesOn)
<1> DEFINE capped == CappedStatus(spec, status)
           generated == GenerateReplicaData(spec, capped)
<1>1. status' = [capped EXCEPT !.gray = generated.gray] /\ data' = generated.data /\ spec' = spec
  BY DEF Reconcile
<1>2. /\ capped \in IHPAStatus /\ capped.previous = status.previous
      /\ capped.gray = status.gray
      /\ capped.current = [status.current EXCEPT !.replicas = Target] /\ capped.current # Nil
      /\ CurrentGrayStrategy(spec, capped) = StrategyTo(Target)
      /\ IsGrayActive(spec, capped) <=> StrategyTo(Target) # Nil
      /\ SettledData(capped) = DataAtEnd
      /\ \A percent \in 0 .. 100 : StrategyTo(Target) # Nil =>
           GrayData(capped, StrategyTo(Target), percent) = DataAt(percent)
  BY CappedFacts
<1> HIDE DEF capped
<1>3. status.gray = Nil => StrategyTo(Target) = Nil
  BY CapsStrategy DEF Reconcile
<1>4. \/ /\ StrategyTo(Target) = Nil
         /\ generated.gray = status.gray /\ generated.data = DataAtEnd
      \/ /\ StrategyTo(Target) # Nil /\ GrayEnded(StrategyTo(Target), status.gray)
         /\ generated.gray = status.gray /\ generated.data = DataAtEnd
      \/ /\ StrategyTo(Target) # Nil
         /\ generated.gray = NextGray(StrategyTo(Target), status.gray)
         /\ generated.data = GrayData(capped, StrategyTo(Target), generated.gray.percent)
  BY <1>2 DEF GenerateReplicaData
<1>5. StrategyTo(Target) # Nil =>
        /\ StrategyTo(Target) \in GrayStrategy /\ status.gray \in GrayStatus
        /\ NextGray(StrategyTo(Target), status.gray) \in GrayStatus
  BY <1>3, ChangingFacts, NextGrayFacts
<1>6. generated.gray \in GrayStatus \union {Nil} /\ generated.data \in ReplicaData
  <2>1. status.gray \in GrayStatus \union {Nil}
    BY DEF Changing, TypeOK, IHPAStatus
  <2>2. generated.gray \in GrayStatus \union {Nil}
    BY <1>4, <1>5, <2>1
  <2>3. NextGray(StrategyTo(Target), status.gray) \in GrayStatus =>
          NextGray(StrategyTo(Target), status.gray).percent \in 0 .. 100
    BY DEF GrayStatus
  <2>4. generated.data \in ReplicaData
    BY <1>2, <1>4, <1>5, <2>3, DataTyped
  <2>5. QED
    BY <2>2, <2>4
<1>7. /\ status' \in IHPAStatus /\ status'.previous = status.previous
      /\ status'.current = [status.current EXCEPT !.replicas = Target]
      /\ status'.gray = generated.gray
  BY <1>1, <1>2, <1>6 DEF IHPAStatus
<1>8. Same
  <2>1. status'.current.replicas = Target
    BY <1>7, ChangingFacts DEF PortraitValue
  <2>2. Target' = Target
    BY <1>1, <2>1, ChangingFacts DEF Target
  <2>3. From' = From
    BY <1>7 DEF From
  <2>4. QED
    BY <1>1, <1>2, <1>7, <2>2, <2>3 DEF Same, Changing
<1>9. Changing'
  BY <1>1, <1>6, <1>7, <1>8 DEF Changing, TypeOK, Same
<1>10. SettlesAtOnce \/ Settles \/ GoesOn
  <2>1. NextGray(StrategyTo(Target), status.gray) \in GrayStatus =>
          NextGray(StrategyTo(Target), status.gray).percent \in 0 .. 100
    BY DEF GrayStatus
  <2>2. QED
    BY <1>1, <1>2, <1>3, <1>4, <1>5, <1>7, <2>1 DEF SettlesAtOnce, Settles, GoesOn
<1>11. QED
  BY <1>8, <1>9, <1>10

\* The other steps touch nothing but the gray status, and not its percentage.
Waits ==
  /\ data' = data
  /\ \/ status'.gray = status.gray
     \/ status.gray = Nil /\ status'.gray # Nil /\ status'.gray.percent = 0
     \/ /\ status.gray # Nil /\ status'.gray # Nil
        /\ status'.gray.percent = status.gray.percent

\* Outside the reconcile only time passes: the data stays.
LEMMA WaitEffect ==
  ASSUME Changing, Adopt \/ Tick \/ UNCHANGED vars
  PROVE  Same /\ Changing' /\ Waits
<1>1. status \in IHPAStatus /\ MaxAge \in Nat
  BY MaxAgeAssumption DEF Changing, TypeOK
<1>2. CASE Adopt
  <2>1. [percent |-> 0, age |-> 0] \in GrayStatus
    BY <1>1 DEF GrayStatus
  <2>2. /\ status' \in IHPAStatus /\ status'.previous = status.previous
        /\ status'.current = status.current /\ status'.gray = [percent |-> 0, age |-> 0]
        /\ spec' = spec /\ data' = data
    BY <1>1, <1>2, <2>1 DEF Adopt, IHPAStatus
  <2>3. Same /\ Changing'
    BY <2>2 DEF Same, Changing, TypeOK, From, Target
  <2>4. status.gray = Nil /\ status'.gray # Nil /\ status'.gray.percent = 0
    BY <1>2, <2>1, <2>2, NilAssumption DEF Adopt
  <2>5. QED
    BY <2>2, <2>3, <2>4 DEF Waits
<1>3. CASE Tick
  <2> DEFINE older == [status.gray EXCEPT !.age = @ + 1]
  <2>1. status.gray \in GrayStatus /\ status.gray.age < MaxAge
    BY <1>1, <1>3 DEF Tick, IHPAStatus
  <2>2. older \in GrayStatus /\ older.percent = status.gray.percent
    BY <1>1, <2>1 DEF GrayStatus
  <2>3. /\ status' = [status EXCEPT !.gray = older]
        /\ spec' = spec /\ data' = data /\ status.gray # Nil
    BY <1>3 DEF Tick
  <2> HIDE DEF older
  <2>4. /\ status' \in IHPAStatus /\ status'.previous = status.previous
        /\ status'.current = status.current /\ status'.gray = older
    BY <1>1, <2>2, <2>3 DEF IHPAStatus
  <2>5. Same /\ Changing'
    BY <2>3, <2>4 DEF Same, Changing, TypeOK, From, Target
  <2>6. QED
    BY <2>2, <2>3, <2>4, <2>5, NilAssumption DEF Waits
<1>4. CASE UNCHANGED vars
  BY <1>4 DEF vars, Same, Changing, TypeOK, From, Target, Waits
<1>5. QED
  BY <1>2, <1>3, <1>4

-----------------------------------------------------------------------------
(***************************************************************************)
(* The invariant holds.                                                    *)
(***************************************************************************)
LEMMA InitGrayInv ==
  ASSUME Init
  PROVE  GrayInv
<1>1. PICK least, most, previous, current \in 0 .. MaxReplicas, strategy \in Strategies :
        /\ least <= previous /\ previous <= most
        /\ spec = IF current > previous THEN SpecWith(least, most, strategy, Nil)
                                        ELSE SpecWith(least, most, Nil, strategy)
        /\ status = Changed(previous, current)
  BY DEF Init
<1>2. /\ MaxReplicas \in Nat /\ MaxAge \in Nat
      /\ least \in Nat /\ most \in Nat /\ previous \in Nat /\ current \in Nat
  BY BoundsAssumption, MaxAgeAssumption
<1>3. strategy \in GrayStrategy \union {Nil}
  <2>1. {MaxAge} \subseteq 0 .. MaxAge /\ {0, MaxAge} \subseteq 0 .. MaxAge
    BY <1>2
  <2>2. [state : {"Online", "Cutoff", "Standby", "Deleted"}, interval : {MaxAge},
         percent : Percents, observation : {0, MaxAge}] \subseteq GrayStrategy
    BY <2>1, BoundsAssumption DEF GrayStrategy
  <2>3. QED
    BY <2>2 DEF Strategies
<1>4. SpecWith(least, most, strategy, Nil) \in IHPASpec /\ SpecWith(least, most, Nil, strategy) \in IHPASpec
  BY <1>2, <1>3 DEF SpecWith, IHPASpec, ScalingBehavior, ScaleModes
<1>5. spec \in IHPASpec /\ spec.mode = "Auto" /\ spec.min = least /\ spec.max = most
  BY <1>1, <1>4 DEF SpecWith
<1>6. Value(previous) \in PortraitValue /\ Value(current) \in PortraitValue
  BY <1>2 DEF Value, PortraitValue, Provenance
<1>7. /\ status \in IHPAStatus /\ status.gray = Nil
      /\ status.previous = Value(previous) /\ status.current = Value(current)
  BY <1>1, <1>6 DEF Changed, NoStatus, NoCondition, IHPAStatus, Condition, Reasons
<1>8. From = previous
  BY <1>7 DEF From, Value
<1>9. data = DataAtStart /\ data \in ReplicaData
  BY <1>2, <1>8 DEF Init, DataAtStart, From, ReplicaData
<1>10. QED
  BY <1>1, <1>5, <1>6, <1>7, <1>8, <1>9, NilAssumption
  DEF GrayInv, Changing, TypeOK, NotBegun

\* Every step keeps the invariant.
LEMMA StepKeepsGrayInv ==
  ASSUME GrayInv, [Next]_vars
  PROVE  GrayInv'
<1>1. Changing
  BY DEF GrayInv
<1>2. CASE Reconcile
  <2>1. Same /\ Changing' /\ (SettlesAtOnce \/ Settles \/ GoesOn)
    BY <1>1, <1>2, ReconcileEffect
  <2>2. /\ StrategyTo(Target)' = StrategyTo(Target) /\ DataAtEnd' = DataAtEnd
    BY <2>1 DEF Same, StrategyTo, DataAtEnd
  <2>3. CASE SettlesAtOnce
    BY <2>1, <2>2, <2>3 DEF SettlesAtOnce, AtEnd, GrayInv
  <2>4. CASE Settles
    BY <2>1, <2>2, <2>4 DEF Settles, GrayEnded, AtEnd, GrayInv
  <2>5. CASE GoesOn
    <3>1. NextGray(StrategyTo(Target), status.gray) \in GrayStatus
          /\ NextGray(StrategyTo(Target), status.gray).percent > 0
      BY <1>1, <2>5, ChangingFacts, NextGrayFacts DEF GoesOn
    <3>2. (data = DataAt(status.gray.percent))'
      BY <2>1, <2>2, <2>5 DEF GoesOn, DataAt, Same, Distance
    <3>3. UnderWay'
      BY <2>2, <2>5, <3>1, <3>2, NilAssumption DEF GoesOn, UnderWay
    <3>4. QED
      BY <2>1, <3>3 DEF GrayInv
  <2>6. QED
    BY <2>1, <2>3, <2>4, <2>5
<1>3. CASE Adopt \/ Tick \/ UNCHANGED vars
  <2>1. Same /\ Changing' /\ Waits
    BY <1>1, <1>3, WaitEffect
  <2>2. /\ StrategyTo(Target)' = StrategyTo(Target) /\ DataAtEnd' = DataAtEnd
        /\ DataAtStart' = DataAtStart
    BY <2>1 DEF Same, StrategyTo, DataAtEnd, DataAtStart
  <2>3. CASE NotBegun
    BY <2>1, <2>2, <2>3 DEF NotBegun, Waits, GrayInv
  <2>4. CASE UnderWay
    <3>1. status'.gray # Nil /\ status'.gray.percent = status.gray.percent /\ data' = data
      BY <2>1, <2>4 DEF UnderWay, Waits
    <3>2. (data = DataAt(status.gray.percent))'
      BY <2>1, <2>2, <2>4, <3>1 DEF UnderWay, DataAt, Same, Distance
    <3>3. QED
      BY <2>1, <2>2, <2>4, <3>1, <3>2 DEF UnderWay, GrayInv
  <2>5. CASE AtEnd
    BY <2>1, <2>2, <2>5 DEF AtEnd, Waits, GrayInv
  <2>6. QED
    BY <2>3, <2>4, <2>5 DEF GrayInv
<1>4. QED
  BY <1>2, <1>3 DEF Next

\* The invariant holds throughout.
LEMMA GrayInvHolds == Spec => []GrayInv
<1>1. Init => GrayInv
  BY InitGrayInv
<1>2. GrayInv /\ [Next]_vars => GrayInv'
  BY StepKeepsGrayInv
<1>3. QED
  BY <1>1, <1>2, PTL DEF Spec

\* Where the online replicas are, at any time of the change and next.
LEMMA OnlineBetween ==
  ASSUME GrayInv
  PROVE  /\ From \in Nat /\ Target \in Nat /\ data.online \in Nat
         /\ Target >= From => From <= data.online /\ data.online <= Target
         /\ Target <= From => Target <= data.online /\ data.online <= From
<1>1. From \in Nat /\ Target \in Nat /\ Changing
  BY ChangingFacts DEF GrayInv
<1>2. CASE NotBegun
  BY <1>1, <1>2 DEF NotBegun, DataAtStart
<1>3. CASE UnderWay
  <2>1. status.gray.percent \in 0 .. 100 /\ Distance \in Nat /\ Distance > 0
    BY <1>1, <1>3, ChangingFacts DEF UnderWay, GrayStatus
  <2>2. Share(Distance, status.gray.percent) \in 1 .. Distance
    BY <2>1, ShareBounds
  <2>3. data.online = IF Target > From THEN From + Share(Distance, status.gray.percent)
                                       ELSE From - Share(Distance, status.gray.percent)
    BY <1>3 DEF UnderWay, DataAt
  <2>4. QED
    BY <1>1, <2>1, <2>2, <2>3 DEF Distance, AbsOf
<1>4. CASE AtEnd
  BY <1>1, <1>4 DEF AtEnd, DataAtEnd
<1>5. QED
  BY <1>2, <1>3, <1>4 DEF GrayInv

(***************************************************************************)
(* A step that goes on moves the share of the change from what it was, or  *)
(* from nothing, to that of the next percentage.                           *)
(***************************************************************************)
LEMMA GoesOnFacts ==
  ASSUME Changing, GoesOn
  PROVE  /\ StrategyTo(Target) \in GrayStrategy /\ status.gray \in GrayStatus
         /\ Distance \in Nat /\ Distance > 0
         /\ status.gray.percent \in 0 .. 100 /\ status'.gray.percent \in 1 .. 100
         /\ status.gray.percent <= status'.gray.percent
         /\ status'.gray.percent <= status.gray.percent + StrategyTo(Target).percent
         /\ status.gray.percent > 0 /\ status'.gray.percent # status.gray.percent =>
              /\ status.gray.percent < 100
              /\ status.gray.age >= StrategyTo(Target).interval
<1>1. /\ StrategyTo(Target) \in GrayStrategy /\ status.gray \in GrayStatus
      /\ Distance \in Nat /\ Distance > 0
  BY ChangingFacts DEF GoesOn
<1>2. /\ status.gray.percent \in 0 .. 100
      /\ \A gray \in GrayStatus : gray.percent \in 0 .. 100
  BY <1>1 DEF GrayStatus
<1>3. /\ status'.gray \in GrayStatus /\ status'.gray.percent > 0
      /\ status'.gray.percent >= status.gray.percent
      /\ status'.gray.percent <= status.gray.percent + StrategyTo(Target).percent
      /\ status.gray.percent > 0 /\ status'.gray.percent # status.gray.percent =>
           status.gray.percent < 100 /\ status.gray.age >= StrategyTo(Target).interval
  BY <1>1, NextGrayFacts DEF GoesOn
<1>4. status'.gray.percent \in 1 .. 100
  BY <1>2, <1>3
<1>5. QED
  BY <1>1, <1>2, <1>3, <1>4

\* Before a step that goes on, the replicas are those of the start or of the percentage.
LEMMA BeforeGoingOn ==
  ASSUME GrayInv, GoesOn
  PROVE  \/ NotBegun /\ status.gray.percent = 0
         \/ status.gray.percent > 0 /\ data.online = DataAt(status.gray.percent).online
<1>1. Changing
  BY DEF GrayInv
<1>2. CASE NotBegun
  BY <1>2 DEF NotBegun, GoesOn
<1>3. CASE UnderWay
  BY <1>3 DEF UnderWay
<1>4. CASE AtEnd
  <2>1. status.gray.percent = 100 /\ data.online = Target
    BY <1>4 DEF AtEnd, GoesOn, DataAtEnd
  <2>2. Distance \in Nat /\ Distance > 0 /\ From \in Nat /\ Target \in Nat
    BY <1>1, ChangingFacts DEF GoesOn
  <2>3. Share(Distance, 100) = Distance
    BY <2>2, ShareBounds
  <2>4. DataAt(100).online = Target
    BY <2>2, <2>3 DEF DataAt, Distance, AbsOf
  <2>5. QED
    BY <2>1, <2>4
<1>5. QED
  BY <1>2, <1>3, <1>4 DEF GrayInv

(***************************************************************************)
(* The shares before and after such a step, by name: n pods in all, the    *)
(* percentages p and q, d pods changed before and e after.                 *)
(***************************************************************************)
LEMMA GoingOn ==
  ASSUME GrayInv, GoesOn
  PROVE  \E n \in Nat, p \in 0 .. 100, q \in 1 .. 100, d \in Nat, e \in Nat :
           /\ n = Distance /\ n > 0
           /\ p = status.gray.percent /\ q = status'.gray.percent /\ p <= q
           /\ e = Share(n, q) /\ d <= e /\ e <= n
           /\ data.online = IF Target > From THEN From + d ELSE From - d
           /\ data'.online = IF Target > From THEN From + e ELSE From - e
           /\ \/ NotBegun /\ p = 0 /\ d = 0
              \/ p > 0 /\ d = Share(n, p)
<1> DEFINE Going(n, p, q, d, e) ==
             /\ n = Distance /\ n > 0
             /\ p = status.gray.percent /\ q = status'.gray.percent /\ p <= q
             /\ e = Share(n, q) /\ d <= e /\ e <= n
             /\ data.online = IF Target > From THEN From + d ELSE From - d
             /\ data'.online = IF Target > From THEN From + e ELSE From - e
             /\ \/ NotBegun /\ p = 0 /\ d = 0
                \/ p > 0 /\ d = Share(n, p)
<1> SUFFICES \E n \in Nat, p \in 0 .. 100, q \in 1 .. 100, d \in Nat, e \in Nat :
               Going(n, p, q, d, e)
  OBVIOUS
<1>1. PICK n \in Nat, p \in 0 .. 100, q \in 1 .. 100 :
        /\ n = Distance /\ n > 0 /\ p <= q
        /\ p = status.gray.percent /\ q = status'.gray.percent
  BY GoesOnFacts DEF GrayInv
<1>2. q \in 0 .. 100 /\ p \in Nat /\ q \in Nat
  OBVIOUS
<1>3. Share(n, q) \in 1 .. n /\ Share(n, p) \in 1 .. n
  BY <1>1, <1>2, ShareBounds
<1>4. Share(n, p) <= Share(n, q)
  BY <1>1, <1>2, ShareGrows
<1>5. data'.online = IF Target > From THEN From + Share(n, q) ELSE From - Share(n, q)
  BY <1>1 DEF GoesOn, DataAt
<1>6. CASE NotBegun /\ status.gray.percent = 0
  <2>1. data.online = IF Target > From THEN From + 0 ELSE From - 0
    <3>1. From \in Nat
      BY ChangingFacts DEF GrayInv
    <3>2. QED
      BY <1>6, <3>1 DEF NotBegun, DataAtStart
  <2>2. PICK d \in Nat, e \in Nat : d = 0 /\ e = Share(n, q)
    BY <1>3
  <2>3. Going(n, p, q, d, e)
    BY <1>1, <1>3, <1>5, <1>6, <2>1, <2>2
  <2> HIDE DEF Going
  <2>4. QED
    BY <2>3
<1>7. CASE status.gray.percent > 0 /\ data.online = DataAt(status.gray.percent).online
  <2>1. data.online = IF Target > From THEN From + Share(n, p) ELSE From - Share(n, p)
    BY <1>1, <1>7 DEF DataAt
  <2>2. PICK d \in Nat, e \in Nat : d = Share(n, p) /\ e = Share(n, q)
    BY <1>3
  <2>3. Going(n, p, q, d, e)
    BY <1>1, <1>3, <1>4, <1>5, <1>7, <2>1, <2>2
  <2> HIDE DEF Going
  <2>4. QED
    BY <2>3
<1>8. QED
  BY <1>6, <1>7, BeforeGoingOn

\* A change that has ended has its last step behind it.
LEMMA EndedAtTarget ==
  ASSUME GrayInv, Settles
  PROVE  data.online = Target
<1>1. status.gray.percent = 100 /\ StrategyTo(Target) # Nil /\ status.gray # Nil
  BY DEF Settles, GrayEnded
<1>2. Distance \in Nat /\ Distance > 0 /\ From \in Nat /\ Target \in Nat
  BY <1>1, ChangingFacts DEF GrayInv
<1>3. Share(Distance, 100) = Distance
  BY <1>2, ShareBounds
<1>4. CASE NotBegun
  BY <1>1, <1>4 DEF NotBegun
<1>5. CASE UnderWay
  BY <1>1, <1>2, <1>3, <1>5 DEF UnderWay, DataAt, Distance, AbsOf
<1>6. CASE AtEnd
  BY <1>6 DEF AtEnd, DataAtEnd
<1>7. QED
  BY <1>4, <1>5, <1>6 DEF GrayInv

\* A step that goes on takes no pod away that the strategy keeps.
LEMMA TotalKept ==
  ASSUME GrayInv, GoesOn, StrategyTo(Target).state \in {"Cutoff", "Standby"}
  PROVE  Total(data) <= Total(data')
<1>1. PICK n \in Nat, p \in 0 .. 100, q \in 1 .. 100, d \in Nat, e \in Nat :
        /\ n = Distance /\ n > 0
        /\ p = status.gray.percent /\ q = status'.gray.percent /\ p <= q
        /\ e = Share(n, q) /\ d <= e /\ e <= n
        /\ data.online = IF Target > From THEN From + d ELSE From - d
        /\ data'.online = IF Target > From THEN From + e ELSE From - e
        /\ \/ NotBegun /\ p = 0 /\ d = 0
           \/ p > 0 /\ d = Share(n, p)
  BY GoingOn
<1>2. From \in Nat /\ Target \in Nat /\ Target # From
  BY <1>1, ChangingFacts DEF GrayInv, Distance, AbsOf
<1>3. data' = DataAt(q)
  BY <1>1 DEF GoesOn
<1>4. CASE Target > From
  <2>1. Total(data') = From + e
    BY <1>1, <1>2, <1>3, <1>4 DEF DataAt, Total
  <2>2. Total(data) = data.online
    <3>1. data.online \in Nat
      BY OnlineBetween
    <3>2. data.cutoff = 0 /\ data.standby = 0
      BY <1>2, <1>4 DEF GrayInv, NotBegun, UnderWay, AtEnd, DataAt, DataAtStart, DataAtEnd
    <3>3. QED
      BY <3>1, <3>2 DEF Total
  <2>3. QED
    BY <1>1, <1>2, <1>4, <2>1, <2>2
<1>5. CASE Target < From
  <2>1. \A percent \in 1 .. 100 : Total(DataAt(percent)) = From
    <3>1. ASSUME NEW percent \in 1 .. 100
          PROVE  Total(DataAt(percent)) = From
      <4>1. percent \in 0 .. 100
        OBVIOUS
      <4>2. Share(n, percent) \in 1 .. n
        BY <1>1, <4>1, ShareBounds
      <4>3. Share(Distance, percent) \in Nat
        BY <1>1, <4>2
      <4>4. QED
        BY <1>2, <1>5, <4>3 DEF DataAt, Total
    <3>2. QED
      BY <3>1
  <2>2. Total(data) <= From
    <3>1. CASE NotBegun
      BY <1>2, <3>1 DEF NotBegun, DataAtStart, Total
    <3>2. CASE UnderWay
      <4>1. status.gray.percent \in 1 .. 100
        BY <1>1, <3>2 DEF UnderWay
      <4>2. QED
        BY <1>2, <2>1, <3>2, <4>1 DEF UnderWay
    <3>3. CASE AtEnd
      BY <1>2, <1>5, <3>3 DEF AtEnd, DataAtEnd, Total
    <3>4. QED
      BY <3>1, <3>2, <3>3 DEF GrayInv
  <2>3. QED
    BY <1>3, <2>1, <2>2
<1>6. QED
  BY <1>2, <1>4, <1>5

-----------------------------------------------------------------------------
(***************************************************************************)
(* Types.                                                                  *)
(***************************************************************************)
THEOREM GrayTypeCorrect == Spec => []TypeOK
<1>1. GrayInv => TypeOK
  BY DEF GrayInv, Changing
<1>2. QED
  BY <1>1, GrayInvHolds, PTL

(***************************************************************************)
(* Whatever the bounds, the percentage and the rounding of the shares, a   *)
(* gray change never turns back and never goes beyond its end.             *)
(***************************************************************************)
THEOREM GrayNeverTurnsBack == Spec => NeverTurnsBack
<1> DEFINE Forward ==
      IF Target >= status.previous.replicas
      THEN data.online <= data'.online /\ data'.online <= Target
      ELSE data.online >= data'.online /\ data'.online >= Target
<1>1. ASSUME GrayInv, [Next]_vars
      PROVE  Forward
  <2>1. /\ From \in Nat /\ Target \in Nat /\ data.online \in Nat /\ Changing
        /\ Target >= From => From <= data.online /\ data.online <= Target
        /\ Target <= From => Target <= data.online /\ data.online <= From
    BY <1>1, OnlineBetween DEF GrayInv
  <2>2. data'.online = data.online => Forward
    BY <2>1 DEF From
  <2>3. data' = DataAtEnd => Forward
    BY <2>1 DEF From, DataAtEnd
  <2>4. CASE Reconcile
    <3>1. SettlesAtOnce \/ Settles \/ GoesOn
      BY <2>1, <2>4, ReconcileEffect
    <3>2. CASE GoesOn
      <4>1. PICK n \in Nat, p \in 0 .. 100, q \in 1 .. 100, d \in Nat, e \in Nat :
              /\ n = Distance /\ n > 0
              /\ p = status.gray.percent /\ q = status'.gray.percent /\ p <= q
              /\ e = Share(n, q) /\ d <= e /\ e <= n
              /\ data.online = IF Target > From THEN From + d ELSE From - d
              /\ data'.online = IF Target > From THEN From + e ELSE From - e
              /\ \/ NotBegun /\ p = 0 /\ d = 0
                 \/ p > 0 /\ d = Share(n, p)
        BY <1>1, <3>2, GoingOn
      <4>2. QED
        BY <2>1, <4>1 DEF Distance, AbsOf, From
    <3>3. QED
      BY <2>3, <3>1, <3>2 DEF SettlesAtOnce, Settles
  <2>5. CASE Adopt \/ Tick \/ UNCHANGED vars
    <3>1. data' = data
      BY <2>1, <2>5, WaitEffect DEF Waits
    <3>2. QED
      BY <2>2, <3>1
  <2>6. QED
    BY <1>1, <2>4, <2>5 DEF Next
<1>2. QED
  BY <1>1, GrayInvHolds, PTL DEF Spec, NeverTurnsBack

(***************************************************************************)
(* No step changes more pods than its percentage of the change, rounded    *)
(* up, and none after the first comes before its interval has passed.      *)
(***************************************************************************)
THEOREM GrayGoesStepByStep == Spec => StepByStep
<1> DEFINE InPace ==
      data'.online # data.online /\ Strategy # Nil =>
        /\ AbsOf(data'.online - data.online)
             <= ShareOf(Strategy.percent, AbsOf(Target - status.previous.replicas))
        /\ data.online # status.previous.replicas => status.gray.age >= Strategy.interval
<1>1. ASSUME GrayInv, [Next]_vars
      PROVE  InPace
  <2>1. Changing /\ Strategy = StrategyTo(Target)
    BY <1>1, CappedFacts DEF GrayInv, Strategy
  <2>2. CASE Reconcile
    <3>1. SettlesAtOnce \/ Settles \/ GoesOn
      BY <2>1, <2>2, ReconcileEffect
    <3>2. CASE SettlesAtOnce
      BY <2>1, <3>2 DEF SettlesAtOnce
    <3>3. CASE Settles
      <4>1. data.online = Target
        BY <1>1, <3>3, EndedAtTarget
      <4>2. QED
        BY <3>3, <4>1 DEF Settles, DataAtEnd
    <3>4. CASE GoesOn
      <4>1. PICK n \in Nat, p \in 0 .. 100, q \in 1 .. 100, d \in Nat, e \in Nat :
              /\ n = Distance /\ n > 0
              /\ p = status.gray.percent /\ q = status'.gray.percent /\ p <= q
              /\ e = Share(n, q) /\ d <= e /\ e <= n
              /\ data.online = IF Target > From THEN From + d ELSE From - d
              /\ data'.online = IF Target > From THEN From + e ELSE From - e
              /\ \/ NotBegun /\ p = 0 /\ d = 0
                 \/ p > 0 /\ d = Share(n, p)
        BY <1>1, <3>4, GoingOn
      <4>2. PICK s \in 1 .. 100 :
              /\ s = Strategy.percent /\ q <= p + s
              /\ p > 0 /\ q # p => status.gray.age >= Strategy.interval
        BY <2>1, <3>4, <4>1, GoesOnFacts DEF GrayStrategy
      <4>3. From \in Nat /\ Target \in Nat
        BY <2>1, ChangingFacts
      <4>4. e - d <= ShareOf(s, n)
        <5>1. q \in 0 .. 100
          OBVIOUS
        <5>2. /\ Share(n, q) - Share(n, p) <= ShareOf(s, n)
              /\ q <= s => Share(n, q) <= ShareOf(s, n)
          BY <4>1, <4>2, <5>1, ShareStep
        <5>3. ShareOf(s, n) \in Int
          BY DEF ShareOf
        <5>4. QED
          BY <4>1, <4>2, <5>2, <5>3
      <4>5. AbsOf(data'.online - data.online) = e - d
        BY <4>1, <4>3 DEF AbsOf
      <4>6. data.online # From => d # 0
        BY <4>1, <4>3
      <4>7. data'.online # data.online /\ d # 0 => p > 0 /\ q # p
        BY <4>1
      <4>8. QED
        BY <4>1, <4>2, <4>4, <4>5, <4>6, <4>7 DEF Distance, From
    <3>5. QED
      BY <3>1, <3>2, <3>3, <3>4
  <2>3. CASE Adopt \/ Tick \/ UNCHANGED vars
    BY <2>1, <2>3, WaitEffect DEF Waits
  <2>4. QED
    BY <1>1, <2>2, <2>3 DEF Next
<1>2. QED
  BY <1>1, GrayInvHolds, PTL DEF Spec, StepByStep

(***************************************************************************)
(* No pod that a strategy keeps in the gray state is given up before all   *)
(* are in that state and were observed.                                    *)
(***************************************************************************)
THEOREM GrayKeptUntilObserved == Spec => KeptUntilObserved
<1> DEFINE Observed ==
      Strategy # Nil /\ Strategy.state \in {"Cutoff", "Standby"} /\ Total(data') < Total(data) =>
        /\ data.online = Target
        /\ status.gray.percent = 100 /\ status.gray.age >= Strategy.observation
<1>1. ASSUME GrayInv, [Next]_vars
      PROVE  Observed
  <2>1. Changing /\ Strategy = StrategyTo(Target)
    BY <1>1, CappedFacts DEF GrayInv, Strategy
  <2>2. CASE Reconcile
    <3>1. SettlesAtOnce \/ Settles \/ GoesOn
      BY <2>1, <2>2, ReconcileEffect
    <3>2. CASE SettlesAtOnce
      BY <2>1, <3>2 DEF SettlesAtOnce
    <3>3. CASE Settles
      <4>1. data.online = Target
        BY <1>1, <3>3, EndedAtTarget
      <4>2. /\ Strategy \in GrayStrategy /\ status.gray \in GrayStatus
            /\ GrayEnded(Strategy, status.gray)
        BY <2>1, <3>3, ChangingFacts DEF Settles
      <4>3. /\ Strategy.observation \in 0 .. MaxAge /\ status.gray.age \in 0 .. MaxAge
            /\ MaxAge \in Nat
        BY <4>2, MaxAgeAssumption DEF GrayStrategy, GrayStatus
      <4>4. status.gray.percent = 100 /\ status.gray.age >= Strategy.observation
        BY <4>2, <4>3 DEF GrayEnded, GrayRemainTime, Wait, GreaterOf
      <4>5. QED
        BY <4>1, <4>4
    <3>4. CASE GoesOn
      <4>1. ASSUME Strategy.state \in {"Cutoff", "Standby"}
            PROVE  Total(data) <= Total(data')
        BY <1>1, <2>1, <3>4, <4>1, TotalKept
      <4>2. Total(data) \in Nat /\ Total(data') \in Nat
        BY <2>1, <2>2, ReconcileEffect DEF Changing, TypeOK, ReplicaData, Total
      <4>3. QED
        BY <4>1, <4>2
    <3>5. QED
      BY <3>1, <3>2, <3>3, <3>4
  <2>3. CASE Adopt \/ Tick \/ UNCHANGED vars
    <3>1. data' = data /\ Total(data) \in Nat
      BY <2>1, <2>3, WaitEffect DEF Waits, Changing, TypeOK, ReplicaData, Total
    <3>2. QED
      BY <3>1
  <2>4. QED
    BY <1>1, <2>2, <2>3 DEF Next
<1>2. QED
  BY <1>1, GrayInvHolds, PTL DEF Spec, KeptUntilObserved
=============================================================================
