----------------------------- MODULE MetricsProofs -----------------------------
(***************************************************************************)
(* Proofs about the metric provider and the generator that queries it:     *)
(*   - queries shard their ranges as RangeShards says, whoever asks and    *)
(*     whatever else happens in between;                                   *)
(*   - a portrait ignores none of its metrics;                             *)
(*   - an answer is about what the query asks for;                         *)
(*   - the answer to a range is whole;                                     *)
(*   - a registry changes to what one listing found;                       *)
(*   - the lister and the goroutines of its listings never wait for ever.  *)
(***************************************************************************)
EXTENDS ReactiveGenerator, RangeShardsProofs, FiniteSetTheorems, SequenceTheorems,
        WellFoundedInduction

SomeRange == Ranges \union {Nil}

QueryInv ==
  /\ (qpc = "shard") <=> ~ complete
  /\ qpc # "idle" => query.range \in SomeRange

Keeps == QueryInv' /\ [ShardNext]_shardVars

-----------------------------------------------------------------------------
LEMMA ConvertedKeepsRange ==
  ASSUME NEW r \in Requests, Converted(r) # Nil
  PROVE  Converted(r).range \in SomeRange
  BY RequestsAssumption DEF Converted, SomeRange

LEMMA QueryOfHasNoRange ==
  ASSUME NEW m, QueryOf(m) # Nil
  PROVE  QueryOf(m).range = Nil
  BY DEF QueryOf, NoQuery

\* What leaves the query alone.
LEMMA AsideKeeps ==
  ASSUME QueryInv, UNCHANGED <<shardVars, qpc, query>>
  PROVE  Keeps
  BY DEF QueryInv, Keeps, shardVars

\* What ends it.
LEMMA ReplyKeeps ==
  ASSUME QueryInv, NEW streams, Reply(streams), qpc # "shard", UNCHANGED shardVars
  PROVE  Keeps
  BY DEF QueryInv, Keeps, Reply, shardVars

LEMMA AskKeeps ==
  ASSUME QueryInv, NEW q, Ask(q), qpc = "idle", q.range \in SomeRange, UNCHANGED shardVars
  PROVE  Keeps
  BY DEF QueryInv, Keeps, Ask, shardVars

LEMMA RequestKeeps ==
  ASSUME QueryInv, NEW r \in Requests, Request(r)
  PROVE  Keeps
<1>1. CASE Converted(r) = Nil
  BY <1>1 DEF Request, QueryInv, Keeps, shardVars
<1>2. CASE Converted(r) # Nil
  BY <1>2, ConvertedKeepsRange, AskKeeps DEF Request
<1> QED
  BY <1>1, <1>2

LEMMA BuildRangeKeeps ==
  ASSUME QueryInv, BuildRange
  PROVE  Keeps
<1>1. query.range \in Ranges /\ BeginSharding(query.range) /\ complete
  BY DEF BuildRange, QueryInv, SomeRange
<1>2. ShardNext
  BY <1>1 DEF ShardNext
<1>3. QueryInv'
  BY <1>1 DEF BuildRange, BeginSharding, QueryInv, SomeRange
<1> QED
  BY <1>2, <1>3 DEF Keeps

LEMMA ShardKeeps ==
  ASSUME QueryInv, Shard
  PROVE  Keeps
<1>1. AddShard /\ complete' \in BOOLEAN
  BY DEF Shard, AddShard
<1>2. QueryInv'
  BY <1>1 DEF Shard, QueryInv
<1> QED
  BY <1>1, <1>2 DEF Keeps, ShardNext

-----------------------------------------------------------------------------
LEMMA QueryingKeeps ==
  ASSUME QueryInv, Querying \/ LatestFails \/ \E i \in asking : ShardFails(i)
  PROVE  Keeps
<1>1. CASE AskMetricsApi
  BY <1>1, ReplyKeeps DEF AskMetricsApi
<1>2. CASE BuildFails
  BY <1>2, ReplyKeeps DEF BuildFails
<1>3. CASE BuildLatest
  BY <1>3 DEF BuildLatest, QueryInv, Keeps, shardVars
<1>4. CASE BuildRange
  BY <1>4, BuildRangeKeeps
<1>5. CASE AskLatest
  BY <1>5, ReplyKeeps DEF AskLatest
<1>6. CASE Shard
  BY <1>6, ShardKeeps
<1>7. CASE Merge
  BY <1>7, ReplyKeeps DEF Merge
<1>8. CASE LatestFails
  BY <1>8, ReplyKeeps DEF LatestFails
<1>9. CASE \E i \in asking : ShardAnswered(i) \/ ShardRefused(i) \/ ShardFails(i)
  BY <1>9, AsideKeeps DEF ShardAnswered, ShardRefused, ShardFails, ShardArrives
<1> QED
  BY <1>1, <1>2, <1>3, <1>4, <1>5, <1>6, <1>7, <1>8, <1>9 DEF Querying

LEMMA ListingKeeps ==
  ASSUME QueryInv,
         \/ Lister \/ GoroutineGoes \/ OrphanGoes \/ PromRefuses
         \/ \E new \in SeriesSets : SeriesChange(new)
  PROVE  Keeps
  BY AsideKeeps
     DEF Lister, Relist, ReceiveErr, ReceiveFound, SetSeries, GoroutineGoes, OrphanGoes, PromRefuses,
         SeriesChange, queryVars

LEMMA GeneratingKeeps ==
  ASSUME QueryInv, Generating \/ \E list \in MetricLists : Generate(list)
  PROVE  Keeps
<1>1. CASE AskMetric
  <2>1. QueryOf(Metric).range \in SomeRange
    BY <1>1, QueryOfHasNoRange DEF AskMetric, SomeRange
  <2> QED
    BY <1>1, <2>1, AskKeeps DEF AskMetric
<1>2. CASE SkipMetric \/ TakeAnswer \/ Decide \/ \E list \in MetricLists : Generate(list)
  BY <1>2, AsideKeeps DEF SkipMetric, TakeAnswer, Decide, Generate, metricsVars, queryVars
<1> QED
  BY <1>1, <1>2 DEF Generating

LEMMA NextKeeps ==
  ASSUME QueryInv, [Next]_vars
  PROVE  Keeps
<1>1. CASE MetricsNext
  BY <1>1, ListingKeeps, QueryingKeeps, RequestKeeps DEF MetricsNext
<1>2. CASE Generating \/ \E list \in MetricLists : Generate(list)
  BY <1>2, GeneratingKeeps
<1>3. CASE UNCHANGED vars
  BY <1>3, AsideKeeps DEF vars, metricsVars, queryVars
<1> QED
  BY <1>1, <1>2, <1>3 DEF Next

-----------------------------------------------------------------------------
(***************************************************************************)
(* The metric provider implements the sharding loop: what it does to a     *)
(* range is what RangeShards says, and nothing else disturbs it.           *)
(***************************************************************************)
THEOREM MetricsImplementShards == Spec => ShardSpec
<1>1. Init => ShardInit /\ QueryInv
  BY DEF Init, MetricsInit, ShardInit, QueryInv
<1>2. QueryInv /\ [Next]_vars => QueryInv' /\ [ShardNext]_shardVars
  BY NextKeeps DEF Keeps
<1> QED
  BY <1>1, <1>2, PTL DEF Spec, ShardSpec

(***************************************************************************)
(* Every range that is queried is asked for as a whole, step by step and   *)
(* once, whoever asks for it (Query, promQueryRangeSharding).              *)
(***************************************************************************)
THEOREM RangesAskedOnce == Spec => []EachStepOnce
  BY MetricsImplementShards, EachStepIsAskedOnce, PTL

(***************************************************************************)
(* And in portions that Prometheus answers.                                *)
(***************************************************************************)
THEOREM RangesWithinLimit == Spec => []WithinLimit
  BY MetricsImplementShards, ShardsAreWithinLimit, PTL

-----------------------------------------------------------------------------
(***************************************************************************)
(* The largest proposal.                                                   *)
(***************************************************************************)

\* A set of numbers has a smallest one.
LEMMA SmallestNumber ==
  ASSUME NEW T \in SUBSET Nat, T # {}
  PROVE  \E n \in T : \A m \in T : n <= m
<1>1. PICK n \in T : \A m \in T : ~ (<<m, n>> \in OpToRel(<, Nat))
  BY WFMin, NatLessThanWellFounded
<1>2. ASSUME NEW m \in T PROVE n <= m
  <2>1. <<m, n>> \in Nat \X Nat /\ ~ (<<m, n>> \in OpToRel(<, Nat))
    BY <1>1
  <2>2. ~ (m < n)
    BY <2>1 DEF OpToRel
  <2>3. QED
    BY <2>2
<1>3. QED
  BY <1>2

\* Those of the numbers in a sequence that are in V have a bound: the first
\* beginning of the sequence without one would be longer by one number.
LEMMA NumbersAreBounded ==
  ASSUME NEW seq, Len(seq) \in Nat, DOMAIN seq = 1 .. Len(seq),
         NEW V \in SUBSET DOMAIN seq, \A i \in V : seq[i] \in Nat
  PROVE  \E bound \in Nat : \A i \in V : seq[i] <= bound
<1> DEFINE Bounds(k) == {b \in Nat : \A i \in V : i <= k => seq[i] <= b}
           Without == {k \in Nat : Bounds(k) = {}}
<1>1. V \subseteq 1 .. Len(seq) /\ Len(seq) \in Nat
  OBVIOUS
<1>2. Without = {}
  <2>1. SUFFICES ASSUME Without # {} PROVE FALSE
    OBVIOUS
  <2>2. PICK k \in Without : \A m \in Without : k <= m
    <3>1. Without \in SUBSET Nat
      OBVIOUS
    <3>2. QED
      BY <2>1, <3>1, SmallestNumber
  <2>3. k # 0
    <3>1. 0 \in Bounds(0)
      BY <1>1
    <3>2. QED
      BY <3>1
  <2>4. k - 1 \in Nat /\ k - 1 \notin Without
    BY <2>2, <2>3
  <2>5. PICK b \in Nat : \A i \in V : i <= k - 1 => seq[i] <= b
    BY <2>4
  <2>6. CASE k \in V
    <3>1. seq[k] \in Nat
      BY <2>6
    <3>2. PICK c \in Nat : b <= c /\ seq[k] <= c
      <4>1. CASE b <= seq[k]
        BY <3>1, <4>1
      <4>2. CASE ~ (b <= seq[k])
        BY <3>1, <4>2
      <4>3. QED
        BY <4>1, <4>2
    <3>3. ASSUME NEW i \in V, i <= k PROVE seq[i] <= c
      <4>1. i \in Nat /\ k \in Nat /\ seq[i] \in Nat
        BY <1>1
      <4>2. CASE i = k
        BY <3>2, <4>2
      <4>3. CASE i # k
        <5>1. i <= k - 1
          BY <3>3, <4>1, <4>3
        <5>2. seq[i] <= b
          BY <2>5, <5>1
        <5>3. QED
          BY <3>2, <4>1, <5>2
      <4>4. QED
        BY <4>2, <4>3
    <3>4. c \in Bounds(k)
      BY <3>3
    <3>5. QED
      BY <3>4
  <2>7. CASE k \notin V
    <3>1. ASSUME NEW i \in V, i <= k PROVE seq[i] <= b
      <4>1. i \in Nat /\ k \in Nat /\ i # k
        BY <1>1, <2>7
      <4>2. i <= k - 1
        BY <3>1, <4>1
      <4>3. QED
        BY <2>5, <4>2
    <3>2. b \in Bounds(k)
      BY <3>1
    <3>3. QED
      BY <3>2
  <2>8. QED
    BY <2>6, <2>7
<1>3. PICK b \in Bounds(Len(seq)) : TRUE
  BY <1>1, <1>2
<1>4. ASSUME NEW i \in V PROVE seq[i] <= b
  BY <1>1, <1>3
<1>5. QED
  BY <1>3, <1>4

\* A set of numbers with a bound has a largest one.
LEMMA LargestNumber ==
  ASSUME NEW T \in SUBSET Nat, T # {}, NEW b \in Nat, \A t \in T : t <= b
  PROVE  \E n \in T : \A t \in T : n >= t
<1> DEFINE Short == {b - t : t \in T}
<1>1. Short \in SUBSET Nat /\ Short # {}
  <2>1. ASSUME NEW t \in T PROVE b - t \in Nat
    <3>1. t \in Nat /\ t <= b
      OBVIOUS
    <3>2. QED
      BY <3>1
  <2>2. QED
    BY <2>1
<1>2. PICK d \in Short : \A e \in Short : d <= e
  BY <1>1, SmallestNumber
<1>3. PICK n \in T : d = b - n
  OBVIOUS
<1>4. ASSUME NEW t \in T PROVE n >= t
  <2>1. d <= b - t /\ t \in Nat /\ n \in Nat
    BY <1>2
  <2>2. QED
    BY <1>3, <2>1
<1>5. QED
  BY <1>4

\* Largest is at least what each valid metric proposes.
LEMMA LargestIsLargest ==
  ASSUME proposals \in Seq(Proposals \union {Nil})
  PROVE  /\ DOMAIN proposals # Invalid => Largest \in Nat
         /\ \A i \in DOMAIN proposals \ Invalid : Largest >= proposals[i]
<1> DEFINE Valid == DOMAIN proposals \ Invalid
           All == {1} \union {proposals[i] : i \in Valid}
<1>1. \A i \in Valid : proposals[i] \in Nat
  <2>1. \A i \in DOMAIN proposals : proposals[i] \in Proposals \union {Nil}
    OBVIOUS
  <2>2. QED
    BY <2>1, ReplicasAssumption DEF Invalid
<1>2. /\ Len(proposals) \in Nat /\ DOMAIN proposals = 1 .. Len(proposals)
      /\ Valid \in SUBSET DOMAIN proposals
  OBVIOUS
<1>3. PICK bound \in Nat : \A i \in Valid : proposals[i] <= bound
  BY <1>1, <1>2, NumbersAreBounded
<1>4. All \in SUBSET Nat /\ All # {}
  BY <1>1
<1>5. \A n \in All : n <= bound + 1
  <2>1. \A i \in Valid : proposals[i] <= bound + 1
    BY <1>1, <1>3
  <2>2. 1 <= bound + 1
    OBVIOUS
  <2>3. QED
    BY <2>1, <2>2
<1>6. PICK n \in All : \A m \in All : n >= m
  <2>1. bound + 1 \in Nat
    OBVIOUS
  <2> HIDE DEF All
  <2>2. QED
    BY <1>4, <1>5, <2>1, LargestNumber
<1>7. \A i \in Valid : n >= 1 /\ n >= proposals[i]
  BY <1>6
<1>8. /\ Largest \in All
      /\ \A i \in Valid : Largest >= 1 /\ Largest >= proposals[i]
  BY <1>6, <1>7 DEF Largest
<1>9. QED
  BY <1>4, <1>8

-----------------------------------------------------------------------------
(***************************************************************************)
(* The proposals of a portrait.                                            *)
(***************************************************************************)
ProposalsInv ==
  /\ proposals \in Seq(Proposals \union {Nil})
  /\ specReplicas \in Nat
  /\ NoneIgnored

LEMMA DecideKeepsProposals ==
  ASSUME ProposalsInv, Decide
  PROVE  ProposalsInv'
<1>1. proposals \in Seq(Proposals \union {Nil}) /\ specReplicas \in Nat
  BY DEF ProposalsInv
<1>2. UNCHANGED <<proposals, specReplicas, metrics>>
  BY DEF Decide
<1>3. SUFFICES ASSUME portrait' # Nil
               PROVE  /\ Len(proposals) = Len(metrics)
                      /\ \E i \in DOMAIN proposals : proposals[i] # Nil
                      /\ \A i \in DOMAIN proposals :
                           portrait' >= IF proposals[i] = Nil THEN specReplicas ELSE proposals[i]
  BY <1>1, <1>2 DEF ProposalsInv, NoneIgnored
<1>4. ~ TooFewValid /\ portrait' = Largest /\ Len(proposals) = Len(metrics)
  BY <1>3 DEF Decide
<1>5. Invalid # DOMAIN proposals /\ (Invalid # {} => ~ (Largest < specReplicas))
  BY <1>4 DEF TooFewValid
<1>6. Largest \in Nat /\ \A i \in DOMAIN proposals \ Invalid : Largest >= proposals[i]
  BY <1>1, <1>5, LargestIsLargest
<1>7. ASSUME NEW i \in DOMAIN proposals
      PROVE  Largest >= IF proposals[i] = Nil THEN specReplicas ELSE proposals[i]
  <2>1. CASE proposals[i] = Nil
    <3>1. i \in Invalid
      BY <2>1 DEF Invalid
    <3>2. QED
      BY <1>1, <1>5, <1>6, <2>1, <3>1
  <2>2. CASE proposals[i] # Nil
    BY <1>6, <2>2 DEF Invalid
  <2>3. QED
    BY <2>1, <2>2
<1>8. \E i \in DOMAIN proposals : proposals[i] # Nil
  BY <1>5 DEF Invalid
<1>9. QED
  BY <1>4, <1>7, <1>8

LEMMA AddingKeepsProposals ==
  ASSUME ProposalsInv, SkipMetric \/ TakeAnswer
  PROVE  ProposalsInv'
<1>1. PICK n \in Proposals \union {Nil} : Proposed(n)
  BY DEF SkipMetric, TakeAnswer
<1>2. proposals' \in Seq(Proposals \union {Nil}) /\ specReplicas' \in Nat
  BY <1>1 DEF ProposalsInv, Proposed, SkipMetric, TakeAnswer
<1>3. gpc' # "idle"
  BY DEF SkipMetric, TakeAnswer
<1>4. QED
  BY <1>2, <1>3 DEF ProposalsInv, NoneIgnored

LEMMA GenerateKeepsProposals ==
  ASSUME ProposalsInv, NEW list, Generate(list)
  PROVE  ProposalsInv'
<1>1. proposals' = <<>> /\ portrait' = Nil /\ specReplicas' \in Nat
  BY ReplicasAssumption DEF Generate
<1>2. QED
  BY <1>1 DEF ProposalsInv, NoneIgnored

LEMMA NextKeepsProposals ==
  ASSUME ProposalsInv, [Next]_vars
  PROVE  ProposalsInv'
<1>1. CASE UNCHANGED generatorVars
  BY <1>1 DEF ProposalsInv, NoneIgnored, generatorVars
<1>2. CASE AskMetric
  <2>1. gpc' = "waits" /\ UNCHANGED <<proposals, specReplicas>>
    BY <1>2 DEF AskMetric
  <2>2. QED
    BY <2>1 DEF ProposalsInv, NoneIgnored
<1>3. CASE SkipMetric \/ TakeAnswer
  BY <1>3, AddingKeepsProposals
<1>4. CASE Decide
  BY <1>4, DecideKeepsProposals
<1>5. CASE \E list \in MetricLists : Generate(list)
  BY <1>5, GenerateKeepsProposals
<1>6. QED
  BY <1>1, <1>2, <1>3, <1>4, <1>5 DEF Next, Generating, vars, generatorVars

(***************************************************************************)
(* A portrait is at least what each of the metrics asks for, and does not  *)
(* scale down when one of them could not be had (the loop over the         *)
(* metrics of GeneratePortrait, and what it checks at its end).            *)
(***************************************************************************)
THEOREM NoMetricIgnored == Spec => []NoneIgnored
<1>1. Init => ProposalsInv
  BY DEF Init, ProposalsInv, NoneIgnored
<1>2. ProposalsInv /\ [Next]_vars => ProposalsInv'
  BY NextKeepsProposals
<1>3. ProposalsInv => NoneIgnored
  BY DEF ProposalsInv
<1>4. QED
  BY <1>1, <1>2, <1>3, PTL DEF Spec

-----------------------------------------------------------------------------
(***************************************************************************)
(* The lister.  A listing is of a kind, and its goroutines of the          *)
(* selectors of that kind.  One that is given up has no cache any more.    *)
(***************************************************************************)
GoroutineStates == {"asked", "refused", "answered", "found", "done"}
Somewhere == SUBSET AllSeries

Goroutines(kind) == [Selectors(kind) -> [state : GoroutineStates, series : Somewhere]]

Listing(kind, caches) ==
  [kind : {kind},
   asked : Goroutines(kind),
   errs : Seq(BOOLEAN),
   found : Seq([selector : Selectors(kind) \union {Nil}, series : Somewhere]),
   received : Nat,
   cached : caches]

Caches(kind) == [Selectors(kind) -> Somewhere \union {Nil}]

\* What else a step of a goroutine leaves alone.
OnlyMoves(l, m) ==
  m = [kind |-> l.kind, asked |-> m.asked, errs |-> m.errs, found |-> m.found,
       received |-> l.received, cached |-> l.cached]

GetsAnswer(l, m, s) ==
  /\ l.asked[s].state = "asked"
  /\ m.asked = [l.asked EXCEPT ![s] = [state |-> "answered", series |-> Matches[s] \intersect series]]
  /\ m.errs = l.errs /\ m.found = l.found

SendsError(l, m, s) ==
  /\ l.asked[s].state = "refused" /\ HasRoom(l, l.errs)
  /\ m.asked = [l.asked EXCEPT ![s].state = "done"]
  /\ m.errs = Append(l.errs, TRUE) /\ m.found = l.found

SendsNoError(l, m, s) ==
  /\ l.asked[s].state = "answered" /\ HasRoom(l, l.errs)
  /\ m.asked = [l.asked EXCEPT ![s].state = "found"]
  /\ m.errs = Append(l.errs, FALSE) /\ m.found = l.found

SendsSeries(l, m, s) ==
  /\ l.asked[s].state = "found" /\ HasRoom(l, l.found)
  /\ m.asked = [l.asked EXCEPT ![s].state = "done"]
  /\ m.errs = l.errs
  /\ m.found = Append(l.found, [selector |-> s, series |-> l.asked[s].series])

Moved(l, m, s) ==
  /\ OnlyMoves(l, m)
  /\ GetsAnswer(l, m, s) \/ SendsError(l, m, s) \/ SendsNoError(l, m, s) \/ SendsSeries(l, m, s)

LEMMA MoveIsOfOne ==
  ASSUME NEW kind, NEW caches, NEW l \in Listing(kind, caches), NEW m \in Moves(l)
  PROVE  \E s \in Selectors(kind) : Moved(l, m, s)
<1>1. DOMAIN l.asked = Selectors(kind)
  BY DEF Listing, Goroutines
<1>3. CASE \E s \in AtState(l, "asked") :
             m = [l EXCEPT !.asked[s] = [state |-> "answered", series |-> Matches[s] \intersect series]]
  <2>1. PICK s \in Selectors(kind) :
          /\ l.asked[s].state = "asked"
          /\ m = [l EXCEPT !.asked[s] = [state |-> "answered", series |-> Matches[s] \intersect series]]
    BY <1>1, <1>3 DEF AtState
  <2>2. OnlyMoves(l, m) /\ GetsAnswer(l, m, s)
    BY <2>1 DEF OnlyMoves, GetsAnswer, Listing
  <2>3. QED
    BY <2>2 DEF Moved
<1>4. CASE \E s \in {s \in AtState(l, "refused") : HasRoom(l, l.errs)} :
             m = [l EXCEPT !.asked[s].state = "done", !.errs = Append(@, TRUE)]
  <2>1. PICK s \in Selectors(kind) :
          /\ l.asked[s].state = "refused" /\ HasRoom(l, l.errs)
          /\ m = [l EXCEPT !.asked[s].state = "done", !.errs = Append(@, TRUE)]
    BY <1>1, <1>4 DEF AtState
  <2>2. OnlyMoves(l, m) /\ SendsError(l, m, s)
    BY <2>1 DEF OnlyMoves, SendsError, Listing
  <2>3. QED
    BY <2>2 DEF Moved
<1>5. CASE \E s \in {s \in AtState(l, "answered") : HasRoom(l, l.errs)} :
             m = [l EXCEPT !.asked[s].state = "found", !.errs = Append(@, FALSE)]
  <2>1. PICK s \in Selectors(kind) :
          /\ l.asked[s].state = "answered" /\ HasRoom(l, l.errs)
          /\ m = [l EXCEPT !.asked[s].state = "found", !.errs = Append(@, FALSE)]
    BY <1>1, <1>5 DEF AtState
  <2>2. OnlyMoves(l, m) /\ SendsNoError(l, m, s)
    BY <2>1 DEF OnlyMoves, SendsNoError, Listing
  <2>3. QED
    BY <2>2 DEF Moved
<1>6. CASE \E s \in {s \in AtState(l, "found") : HasRoom(l, l.found)} :
             m = [l EXCEPT !.asked[s].state = "done",
                           !.found = Append(@, [selector |-> s, series |-> l.asked[s].series])]
  <2>1. PICK s \in Selectors(kind) :
          /\ l.asked[s].state = "found" /\ HasRoom(l, l.found)
          /\ m = [l EXCEPT !.asked[s].state = "done",
                           !.found = Append(@, [selector |-> s, series |-> l.asked[s].series])]
    BY <1>1, <1>6 DEF AtState
  <2>2. OnlyMoves(l, m) /\ SendsSeries(l, m, s)
    BY <2>1 DEF OnlyMoves, SendsSeries, Listing
  <2>3. QED
    BY <2>2 DEF Moved
<1>7. QED
  BY <1>3, <1>4, <1>5, <1>6 DEF Moves

LEMMA MovesStayListings ==
  ASSUME NEW kind, NEW caches, NEW l \in Listing(kind, caches), NEW m \in Moves(l), series \in Somewhere
  PROVE  m \in Listing(kind, caches)
<1>1. PICK s \in Selectors(kind) : Moved(l, m, s)
  BY MoveIsOfOne
<1>2. l.asked \in Goroutines(kind) /\ l.asked[s] \in [state : GoroutineStates, series : Somewhere]
  BY DEF Listing, Goroutines
<1>3. m.asked \in Goroutines(kind)
  <2>1. CASE GetsAnswer(l, m, s)
    <3>1. Matches[s] \intersect series \in Somewhere
      BY DEF Somewhere
    <3>2. QED
      BY <1>2, <2>1, <3>1 DEF GetsAnswer, Goroutines, GoroutineStates
  <2>2. CASE SendsError(l, m, s) \/ SendsNoError(l, m, s) \/ SendsSeries(l, m, s)
    <3>1. PICK state \in {"found", "done"} : m.asked = [l.asked EXCEPT ![s].state = state]
      BY <2>2 DEF SendsError, SendsNoError, SendsSeries
    <3>2. QED
      BY <1>2, <3>1 DEF Goroutines, GoroutineStates
  <2>3. QED
    BY <1>1, <2>1, <2>2 DEF Moved
<1>4. m.errs \in Seq(BOOLEAN)
  <2>1. l.errs \in Seq(BOOLEAN)
    BY DEF Listing
  <2>2. Append(l.errs, TRUE) \in Seq(BOOLEAN) /\ Append(l.errs, FALSE) \in Seq(BOOLEAN)
    BY <2>1
  <2>3. QED
    BY <1>1, <2>1, <2>2 DEF Moved, GetsAnswer, SendsError, SendsNoError, SendsSeries
<1>5. m.found \in Seq([selector : Selectors(kind) \union {Nil}, series : Somewhere])
  <2>1. l.found \in Seq([selector : Selectors(kind) \union {Nil}, series : Somewhere])
    BY DEF Listing
  <2>2. [selector |-> s, series |-> l.asked[s].series]
          \in [selector : Selectors(kind) \union {Nil}, series : Somewhere]
    BY <1>2
  <2>3. Append(l.found, [selector |-> s, series |-> l.asked[s].series])
          \in Seq([selector : Selectors(kind) \union {Nil}, series : Somewhere])
    BY <2>1, <2>2
  <2>4. QED
    BY <1>1, <2>1, <2>3 DEF Moved, GetsAnswer, SendsError, SendsNoError, SendsSeries
<1>6. m.kind \in {kind} /\ m.received \in Nat /\ m.cached \in caches
  BY <1>1 DEF Moved, OnlyMoves, Listing
<1>7. OnlyMoves(l, m)
  BY <1>1 DEF Moved
<1>8. QED
  BY <1>3, <1>4, <1>5, <1>6, <1>7 DEF Listing, OnlyMoves

-----------------------------------------------------------------------------
\* There are not more selectors than namers, so that the repeated ones can be
\* counted.
LEMMA SelectorsCount ==
  ASSUME NEW kind \in Kinds
  PROVE  /\ Len(Namers[kind]) \in Nat
         /\ IsFiniteSet(Selectors(kind))
         /\ Cardinality(Selectors(kind)) \in Nat
         /\ Repeated(kind) \in Nat
         /\ Repeated(kind) + Cardinality(Selectors(kind)) = Len(Namers[kind])
<1> DEFINE n == Len(Namers[kind])
           f == [i \in 1 .. n |-> Namers[kind][i].selector]
<1>1. n \in Nat /\ DOMAIN Namers[kind] = 1 .. n
  BY NamersAssumption
<1>2. f \in Surjection(1 .. n, Selectors(kind))
  BY <1>1 DEF Surjection, Selectors
<1>3. IsFiniteSet(1 .. n) /\ Cardinality(1 .. n) = n
  <2>1. IsFiniteSet(1 .. n) /\ Cardinality(1 .. n) = IF 1 > n THEN 0 ELSE n - 1 + 1
    <3> HIDE DEF n
    <3>1. 1 \in Int /\ n \in Int
      BY <1>1
    <3>2. QED
      BY <3>1, FS_Interval
  <2>2. QED
    BY <1>1, <2>1
<1>4. IsFiniteSet(Selectors(kind)) /\ Cardinality(Selectors(kind)) <= n
  BY <1>2, <1>3, FS_Surjection
<1>5. Cardinality(Selectors(kind)) \in Nat
  BY <1>4, FS_CardinalityType
<1>6. QED
  BY <1>1, <1>4, <1>5 DEF Repeated

\* The same over and over.
LEMMA OverAndOver ==
  ASSUME NEW S, NEW x \in S, NEW n \in Nat
  PROVE  /\ [i \in 1 .. n |-> x] \in Seq(S)
         /\ Len([i \in 1 .. n |-> x]) = n
<1>1. [i \in 1 .. n |-> x] \in [1 .. n -> S]
  OBVIOUS
<1>2. [i \in 1 .. n |-> x] \in Seq(S)
  BY <1>1, SeqDef
<1>3. QED
  BY <1>1, <1>2, LenProperties

LEMMA NewListingIsListing ==
  ASSUME NEW kind \in Kinds
  PROVE  NewListing(kind) \in Listing(kind, Caches(kind))
<1> DEFINE Found == [selector : Selectors(kind) \union {Nil}, series : Somewhere]
<1>1. Repeated(kind) \in Nat
  BY SelectorsCount
<1>2. [s \in Selectors(kind) |-> [state |-> "asked", series |-> {}]] \in Goroutines(kind)
  <2>1. {} \in Somewhere
    BY DEF Somewhere
  <2>2. QED
    BY <2>1 DEF Goroutines, GoroutineStates
<1>3. [i \in 1 .. Repeated(kind) |-> FALSE] \in Seq(BOOLEAN)
  BY <1>1, OverAndOver
<1>4. FoundAtOnce(kind) \in Seq(Found)
  <2>1. NoSeries \in Found
    BY DEF NoSeries, Somewhere
  <2>2. QED
    BY <1>1, <2>1, OverAndOver DEF FoundAtOnce
<1>5. [s \in Selectors(kind) |-> Nil] \in Caches(kind)
  BY DEF Caches
<1>6. QED
  BY <1>2, <1>3, <1>4, <1>5 DEF NewListing, Listing

-----------------------------------------------------------------------------
NamedSo(kind, metric) ==
  {s \in AllSeries : \E i \in DOMAIN Namers[kind] :
                       s \in Namers[kind][i].keeps /\ metric \in Namers[kind][i].metrics[s]}

RegistryInv ==
  /\ DOMAIN registry = Kinds
  /\ \A kind \in Kinds : \A m \in DOMAIN registry[kind] :
       registry[kind][m].series \in NamedSo(kind, m)

Listed == listing.kind \in Kinds /\ listing \in Listing(listing.kind, Caches(listing.kind))

ListerTyped ==
  /\ lister \in {"idle", "errs", "found"}
  /\ series \in Somewhere
  /\ lister # "idle" => Listed

TypedInv == ListerTyped /\ RegistryInv

\* The steps that are about the lister, and those that leave it alone.
ListerLeftAlone == UNCHANGED <<series, listerVars>>

LEMMA StepsOfLister ==
  ASSUME [Next]_vars
  PROVE  \/ Relist \/ ReceiveErr \/ ReceiveFound \/ SetSeries
         \/ GoroutineGoes \/ OrphanGoes \/ PromRefuses
         \/ \E new \in SeriesSets : SeriesChange(new)
         \/ ListerLeftAlone
<1>1. CASE Generating \/ \E list \in MetricLists : Generate(list)
  BY <1>1 DEF Generating, SkipMetric, AskMetric, TakeAnswer, Decide, Generate, metricsVars, ListerLeftAlone
<1>2. CASE Querying
  BY <1>2
     DEF Querying, AskMetricsApi, BuildFails, BuildLatest, BuildRange, AskLatest, Shard, Merge,
         ShardAnswered, ShardRefused, ShardArrives, ListerLeftAlone
<1>3. CASE LatestFails \/ \E i \in asking : ShardFails(i)
  BY <1>3 DEF LatestFails, ShardFails, ShardArrives, ListerLeftAlone
<1>4. CASE \E r \in Requests : Request(r)
  BY <1>4 DEF Request, ListerLeftAlone
<1>5. CASE UNCHANGED vars
  BY <1>5 DEF vars, metricsVars, ListerLeftAlone
<1>6. QED
  BY <1>1, <1>2, <1>3, <1>4, <1>5 DEF Next, MetricsNext, Lister

LEMMA RegistriesName ==
  ASSUME NEW kind \in Kinds, NEW found \in [Selectors(kind) -> Somewhere],
         NEW r \in RegistriesOf(kind, found), NEW m \in DOMAIN r
  PROVE  r[m].series \in NamedSo(kind, m)
<1>1. r[m] \in Producers(kind, found, m)
  BY DEF RegistriesOf, LastOf
<1>2. PICK i \in DOMAIN Namers[kind] :
        \E s \in found[Namers[kind][i].selector] \intersect Namers[kind][i].keeps :
          m \in Namers[kind][i].metrics[s] /\ r[m] = [namer |-> i, series |-> s]
  BY <1>1 DEF Producers
<1>3. PICK s \in found[Namers[kind][i].selector] \intersect Namers[kind][i].keeps :
        m \in Namers[kind][i].metrics[s] /\ r[m] = [namer |-> i, series |-> s]
  BY <1>2
<1>4. s \in AllSeries
  <2>1. Namers[kind][i].selector \in Selectors(kind)
    BY DEF Selectors
  <2>2. QED
    BY <1>3, <2>1 DEF Somewhere
<1>5. QED
  BY <1>3, <1>4 DEF NamedSo

-----------------------------------------------------------------------------
(***************************************************************************)
(* What is listed has its type, and what is registered is called so.       *)
(***************************************************************************)
LEMMA RegistryStays ==
  ASSUME RegistryInv, UNCHANGED registry
  PROVE  RegistryInv'
  BY DEF RegistryInv

LEMMA GoroutineKeepsTypes ==
  ASSUME TypedInv, GoroutineGoes \/ PromRefuses
  PROVE  TypedInv'
<1>1. /\ listing.kind \in Kinds
      /\ listing \in Listing(listing.kind, Caches(listing.kind)) /\ series \in Somewhere
  BY DEF TypedInv, ListerTyped, Listed, GoroutineGoes, PromRefuses
<1>2. listing' \in Listing(listing.kind, Caches(listing.kind))
  <2>1. CASE GoroutineGoes
    BY <1>1, <2>1, MovesStayListings DEF GoroutineGoes
  <2>2. CASE PromRefuses
    <3>1. PICK s \in DOMAIN listing.asked : listing' = [listing EXCEPT !.asked[s].state = "refused"]
      BY <2>2 DEF PromRefuses, AtState
    <3>2. [listing.asked EXCEPT ![s].state = "refused"] \in Goroutines(listing.kind)
      BY <1>1, <3>1 DEF Listing, Goroutines, GoroutineStates
    <3>3. QED
      BY <1>1, <3>1, <3>2 DEF Listing
  <2>3. QED
    BY <2>1, <2>2
<1>3. listing'.kind = listing.kind
  BY <1>2 DEF Listing
<1>4. Listed'
  BY <1>1, <1>2, <1>3 DEF Listed
<1>5. UNCHANGED <<registry, series, lister>>
  BY DEF GoroutineGoes, PromRefuses
<1>6. RegistryInv'
  BY <1>5, RegistryStays DEF TypedInv
<1>7. QED
  BY <1>4, <1>5, <1>6 DEF TypedInv, ListerTyped

LEMMA BeginKeepsTypes ==
  ASSUME ListerTyped, NEW kind \in Kinds, Begin(kind), UNCHANGED series
  PROVE  ListerTyped'
<1>1. listing' \in Listing(kind, Caches(kind)) /\ listing'.kind = kind
  BY NewListingIsListing DEF Begin, NewListing
<1>2. QED
  BY <1>1 DEF ListerTyped, Listed, Begin

LEMMA StopKeepsTypes ==
  ASSUME ListerTyped, Stop, UNCHANGED series
  PROVE  ListerTyped'
  BY DEF ListerTyped, Stop

LEMMA ReceiveErrKeepsTypes ==
  ASSUME TypedInv, ReceiveErr
  PROVE  TypedInv'
<1>1. UNCHANGED <<registry, series>>
  BY DEF ReceiveErr
<1>2. ListerTyped'
  <2>1. CASE Head(listing.errs)
    <3>1. Stop
      BY <2>1 DEF ReceiveErr
    <3>2. QED
      BY <1>1, <3>1, StopKeepsTypes DEF TypedInv
  <2>2. CASE ~ Head(listing.errs)
    <3>1. lister' = "found" /\ listing' = [listing EXCEPT !.errs = Tail(@)] /\ listing.errs # <<>>
      BY <2>2 DEF ReceiveErr
    <3>2. Listed
      BY DEF TypedInv, ListerTyped, ReceiveErr
    <3>3. Tail(listing.errs) \in Seq(BOOLEAN)
      BY <3>1, <3>2 DEF Listed, Listing
    <3>4. listing' \in Listing(listing.kind, Caches(listing.kind)) /\ listing'.kind = listing.kind
      BY <3>1, <3>2, <3>3 DEF Listed, Listing
    <3>5. QED
      BY <1>1, <3>1, <3>2, <3>4 DEF TypedInv, ListerTyped, Listed
  <2>3. QED
    BY <2>1, <2>2
<1>3. QED
  BY <1>1, <1>2, RegistryStays DEF TypedInv

LEMMA ReceiveFoundKeepsTypes ==
  ASSUME TypedInv, ReceiveFound
  PROVE  TypedInv'
<1> DEFINE f == Head(listing.found)
           rest == Tail(listing.found)
           cached == IF f = NoSeries THEN listing.cached
                     ELSE [listing.cached EXCEPT ![f.selector] = f.series]
           Found == [selector : Selectors(listing.kind) \union {Nil}, series : Somewhere]
<1>1. UNCHANGED <<registry, series>>
  BY DEF ReceiveFound
<1>2. Listed /\ listing.found # <<>> /\ lister' = "errs"
  BY DEF TypedInv, ListerTyped, ReceiveFound
<1>3. listing.found \in Seq(Found)
  BY <1>2 DEF Listed, Listing
<1>4. f \in Found /\ rest \in Seq(Found)
  <2> HIDE DEF Found
  <2> QED
    BY <1>2, <1>3, HeadTailProperties
<1>5. listing.cached \in Caches(listing.kind)
  BY <1>2 DEF Listed, Listing
<1>6. cached \in Caches(listing.kind)
  <2>1. CASE f = NoSeries
    BY <1>5, <2>1
  <2>2. CASE f # NoSeries
    <3>1. f.series \in Somewhere
      BY <1>4
    <3>2. QED
      BY <1>5, <2>2, <3>1 DEF Caches
  <2>3. QED
    BY <2>1, <2>2
<1>7. listing' = [listing EXCEPT !.found = rest, !.received = @ + 1, !.cached = cached]
  <2>1. listing' = [listing EXCEPT
          !.found = Tail(@),
          !.received = @ + 1,
          !.cached = IF f = NoSeries THEN @ ELSE [@ EXCEPT ![f.selector] = f.series]]
    BY DEF ReceiveFound
  <2>2. QED
    BY <1>2, <2>1 DEF Listed, Listing
<1>8. listing' \in Listing(listing.kind, Caches(listing.kind)) /\ listing'.kind = listing.kind
  <2> HIDE DEF cached, f, rest
  <2>1. Found = [selector : Selectors(listing.kind) \union {Nil}, series : Somewhere]
    OBVIOUS
  <2> HIDE DEF Found
  <2>2. listing' = [kind |-> listing.kind, asked |-> listing.asked, errs |-> listing.errs,
                    found |-> rest, received |-> listing.received + 1, cached |-> cached]
    BY <1>2, <1>7 DEF Listed, Listing
  <2>3. /\ listing.asked \in Goroutines(listing.kind) /\ listing.errs \in Seq(BOOLEAN)
        /\ listing.received \in Nat
    BY <1>2 DEF Listed, Listing
  <2>4. QED
    BY <1>4, <1>6, <2>1, <2>2, <2>3 DEF Listing
<1>9. ListerTyped'
  BY <1>1, <1>2, <1>8 DEF TypedInv, ListerTyped, Listed
<1>10. QED
  BY <1>1, <1>9, RegistryStays DEF TypedInv

LEMMA SetSeriesKeepsTypes ==
  ASSUME TypedInv, SetSeries
  PROVE  TypedInv'
<1>1. UNCHANGED series /\ Listed /\ lister = "errs"
  BY DEF SetSeries, TypedInv, ListerTyped
<1>2. CASE \E s \in DOMAIN listing.cached : listing.cached[s] = Nil
  <2>1. Stop /\ UNCHANGED registry
    BY <1>2 DEF SetSeries
  <2>2. QED
    BY <1>1, <2>1, StopKeepsTypes, RegistryStays DEF TypedInv
<1>3. CASE ~ \E s \in DOMAIN listing.cached : listing.cached[s] = Nil
  <2>1. PICK r \in RegistriesOf(listing.kind, listing.cached) :
          registry' = [registry EXCEPT ![listing.kind] = r]
    BY <1>3 DEF SetSeries, Replaced
  <2>2. listing.cached \in [Selectors(listing.kind) -> Somewhere]
    BY <1>1, <1>3 DEF Listed, Listing, Caches
  <2>3. \A m \in DOMAIN r : r[m].series \in NamedSo(listing.kind, m)
    BY <1>1, <2>2, RegistriesName DEF Listed
  <2>4. RegistryInv'
    <3>1. DOMAIN registry' = Kinds
      BY <2>1 DEF TypedInv, RegistryInv
    <3>2. \A kind \in Kinds :
            registry'[kind] = IF kind = listing.kind THEN r ELSE registry[kind]
      BY <2>1 DEF TypedInv, RegistryInv
    <3>3. ASSUME NEW kind \in Kinds, NEW m \in DOMAIN registry'[kind]
          PROVE  registry'[kind][m].series \in NamedSo(kind, m)
      BY <2>3, <3>2, <3>3 DEF TypedInv, RegistryInv
    <3>4. QED
      BY <3>1, <3>3 DEF RegistryInv
  <2>5. ListerTyped'
    <3>1. CASE listing.kind = "object"
      <4>1. Begin("external") /\ "external" \in Kinds
        BY <1>3, <3>1 DEF SetSeries, Kinds, Namers
      <4>2. QED
        BY <1>1, <4>1, BeginKeepsTypes DEF TypedInv
    <3>2. CASE listing.kind # "object"
      <4>1. Stop
        BY <1>3, <3>2 DEF SetSeries
      <4>2. QED
        BY <1>1, <4>1, StopKeepsTypes DEF TypedInv
    <3>3. QED
      BY <3>1, <3>2
  <2>6. QED
    BY <2>4, <2>5 DEF TypedInv
<1>4. QED
  BY <1>2, <1>3

LEMMA NextKeepsTypes ==
  ASSUME TypedInv, [Next]_vars
  PROVE  TypedInv'
<1>1. CASE Relist
  <2>1. Begin("object") /\ "object" \in Kinds /\ UNCHANGED <<series, registry>>
    BY <1>1 DEF Relist, Kinds, Namers
  <2>2. QED
    BY <2>1, BeginKeepsTypes, RegistryStays DEF TypedInv
<1>2. CASE \E new \in SeriesSets : SeriesChange(new)
  <2>1. PICK new \in SeriesSets : SeriesChange(new)
    BY <1>2
  <2>2. UNCHANGED <<registry, lister, listing>> /\ series' \in Somewhere
    BY <2>1 DEF SeriesChange, Somewhere, AllSeries
  <2>3. QED
    BY <2>2, RegistryStays DEF TypedInv, ListerTyped, Listed
<1>3. CASE OrphanGoes \/ ListerLeftAlone
  <2>1. UNCHANGED <<series, registry, lister, listing>>
    BY <1>3 DEF OrphanGoes, ListerLeftAlone, listerVars
  <2>2. QED
    BY <2>1, RegistryStays DEF TypedInv, ListerTyped, Listed
<1>4. QED
  BY <1>1, <1>2, <1>3, StepsOfLister, GoroutineKeepsTypes, ReceiveErrKeepsTypes,
     ReceiveFoundKeepsTypes, SetSeriesKeepsTypes

LEMMA TypedAlways == Spec => []TypedInv
<1>1. Init => TypedInv
  BY DEF Init, MetricsInit, TypedInv, ListerTyped, RegistryInv, Somewhere, AllSeries
<1>2. TypedInv /\ [Next]_vars => TypedInv'
  BY NextKeepsTypes
<1>3. QED
  BY <1>1, <1>2, PTL DEF Spec

-----------------------------------------------------------------------------
(***************************************************************************)
(* An answer is about what is asked.  A query that is understood has one   *)
(* of the types; the query that Prometheus is asked in its place only      *)
(* brings what it asks for; and every shard that has arrived has left an   *)
(* answer, that is about the same, or none.                                *)
(***************************************************************************)
Understood(q) ==
  /\ q.type \in OfPods \union OfWorkload \union OfMetric
  /\ q.type = "PodResource" => q.container = ""

PodsOf(pq) == {p \in pq.pods \intersect DOMAIN Usage : HasContainer(p, pq.resource, pq.container)}

Fits(pq, q) == IF pq.series # Nil THEN pq.series \in Asked(q) ELSE PodsOf(pq) \subseteq Asked(q)

AnswersOf(q) == (SUBSET Asked(q)) \union {Nil}

GatherInv ==
  /\ asking \subseteq DOMAIN shards
  /\ arrived \in Seq([index : DOMAIN shards, streams : AnswersOf(query)])
  /\ \A i \in DOMAIN shards \ asking : \E n \in DOMAIN arrived : arrived[n].index = i

AnswerInv ==
  /\ qpc # "idle" => Understood(query)
  /\ qpc \in {"ask", "shard", "gather"} => Fits(promQuery, query)
  /\ qpc = "gather" => GatherInv
  /\ AnswersTheQuery

LEMMA ConvertedIsUnderstood ==
  ASSUME NEW r \in Requests, Converted(r) # Nil
  PROVE  Understood(Converted(r))
<1>1. Converted(r) = [r EXCEPT !.selector = IF ReadsSelector(r) THEN @ ELSE Nil]
  BY DEF Converted
<1>2. Converted(r).type = r.type /\ Converted(r).container = r.container
  BY <1>1, RequestsAssumption
<1>3. r.type \in OfPods \union OfWorkload \union OfMetric
  BY DEF Converted
<1>4. QED
  BY <1>2, <1>3, RequestsAssumption DEF Understood

LEMMA QueryOfIsUnderstood ==
  ASSUME NEW m, QueryOf(m) # Nil
  PROVE  Understood(QueryOf(m))
<1>1. CASE m.source \in {"Resource", "ContainerResource"}
  BY <1>1 DEF QueryOf, NoQuery, Understood, OfPods, OfWorkload, OfMetric
<1>2. CASE m.source \in {"Pods", "Object", "External"}
  BY <1>2 DEF QueryOf, NoQuery, Understood, OfPods, OfWorkload, OfMetric
<1>3. CASE m.source \notin {"Resource", "ContainerResource", "Pods", "Object", "External"}
  BY <1>3 DEF QueryOf
<1>4. QED
  BY <1>1, <1>2, <1>3

LEMMA SeriesQueryFits ==
  ASSUME RegistryInv, NEW q, NEW kind \in Kinds, SeriesQuery(kind, q.metric) # Nil,
         q.type \in OfMetric, kind = IF q.type = "Object" THEN "object" ELSE "external"
  PROVE  Fits(SeriesQuery(kind, q.metric), q)
<1>1. SUFFICES ASSUME NEW pq, pq = SeriesQuery(kind, q.metric)
               PROVE  Fits(pq, q)
  OBVIOUS
<1>2. /\ q.metric \in DOMAIN registry[kind]
      /\ pq = [series |-> registry[kind][q.metric].series, pods |-> {}, resource |-> Nil, container |-> ""]
  BY <1>1 DEF SeriesQuery
<1>3. pq.series = registry[kind][q.metric].series /\ pq.pods = {}
  BY <1>2
<1>4. registry[kind][q.metric].series \in NamedSo(kind, q.metric)
  BY <1>2 DEF RegistryInv
<1>5. q.type \notin OfPods /\ q.type \notin OfWorkload
  BY DEF OfPods, OfWorkload, OfMetric
<1>6. Asked(q) = NamedSo(kind, q.metric)
  BY <1>5 DEF Asked, NamedSo
<1>7. PodsOf(pq) = {}
  BY <1>3 DEF PodsOf
<1>8. QED
  BY <1>3, <1>4, <1>6, <1>7 DEF Fits

LEMMA BuiltFits ==
  ASSUME RegistryInv, NEW q, Understood(q), BuiltQuery(q) # Nil
  PROVE  Fits(BuiltQuery(q), q)
<1>1. CASE q.type \in OfPods
  <2>1. BuiltQuery(q) = AboutPods(PodNames(q), q)
    BY <1>1 DEF BuiltQuery, PodQuery, OfPods, OfWorkload
  <2>2. Asked(q) = PodsOf(AboutPods(PodNames(q), q))
    BY <1>1 DEF Asked, PodsOf, AboutPods
  <2>3. AboutPods(PodNames(q), q).series = Nil
    BY DEF AboutPods
  <2>4. QED
    BY <2>1, <2>2, <2>3 DEF Fits
<1>2. CASE q.type \in OfWorkload
  <2>1. q.type \notin OfPods
    BY <1>2 DEF OfPods, OfWorkload
  <2>2. BuiltQuery(q) = WorkloadQuery(q)
    BY <1>2, <2>1 DEF BuiltQuery, OfPods, OfWorkload
  <2>3. PICK pods : /\ BuiltQuery(q) = AboutPods(pods, q)
                    /\ pods = IF q.ready THEN OwnedBy[q.name] \intersect Ready ELSE OwnedBy[q.name]
    BY <2>2 DEF WorkloadQuery
  <2>4. PodsOf(AboutPods(pods, q)) \subseteq Asked(q)
    BY <1>2, <2>1, <2>3 DEF Asked, PodsOf, AboutPods
  <2>5. AboutPods(pods, q).series = Nil
    BY DEF AboutPods
  <2>6. QED
    BY <2>3, <2>4, <2>5 DEF Fits
<1>3. CASE q.type = "Object"
  <2>1. BuiltQuery(q) = SeriesQuery("object", q.metric)
    BY <1>3 DEF BuiltQuery, ObjectQuery, OfPods, OfWorkload
  <2>2. "object" \in Kinds /\ q.type \in OfMetric
    BY <1>3 DEF Kinds, Namers, OfMetric
  <2>3. QED
    BY <1>3, <2>1, <2>2, SeriesQueryFits
<1>4. CASE q.type \in {"External", "WorkloadExternal"}
  <2>1. BuiltQuery(q) = SeriesQuery("external", q.metric)
    BY <1>4 DEF BuiltQuery, OfPods, OfWorkload
  <2>2. "external" \in Kinds /\ q.type \in OfMetric
    BY <1>4 DEF Kinds, Namers, OfMetric
  <2>3. QED
    BY <1>4, <2>1, <2>2, SeriesQueryFits
<1>5. QED
  BY <1>1, <1>2, <1>3, <1>4 DEF Understood, OfMetric

LEMMA StreamsAreAsked ==
  ASSUME NEW pq, NEW q, Fits(pq, q)
  PROVE  Streams(pq) \subseteq Asked(q)
  BY DEF Streams, Fits, PodsOf

LEMMA SamplesAreAsked ==
  ASSUME NEW q, Understood(q), MetricsApiSamples(q) # Nil
  PROVE  MetricsApiSamples(q) \subseteq Asked(q)
<1> DEFINE pods == PodNames(q) \intersect DOMAIN Usage
<1>1. q.type \in OfPods
  BY DEF MetricsApiSamples
<1>2. Asked(q) = {p \in pods : HasContainer(p, q.resource, q.container)}
  BY <1>1 DEF Asked
<1>3. CASE q.type = "PodResource"
  <2>1. MetricsApiSamples(q)
          = {p \in pods : DOMAIN Usage[p] # {} /\ \A c \in DOMAIN Usage[p] : q.resource \in Usage[p][c]}
    BY <1>1, <1>3 DEF MetricsApiSamples
  <2>2. QED
    BY <1>2, <1>3, <2>1 DEF Understood, HasContainer
<1>4. CASE q.type # "PodResource"
  <2>1. /\ \A p \in pods : q.container \in DOMAIN Usage[p]
        /\ MetricsApiSamples(q) = {p \in pods : q.resource \in Usage[p][q.container]}
    BY <1>1, <1>4 DEF MetricsApiSamples
  <2>2. QED
    BY <1>2, <2>1 DEF HasContainer
<1>5. QED
  BY <1>3, <1>4

\* What leaves the query alone, and its answer.
LEMMA AsideKeepsAnswer ==
  ASSUME AnswerInv, UNCHANGED <<qpc, query, promQuery, asking, arrived, reply, shards>>
  PROVE  AnswerInv'
  BY DEF AnswerInv, GatherInv, AnswersTheQuery, Answers

LEMMA ReplyKeepsAnswer ==
  ASSUME AnswerInv, NEW result, Reply(result), result = Nil \/ DOMAIN result \subseteq Asked(query)
  PROVE  AnswerInv'
  BY DEF AnswerInv, Reply, AnswersTheQuery, Answers

LEMMA AskKeepsAnswer ==
  ASSUME AnswerInv, NEW q, Ask(q), Understood(q)
  PROVE  AnswerInv'
  BY DEF AnswerInv, Ask, AnswersTheQuery, Answers

LEMMA RequestKeepsAnswer ==
  ASSUME AnswerInv, NEW r \in Requests, Request(r)
  PROVE  AnswerInv'
<1>1. CASE Converted(r) = Nil
  <2>1. qpc' = "idle" /\ reply' = Nil
    BY <1>1 DEF Request
  <2>2. QED
    BY <2>1 DEF AnswerInv, AnswersTheQuery, Answers
<1>2. CASE Converted(r) # Nil
  BY <1>2, ConvertedIsUnderstood, AskKeepsAnswer DEF Request
<1>3. QED
  BY <1>1, <1>2

LEMMA BuildKeepsAnswer ==
  ASSUME AnswerInv, RegistryInv, BuildLatest \/ BuildRange
  PROVE  AnswerInv'
<1>1. Understood(query) /\ BuiltQuery(query) # Nil
  BY DEF BuildLatest, BuildRange, AnswerInv
<1>2. Fits(BuiltQuery(query), query)
  BY <1>1, BuiltFits
<1>3. promQuery' = BuiltQuery(query) /\ query' = query /\ qpc' \in {"ask", "shard"}
  BY DEF BuildLatest, BuildRange
<1>4. Fits(promQuery', query')
  BY <1>2, <1>3
<1>5. QED
  BY <1>1, <1>3, <1>4 DEF AnswerInv, AnswersTheQuery, Answers

LEMMA ShardKeepsAnswer ==
  ASSUME AnswerInv, Shard
  PROVE  AnswerInv'
<1>1. Understood(query) /\ Fits(promQuery, query) /\ UNCHANGED <<query, promQuery>>
  BY DEF Shard, AnswerInv
<1>2. qpc' \in {"shard", "gather"}
  BY DEF Shard
<1>3. ASSUME qpc' = "gather" PROVE GatherInv'
  <2>1. asking' = DOMAIN shards' /\ arrived' = <<>>
    BY <1>3 DEF Shard
  <2>2. QED
    BY <2>1 DEF GatherInv
<1>4. QED
  BY <1>1, <1>2, <1>3 DEF AnswerInv, AnswersTheQuery, Answers

LEMMA ArrivalKeepsAnswer ==
  ASSUME AnswerInv, NEW i \in asking, NEW streams \in AnswersOf(query), ShardArrives(i, streams)
  PROVE  AnswerInv'
<1> DEFINE Arrival == [index : DOMAIN shards, streams : AnswersOf(query)]
           new == [index |-> i, streams |-> streams]
<1>1. /\ GatherInv /\ Understood(query) /\ Fits(promQuery, query)
      /\ UNCHANGED <<qpc, query, promQuery, shards>> /\ qpc = "gather"
      /\ asking' = asking \ {i} /\ arrived' = Append(arrived, new)
  BY DEF ShardArrives, AnswerInv, shardVars
<1>2. new \in Arrival /\ arrived \in Seq(Arrival)
  BY <1>1 DEF GatherInv
<1>3. /\ arrived' \in Seq(Arrival)
      /\ DOMAIN arrived' = 1 .. Len(arrived) + 1 /\ Len(arrived) \in Nat
      /\ arrived'[Len(arrived) + 1] = new
      /\ \A n \in DOMAIN arrived : n \in DOMAIN arrived' /\ arrived'[n] = arrived[n]
  <2> HIDE DEF Arrival, new
  <2> QED
    BY <1>1, <1>2
<1>4. ASSUME NEW j \in DOMAIN shards \ asking' PROVE \E n \in DOMAIN arrived' : arrived'[n].index = j
  <2>1. CASE j = i
    <3>1. Len(arrived) + 1 \in DOMAIN arrived' /\ arrived'[Len(arrived) + 1].index = i
      BY <1>3
    <3>2. QED
      BY <2>1, <3>1
  <2>2. CASE j # i
    <3>1. PICK n \in DOMAIN arrived : arrived[n].index = j
      BY <1>1, <2>2 DEF GatherInv
    <3>2. QED
      BY <1>3, <3>1
  <2>3. QED
    BY <2>1, <2>2
<1>5. GatherInv'
  <2>1. asking' \subseteq DOMAIN shards
    BY <1>1 DEF GatherInv
  <2>2. QED
    BY <1>1, <1>3, <1>4, <2>1 DEF GatherInv
<1>6. QED
  BY <1>1, <1>5 DEF AnswerInv, AnswersTheQuery, Answers

LEMMA MergeKeepsAnswer ==
  ASSUME AnswerInv, Merge
  PROVE  AnswerInv'
<1> DEFINE Arrival == [index : DOMAIN shards, streams : AnswersOf(query)]
<1>0. GatherInv /\ asking = {}
  BY DEF Merge, AnswerInv
<1>1. \A k \in DOMAIN arrived : arrived[k] \in Arrival
  <2>1. arrived \in Seq(Arrival)
    BY <1>0 DEF GatherInv
  <2> HIDE DEF Arrival
  <2>2. QED
    BY <2>1
<1>2. ASSUME NoneFailed PROVE DOMAIN Merged \subseteq Asked(query)
  <2>1. ASSUME NEW i \in DOMAIN shards PROVE InOrder[i].streams \subseteq Asked(query)
    <3> DEFINE n == CHOOSE n \in DOMAIN arrived : arrived[n].index = i
    <3>1. n \in DOMAIN arrived
      BY <1>0 DEF GatherInv
    <3>2. arrived[n].streams \in AnswersOf(query) /\ arrived[n].streams # Nil
      <4> HIDE DEF n
      <4>1. arrived[n] \in Arrival
        BY <1>1, <3>1
      <4>2. QED
        BY <1>2, <3>1, <4>1 DEF NoneFailed
    <3>3. InOrder[i] = arrived[n]
      BY DEF InOrder
    <3> HIDE DEF n
    <3>4. QED
      BY <3>2, <3>3 DEF AnswersOf
  <2>2. DOMAIN InOrder = DOMAIN shards
    BY DEF InOrder
  <2>3. DOMAIN Merged = UNION {InOrder[k].streams : k \in DOMAIN InOrder}
    BY DEF Merged
  <2>4. QED
    BY <2>1, <2>2, <2>3
<1>3. QED
  BY <1>2, ReplyKeepsAnswer DEF Merge

LEMMA QueryingKeepsAnswer ==
  ASSUME AnswerInv, RegistryInv, Querying \/ LatestFails \/ \E i \in asking : ShardFails(i)
  PROVE  AnswerInv'
<1>1. CASE AskMetricsApi
  <2>1. Understood(query)
    BY <1>1 DEF AskMetricsApi, AnswerInv
  <2>2. PICK samples : /\ samples = IF query.range = Nil THEN MetricsApiSamples(query) ELSE Nil
                       /\ Reply(IF samples = Nil THEN Nil ELSE Latest(samples))
    BY <1>1 DEF AskMetricsApi
  <2>3. samples # Nil => DOMAIN Latest(samples) \subseteq Asked(query)
    BY <2>1, <2>2, SamplesAreAsked DEF Latest
  <2>4. QED
    BY <2>2, <2>3, ReplyKeepsAnswer
<1>2. CASE BuildFails \/ LatestFails
  BY <1>2, ReplyKeepsAnswer DEF BuildFails, LatestFails
<1>3. CASE BuildLatest \/ BuildRange
  BY <1>3, BuildKeepsAnswer
<1>4. CASE AskLatest
  <2>1. Fits(promQuery, query)
    BY <1>4 DEF AskLatest, AnswerInv
  <2>2. DOMAIN Latest(Streams(promQuery)) \subseteq Asked(query)
    BY <2>1, StreamsAreAsked DEF Latest
  <2>3. QED
    BY <1>4, <2>2, ReplyKeepsAnswer DEF AskLatest
<1>5. CASE Shard
  BY <1>5, ShardKeepsAnswer
<1>6. CASE Merge
  BY <1>6, MergeKeepsAnswer
<1>7. CASE \E i \in asking : ShardAnswered(i) \/ ShardRefused(i) \/ ShardFails(i)
  <2>1. PICK i \in asking : ShardArrives(i, Streams(promQuery)) \/ ShardArrives(i, Nil)
    BY <1>7 DEF ShardAnswered, ShardRefused, ShardFails
  <2>2. Fits(promQuery, query)
    BY <2>1 DEF ShardArrives, AnswerInv
  <2>3. Streams(promQuery) \in AnswersOf(query) /\ Nil \in AnswersOf(query)
    BY <2>2, StreamsAreAsked DEF AnswersOf
  <2>4. QED
    BY <2>1, <2>3, ArrivalKeepsAnswer
<1>8. QED
  BY <1>1, <1>2, <1>3, <1>4, <1>5, <1>6, <1>7 DEF Querying

LEMMA NextKeepsAnswer ==
  ASSUME AnswerInv, RegistryInv, [Next]_vars
  PROVE  AnswerInv'
<1>1. CASE \/ Lister \/ GoroutineGoes \/ OrphanGoes \/ PromRefuses
           \/ \E new \in SeriesSets : SeriesChange(new)
  BY <1>1, AsideKeepsAnswer
     DEF Lister, Relist, ReceiveErr, ReceiveFound, SetSeries, GoroutineGoes, OrphanGoes, PromRefuses,
         SeriesChange, queryVars, shardVars
<1>2. CASE Querying \/ LatestFails \/ \E i \in asking : ShardFails(i)
  BY <1>2, QueryingKeepsAnswer
<1>3. CASE \E r \in Requests : Request(r)
  BY <1>3, RequestKeepsAnswer
<1>4. CASE AskMetric
  BY <1>4, QueryOfIsUnderstood, AskKeepsAnswer DEF AskMetric
<1>5. CASE SkipMetric \/ TakeAnswer \/ Decide \/ \E list \in MetricLists : Generate(list)
  BY <1>5, AsideKeepsAnswer DEF SkipMetric, TakeAnswer, Decide, Generate, metricsVars, queryVars, shardVars
<1>6. CASE UNCHANGED vars
  BY <1>6, AsideKeepsAnswer DEF vars, metricsVars, queryVars, shardVars
<1>7. QED
  BY <1>1, <1>2, <1>3, <1>4, <1>5, <1>6 DEF Next, MetricsNext, Generating

\* The invariant of the answers holds.
LEMMA AnswersAlways == Spec => []AnswerInv
<1>1. Init => AnswerInv
  BY DEF Init, MetricsInit, AnswerInv, AnswersTheQuery, Answers
<1>2. TypedInv /\ AnswerInv /\ [Next]_vars => AnswerInv'
  BY NextKeepsAnswer DEF TypedInv
<1>3. QED
  BY <1>1, <1>2, TypedAlways, PTL DEF Spec

(***************************************************************************)
(* An answer is only about what the query asks for, whichever provider     *)
(* gives it and whatever the registries have meanwhile changed to (Query   *)
(* of both providers, buildQueryFor... and the metric service).            *)
(***************************************************************************)
THEOREM AnswersWhatIsAsked == Spec => []AnswersTheQuery
<1>1. AnswerInv => AnswersTheQuery
  BY DEF AnswerInv
<1>2. QED
  BY <1>1, AnswersAlways, PTL

-----------------------------------------------------------------------------
(***************************************************************************)
(* What a listing has found of a selector is at least what was there all   *)
(* the time of the listing, and at most what was there at some time of it: *)
(* when a goroutine has its answer, when it is in the channel, and when it *)
(* is in the cache.                                                        *)
(***************************************************************************)
Between(s, some) ==
  /\ Matches[s] \intersect lasting \subseteq some
  /\ some \subseteq Matches[s] \intersect seen

FreshAsked(l) ==
  \A s \in Selectors(l.kind) : l.asked[s].state \in {"answered", "found"} => Between(s, l.asked[s].series)

FreshFound(l) ==
  \A n \in DOMAIN l.found : l.found[n] # NoSeries =>
    l.found[n].selector \in Selectors(l.kind) /\ Between(l.found[n].selector, l.found[n].series)

FreshCached(l) == \A s \in Selectors(l.kind) : l.cached[s] # Nil => Between(s, l.cached[s])

Fresh ==
  /\ lasting \subseteq series /\ series \subseteq seen
  /\ FreshAsked(listing) /\ FreshFound(listing) /\ FreshCached(listing)

FreshInv == lister # "idle" => Fresh

LEMMA BeginIsFresh ==
  ASSUME NEW kind \in Kinds, Begin(kind), UNCHANGED series
  PROVE  Fresh'
<1>1. /\ listing'.kind = kind
      /\ listing'.asked = [s \in Selectors(kind) |-> [state |-> "asked", series |-> {}]]
      /\ listing'.found = FoundAtOnce(kind)
      /\ listing'.cached = [s \in Selectors(kind) |-> Nil]
  BY DEF Begin, NewListing
<1>2. FreshAsked(listing)'
  BY <1>1 DEF FreshAsked
<1>3. FreshFound(listing)'
  BY <1>1 DEF FreshFound, FoundAtOnce
<1>4. FreshCached(listing)'
  BY <1>1 DEF FreshCached
<1>5. QED
  BY <1>2, <1>3, <1>4 DEF Fresh, Begin

LEMMA GoroutineStaysFresh ==
  ASSUME Fresh, Listed, GoroutineGoes
  PROVE  Fresh'
<1>1. PICK s \in Selectors(listing.kind) : Moved(listing, listing', s)
  BY MoveIsOfOne DEF GoroutineGoes, Listed
<1>2. /\ UNCHANGED <<series, seen, lasting>> /\ listing'.kind = listing.kind
      /\ listing'.cached = listing.cached
  BY <1>1 DEF GoroutineGoes, Moved, OnlyMoves
<1>3. \A t, some : Between(t, some)' <=> Between(t, some)
  BY <1>2 DEF Between
<1>4. listing.asked \in Goroutines(listing.kind)
  BY DEF Listed, Listing
<1>5. FreshAsked(listing)'
  <2>1. CASE GetsAnswer(listing, listing', s)
    <3>1. listing'.asked = [listing.asked EXCEPT ![s] =
                              [state |-> "answered", series |-> Matches[s] \intersect series]]
      BY <2>1 DEF GetsAnswer
    <3>2. Between(s, Matches[s] \intersect series)
      BY DEF Between, Fresh
    <3>3. QED
      BY <1>2, <1>3, <1>4, <3>1, <3>2 DEF FreshAsked, Fresh, Goroutines
  <2>2. CASE SendsNoError(listing, listing', s)
    <3>1. /\ listing'.asked = [listing.asked EXCEPT ![s].state = "found"]
          /\ listing.asked[s].state = "answered"
      BY <2>2 DEF SendsNoError
    <3>2. QED
      BY <1>2, <1>3, <1>4, <3>1 DEF FreshAsked, Fresh, Goroutines
  <2>3. CASE SendsError(listing, listing', s) \/ SendsSeries(listing, listing', s)
    <3>1. listing'.asked = [listing.asked EXCEPT ![s].state = "done"]
      BY <2>3 DEF SendsError, SendsSeries
    <3>2. QED
      BY <1>2, <1>3, <1>4, <3>1 DEF FreshAsked, Fresh, Goroutines
  <2>4. QED
    BY <1>1, <2>1, <2>2, <2>3 DEF Moved
<1>6. FreshFound(listing)'
  <2>1. CASE listing'.found = listing.found
    BY <1>2, <1>3, <2>1 DEF FreshFound, Fresh
  <2>2. CASE SendsSeries(listing, listing', s)
    <3> DEFINE new == [selector |-> s, series |-> listing.asked[s].series]
    <3>1. listing'.found = Append(listing.found, new) /\ Between(s, listing.asked[s].series)
      BY <2>2 DEF SendsSeries, FreshAsked, Fresh
    <3>2. Len(listing.found) \in Nat /\ DOMAIN listing.found = 1 .. Len(listing.found)
      BY DEF Listed, Listing
    <3>3. \A n \in DOMAIN listing'.found :
            \/ n \in DOMAIN listing.found /\ listing'.found[n] = listing.found[n]
            \/ listing'.found[n] = new
      <4> HIDE DEF new
      <4>1. listing.found \in Seq([selector : Selectors(listing.kind) \union {Nil}, series : Somewhere])
        BY DEF Listed, Listing
      <4>2. QED
        BY <3>1, <3>2, <4>1
    <3>4. new.selector = s /\ new.series = listing.asked[s].series
      OBVIOUS
    <3> HIDE DEF new
    <3>5. QED
      BY <1>2, <1>3, <3>1, <3>3, <3>4 DEF FreshFound, Fresh
  <2>3. QED
    BY <1>1, <2>1, <2>2 DEF Moved, GetsAnswer, SendsError, SendsNoError
<1>7. FreshCached(listing)'
  BY <1>2, <1>3 DEF FreshCached, Fresh
<1>8. QED
  BY <1>2, <1>5, <1>6, <1>7 DEF Fresh

LEMMA RefusalStaysFresh ==
  ASSUME Fresh, Listed, PromRefuses
  PROVE  Fresh'
<1>1. PICK s \in DOMAIN listing.asked : listing' = [listing EXCEPT !.asked[s].state = "refused"]
  BY DEF PromRefuses, AtState
<1>2. /\ listing'.asked = [listing.asked EXCEPT ![s].state = "refused"]
      /\ listing'.kind = listing.kind /\ listing'.found = listing.found
      /\ listing'.cached = listing.cached /\ UNCHANGED <<series, seen, lasting>>
  BY <1>1 DEF Listed, Listing, PromRefuses
<1>3. listing.asked \in Goroutines(listing.kind)
  BY DEF Listed, Listing
<1>4. FreshAsked(listing)'
  BY <1>2, <1>3 DEF FreshAsked, Fresh, Between, Goroutines
<1>5. FreshFound(listing)'
  BY <1>2 DEF FreshFound, Fresh, Between
<1>6. FreshCached(listing)'
  BY <1>2 DEF FreshCached, Fresh, Between
<1>7. QED
  BY <1>2, <1>4, <1>5, <1>6 DEF Fresh

LEMMA ReceiveFoundStaysFresh ==
  ASSUME Fresh, Listed, ReceiveFound
  PROVE  Fresh'
<1> DEFINE f == Head(listing.found)
           Found == [selector : Selectors(listing.kind) \union {Nil}, series : Somewhere]
<1>1. listing.found # <<>> /\ UNCHANGED <<series, seen, lasting>>
  BY DEF ReceiveFound
<1>2. /\ listing'.kind = listing.kind /\ listing'.asked = listing.asked
      /\ listing'.found = Tail(listing.found)
      /\ listing'.cached = IF f = NoSeries THEN listing.cached
                           ELSE [listing.cached EXCEPT ![f.selector] = f.series]
  BY DEF ReceiveFound, Listed, Listing
<1>3. listing.found \in Seq(Found) /\ listing.cached \in Caches(listing.kind)
  BY DEF Listed, Listing
<1>4. /\ f = listing.found[1] /\ 1 \in DOMAIN listing.found
      /\ \A n \in DOMAIN listing'.found :
           n + 1 \in DOMAIN listing.found /\ listing'.found[n] = listing.found[n + 1]
  <2> HIDE DEF Found
  <2> QED
    BY <1>1, <1>2, <1>3
<1>5. f # NoSeries => f.selector \in Selectors(listing.kind) /\ Between(f.selector, f.series)
  BY <1>4 DEF Fresh, FreshFound
<1>6. FreshAsked(listing)'
  BY <1>1, <1>2 DEF FreshAsked, Fresh, Between
<1>7. FreshFound(listing)'
  <2> HIDE DEF f
  <2> QED
    BY <1>1, <1>2, <1>4 DEF FreshFound, Fresh, Between
<1>8. FreshCached(listing)'
  <2> HIDE DEF f
  <2>1. \A s \in Selectors(listing.kind) :
          listing'.cached[s] = listing.cached[s] \/ (f # NoSeries /\ s = f.selector /\ listing'.cached[s] = f.series)
    BY <1>2, <1>3 DEF Caches
  <2>2. QED
    BY <1>1, <1>2, <1>5, <2>1 DEF FreshCached, Fresh, Between
<1>9. QED
  BY <1>1, <1>6, <1>7, <1>8 DEF Fresh

LEMMA ReceiveErrStaysFresh ==
  ASSUME FreshInv, Listed, ReceiveErr
  PROVE  FreshInv'
<1>1. CASE Head(listing.errs)
  BY <1>1 DEF ReceiveErr, Stop, FreshInv
<1>2. CASE ~ Head(listing.errs)
  <2>1. /\ listing' = [listing EXCEPT !.errs = Tail(@)] /\ UNCHANGED <<series, seen, lasting>>
        /\ lister = "errs"
    BY <1>2 DEF ReceiveErr
  <2>2. /\ listing'.kind = listing.kind /\ listing'.asked = listing.asked
        /\ listing'.found = listing.found /\ listing'.cached = listing.cached
    BY <2>1 DEF Listed, Listing
  <2>3. QED
    BY <2>1, <2>2 DEF FreshInv, Fresh, FreshAsked, FreshFound, FreshCached, Between
<1>3. QED
  BY <1>1, <1>2

LEMMA SeriesChangeStaysFresh ==
  ASSUME Fresh, lister # "idle", NEW new \in SeriesSets, SeriesChange(new)
  PROVE  Fresh'
<1>1. series' = new /\ seen' = seen \union new /\ lasting' = lasting \intersect new /\ UNCHANGED listing
  BY DEF SeriesChange
<1>2. \A s, some : Between(s, some) => Between(s, some)'
  BY <1>1 DEF Between
<1>3. FreshAsked(listing)'
  BY <1>1, <1>2 DEF Fresh, FreshAsked
<1>4. FreshFound(listing)'
  BY <1>1, <1>2 DEF Fresh, FreshFound
<1>5. FreshCached(listing)'
  BY <1>1, <1>2 DEF Fresh, FreshCached
<1>6. QED
  BY <1>1, <1>3, <1>4, <1>5 DEF Fresh

LEMMA NextKeepsFresh ==
  ASSUME TypedInv, FreshInv, [Next]_vars
  PROVE  FreshInv'
<1>1. lister # "idle" => Fresh /\ Listed
  BY DEF TypedInv, ListerTyped, FreshInv
<1>2. CASE Relist
  BY <1>2, BeginIsFresh DEF Relist, Kinds, Namers, FreshInv
<1>3. CASE ReceiveErr
  BY <1>1, <1>3, ReceiveErrStaysFresh DEF ReceiveErr
<1>4. CASE ReceiveFound
  BY <1>1, <1>4, ReceiveFoundStaysFresh DEF ReceiveFound, FreshInv
<1>5. CASE SetSeries
  <2>1. Stop \/ (Begin("external") /\ UNCHANGED series)
    BY <1>5 DEF SetSeries
  <2>2. CASE Stop
    BY <2>2 DEF Stop, FreshInv
  <2>3. CASE Begin("external") /\ UNCHANGED series
    BY <2>3, BeginIsFresh DEF Kinds, Namers, FreshInv
  <2>4. QED
    BY <2>1, <2>2, <2>3
<1>6. CASE GoroutineGoes
  BY <1>1, <1>6, GoroutineStaysFresh DEF GoroutineGoes, FreshInv
<1>7. CASE PromRefuses
  BY <1>1, <1>7, RefusalStaysFresh DEF PromRefuses, FreshInv
<1>8. CASE \E new \in SeriesSets : SeriesChange(new)
  BY <1>1, <1>8, SeriesChangeStaysFresh DEF SeriesChange, FreshInv
<1>9. CASE OrphanGoes \/ ListerLeftAlone
  <2>1. UNCHANGED <<series, lister, listing, seen, lasting>>
    BY <1>9 DEF OrphanGoes, ListerLeftAlone, listerVars
  <2>2. QED
    BY <2>1 DEF FreshInv, Fresh, FreshAsked, FreshFound, FreshCached, Between
<1>10. QED
  BY <1>2, <1>3, <1>4, <1>5, <1>6, <1>7, <1>8, <1>9, StepsOfLister

\* The more there is of each selector, the more metrics there are.
LEMMA MoreSeriesMoreMetrics ==
  ASSUME NEW kind \in Kinds, NEW few, NEW many,
         \A s \in Selectors(kind) : few[s] \subseteq many[s]
  PROVE  Metrics(kind, few) \subseteq Metrics(kind, many)
<1>1. SUFFICES ASSUME NEW i \in DOMAIN Namers[kind],
                      NEW s \in few[Namers[kind][i].selector] \intersect Namers[kind][i].keeps,
                      NEW m \in Namers[kind][i].metrics[s]
               PROVE  m \in Metrics(kind, many)
  BY DEF Metrics
<1>2. Namers[kind][i].selector \in Selectors(kind)
  BY DEF Selectors
<1>3. s \in many[Namers[kind][i].selector] \intersect Namers[kind][i].keeps
  BY <1>2
<1>4. QED
  BY <1>3 DEF Metrics

LEMMA RegistryChangesAsListed ==
  ASSUME TypedInv, FreshInv, [Next]_vars, NEW kind \in Kinds, registry'[kind] # registry[kind]
  PROVE  /\ Metrics(kind, FoundIn(kind, lasting)) \subseteq DOMAIN registry'[kind]
         /\ DOMAIN registry'[kind] \subseteq Metrics(kind, FoundIn(kind, seen))
<1>1. SetSeries
  BY StepsOfLister
     DEF Relist, ReceiveErr, ReceiveFound, GoroutineGoes, OrphanGoes, PromRefuses, SeriesChange,
         ListerLeftAlone, listerVars
<1>2. /\ Fresh /\ Listed /\ ~ \E s \in DOMAIN listing.cached : listing.cached[s] = Nil
      /\ \E r \in RegistriesOf(listing.kind, listing.cached) :
           registry' = [registry EXCEPT ![listing.kind] = r]
  BY <1>1 DEF SetSeries, Stop, Replaced, TypedInv, ListerTyped, FreshInv
<1>3. kind = listing.kind /\ registry'[kind] \in RegistriesOf(kind, listing.cached)
  BY <1>2 DEF TypedInv, RegistryInv
<1>4. DOMAIN registry'[kind] = Metrics(kind, listing.cached)
  BY <1>3 DEF RegistriesOf
<1>5. \A s \in Selectors(kind) : Between(s, listing.cached[s])
  BY <1>2, <1>3 DEF Fresh, FreshCached, Listed, Listing, Caches
<1>6. Metrics(kind, FoundIn(kind, lasting)) \subseteq Metrics(kind, listing.cached)
  <2>1. \A s \in Selectors(kind) : FoundIn(kind, lasting)[s] \subseteq listing.cached[s]
    BY <1>5 DEF FoundIn, Between
  <2>2. QED
    BY <2>1, MoreSeriesMoreMetrics
<1>7. Metrics(kind, listing.cached) \subseteq Metrics(kind, FoundIn(kind, seen))
  <2>1. \A s \in Selectors(kind) : listing.cached[s] \subseteq FoundIn(kind, seen)[s]
    BY <1>5 DEF FoundIn, Between
  <2>2. QED
    BY <2>1, MoreSeriesMoreMetrics
<1>8. QED
  BY <1>4, <1>6, <1>7

(***************************************************************************)
(* A registry changes to what one listing found, whole, however Prometheus *)
(* changes meanwhile (updateMetrics, listAllMetrics and SetSeries).        *)
(***************************************************************************)
THEOREM RegistriesListed == Spec => ListedAsItWas
<1>1. Init => FreshInv
  BY DEF Init, MetricsInit, FreshInv
<1>2. TypedInv /\ FreshInv /\ [Next]_vars => FreshInv'
  BY NextKeepsFresh
<1>3. TypedInv /\ FreshInv /\ [Next]_vars =>
        [\A kind \in Kinds : registry'[kind] # registry[kind] =>
           /\ Metrics(kind, FoundIn(kind, lasting)) \subseteq DOMAIN registry'[kind]
           /\ DOMAIN registry'[kind] \subseteq Metrics(kind, FoundIn(kind, seen))]_metricsVars
  BY RegistryChangesAsListed
<1>4. QED
  BY <1>1, <1>2, <1>3, TypedAlways, PTL DEF Spec, ListedAsItWas

-----------------------------------------------------------------------------
(***************************************************************************)
(* What is in the channels of a listing is counted by the goroutines that  *)
(* have sent it.  A goroutine that has sent an error, or that there is     *)
(* none, has "found" its series or is "done"; each time there was no error *)
(* there are series in their channel, or a goroutine that will send them.  *)
(***************************************************************************)
Among(l, states) == {s \in DOMAIN l.asked : l.asked[s].state \in states}
HowMany(l, states) == Cardinality(Among(l, states))

Sent(l) == HowMany(l, {"found", "done"})
Sending(l) == HowMany(l, {"found"})
Done(l) == HowMany(l, {"done"})

Falses(errs) == Cardinality({i \in DOMAIN errs : ~ errs[i]})

Waiting == IF lister = "found" THEN 1 ELSE 0

Counted(l, waiting) ==
  /\ Len(l.errs) + l.received + waiting = Repeated(l.kind) + Sent(l)
  /\ Len(l.found) + Sending(l) = Falses(l.errs) + waiting
  /\ Len(l.found) <= Repeated(l.kind) + Done(l)

\* What is left of a listing has room for everything that is still sent.
HasRooms(l) ==
  /\ Len(l.errs) <= Repeated(l.kind) + Sent(l)
  /\ Len(l.found) <= Repeated(l.kind) + Done(l)

Orphan(o) ==
  /\ o.kind \in Kinds /\ o \in Listing(o.kind, {<<>>})
  /\ HasRooms(o)
  /\ AtState(o, "done") # DOMAIN o.asked

CountInv ==
  /\ lister # "idle" => Counted(listing, Waiting)
  /\ \A o \in orphans : Orphan(o)

-----------------------------------------------------------------------------
LEMMA AmongIsFinite ==
  ASSUME NEW kind \in Kinds, NEW l, l.asked \in Goroutines(kind), NEW states
  PROVE  /\ Among(l, states) \subseteq Selectors(kind)
         /\ IsFiniteSet(Among(l, states))
         /\ HowMany(l, states) \in Nat
         /\ HowMany(l, states) <= Cardinality(Selectors(kind))
         /\ HowMany(l, states) = Cardinality(Selectors(kind)) => Among(l, states) = Selectors(kind)
<1>1. Among(l, states) \subseteq Selectors(kind)
  BY DEF Among, Goroutines
<1>2. IsFiniteSet(Selectors(kind))
  BY SelectorsCount
<1>3. QED
  BY <1>1, <1>2, FS_Subset, FS_CardinalityType DEF HowMany

\* One goroutine that changes its state changes the counts by one.
CountChanges(l, m, s, states) ==
  HowMany(m, states) =
    IF l.asked[s].state \in states
    THEN IF m.asked[s].state \in states THEN HowMany(l, states) ELSE HowMany(l, states) - 1
    ELSE IF m.asked[s].state \in states THEN HowMany(l, states) + 1 ELSE HowMany(l, states)

LEMMA OneChangesCount ==
  ASSUME NEW kind \in Kinds, NEW l, NEW m, l.asked \in Goroutines(kind), m.asked \in Goroutines(kind),
         NEW s \in Selectors(kind), \A t \in Selectors(kind) \ {s} : m.asked[t].state = l.asked[t].state,
         NEW states
  PROVE  CountChanges(l, m, s, states)
<1>1. /\ \A t : t \in Among(l, states) <=> t \in Selectors(kind) /\ l.asked[t].state \in states
      /\ \A t : t \in Among(m, states) <=> t \in Selectors(kind) /\ m.asked[t].state \in states
  BY DEF Among, Goroutines
<1>2. IsFiniteSet(Among(l, states))
  BY AmongIsFinite
<1>3. CASE l.asked[s].state \in states /\ m.asked[s].state \notin states
  <2>1. Among(m, states) = Among(l, states) \ {s} /\ s \in Among(l, states)
    BY <1>1, <1>3
  <2>2. QED
    BY <1>2, <1>3, <2>1, FS_RemoveElement DEF HowMany, CountChanges
<1>4. CASE l.asked[s].state \notin states /\ m.asked[s].state \in states
  <2>1. Among(m, states) = Among(l, states) \union {s} /\ s \notin Among(l, states)
    BY <1>1, <1>4
  <2>2. QED
    BY <1>2, <1>4, <2>1, FS_AddElement DEF HowMany, CountChanges
<1>5. CASE l.asked[s].state \in states <=> m.asked[s].state \in states
  <2>1. Among(m, states) = Among(l, states)
    BY <1>1, <1>5
  <2>2. QED
    BY <1>5, <2>1 DEF HowMany, CountChanges
<1>6. QED
  BY <1>3, <1>4, <1>5

\* What is appended to the errors, or taken from them.
LEMMA FalsesOfMore ==
  ASSUME NEW errs \in Seq(BOOLEAN), NEW err \in BOOLEAN
  PROVE  /\ Falses(errs) \in Nat
         /\ Len(Append(errs, err)) = Len(errs) + 1
         /\ Falses(Append(errs, err)) = IF err THEN Falses(errs) ELSE Falses(errs) + 1
<1> DEFINE n == Len(errs)
           F == {i \in DOMAIN errs : ~ errs[i]}
           more == Append(errs, err)
<1>1. n \in Nat /\ DOMAIN errs = 1 .. n
  OBVIOUS
<1>2. /\ Len(more) = n + 1 /\ DOMAIN more = 1 .. n + 1
      /\ (more[n + 1] <=> err) /\ \A i \in 1 .. n : more[i] <=> errs[i]
  BY <1>1
<1>3. IsFiniteSet(F) /\ Cardinality(F) \in Nat
  <2>1. IsFiniteSet(1 .. n)
    BY <1>1, FS_Interval
  <2>2. F \subseteq 1 .. n
    BY <1>1
  <2>3. QED
    BY <2>1, <2>2, FS_Subset, FS_CardinalityType
<1>4. n + 1 \notin F
  BY <1>1
<1>5. {i \in DOMAIN more : ~ more[i]} = IF err THEN F ELSE F \union {n + 1}
  <2> HIDE DEF more
  <2>1. DOMAIN more = (1 .. n) \union {n + 1}
    BY <1>1, <1>2
  <2>2. QED
    BY <1>1, <1>2, <2>1
<1>6. Cardinality(F \union {n + 1}) = Cardinality(F) + 1
  <2> HIDE DEF F
  <2>1. QED
    BY <1>3, <1>4, FS_AddElement
<1>7. QED
  BY <1>2, <1>3, <1>5, <1>6 DEF Falses

LEMMA FalsesOfRest ==
  ASSUME NEW errs \in Seq(BOOLEAN), errs # <<>>
  PROVE  /\ Falses(errs) \in Nat /\ Falses(Tail(errs)) \in Nat
         /\ Tail(errs) \in Seq(BOOLEAN) /\ Len(Tail(errs)) = Len(errs) - 1
         /\ Falses(errs) = IF Head(errs) THEN Falses(Tail(errs)) ELSE Falses(Tail(errs)) + 1
<1> DEFINE n == Len(errs)
           rest == Tail(errs)
           F == {i \in DOMAIN errs : ~ errs[i]}
           G == {i \in DOMAIN rest : ~ rest[i]}
           H == F \ {1}
<1>1. n \in Nat /\ n > 0 /\ DOMAIN errs = 1 .. n
  BY EmptySeq
<1>2. /\ rest \in Seq(BOOLEAN) /\ Len(rest) = n - 1
      /\ \A i \in 1 .. n - 1 : rest[i] = errs[i + 1]
  BY <1>1, HeadTailProperties
<1>3. DOMAIN rest = 1 .. n - 1 /\ Head(errs) = errs[1]
  BY <1>1, <1>2
<1>4. /\ \A i : i \in F <=> i \in 1 .. n /\ ~ errs[i]
      /\ \A i : i \in G <=> i \in 1 .. n - 1 /\ ~ errs[i + 1]
      /\ \A i : i \in H <=> i \in F /\ i # 1
  <2>1. \A i \in 1 .. n - 1 : ~ rest[i] <=> ~ errs[i + 1]
    BY <1>2
  <2> HIDE DEF rest
  <2>2. QED
    BY <1>1, <1>3, <2>1
<1>5. IsFiniteSet(F) /\ IsFiniteSet(G) /\ IsFiniteSet(H)
  <2>1. IsFiniteSet(1 .. n) /\ IsFiniteSet(1 .. n - 1)
    BY <1>1, FS_Interval
  <2> HIDE DEF F, G, H
  <2>2. F \subseteq 1 .. n /\ H \subseteq 1 .. n /\ G \subseteq 1 .. n - 1
    BY <1>4
  <2>3. QED
    BY <2>1, <2>2, FS_Subset
<1>6. Cardinality(H) = Cardinality(G)
  <2> DEFINE f == [i \in G |-> i + 1]
  <2> HIDE DEF F, G, H
  <2>1. \A i \in G : i \in Int /\ i + 1 \in H
    BY <1>1, <1>4
  <2>2. \A j \in H : j \in Int /\ j - 1 \in G
    BY <1>1, <1>4
  <2>3. f \in Bijection(G, H)
    <3>1. f \in [G -> H]
      BY <2>1
    <3>2. \A i, j \in G : f[i] = f[j] => i = j
      BY <2>1
    <3>3. \A j \in H : \E i \in G : f[i] = j
      <4>1. SUFFICES ASSUME NEW j \in H PROVE \E i \in G : f[i] = j
        OBVIOUS
      <4>2. j - 1 \in G /\ f[j - 1] = j
        BY <2>2
      <4>3. QED
        BY <4>2
    <3> HIDE DEF f
    <3>4. QED
      BY <3>1, <3>2, <3>3 DEF Bijection, Injection, IsInjective, Surjection
  <2> HIDE DEF f
  <2>4. QED
    BY <1>5, <2>3, FS_Bijection DEF ExistsBijection
<1>7. Cardinality(H) = IF errs[1] THEN Cardinality(F) ELSE Cardinality(F) - 1
  <2>1. 1 \in F <=> ~ errs[1]
    BY <1>1, <1>4
  <2> HIDE DEF F
  <2>2. QED
    BY <1>5, <2>1, FS_RemoveElement
<1>8. Cardinality(F) \in Nat /\ Cardinality(G) \in Nat
  <2> HIDE DEF F, G
  <2>1. QED
    BY <1>5, FS_CardinalityType
<1>9. Falses(errs) = Cardinality(F) /\ Falses(Tail(errs)) = Cardinality(G)
  BY DEF Falses
<1>10. QED
  <2> HIDE DEF F, G, H, rest
  <2>1. Cardinality(F) = IF Head(errs) THEN Cardinality(G) ELSE Cardinality(G) + 1
    <3>1. Cardinality(F) = IF errs[1] THEN Cardinality(G) ELSE Cardinality(G) + 1
      BY <1>6, <1>7, <1>8
    <3>2. QED
      BY <1>3, <3>1, Zenon
  <2>2. Tail(errs) \in Seq(BOOLEAN) /\ Len(Tail(errs)) = Len(errs) - 1
    BY <1>2 DEF rest
  <2>3. QED
    BY <1>8, <1>9, <2>1, <2>2

-----------------------------------------------------------------------------
(***************************************************************************)
(* What each step of a goroutine adds to the counts.                       *)
(***************************************************************************)
Adds(l, m, errs, falses, found, sent, sending, done) ==
  /\ Len(m.errs) = Len(l.errs) + errs
  /\ Falses(m.errs) = Falses(l.errs) + falses
  /\ Len(m.found) = Len(l.found) + found
  /\ Sent(m) = Sent(l) + sent
  /\ Sending(m) = Sending(l) + sending
  /\ Done(m) = Done(l) + done

LEMMA CountsAreNumbers ==
  ASSUME NEW kind \in Kinds, NEW caches, NEW l \in Listing(kind, caches)
  PROVE  /\ Len(l.errs) \in Nat /\ Falses(l.errs) \in Nat /\ Len(l.found) \in Nat
         /\ l.received \in Nat
         /\ Sent(l) \in Nat /\ Sending(l) \in Nat /\ Done(l) \in Nat
         /\ Sent(l) <= Cardinality(Selectors(kind)) /\ Done(l) <= Cardinality(Selectors(kind))
<1>1. /\ l.asked \in Goroutines(kind) /\ l.errs \in Seq(BOOLEAN) /\ l.received \in Nat
      /\ l.found \in Seq([selector : Selectors(kind) \union {Nil}, series : Somewhere])
  BY DEF Listing
<1>2. Len(l.errs) \in Nat /\ Len(l.found) \in Nat
  BY <1>1
<1>3. Falses(l.errs) \in Nat
  BY <1>1, FalsesOfMore
<1>4. QED
  BY <1>1, <1>2, <1>3, AmongIsFinite DEF Sent, Sending, Done

LEMMA MoveAdds ==
  ASSUME NEW kind \in Kinds, NEW caches, NEW l \in Listing(kind, caches), NEW m \in Moves(l),
         series \in Somewhere
  PROVE  \/ Adds(l, m, 0, 0, 0, 0, 0, 0)
         \/ Adds(l, m, 1, 0, 0, 1, 0, 1)
         \/ Adds(l, m, 1, 1, 0, 1, 1, 0)
         \/ Adds(l, m, 0, 0, 1, 0, -1, 1)
<1>1. PICK s \in Selectors(kind) : Moved(l, m, s)
  BY MoveIsOfOne
<1>2. m \in Listing(kind, caches)
  BY MovesStayListings
<1>3. /\ l.asked \in Goroutines(kind) /\ m.asked \in Goroutines(kind)
      /\ l.errs \in Seq(BOOLEAN)
      /\ l.found \in Seq([selector : Selectors(kind) \union {Nil}, series : Somewhere])
  BY <1>2 DEF Listing
<1>4. /\ Len(l.errs) \in Nat /\ Falses(l.errs) \in Nat /\ Len(l.found) \in Nat
      /\ Sent(l) \in Nat /\ Sending(l) \in Nat /\ Done(l) \in Nat
  BY CountsAreNumbers
<1>5. \A t \in Selectors(kind) \ {s} : m.asked[t].state = l.asked[t].state
  BY <1>1, <1>3 DEF Moved, GetsAnswer, SendsError, SendsNoError, SendsSeries, Goroutines
<1>6. \A states : CountChanges(l, m, s, states)
  BY <1>3, <1>5, OneChangesCount
<1>7. CASE GetsAnswer(l, m, s)
  <2>1. l.asked[s].state = "asked" /\ m.asked[s].state = "answered"
    BY <1>3, <1>7 DEF GetsAnswer, Goroutines
  <2>2. Sent(m) = Sent(l) /\ Sending(m) = Sending(l) /\ Done(m) = Done(l)
    BY <1>6, <2>1 DEF CountChanges, Sent, Sending, Done
  <2>3. m.errs = l.errs /\ m.found = l.found
    BY <1>7 DEF GetsAnswer
  <2>4. QED
    BY <1>4, <2>2, <2>3 DEF Adds
<1>8. CASE SendsError(l, m, s)
  <2>1. l.asked[s].state = "refused" /\ m.asked[s].state = "done"
    BY <1>3, <1>8 DEF SendsError, Goroutines
  <2>2. Sent(m) = Sent(l) + 1 /\ Sending(m) = Sending(l) /\ Done(m) = Done(l) + 1
    BY <1>6, <2>1 DEF CountChanges, Sent, Sending, Done
  <2>3. m.errs = Append(l.errs, TRUE) /\ m.found = l.found
    BY <1>8 DEF SendsError
  <2>4. Len(m.errs) = Len(l.errs) + 1 /\ Falses(m.errs) = Falses(l.errs)
    BY <1>3, <2>3, FalsesOfMore
  <2>5. Len(m.found) = Len(l.found)
    BY <2>3
  <2>6. QED
    BY <1>4, <2>2, <2>4, <2>5 DEF Adds
<1>9. CASE SendsNoError(l, m, s)
  <2>1. l.asked[s].state = "answered" /\ m.asked[s].state = "found"
    BY <1>3, <1>9 DEF SendsNoError, Goroutines
  <2>2. Sent(m) = Sent(l) + 1 /\ Sending(m) = Sending(l) + 1 /\ Done(m) = Done(l)
    BY <1>6, <2>1 DEF CountChanges, Sent, Sending, Done
  <2>3. m.errs = Append(l.errs, FALSE) /\ m.found = l.found
    BY <1>9 DEF SendsNoError
  <2>4. Len(m.errs) = Len(l.errs) + 1 /\ Falses(m.errs) = Falses(l.errs) + 1
    BY <1>3, <2>3, FalsesOfMore
  <2>5. Len(m.found) = Len(l.found)
    BY <2>3
  <2>6. QED
    BY <1>4, <2>2, <2>4, <2>5 DEF Adds
<1>10. CASE SendsSeries(l, m, s)
  <2>1. l.asked[s].state = "found" /\ m.asked[s].state = "done"
    BY <1>3, <1>10 DEF SendsSeries, Goroutines
  <2>2. Sent(m) = Sent(l) /\ Sending(m) = Sending(l) - 1 /\ Done(m) = Done(l) + 1
    BY <1>6, <2>1 DEF CountChanges, Sent, Sending, Done
  <2>3. m.errs = l.errs /\ Len(m.found) = Len(l.found) + 1
    BY <1>3, <1>10 DEF SendsSeries
  <2>4. QED
    BY <1>4, <2>2, <2>3 DEF Adds
<1>11. QED
  BY <1>1, <1>7, <1>8, <1>9, <1>10 DEF Moved

LEMMA MovesStayCounted ==
  ASSUME NEW kind \in Kinds, NEW caches, NEW l \in Listing(kind, caches), NEW m \in Moves(l),
         series \in Somewhere, NEW waiting \in Nat, Counted(l, waiting)
  PROVE  Counted(m, waiting)
<1>1. l.kind = kind /\ m.kind = kind /\ m.received = l.received
  <2>1. OnlyMoves(l, m)
    BY MoveIsOfOne DEF Moved
  <2>2. QED
    BY <2>1 DEF OnlyMoves, Listing
<1>2. \/ Adds(l, m, 0, 0, 0, 0, 0, 0)
      \/ Adds(l, m, 1, 0, 0, 1, 0, 1)
      \/ Adds(l, m, 1, 1, 0, 1, 1, 0)
      \/ Adds(l, m, 0, 0, 1, 0, -1, 1)
  BY MoveAdds
<1>3. /\ Len(l.errs) \in Nat /\ Falses(l.errs) \in Nat /\ Len(l.found) \in Nat
      /\ Sent(l) \in Nat /\ Sending(l) \in Nat /\ Done(l) \in Nat
      /\ l.received \in Nat /\ Repeated(kind) \in Nat
  BY CountsAreNumbers, SelectorsCount
<1>4. /\ Len(l.errs) + l.received + waiting = Repeated(kind) + Sent(l)
      /\ Len(l.found) + Sending(l) = Falses(l.errs) + waiting
      /\ Len(l.found) <= Repeated(kind) + Done(l)
  BY <1>1 DEF Counted
<1>5. Len(m.errs) + l.received + waiting = Repeated(kind) + Sent(m)
  <2>1. /\ Len(l.errs) \in Nat /\ Sent(l) \in Nat /\ l.received \in Nat /\ Repeated(kind) \in Nat
        /\ Len(l.errs) + l.received + waiting = Repeated(kind) + Sent(l)
    BY <1>3, <1>4
  <2>2. CASE Len(m.errs) = Len(l.errs) /\ Sent(m) = Sent(l)
    BY <2>1, <2>2
  <2>3. CASE Len(m.errs) = Len(l.errs) + 1 /\ Sent(m) = Sent(l) + 1
    <3>1. Len(m.errs) + l.received = Len(l.errs) + l.received + 1
      <4>1. Len(l.errs) \in Nat /\ l.received \in Nat
        BY <2>1
      <4>2. QED
        BY <2>3, <4>1
    <3>2. Len(m.errs) + l.received + waiting = Len(l.errs) + l.received + waiting + 1
      BY <2>1, <3>1
    <3>3. QED
      BY <2>1, <2>3, <3>2
  <2>4. QED
    BY <1>2, <1>3, <2>2, <2>3 DEF Adds
<1>6. Len(m.found) + Sending(m) = Falses(m.errs) + waiting
  <2>1. /\ Len(l.found) \in Nat /\ Sending(l) \in Nat /\ Falses(l.errs) \in Nat
        /\ Len(l.found) + Sending(l) = Falses(l.errs) + waiting
    BY <1>3, <1>4
  <2>2. PICK f, g, n : f = Len(l.found) /\ g = Sending(l) /\ n = Falses(l.errs)
    OBVIOUS
  <2>3. f \in Nat /\ g \in Nat /\ n \in Nat /\ f + g = n + waiting
    BY <2>1, <2>2
  <2>4. \/ Len(m.found) = f + 0 /\ Sending(m) = g + 0 /\ Falses(m.errs) = n + 0
        \/ Len(m.found) = f + 0 /\ Sending(m) = g + 1 /\ Falses(m.errs) = n + 1
        \/ Len(m.found) = f + 1 /\ Sending(m) = g + -1 /\ Falses(m.errs) = n + 0
    BY <1>2, <2>2 DEF Adds
  <2>5. (f + 0) + (g + 0) = (n + 0) + waiting
    BY <2>3
  <2>6. (f + 0) + (g + 1) = (n + 1) + waiting
    BY <2>3
  <2>7. (f + 1) + (g + -1) = (n + 0) + waiting
    BY <2>3
  <2>8. QED
    BY <2>4, <2>5, <2>6, <2>7
<1>7. Len(m.found) <= Repeated(kind) + Done(m)
  <2>1. PICK n \in {0, 1}, k \in {0, 1} :
          n <= k /\ Len(m.found) = Len(l.found) + n /\ Done(m) = Done(l) + k
    BY <1>2 DEF Adds
  <2>2. /\ Len(l.found) \in Nat /\ Done(l) \in Nat /\ Repeated(kind) \in Nat
        /\ Len(l.found) <= Repeated(kind) + Done(l)
    BY <1>3, <1>4
  <2>3. QED
    BY <2>1, <2>2
<1>8. QED
  BY <1>1, <1>5, <1>6, <1>7 DEF Counted

LEMMA OrphansMoveOn ==
  ASSUME NEW o, Orphan(o), series \in Somewhere, NEW m \in Moves(o), NEW left \in Leftover(m)
  PROVE  Orphan(left)
<1>1. o.kind \in Kinds /\ o \in Listing(o.kind, {<<>>}) /\ HasRooms(o)
  BY DEF Orphan
<1>2. m \in Listing(o.kind, {<<>>}) /\ m.kind = o.kind
  <2>1. m \in Listing(o.kind, {<<>>})
    BY <1>1, MovesStayListings
  <2>2. QED
    BY <2>1 DEF Listing
<1>3. /\ AtState(m, "done") # DOMAIN m.asked
      /\ left = [m EXCEPT !.received = 0, !.cached = <<>>]
  BY DEF Leftover
<1>4. /\ left \in Listing(o.kind, {<<>>}) /\ left.kind = m.kind
      /\ left.errs = m.errs /\ left.found = m.found /\ left.asked = m.asked
  BY <1>2, <1>3 DEF Listing
<1>5. Sent(left) = Sent(m) /\ Done(left) = Done(m) /\ AtState(left, "done") = AtState(m, "done")
  BY <1>4 DEF Sent, Done, HowMany, Among, AtState
<1>6. HasRooms(left)
  <2>1. \/ Adds(o, m, 0, 0, 0, 0, 0, 0)
        \/ Adds(o, m, 1, 0, 0, 1, 0, 1)
        \/ Adds(o, m, 1, 1, 0, 1, 1, 0)
        \/ Adds(o, m, 0, 0, 1, 0, -1, 1)
    BY <1>1, MoveAdds
  <2>2. /\ Len(o.errs) \in Nat /\ Len(o.found) \in Nat /\ Sent(o) \in Nat /\ Done(o) \in Nat
        /\ Repeated(o.kind) \in Nat
    BY <1>1, CountsAreNumbers, SelectorsCount
  <2>3. Len(m.errs) <= Repeated(o.kind) + Sent(m) /\ Len(m.found) <= Repeated(o.kind) + Done(m)
    BY <1>1, <2>1, <2>2 DEF Adds, HasRooms
  <2>4. QED
    BY <1>2, <1>4, <1>5, <2>3 DEF HasRooms
<1>7. QED
  BY <1>1, <1>2, <1>3, <1>4, <1>5, <1>6 DEF Orphan

-----------------------------------------------------------------------------
LEMMA BeginIsCounted ==
  ASSUME NEW kind \in Kinds
  PROVE  Counted(NewListing(kind), 0)
<1> DEFINE l == NewListing(kind)
<1>1. Repeated(kind) \in Nat
  BY SelectorsCount
<1>2. /\ l.kind = kind /\ l.received = 0
      /\ l.errs = [i \in 1 .. Repeated(kind) |-> FALSE]
      /\ l.found = [i \in 1 .. Repeated(kind) |-> NoSeries]
      /\ l.asked = [s \in Selectors(kind) |-> [state |-> "asked", series |-> {}]]
  BY DEF NewListing, FoundAtOnce
<1>3. Len(l.errs) = Repeated(kind) /\ Len(l.found) = Repeated(kind)
  BY <1>1, <1>2, OverAndOver
<1>4. Falses(l.errs) = Repeated(kind)
  <2>1. {i \in DOMAIN l.errs : ~ l.errs[i]} = 1 .. Repeated(kind)
    BY <1>2
  <2>2. Cardinality(1 .. Repeated(kind)) = Repeated(kind)
    <3>1. Cardinality(1 .. Repeated(kind)) = IF 1 > Repeated(kind) THEN 0 ELSE Repeated(kind) - 1 + 1
      BY <1>1, FS_Interval
    <3>2. QED
      BY <1>1, <3>1
  <2>3. QED
    BY <2>1, <2>2 DEF Falses
<1>5. Sent(l) = 0 /\ Sending(l) = 0 /\ Done(l) = 0
  <2>1. /\ Among(l, {"found", "done"}) = {} /\ Among(l, {"found"}) = {}
        /\ Among(l, {"done"}) = {}
    BY <1>2 DEF Among
  <2>2. QED
    BY <2>1, FS_EmptySet DEF Sent, Sending, Done, HowMany
<1> HIDE DEF l
<1>6. Counted(l, 0)
  BY <1>1, <1>2, <1>3, <1>4, <1>5 DEF Counted
<1>7. QED
  BY <1>6 DEF l

\* Counting only looks at the channels and at the states of the goroutines.
LEMMA SameGoroutinesSameCounts ==
  ASSUME NEW l, NEW m, m.asked = l.asked
  PROVE  Sent(m) = Sent(l) /\ Sending(m) = Sending(l) /\ Done(m) = Done(l)
  BY DEF Sent, Sending, Done, HowMany, Among

LEMMA RefusalIsCounted ==
  ASSUME Listed, PromRefuses, NEW waiting, Counted(listing, waiting)
  PROVE  Counted(listing', waiting)
<1>1. PICK s \in AtState(listing, "asked") : listing' = [listing EXCEPT !.asked[s].state = "refused"]
  BY DEF PromRefuses
<1>2. /\ listing.kind \in Kinds /\ listing.asked \in Goroutines(listing.kind)
      /\ s \in Selectors(listing.kind) /\ listing.asked[s].state = "asked"
  BY <1>1 DEF Listed, Listing, AtState, Goroutines
<1>3. /\ listing'.asked = [listing.asked EXCEPT ![s].state = "refused"]
      /\ listing'.kind = listing.kind /\ listing'.errs = listing.errs
      /\ listing'.found = listing.found /\ listing'.received = listing.received
  BY <1>1 DEF Listed, Listing
<1>4. /\ listing'.asked \in Goroutines(listing.kind) /\ listing'.asked[s].state = "refused"
      /\ \A t \in Selectors(listing.kind) \ {s} : listing'.asked[t].state = listing.asked[t].state
  BY <1>2, <1>3 DEF Goroutines, GoroutineStates
<1>5. \A states : CountChanges(listing, listing', s, states)
  BY <1>2, <1>4, OneChangesCount
<1>6. /\ Sent(listing') = Sent(listing) /\ Sending(listing') = Sending(listing)
      /\ Done(listing') = Done(listing)
  BY <1>2, <1>4, <1>5 DEF CountChanges, Sent, Sending, Done
<1>7. QED
  BY <1>3, <1>6 DEF Counted

LEMMA ReceiveErrIsCounted ==
  ASSUME Listed, ReceiveErr, CountInv
  PROVE  CountInv'
<1> DEFINE rest == Tail(listing.errs)
           l == [listing EXCEPT !.errs = Tail(@)]
<1>1. /\ listing.kind \in Kinds /\ listing \in Listing(listing.kind, Caches(listing.kind))
      /\ listing.errs \in Seq(BOOLEAN) /\ listing.errs # <<>>
      /\ lister = "errs" /\ Counted(listing, 0)
  BY DEF Listed, Listing, ReceiveErr, CountInv, Waiting
<1>2. /\ Len(listing.errs) \in Nat /\ Falses(listing.errs) \in Nat /\ Len(listing.found) \in Nat
      /\ Sent(listing) \in Nat /\ Sending(listing) \in Nat /\ Done(listing) \in Nat
      /\ listing.received \in Nat /\ Repeated(listing.kind) \in Nat
  BY <1>1, CountsAreNumbers, SelectorsCount
<1>3. /\ rest \in Seq(BOOLEAN) /\ Len(rest) = Len(listing.errs) - 1 /\ Falses(rest) \in Nat
      /\ Falses(listing.errs) = IF Head(listing.errs) THEN Falses(rest) ELSE Falses(rest) + 1
  BY <1>1, FalsesOfRest
<1>4. /\ l.kind = listing.kind /\ l.asked = listing.asked /\ l.errs = rest
      /\ l.found = listing.found /\ l.received = listing.received
      /\ l \in Listing(listing.kind, Caches(listing.kind))
  <2> HIDE DEF rest
  <2>1. l = [listing EXCEPT !.errs = rest]
    BY <1>1 DEF rest
  <2> HIDE DEF l
  <2>2. QED
    BY <1>1, <1>3, <2>1 DEF Listing
<1>5. Sent(l) = Sent(listing) /\ Sending(l) = Sending(listing) /\ Done(l) = Done(listing)
  <2> HIDE DEF l
  <2>1. QED
    BY <1>4, SameGoroutinesSameCounts
<1> HIDE DEF rest
<1>6. CASE Head(listing.errs)
  <2>1. lister' = "idle" /\ orphans' = orphans \union Leftover(l)
    BY <1>6 DEF ReceiveErr, Stop
  <2>2. ASSUME NEW o \in Leftover(l) PROVE Orphan(o)
    <3> HIDE DEF l
    <3>1. AtState(l, "done") # DOMAIN l.asked /\ o = [l EXCEPT !.received = 0, !.cached = <<>>]
      BY DEF Leftover
    <3>2. /\ o \in Listing(listing.kind, {<<>>}) /\ o.kind = listing.kind
          /\ o.errs = rest /\ o.found = listing.found /\ o.asked = l.asked
      BY <1>4, <3>1 DEF Listing
    <3>3. AtState(o, "done") # DOMAIN o.asked
      BY <3>1, <3>2 DEF AtState
    <3>4. Sent(o) = Sent(listing) /\ Done(o) = Done(listing)
      BY <1>5, <3>2, SameGoroutinesSameCounts
    <3>5. /\ Len(listing.errs) + listing.received + 0 = Repeated(listing.kind) + Sent(listing)
          /\ Len(listing.found) <= Repeated(listing.kind) + Done(listing)
      BY <1>1 DEF Counted
    <3>6. Len(rest) <= Repeated(listing.kind) + Sent(listing)
      <4>1. Len(rest) = Len(listing.errs) - 1
        BY <1>3
      <4>2. QED
        BY <1>2, <3>5, <4>1
    <3>7. HasRooms(o)
      BY <3>2, <3>4, <3>5, <3>6 DEF HasRooms
    <3>8. QED
      BY <1>1, <3>2, <3>3, <3>7 DEF Orphan
  <2>3. QED
    BY <2>1, <2>2 DEF CountInv
<1>7. CASE ~ Head(listing.errs)
  <2>1. lister' = "found" /\ listing' = l /\ orphans' = orphans
    BY <1>7 DEF ReceiveErr
  <2> HIDE DEF l
  <2>2. /\ Len(listing.errs) + listing.received + 0 = Repeated(listing.kind) + Sent(listing)
        /\ Len(listing.found) + Sending(listing) = Falses(listing.errs) + 0
        /\ Len(listing.found) <= Repeated(listing.kind) + Done(listing)
    BY <1>1 DEF Counted
  <2>3. Falses(listing.errs) = Falses(rest) + 1
    BY <1>3, <1>7
  <2>4. /\ Len(rest) + listing.received + 1 = Repeated(listing.kind) + Sent(listing)
        /\ Len(listing.found) + Sending(listing) = Falses(rest) + 1
    <3>1. Len(rest) = Len(listing.errs) - 1 /\ Len(listing.errs) \in Nat /\ listing.received \in Nat
      BY <1>2, <1>3
    <3>2. Len(rest) + listing.received + 1 = Len(listing.errs) + listing.received + 0
      BY <3>1
    <3>3. Falses(rest) \in Nat
      BY <1>3
    <3>4. Falses(rest) + 1 = Falses(listing.errs) + 0
      BY <2>3, <3>3
    <3>5. QED
      BY <2>2, <3>2, <3>4
  <2>5. Counted(l, 1)
    BY <1>4, <1>5, <2>2, <2>4 DEF Counted
  <2>6. QED
    BY <2>1, <2>5 DEF CountInv, Waiting
<1>8. QED
  BY <1>6, <1>7

LEMMA ReceiveFoundIsCounted ==
  ASSUME Listed, ReceiveFound, CountInv
  PROVE  CountInv'
<1>1. /\ listing.kind \in Kinds /\ listing \in Listing(listing.kind, Caches(listing.kind))
      /\ listing.found \in Seq([selector : Selectors(listing.kind) \union {Nil}, series : Somewhere])
      /\ listing.found # <<>> /\ Counted(listing, 1)
  BY DEF Listed, Listing, ReceiveFound, CountInv, Waiting
<1>2. /\ Len(listing.errs) \in Nat /\ Falses(listing.errs) \in Nat /\ Len(listing.found) \in Nat
      /\ Sent(listing) \in Nat /\ Sending(listing) \in Nat /\ Done(listing) \in Nat
      /\ listing.received \in Nat /\ Repeated(listing.kind) \in Nat
  BY <1>1, CountsAreNumbers, SelectorsCount
<1>3. /\ listing'.kind = listing.kind /\ listing'.asked = listing.asked /\ listing'.errs = listing.errs
      /\ listing'.found = Tail(listing.found) /\ listing'.received = listing.received + 1
      /\ lister' = "errs" /\ orphans' = orphans
  BY <1>1 DEF ReceiveFound, Listing
<1>4. Len(Tail(listing.found)) = Len(listing.found) - 1
  BY <1>1, HeadTailProperties
<1>5. /\ Sent(listing') = Sent(listing) /\ Sending(listing') = Sending(listing)
      /\ Done(listing') = Done(listing)
  BY <1>3, SameGoroutinesSameCounts
<1>6. /\ Len(listing.errs) + listing.received + 1 = Repeated(listing.kind) + Sent(listing)
      /\ Len(listing.found) + Sending(listing) = Falses(listing.errs) + 1
      /\ Len(listing.found) <= Repeated(listing.kind) + Done(listing)
  BY <1>1 DEF Counted
<1>7. /\ Len(listing.errs) + (listing.received + 1) + 0 = Repeated(listing.kind) + Sent(listing)
      /\ Len(Tail(listing.found)) + Sending(listing) = Falses(listing.errs) + 0
      /\ Len(Tail(listing.found)) <= Repeated(listing.kind) + Done(listing)
  <2> DEFINE less == Len(Tail(listing.found))
  <2>1. less = Len(listing.found) - 1
    BY <1>4
  <2> HIDE DEF less
  <2>2. /\ Len(listing.errs) + (listing.received + 1) + 0 = Repeated(listing.kind) + Sent(listing)
        /\ less + Sending(listing) = Falses(listing.errs) + 0
        /\ less <= Repeated(listing.kind) + Done(listing)
    <3>1. Len(listing.errs) + (listing.received + 1) + 0 = Repeated(listing.kind) + Sent(listing)
      <4>1. /\ Len(listing.errs) \in Nat /\ listing.received \in Nat
            /\ Len(listing.errs) + listing.received + 1 = Repeated(listing.kind) + Sent(listing)
        BY <1>2, <1>6
      <4>2. QED
        BY <4>1
    <3>2. less + Sending(listing) = Falses(listing.errs) + 0
      <4>1. /\ Len(listing.found) \in Nat /\ Sending(listing) \in Nat /\ Falses(listing.errs) \in Nat
            /\ Len(listing.found) + Sending(listing) = Falses(listing.errs) + 1
        BY <1>2, <1>6
      <4>2. QED
        BY <2>1, <4>1
    <3>3. less <= Repeated(listing.kind) + Done(listing)
      <4>1. /\ Len(listing.found) \in Nat /\ Repeated(listing.kind) + Done(listing) \in Nat
            /\ Len(listing.found) <= Repeated(listing.kind) + Done(listing)
        BY <1>2, <1>6
      <4>2. QED
        BY <2>1, <4>1
    <3>4. QED
      BY <3>1, <3>2, <3>3
  <2>3. QED
    BY <2>2 DEF less
<1>8. Counted(listing', 0)
  BY <1>3, <1>5, <1>7 DEF Counted
<1>9. QED
  BY <1>3, <1>8 DEF CountInv, Waiting

LEMMA NextKeepsCounts ==
  ASSUME TypedInv, CountInv, [Next]_vars
  PROVE  CountInv'
<1>1. series \in Somewhere /\ (lister # "idle" => Listed) /\ Waiting \in Nat
  BY DEF TypedInv, ListerTyped, Waiting
<1>2. ASSUME NEW kind \in Kinds, Begin(kind), orphans' = orphans PROVE CountInv'
  <2>1. lister' = "errs" /\ listing' = NewListing(kind)
    BY <1>2 DEF Begin
  <2>2. Counted(listing', 0)
    BY <2>1, BeginIsCounted
  <2>3. QED
    BY <1>2, <2>1, <2>2 DEF CountInv, Waiting
<1>3. CASE Relist
  BY <1>2, <1>3 DEF Relist, Kinds, Namers
<1>4. CASE ReceiveErr
  BY <1>1, <1>4, ReceiveErrIsCounted DEF ReceiveErr
<1>5. CASE ReceiveFound
  BY <1>1, <1>5, ReceiveFoundIsCounted DEF ReceiveFound
<1>6. CASE SetSeries
  <2>1. (Stop \/ Begin("external")) /\ orphans' = orphans
    BY <1>6 DEF SetSeries
  <2>2. CASE Stop
    BY <2>1, <2>2 DEF Stop, CountInv
  <2>3. QED
    BY <1>2, <2>1, <2>2 DEF Kinds, Namers
<1>7. CASE GoroutineGoes \/ PromRefuses
  <2>1. /\ lister # "idle" /\ UNCHANGED <<lister, orphans>> /\ Counted(listing, Waiting) /\ Listed
    BY <1>1, <1>7 DEF GoroutineGoes, PromRefuses, CountInv
  <2>2. Counted(listing', Waiting)
    <3>1. CASE GoroutineGoes
      BY <1>1, <2>1, <3>1, MovesStayCounted DEF GoroutineGoes, Listed
    <3>2. CASE PromRefuses
      BY <2>1, <3>2, RefusalIsCounted
    <3>3. QED
      BY <1>7, <3>1, <3>2
  <2>3. Waiting' = Waiting
    BY <2>1 DEF Waiting
  <2>4. QED
    BY <2>1, <2>2, <2>3 DEF CountInv
<1>8. CASE OrphanGoes
  <2>1. PICK o \in orphans : \E m \in Moves(o) : orphans' = (orphans \ {o}) \union Leftover(m)
    BY <1>8 DEF OrphanGoes
  <2>2. PICK m \in Moves(o) : orphans' = (orphans \ {o}) \union Leftover(m)
    BY <2>1
  <2>3. \A left \in Leftover(m) : Orphan(left)
    BY <1>1, OrphansMoveOn DEF CountInv
  <2>4. \A other \in orphans' : Orphan(other)
    BY <2>2, <2>3 DEF CountInv
  <2>5. UNCHANGED <<lister, listing>>
    BY <1>8 DEF OrphanGoes
  <2>6. QED
    BY <2>4, <2>5 DEF CountInv, Waiting
<1>9. CASE ListerLeftAlone \/ \E new \in SeriesSets : SeriesChange(new)
  <2>1. UNCHANGED <<lister, listing, orphans>>
    BY <1>9 DEF ListerLeftAlone, listerVars, SeriesChange
  <2>2. QED
    BY <2>1 DEF CountInv, Waiting
<1>10. QED
  BY <1>3, <1>4, <1>5, <1>6, <1>7, <1>8, <1>9, StepsOfLister

-----------------------------------------------------------------------------
(***************************************************************************)
(* Whoever has not sent everything can go on.                              *)
(***************************************************************************)
LEMMA CanMove ==
  ASSUME NEW kind \in Kinds, NEW caches, NEW l \in Listing(kind, caches), NEW s \in Selectors(kind),
         \/ l.asked[s].state = "asked"
         \/ l.asked[s].state \in {"refused", "answered"} /\ HasRoom(l, l.errs)
         \/ l.asked[s].state = "found" /\ HasRoom(l, l.found)
  PROVE  Moves(l) # {}
<1>1. s \in DOMAIN l.asked
  BY DEF Listing, Goroutines
<1>2. \A state : l.asked[s].state = state => s \in AtState(l, state)
  BY <1>1 DEF AtState
<1>3. CASE l.asked[s].state = "asked"
  <2>1. s \in AtState(l, "asked")
    BY <1>2, <1>3
  <2>2. [l EXCEPT !.asked[s] = [state |-> "answered", series |-> Matches[s] \intersect series]]
          \in Moves(l)
    BY <2>1 DEF Moves
  <2>3. QED
    BY <2>2
<1>4. CASE l.asked[s].state = "refused" /\ HasRoom(l, l.errs)
  <2>1. s \in {t \in AtState(l, "refused") : HasRoom(l, l.errs)}
    BY <1>2, <1>4
  <2>2. [l EXCEPT !.asked[s].state = "done", !.errs = Append(@, TRUE)]
          \in Moves(l)
    BY <2>1 DEF Moves
  <2>3. QED
    BY <2>2
<1>5. CASE l.asked[s].state = "answered" /\ HasRoom(l, l.errs)
  <2>1. s \in {t \in AtState(l, "answered") : HasRoom(l, l.errs)}
    BY <1>2, <1>5
  <2>2. [l EXCEPT !.asked[s].state = "found", !.errs = Append(@, FALSE)]
          \in Moves(l)
    BY <2>1 DEF Moves
  <2>3. QED
    BY <2>2
<1>6. CASE l.asked[s].state = "found" /\ HasRoom(l, l.found)
  <2>1. s \in {t \in AtState(l, "found") : HasRoom(l, l.found)}
    BY <1>2, <1>6
  <2>2. [l EXCEPT !.asked[s].state = "done",
                 !.found = Append(@, [selector |-> s, series |-> l.asked[s].series])]
          \in Moves(l)
    BY <2>1 DEF Moves
  <2>3. QED
    BY <2>2
<1>7. QED
  BY <1>3, <1>4, <1>5, <1>6

\* Goroutines that are not among those in some states leave room.
LEMMA NotAllAreAmong ==
  ASSUME NEW kind \in Kinds, NEW l, l.asked \in Goroutines(kind), NEW states,
         NEW s \in Selectors(kind), l.asked[s].state \notin states
  PROVE  /\ Repeated(kind) + HowMany(l, states) < Len(Namers[kind])
         /\ Repeated(kind) \in Nat /\ HowMany(l, states) \in Nat /\ Len(Namers[kind]) \in Nat
<1>1. Among(l, states) # Selectors(kind)
  BY DEF Among
<1>2. /\ HowMany(l, states) \in Nat /\ HowMany(l, states) <= Cardinality(Selectors(kind))
      /\ HowMany(l, states) # Cardinality(Selectors(kind))
  BY <1>1, AmongIsFinite
<1>3. /\ Repeated(kind) \in Nat /\ Cardinality(Selectors(kind)) \in Nat /\ Len(Namers[kind]) \in Nat
      /\ Repeated(kind) + Cardinality(Selectors(kind)) = Len(Namers[kind])
  BY SelectorsCount
<1>4. HowMany(l, states) < Cardinality(Selectors(kind))
  BY <1>2, <1>3
<1>5. QED
  BY <1>2, <1>3, <1>4

LEMMA OrphansMove ==
  ASSUME NEW o, Orphan(o)
  PROVE  Moves(o) # {}
<1> DEFINE kind == o.kind
<1>1. /\ kind \in Kinds /\ o \in Listing(kind, {<<>>}) /\ HasRooms(o)
      /\ AtState(o, "done") # DOMAIN o.asked
  BY DEF Orphan
<1>2. o.asked \in Goroutines(kind)
  BY <1>1 DEF Listing
<1> HIDE DEF kind
<1>3. PICK s \in Selectors(kind) : o.asked[s].state # "done"
  BY <1>1, <1>2 DEF AtState, Goroutines
<1>4. Len(o.errs) \in Nat /\ Len(o.found) \in Nat
  BY <1>1, CountsAreNumbers
<1>5. CASE o.asked[s].state = "found"
  <2>1. /\ Repeated(kind) + Done(o) < Len(Namers[kind])
        /\ Repeated(kind) \in Nat /\ Done(o) \in Nat /\ Len(Namers[kind]) \in Nat
    <3>1. kind \in Kinds /\ o.asked[s].state \notin {"done"}
      BY <1>1, <1>5
    <3>2. /\ Repeated(kind) + HowMany(o, {"done"}) < Len(Namers[kind])
          /\ Repeated(kind) \in Nat /\ HowMany(o, {"done"}) \in Nat
          /\ Len(Namers[kind]) \in Nat
      BY <1>2, <3>1, NotAllAreAmong
    <3>3. QED
      BY <3>2 DEF Done
  <2>2. Len(o.found) <= Repeated(kind) + Done(o)
    BY <1>1 DEF HasRooms, kind
  <2>3. HasRoom(o, o.found)
    <3>1. Len(o.found) < Len(Namers[kind])
      BY <1>4, <2>1, <2>2
    <3>2. QED
      BY <3>1 DEF HasRoom, kind
  <2>4. QED
    BY <1>1, <1>5, <2>3, CanMove
<1>6. CASE o.asked[s].state # "found"
  <2>1. /\ Repeated(kind) + Sent(o) < Len(Namers[kind])
        /\ Repeated(kind) \in Nat /\ Sent(o) \in Nat /\ Len(Namers[kind]) \in Nat
    <3>1. o.asked[s].state \notin {"found", "done"}
      BY <1>3, <1>6
    <3>2. QED
      BY <1>1, <1>2, <3>1, NotAllAreAmong DEF Sent
  <2>2. Len(o.errs) <= Repeated(kind) + Sent(o)
    BY <1>1 DEF HasRooms, kind
  <2>3. HasRoom(o, o.errs)
    <3>1. Len(o.errs) < Len(Namers[kind])
      BY <1>4, <2>1, <2>2
    <3>2. QED
      BY <3>1 DEF HasRoom, kind
  <2>4. o.asked[s].state \in {"asked", "refused", "answered"}
    BY <1>2, <1>3, <1>6 DEF Goroutines, GoroutineStates
  <2>5. QED
    BY <1>1, <2>3, <2>4, CanMove
<1>7. QED
  BY <1>5, <1>6

LEMMA ListerGetsOn ==
  ASSUME Listed, lister # "idle", lister \in {"errs", "found"}, Counted(listing, Waiting)
  PROVE  /\ lister = "errs" => Received(listing) \/ listing.errs # <<>> \/ Moves(listing) # {}
         /\ lister = "found" => listing.found # <<>> \/ Moves(listing) # {}
<1> DEFINE kind == listing.kind
<1>1. kind \in Kinds /\ listing \in Listing(kind, Caches(kind)) /\ listing.asked \in Goroutines(kind)
  BY DEF Listed, Listing
<1> HIDE DEF kind
<1>2. /\ Len(listing.errs) \in Nat /\ Falses(listing.errs) \in Nat /\ Len(listing.found) \in Nat
      /\ Sent(listing) \in Nat /\ Sending(listing) \in Nat /\ listing.received \in Nat
  BY <1>1, CountsAreNumbers
<1>3. /\ Repeated(kind) \in Nat /\ Cardinality(Selectors(kind)) \in Nat /\ Len(Namers[kind]) \in Nat
      /\ Repeated(kind) + Cardinality(Selectors(kind)) = Len(Namers[kind])
  BY <1>1, SelectorsCount
<1>4. CASE lister = "errs"
  <2>1. SUFFICES ASSUME ~ Received(listing), listing.errs = <<>> PROVE Moves(listing) # {}
    BY <1>4
  <2>2. listing.received # Len(Namers[kind]) /\ Len(listing.errs) = 0
    BY <2>1 DEF Received, kind
  <2>3. Len(listing.errs) + listing.received + 0 = Repeated(kind) + Sent(listing)
    BY <1>4 DEF Counted, Waiting, kind
  <2>4. listing.received = Repeated(kind) + Sent(listing)
    BY <1>2, <1>3, <2>2, <2>3
  <2>5. Sent(listing) # Cardinality(Selectors(kind))
    BY <1>3, <2>2, <2>4
  <2>6. PICK s \in Selectors(kind) : listing.asked[s].state \notin {"found", "done"}
    <3>1. SUFFICES ASSUME \A s \in Selectors(kind) : listing.asked[s].state \in {"found", "done"}
                   PROVE  Sent(listing) = Cardinality(Selectors(kind))
      BY <2>5
    <3>2. DOMAIN listing.asked = Selectors(kind)
      BY <1>1 DEF Goroutines
    <3>3. Among(listing, {"found", "done"}) = Selectors(kind)
      BY <3>1, <3>2 DEF Among
    <3>4. QED
      BY <3>3 DEF Sent, HowMany
  <2>7. Repeated(kind) + Sent(listing) < Len(Namers[kind])
    BY <1>1, <2>6, NotAllAreAmong DEF Sent
  <2>8. HasRoom(listing, listing.errs)
    <3>1. 0 < Len(Namers[kind])
      BY <1>2, <1>3, <2>7
    <3>2. QED
      BY <2>2, <3>1 DEF HasRoom, kind
  <2>9. listing.asked[s].state \in {"asked", "refused", "answered"}
    BY <1>1, <2>6 DEF Goroutines, GoroutineStates
  <2>10. QED
    BY <1>1, <2>8, <2>9, CanMove
<1>5. CASE lister = "found"
  <2>1. SUFFICES ASSUME listing.found = <<>> PROVE Moves(listing) # {}
    BY <1>5
  <2>2. Len(listing.found) = 0
    BY <2>1
  <2>3. Len(listing.found) + Sending(listing) = Falses(listing.errs) + 1
    BY <1>5 DEF Counted, Waiting
  <2>4. Sending(listing) # 0
    BY <1>2, <2>2, <2>3
  <2>5. PICK s \in Selectors(kind) : listing.asked[s].state = "found"
    <3>1. SUFFICES ASSUME \A s \in Selectors(kind) : listing.asked[s].state # "found"
                   PROVE  Sending(listing) = 0
      BY <2>4
    <3>2. DOMAIN listing.asked = Selectors(kind)
      BY <1>1 DEF Goroutines
    <3>3. Among(listing, {"found"}) = {}
      BY <3>1, <3>2 DEF Among
    <3>4. QED
      BY <3>3, FS_EmptySet DEF Sending, HowMany
  <2>6. Repeated(kind) + Done(listing) < Len(Namers[kind]) /\ Done(listing) \in Nat
    BY <1>1, <2>5, NotAllAreAmong DEF Done
  <2>7. HasRoom(listing, listing.found)
    <3>1. 0 < Len(Namers[kind])
      BY <1>3, <2>6
    <3>2. QED
      BY <2>2, <3>1 DEF HasRoom, kind
  <2>8. QED
    BY <1>1, <2>5, <2>7, CanMove
<1>6. QED
  BY <1>4, <1>5

(***************************************************************************)
(* Neither the lister nor any goroutine of a listing, given up or not,     *)
(* waits for ever, for any number of namers and whatever selectors they    *)
(* share (listAllMetrics: the channels have room for all namers, and one   *)
(* item is received for each).                                             *)
(***************************************************************************)
THEOREM NobodyWaitsForever == Spec => []NobodyBlocks
<1>1. Init => CountInv
  BY DEF Init, MetricsInit, CountInv
<1>2. TypedInv /\ CountInv /\ [Next]_vars => CountInv'
  BY NextKeepsCounts
<1>3. TypedInv /\ CountInv => NobodyBlocks
  <2>1. SUFFICES ASSUME TypedInv, CountInv PROVE NobodyBlocks
    OBVIOUS
  <2>2. \A o \in orphans : Moves(o) # {}
    BY <2>1, OrphansMove DEF CountInv
  <2>3. CASE lister = "idle"
    BY <2>2, <2>3 DEF NobodyBlocks
  <2>4. CASE lister # "idle"
    BY <2>1, <2>2, <2>4, ListerGetsOn DEF NobodyBlocks, TypedInv, ListerTyped, CountInv
  <2>5. QED
    BY <2>3, <2>4
<1>4. QED
  BY <1>1, <1>2, <1>3, TypedAlways, PTL DEF Spec

-----------------------------------------------------------------------------
(***************************************************************************)
(* Sequences put one after another.  The merge of the shards is a function *)
(* defined by recursion over their list; what it computes is proved along  *)
(* the list, by looking at the first place where it would be wrong.        *)
(***************************************************************************)
Increasing(s) == \A k, l \in 1 .. Len(s) : k < l => s[k] < s[l]
Elements(s) == {s[k] : k \in DOMAIN s}

Chain(f, seqs, n) == f = [i \in 1 .. n |-> IF i = 1 THEN seqs[i] ELSE f[i - 1] \o seqs[i]]

\* What holds of 1, and of each number if it holds of the one before, has no first exception.
LEMMA NoFirstException ==
  ASSUME NEW Bad \in SUBSET Nat, 0 \notin Bad, \A m \in Nat : m + 1 \in Bad => m \in Bad
  PROVE  Bad = {}
<1> SUFFICES ASSUME Bad # {} PROVE FALSE
  OBVIOUS
<1>1. PICK n \in Bad : \A m \in Bad : n <= m
  BY SmallestNumber
<1>2. n \in Nat /\ n # 0
  BY <1>1
<1>3. n - 1 \in Nat /\ (n - 1) + 1 = n
  BY <1>2
<1>4. n - 1 \in Bad
  BY <1>1, <1>3
<1>5. n <= n - 1
  BY <1>1, <1>4
<1>6. QED
  BY <1>2, <1>5

\* There is such a function, for every list.
LEMMA ChainExists ==
  ASSUME NEW seqs, NEW n \in Nat
  PROVE  \E f : Chain(f, seqs, n)
<1> DEFINE Bad == {m \in Nat : ~ \E f : Chain(f, seqs, m)}
<1>1. 0 \notin Bad
  <2>1. Chain([i \in 1 .. 0 |-> {}], seqs, 0)
    BY DEF Chain
  <2>2. QED
    BY <2>1
<1>2. ASSUME NEW m \in Nat, \E f : Chain(f, seqs, m)
      PROVE  \E f : Chain(f, seqs, m + 1)
  <2>1. PICK g : Chain(g, seqs, m)
    BY <1>2
  <2> DEFINE last == IF m = 0 THEN seqs[m + 1] ELSE g[m] \o seqs[m + 1]
             f == [i \in 1 .. m + 1 |-> IF i = m + 1 THEN last ELSE g[i]]
  <2>2. f[m + 1] = last /\ \A i \in 1 .. m : f[i] = g[i]
    <3> HIDE DEF last
    <3>1. m + 1 \in 1 .. m + 1 /\ \A i \in 1 .. m : i \in 1 .. m + 1 /\ i # m + 1
      OBVIOUS
    <3>2. QED
      BY <3>1
  <2>3. \A i \in 1 .. m : g[i] = IF i = 1 THEN seqs[i] ELSE g[i - 1] \o seqs[i]
    BY <2>1 DEF Chain
  <2>4. ASSUME NEW i \in 1 .. m + 1
        PROVE  f[i] = IF i = 1 THEN seqs[i] ELSE f[i - 1] \o seqs[i]
    <3> HIDE DEF f
    <3>1. CASE i = m + 1 /\ m = 0
      BY <2>2, <3>1
    <3>2. CASE i = m + 1 /\ m # 0
      <4>1. i - 1 = m /\ i # 1 /\ m \in 1 .. m
        BY <3>2
      <4>2. f[i - 1] = g[m]
        BY <2>2, <4>1
      <4>3. QED
        BY <2>2, <3>2, <4>1, <4>2
    <3>3. CASE i # m + 1 /\ i # 1
      <4>1. i \in 1 .. m /\ i - 1 \in 1 .. m
        BY <3>3
      <4>2. f[i] = g[i] /\ f[i - 1] = g[i - 1]
        BY <2>2, <4>1
      <4>3. QED
        BY <2>3, <3>3, <4>1, <4>2
    <3>4. CASE i # m + 1 /\ i = 1
      <4>1. i \in 1 .. m
        BY <3>4
      <4>2. QED
        BY <2>2, <2>3, <3>4, <4>1
    <3>5. QED
      BY <3>1, <3>2, <3>3, <3>4
  <2>5. f = [i \in 1 .. m + 1 |-> IF i = 1 THEN seqs[i] ELSE f[i - 1] \o seqs[i]]
    <3>1. f = [i \in 1 .. m + 1 |-> f[i]]
      OBVIOUS
    <3> HIDE DEF f
    <3>2. QED
      BY <2>4, <3>1
  <2> HIDE DEF f
  <2>6. Chain(f, seqs, m + 1)
    BY <2>5 DEF Chain
  <2>7. QED
    BY <2>6
<1>3. Bad \in SUBSET Nat /\ \A m \in Nat : m + 1 \in Bad => m \in Bad
  BY <1>2
<1>4. Bad = {}
  <2> HIDE DEF Bad
  <2> QED
    BY <1>1, <1>3, NoFirstException
<1>5. QED
  BY <1>4

\* The library's function is its last value.
LEMMA FlattenIsChain ==
  ASSUME NEW seqs, NEW n \in Nat \ {0}, Len(seqs) = n
  PROVE  \E f : Chain(f, seqs, n) /\ Seqs!FlattenSeq(seqs) = f[n]
<1> DEFINE f == CHOOSE f : f = [i \in 1 .. n |-> IF i = 1 THEN seqs[i] ELSE f[i - 1] \o seqs[i]]
<1>1. Seqs!FlattenSeq(seqs) = f[n]
  BY DEF Seqs!FlattenSeq
<1>2. \E g : g = [i \in 1 .. n |-> IF i = 1 THEN seqs[i] ELSE g[i - 1] \o seqs[i]]
  <2>1. \E g : Chain(g, seqs, n)
    BY ChainExists
  <2>2. QED
    BY <2>1 DEF Chain
<1>3. f = [i \in 1 .. n |-> IF i = 1 THEN seqs[i] ELSE f[i - 1] \o seqs[i]]
  BY <1>2
<1> HIDE DEF f
<1>4. Chain(f, seqs, n)
  BY <1>3 DEF Chain
<1>5. QED
  BY <1>1, <1>4

\* Two increasing sequences, the second all beyond the first.
LEMMA JoinedIncreasing ==
  ASSUME NEW s \in Seq(Int), NEW t \in Seq(Int), Increasing(s), Increasing(t),
         \A a \in Elements(s), b \in Elements(t) : a < b
  PROVE  /\ s \o t \in Seq(Int) /\ Increasing(s \o t)
         /\ Elements(s \o t) = Elements(s) \union Elements(t)
<1>1. /\ s \o t \in Seq(Int) /\ Len(s \o t) = Len(s) + Len(t)
      /\ Len(s) \in Nat /\ Len(t) \in Nat
      /\ DOMAIN s = 1 .. Len(s) /\ DOMAIN t = 1 .. Len(t)
      /\ DOMAIN (s \o t) = 1 .. Len(s) + Len(t)
  OBVIOUS
<1>2. \A k \in 1 .. Len(s) + Len(t) :
        (s \o t)[k] = IF k <= Len(s) THEN s[k] ELSE t[k - Len(s)]
  OBVIOUS
<1> DEFINE u == s \o t
<1>3. ASSUME NEW k \in 1 .. Len(s) + Len(t), NEW l \in 1 .. Len(s) + Len(t), k < l
      PROVE  u[k] < u[l]
  <2>1. CASE l <= Len(s)
    <3>1. k \in 1 .. Len(s) /\ l \in 1 .. Len(s) /\ u[k] = s[k] /\ u[l] = s[l]
      BY <1>1, <1>2, <1>3, <2>1
    <3>2. QED
      BY <1>3, <3>1 DEF Increasing
  <2>2. CASE k <= Len(s) /\ l > Len(s)
    <3>1. k \in DOMAIN s /\ l - Len(s) \in DOMAIN t /\ u[k] = s[k] /\ u[l] = t[l - Len(s)]
      BY <1>1, <1>2, <1>3, <2>2
    <3>2. QED
      BY <3>1 DEF Elements
  <2>3. CASE k > Len(s)
    <3>1. /\ k - Len(s) \in 1 .. Len(t) /\ l - Len(s) \in 1 .. Len(t)
          /\ k - Len(s) < l - Len(s)
      BY <1>1, <1>3, <2>3
    <3>2. u[k] = t[k - Len(s)] /\ u[l] = t[l - Len(s)]
      BY <1>1, <1>2, <1>3, <2>3
    <3>3. QED
      BY <3>1, <3>2 DEF Increasing
  <2>4. QED
    BY <1>1, <2>1, <2>2, <2>3
<1>4. Elements(u) = Elements(s) \union Elements(t)
  <2>1. ASSUME NEW k \in 1 .. Len(s) + Len(t)
        PROVE  u[k] \in Elements(s) \union Elements(t)
    <3>1. CASE k <= Len(s)
      <4>1. k \in DOMAIN s /\ u[k] = s[k]
        BY <1>1, <1>2, <3>1
      <4>2. QED
        BY <4>1 DEF Elements
    <3>2. CASE k > Len(s)
      <4>1. k - Len(s) \in DOMAIN t /\ u[k] = t[k - Len(s)]
        BY <1>1, <1>2, <3>2
      <4>2. QED
        BY <4>1 DEF Elements
    <3>3. QED
      BY <1>1, <3>1, <3>2
  <2>2. ASSUME NEW k \in DOMAIN s PROVE s[k] \in Elements(u)
    <3>1. k \in DOMAIN u /\ u[k] = s[k]
      BY <1>1, <1>2
    <3>2. QED
      BY <3>1 DEF Elements
  <2>3. ASSUME NEW k \in DOMAIN t PROVE t[k] \in Elements(u)
    <3>1. k + Len(s) \in DOMAIN u /\ (k + Len(s)) - Len(s) = k /\ ~ (k + Len(s) <= Len(s))
      BY <1>1
    <3>2. u[k + Len(s)] = t[k]
      BY <1>1, <1>2, <3>1
    <3>3. QED
      BY <3>1, <3>2 DEF Elements
  <2>4. QED
    BY <1>1, <2>1, <2>2, <2>3 DEF Elements
<1>5. QED
  BY <1>1, <1>3, <1>4 DEF Increasing

\* Increasing sequences that lie one behind the other, put together.
LEMMA FlattenedInOrder ==
  ASSUME NEW seqs, NEW n \in Nat \ {0}, Len(seqs) = n,
         \A i \in 1 .. n : seqs[i] \in Seq(Int) /\ Increasing(seqs[i]),
         \A i, j \in 1 .. n : i < j =>
           \A a \in Elements(seqs[i]), b \in Elements(seqs[j]) : a < b
  PROVE  /\ Seqs!FlattenSeq(seqs) \in Seq(Int)
         /\ Increasing(Seqs!FlattenSeq(seqs))
         /\ Elements(Seqs!FlattenSeq(seqs)) = UNION {Elements(seqs[i]) : i \in 1 .. n}
<1>1. PICK f : Chain(f, seqs, n) /\ Seqs!FlattenSeq(seqs) = f[n]
  BY FlattenIsChain
<1> DEFINE Good(m) == /\ f[m] \in Seq(Int) /\ Increasing(f[m])
                      /\ Elements(f[m]) = UNION {Elements(seqs[i]) : i \in 1 .. m}
           Bad == {m \in Nat : m \in 1 .. n /\ ~ Good(m)}
<1>2. \A i \in 1 .. n : f[i] = IF i = 1 THEN seqs[i] ELSE f[i - 1] \o seqs[i]
  BY <1>1 DEF Chain
<1>3. Good(1)
  <2>1. 1 \in 1 .. n /\ 1 .. 1 = {1}
    OBVIOUS
  <2>2. f[1] = seqs[1]
    BY <1>2, <2>1
  <2>3. UNION {Elements(seqs[i]) : i \in 1 .. 1} = Elements(seqs[1])
    BY <2>1
  <2>4. QED
    BY <2>1, <2>2, <2>3
<1>4. ASSUME NEW m \in Nat \ {0}, m + 1 \in 1 .. n, Good(m) PROVE Good(m + 1)
  <2>1. f[m + 1] = f[m] \o seqs[m + 1]
    <3>1. m + 1 # 1 /\ (m + 1) - 1 = m
      BY <1>4
    <3>2. QED
      BY <1>2, <1>4, <3>1
  <2>2. \A a \in Elements(f[m]), b \in Elements(seqs[m + 1]) : a < b
    <3>1. SUFFICES ASSUME NEW a \in Elements(f[m]), NEW b \in Elements(seqs[m + 1]) PROVE a < b
      OBVIOUS
    <3>2. PICK i \in 1 .. m : a \in Elements(seqs[i])
      BY <1>4, <3>1
    <3>3. i \in 1 .. n /\ i < m + 1
      BY <1>4
    <3>4. QED
      BY <1>4, <3>1, <3>2, <3>3
  <2>3. seqs[m + 1] \in Seq(Int) /\ Increasing(seqs[m + 1])
    BY <1>4
  <2>4. /\ f[m + 1] \in Seq(Int) /\ Increasing(f[m + 1])
        /\ Elements(f[m + 1]) = Elements(f[m]) \union Elements(seqs[m + 1])
    BY <1>4, <2>1, <2>2, <2>3, JoinedIncreasing
  <2>5. 1 .. m + 1 = (1 .. m) \union {m + 1}
    BY <1>4
  <2>6. UNION {Elements(seqs[i]) : i \in 1 .. m + 1}
          = (UNION {Elements(seqs[i]) : i \in 1 .. m}) \union Elements(seqs[m + 1])
    <3>1. {Elements(seqs[i]) : i \in 1 .. m + 1}
            = {Elements(seqs[i]) : i \in 1 .. m} \union {Elements(seqs[m + 1])}
      BY <2>5
    <3>2. \A A, x : UNION (A \union {x}) = (UNION A) \union x
      OBVIOUS
    <3> HIDE DEF Good
    <3>3. QED
      BY <3>1, <3>2
  <2>7. QED
    BY <1>4, <2>4, <2>6
<1> HIDE DEF Good
<1>5. Bad \in SUBSET Nat /\ 0 \notin Bad
  OBVIOUS
<1>6. ASSUME NEW m \in Nat, m + 1 \in Bad PROVE m \in Bad
  <2>1. m # 0
    BY <1>3, <1>6
  <2>2. m \in 1 .. n /\ m + 1 \in 1 .. n
    BY <1>6, <2>1
  <2>3. QED
    BY <1>4, <1>6, <2>1, <2>2
<1>7. Bad = {}
  <2> HIDE DEF Bad
  <2> QED
    BY <1>5, <1>6, NoFirstException
<1>8. Good(n)
  <2>1. n \in 1 .. n
    BY <1>1
  <2>2. QED
    BY <1>7, <2>1
<1>9. QED
  BY <1>1, <1>8 DEF Good

\* An increasing sequence has as many elements as it is long.
LEMMA IncreasingCounts ==
  ASSUME NEW s \in Seq(Int), Increasing(s)
  PROVE  Cardinality(Elements(s)) = Len(s)
<1>1. Len(s) \in Nat /\ DOMAIN s = 1 .. Len(s) /\ \A k \in 1 .. Len(s) : s[k] \in Int
  OBVIOUS
<1>2. s \in [1 .. Len(s) -> Elements(s)]
  BY <1>1 DEF Elements
<1>3. \A k, l \in 1 .. Len(s) : s[k] = s[l] => k = l
  <2>1. SUFFICES ASSUME NEW k \in 1 .. Len(s), NEW l \in 1 .. Len(s), s[k] = s[l], k # l
                 PROVE  FALSE
    OBVIOUS
  <2>2. k < l \/ l < k
    BY <1>1, <2>1
  <2>3. s[k] < s[l] \/ s[l] < s[k]
    BY <2>2 DEF Increasing
  <2>4. QED
    BY <1>1, <2>1, <2>3
<1>4. \A x \in Elements(s) : \E k \in 1 .. Len(s) : s[k] = x
  BY <1>1 DEF Elements
<1>5. s \in Bijection(1 .. Len(s), Elements(s))
  BY <1>2, <1>3, <1>4 DEF Bijection, Injection, Surjection, IsInjective
<1>6. ExistsBijection(1 .. Len(s), Elements(s))
  BY <1>5 DEF ExistsBijection
<1>7. QED
  BY <1>1, <1>6, FS_CountingElements

\* What remains of a division is less than the divisor.
LEMMA Quotient ==
  ASSUME NEW a \in Nat, NEW s \in Nat \ {0}
  PROVE  a \div s \in Nat /\ (a \div s) * s <= a /\ a < (a \div s) * s + s
  BY SMT

\* The points of a shard are the steps Prometheus takes in it.
LEMMA PointsAreSteps ==
  ASSUME NEW from \in Int, NEW to \in Int, from <= to, NEW s \in Nat \ {0}, NEW points,
         points = [n \in 1 .. (to - from) \div s + 1 |-> from + (n - 1) * s]
  PROVE  points \in Seq(Int) /\ Increasing(points) /\ Elements(points) = Steps(from, to, s)
<1> DEFINE q == (to - from) \div s
<1>1. q \in Nat /\ q * s <= to - from /\ to - from < q * s + s /\ to - from \in Nat
  <2>1. to - from \in Nat
    OBVIOUS
  <2>2. QED
    BY <2>1, Quotient
<1> HIDE DEF q
<1>2. points = [n \in 1 .. q + 1 |-> from + (n - 1) * s]
  BY DEF q
<1>3. \A n \in 1 .. q + 1 : n - 1 \in Nat /\ (n - 1) * s \in Int /\ from + (n - 1) * s \in Int
  BY <1>1, SMT
<1>4. points \in Seq(Int) /\ Len(points) = q + 1 /\ DOMAIN points = 1 .. q + 1
  BY <1>1, <1>2, <1>3
<1>5. Increasing(points)
  <2>1. SUFFICES ASSUME NEW k \in 1 .. q + 1, NEW l \in 1 .. q + 1, k < l
                 PROVE  points[k] < points[l]
    BY <1>4 DEF Increasing
  <2>2. PICK d \in Nat \ {0} : l - 1 = (k - 1) + d
    <3>1. l - k \in Nat \ {0} /\ l - 1 = (k - 1) + (l - k)
      BY <1>1, <2>1
    <3>2. QED
      BY <3>1
  <2>3. ((k - 1) + d) * s = (k - 1) * s + d * s /\ d * s \in Int
    BY <1>1, SMT
  <2>4. d <= d * s
    BY AtMostItsSteps
  <2>5. points[k] = from + (k - 1) * s /\ points[l] = from + (l - 1) * s
    BY <1>2
  <2>6. (k - 1) * s < (l - 1) * s
    <3>1. (k - 1) * s \in Int
      BY <1>3
    <3>2. QED
      BY <2>2, <2>3, <2>4, <3>1
  <2>7. (k - 1) * s \in Int /\ (l - 1) * s \in Int
    BY <1>3
  <2>8. from + (k - 1) * s < from + (l - 1) * s
    <3> DEFINE x == (k - 1) * s
               y == (l - 1) * s
    <3>1. x \in Int /\ y \in Int /\ x < y
      BY <2>6, <2>7
    <3> HIDE DEF x, y
    <3>2. from + x < from + y
      BY <3>1
    <3>3. QED
      BY <3>2 DEF x, y
  <2>9. QED
    BY <2>5, <2>8
<1>6. ASSUME NEW n \in 1 .. q + 1
      PROVE  from + (n - 1) * s \in Steps(from, to, s)
  <2>1. PICK d \in Nat : q = (n - 1) + d
    <3>1. q - (n - 1) \in Nat /\ q = (n - 1) + (q - (n - 1))
      BY <1>1
    <3>2. QED
      BY <3>1
  <2>2. ((n - 1) + d) * s = (n - 1) * s + d * s /\ d * s \in Nat /\ (n - 1) * s \in Nat
    BY <1>1, <1>3, SMT
  <2>3. (n - 1) * s <= to - from
    BY <1>1, <2>1, <2>2
  <2>4. n - 1 <= (n - 1) * s
    BY <1>3, AtMostItsSteps
  <2>5. n - 1 \in 0 .. to - from
    BY <1>1, <1>3, <2>2, <2>3, <2>4
  <2>6. from + (n - 1) * s \in from .. to
    BY <2>2, <2>3
  <2>7. QED
    BY <2>5, <2>6 DEF Steps
<1>7. ASSUME NEW t \in Steps(from, to, s)
      PROVE  \E n \in 1 .. q + 1 : t = from + (n - 1) * s
  <2>1. t \in from .. to
    BY DEF Steps
  <2>2. PICK k \in 0 .. (to - from) : t = from + k * s
    BY DEF Steps
  <2>3. k \in Nat /\ k * s \in Int /\ q * s \in Int
    BY <1>1, SMT
  <2>4. k * s < q * s + s
    <3> DEFINE x == k * s
               y == q * s
    <3>1. x \in Int /\ y \in Int /\ t = from + x /\ t <= to /\ to - from < y + s
      BY <1>1, <2>1, <2>2, <2>3
    <3> HIDE DEF x, y
    <3>2. x < y + s
      BY <2>1, <3>1
    <3>3. QED
      BY <3>2 DEF x, y
  <2>5. k <= q
    BY <1>1, <2>3, <2>4, Monotone
  <2>6. k + 1 \in 1 .. q + 1 /\ (k + 1) - 1 = k
    BY <1>1, <2>3, <2>5
  <2>7. QED
    BY <2>2, <2>6
<1>8. Elements(points) = Steps(from, to, s)
  <2>1. \A n \in 1 .. q + 1 : points[n] = from + (n - 1) * s
    BY <1>2
  <2>2. Elements(points) = {from + (n - 1) * s : n \in 1 .. q + 1}
    BY <1>4, <2>1 DEF Elements
  <2>3. Elements(points) \subseteq Steps(from, to, s)
    BY <1>6, <2>2
  <2>4. Steps(from, to, s) \subseteq Elements(points)
    BY <1>7, <2>2
  <2>5. QED
    BY <2>3, <2>4
<1>9. QED
  BY <1>4, <1>5, <1>8

-----------------------------------------------------------------------------
(***************************************************************************)
(* The answer to a range.  All shards agree on what lasts: a pod that is   *)
(* asked for is in each of them or in none, and so is a series that was    *)
(* there all the time.                                                     *)
(***************************************************************************)
LastingOf(pq) == IF pq.series # Nil THEN {pq.series} \ DOMAIN Usage ELSE PodsOf(pq)

\* An arrival that is not an error is of a shard with points.
IsWhole(arrival) ==
  arrival.streams # Nil =>
    /\ shards[arrival.index].start <= shards[arrival.index].end
    /\ \A label \in steady \union DOMAIN Usage :
         label \in arrival.streams <=> label \in LastingOf(promQuery)

WholeInv ==
  /\ series \subseteq AllSeries
  /\ qpc # "idle" => steady \subseteq series
  /\ qpc = "ask" => query.range = Nil
  /\ qpc \in {"shard", "gather"} => query.range \in Ranges /\ range = query.range
  /\ qpc = "gather" => \A n \in DOMAIN arrived : IsWhole(arrived[n])
  /\ RangeAnswerWhole

\* What one shard has of a label is in the order of time, between its start and its end.
LEMMA ShardHasItsPoints ==
  ASSUME ShardInv, range \in Ranges, NEW i \in DOMAIN shards, shards[i].start <= shards[i].end
  PROVE  /\ PointsOf(i) \in Seq(Int) /\ Increasing(PointsOf(i))
         /\ Elements(PointsOf(i)) = ShardSteps(i)
<1>1. shards[i].start \in Int /\ shards[i].end \in Int /\ range.step \in Nat \ {0}
  <2>1. shards[i] \in Shards
    BY DEF ShardInv, ShardTypeOK
  <2>2. QED
    BY <2>1, RangesAssumption DEF Shards
<1>2. QED
  BY <1>1, PointsAreSteps DEF PointsOf, ShardSteps

\* Each result is that of its shard.
LEMMA ResultsInOrder ==
  ASSUME WholeInv, GatherInv, qpc = "gather", asking = {}, NoneFailed, NEW i \in DOMAIN shards
  PROVE  /\ InOrder[i].index = i
         /\ shards[i].start <= shards[i].end
         /\ \A label \in steady \union DOMAIN Usage :
              label \in InOrder[i].streams <=> label \in LastingOf(promQuery)
<1> DEFINE n == CHOOSE n \in DOMAIN arrived : arrived[n].index = i
<1>1. n \in DOMAIN arrived /\ arrived[n].index = i
  <2>1. \E k \in DOMAIN arrived : arrived[k].index = i
    BY DEF GatherInv
  <2>2. QED
    BY <2>1
<1>2. InOrder[i] = arrived[n]
  BY DEF InOrder
<1> HIDE DEF n
<1>3. IsWhole(arrived[n]) /\ arrived[n].streams # Nil
  BY <1>1 DEF WholeInv, NoneFailed
<1>4. QED
  BY <1>1, <1>2, <1>3 DEF IsWhole

\* The merged points of a label.
LEMMA MergedIsWhole ==
  ASSUME WholeInv, ShardInv, EachStepOnce, GatherInv, complete,
         qpc = "gather", asking = {}, NoneFailed, NEW label \in DOMAIN Merged
  PROVE  LET r == query.range IN
         /\ IsIncreasing(Merged[label])
         /\ \A n \in DOMAIN Merged[label] : Merged[label][n] \in Steps(r.start, r.end, r.step)
         /\ label \in steady \union DOMAIN Usage =>
              Len(Merged[label]) = Cardinality(Steps(r.start, r.end, r.step))
<1> DEFINE seqs == [n \in DOMAIN InOrder |->
                      IF label \in InOrder[n].streams THEN PointsOf(InOrder[n].index) ELSE <<>>]
           len == Len(shards)
           merged == Seqs!FlattenSeq(seqs)
           all == Steps(range.start, range.end, range.step)
<1>1. /\ range = query.range /\ range \in Ranges /\ range # Nil
      /\ range.start \in Int /\ range.end \in Int /\ range.step \in Nat \ {0}
  BY RangesAssumption DEF WholeInv
<1>2. /\ shards \in Seq(Shards) /\ len \in Nat /\ DOMAIN shards = 1 .. len
      /\ DOMAIN InOrder = 1 .. len
  BY DEF ShardInv, ShardTypeOK, InOrder
<1>3. Merged[label] = merged /\ \E i \in 1 .. len : label \in InOrder[i].streams
  BY <1>2 DEF Merged
<1>4. len \in Nat \ {0}
  BY <1>2, <1>3
<1>5. ASSUME NEW i \in 1 .. len
      PROVE  /\ seqs[i] = IF label \in InOrder[i].streams THEN PointsOf(i) ELSE <<>>
             /\ seqs[i] \in Seq(Int) /\ Increasing(seqs[i])
             /\ Elements(seqs[i])
                  = IF label \in InOrder[i].streams THEN ShardSteps(i) ELSE {}
  <2>1. InOrder[i].index = i /\ shards[i].start <= shards[i].end
    BY <1>2, ResultsInOrder
  <2>2. seqs[i] = IF label \in InOrder[i].streams THEN PointsOf(i) ELSE <<>>
    BY <1>2, <2>1
  <2>3. /\ PointsOf(i) \in Seq(Int) /\ Increasing(PointsOf(i))
        /\ Elements(PointsOf(i)) = ShardSteps(i)
    BY <1>1, <1>2, <2>1, ShardHasItsPoints
  <2>4. <<>> \in Seq(Int) /\ Increasing(<<>>) /\ Elements(<<>>) = {}
    BY DEF Increasing, Elements
  <2> HIDE DEF seqs
  <2>5. QED
    BY <2>2, <2>3, <2>4
<1>6. Len(seqs) = len
  <2>1. seqs \in [1 .. len -> Seq(Int)]
    <3>1. seqs = [i \in 1 .. len |-> seqs[i]]
      BY <1>2
    <3> HIDE DEF seqs
    <3>2. QED
      BY <1>5, <3>1
  <2>2. seqs \in Seq(Seq(Int))
    <3> HIDE DEF seqs
    <3> QED
      BY <1>4, <2>1
  <2> HIDE DEF seqs
  <2>3. QED
    BY <1>4, <2>1, <2>2
<1>7. ASSUME NEW i \in 1 .. len, NEW x \in ShardSteps(i)
      PROVE  x \in Int /\ shards[i].start <= x /\ x <= shards[i].end /\ x \in all
  <2>1. shards[i] \in Shards
    BY <1>2
  <2>2. x \in shards[i].start .. shards[i].end /\ shards[i].start \in Int /\ shards[i].end \in Int
    BY <2>1 DEF ShardSteps, Steps, Shards
  <2>3. range.start <= shards[i].start /\ shards[i].end <= range.end
    BY <1>1, <1>2 DEF EachStepOnce
  <2>4. x \in range.start .. range.end
    BY <1>1, <2>2, <2>3
  <2>5. x \in all
    BY <1>1, <1>2, <2>4 DEF EachStepOnce
  <2>6. QED
    BY <2>2, <2>5
<1> HIDE DEF seqs, len, all
<1>8. ASSUME NEW i \in 1 .. len, NEW j \in 1 .. len, i < j,
             NEW a \in Elements(seqs[i]), NEW b \in Elements(seqs[j])
      PROVE  a < b
  <2>1. a \in ShardSteps(i) /\ b \in ShardSteps(j)
    <3>1. Elements(seqs[i]) \in {ShardSteps(i), {}} /\ Elements(seqs[j]) \in {ShardSteps(j), {}}
      BY <1>5
    <3>2. QED
      BY <1>8, <3>1
  <2>2. a \in Int /\ b \in Int /\ a <= shards[i].end /\ shards[j].start <= b
    BY <1>7, <2>1
  <2>3. shards[i].end < shards[j].start
    BY <1>1, <1>2, <1>8 DEF EachStepOnce
  <2>4. shards[i] \in Shards /\ shards[j] \in Shards
    BY <1>2
  <2>5. shards[i].end \in Int /\ shards[j].start \in Int
    BY <2>4 DEF Shards
  <2>6. QED
    BY <2>2, <2>3, <2>5
<1>9. /\ merged \in Seq(Int) /\ Increasing(merged)
      /\ Elements(merged) = UNION {Elements(seqs[i]) : i \in 1 .. len}
  BY <1>4, <1>5, <1>6, <1>8, FlattenedInOrder
<1> HIDE DEF merged
<1>10. IsIncreasing(merged)
  <2>1. \A n \in 1 .. Len(merged) - 1 : n \in 1 .. Len(merged) /\ n + 1 \in 1 .. Len(merged) /\ n < n + 1
    BY <1>9
  <2>2. QED
    BY <1>9, <2>1 DEF Increasing, IsIncreasing
<1>11. Elements(merged) \subseteq all
  BY <1>5, <1>7, <1>9
<1>12. ASSUME label \in steady \union DOMAIN Usage
       PROVE  Len(merged) = Cardinality(all)
  <2>1. label \in LastingOf(promQuery)
    BY <1>2, <1>3, <1>12, ResultsInOrder
  <2>2. \A i \in 1 .. len : Elements(seqs[i]) = ShardSteps(i)
    BY <1>2, <1>5, <1>12, <2>1, ResultsInOrder
  <2>3. all \subseteq Elements(merged)
    <3>1. SUFFICES ASSUME NEW t \in all PROVE t \in Elements(merged)
      OBVIOUS
    <3>2. t \in range.start .. range.end /\ t \in Steps(range.start, range.end, range.step)
      BY DEF Steps, all
    <3>3. PICK i \in 1 .. len : t \in ShardSteps(i)
      BY <1>1, <1>2, <3>2 DEF EachStepOnce
    <3>4. QED
      BY <1>9, <2>2, <3>3
  <2>4. Elements(merged) = all
    BY <1>11, <2>3
  <2>5. QED
    BY <1>9, <2>4, IncreasingCounts
<1>13. \A n \in DOMAIN merged : merged[n] \in all
  BY <1>11 DEF Elements
<1>14. QED
  BY <1>1, <1>3, <1>10, <1>12, <1>13 DEF all

\* What leaves the query alone.
LEMMA AsideKeepsWhole ==
  ASSUME WholeInv, UNCHANGED <<qpc, query, promQuery, arrived, reply, shards, range, steady, series>>
  PROVE  WholeInv'
  BY DEF WholeInv, IsWhole, LastingOf, PodsOf, HasContainer, RangeAnswerWhole, Answers

\* Less lasts when the series change.
LEMMA SeriesChangeKeepsWhole ==
  ASSUME WholeInv, NEW new \in SeriesSets, SeriesChange(new)
  PROVE  WholeInv'
<1>1. /\ UNCHANGED <<qpc, query, promQuery, arrived, reply, shards, range>>
      /\ series' = new
      /\ steady' = IF qpc = "idle" THEN steady ELSE steady \intersect new
  BY DEF SeriesChange, shardVars
<1>2. series' \subseteq AllSeries
  BY <1>1 DEF AllSeries
<1>3. qpc' # "idle" => steady' \subseteq series'
  BY <1>1
<1>4. ASSUME NEW n \in DOMAIN arrived, IsWhole(arrived[n])
      PROVE  IsWhole(arrived[n])'
  <2>1. steady' \subseteq steady
    BY <1>1
  <2>2. LastingOf(promQuery)' = LastingOf(promQuery)
    BY <1>1 DEF LastingOf, PodsOf, HasContainer
  <2>3. QED
    BY <1>1, <1>4, <2>1, <2>2 DEF IsWhole
<1>5. RangeAnswerWhole'
  BY <1>1 DEF WholeInv, RangeAnswerWhole, Answers
<1>6. QED
  BY <1>1, <1>2, <1>3, <1>4, <1>5 DEF WholeInv

\* A reply that is whole if it is one to a range.
WholeReply(result) ==
  LET r == query.range IN
  r # Nil /\ result # Nil =>
    \A label \in DOMAIN result :
      /\ IsIncreasing(result[label])
      /\ \A n \in DOMAIN result[label] : result[label][n] \in Steps(r.start, r.end, r.step)
      /\ label \in steady \union DOMAIN Usage =>
           Len(result[label]) = Cardinality(Steps(r.start, r.end, r.step))

\* What ends it.
LEMMA ReplyKeepsWhole ==
  ASSUME WholeInv, NEW result, Reply(result), WholeReply(result), UNCHANGED series
  PROVE  WholeInv'
<1>1. qpc' = "idle" /\ reply' = result /\ UNCHANGED <<query, steady>>
  BY DEF Reply
<1>2. RangeAnswerWhole'
  BY <1>1 DEF RangeAnswerWhole, Answers, WholeReply
<1>3. QED
  BY <1>1, <1>2 DEF WholeInv

\* What begins it.
LEMMA AskKeepsWhole ==
  ASSUME WholeInv, NEW q, Ask(q), UNCHANGED series
  PROVE  WholeInv'
  BY DEF WholeInv, Ask, RangeAnswerWhole, Answers

\* A request begins one, or is refused at once.
LEMMA RequestKeepsWhole ==
  ASSUME WholeInv, NEW r \in Requests, Request(r)
  PROVE  WholeInv'
<1>1. CASE Converted(r) = Nil
  <2>1. qpc' = "idle" /\ reply' = Nil /\ series' = series
    BY <1>1 DEF Request
  <2>2. QED
    BY <2>1 DEF WholeInv, RangeAnswerWhole, Answers
<1>2. CASE Converted(r) # Nil
  BY <1>2, AskKeepsWhole DEF Request
<1>3. QED
  BY <1>1, <1>2

\* Only a range is cut into shards, and nothing has arrived before the last of them is cut.
LEMMA BuildKeepsWhole ==
  ASSUME WholeInv, QueryInv, BuildLatest \/ BuildRange \/ Shard
  PROVE  WholeInv'
<1>1. CASE BuildLatest
  BY <1>1 DEF BuildLatest, WholeInv, RangeAnswerWhole, Answers
<1>2. CASE BuildRange
  <2>1. query.range \in Ranges
    BY <1>2 DEF BuildRange, QueryInv, SomeRange
  <2>2. UNCHANGED <<query, series, steady>> /\ qpc # "idle" /\ qpc' = "shard" /\ range' = query.range
    BY <1>2 DEF BuildRange, BeginSharding
  <2>3. QED
    BY <2>1, <2>2 DEF WholeInv, RangeAnswerWhole, Answers
<1>3. CASE Shard
  <2>1. /\ UNCHANGED <<query, series, steady, range>> /\ qpc = "shard" /\ qpc' \in {"shard", "gather"}
        /\ arrived' = <<>>
    BY <1>3 DEF Shard, AddShard
  <2>2. DOMAIN arrived' = {}
    BY <2>1
  <2>3. QED
    BY <2>1, <2>2 DEF WholeInv, RangeAnswerWhole, Answers
<1>4. QED
  BY <1>1, <1>2, <1>3

\* What Prometheus answers has what lasts.
LEMMA StreamsLast ==
  ASSUME WholeInv, qpc = "gather", NEW label \in steady \union DOMAIN Usage
  PROVE  label \in Streams(promQuery) <=> label \in LastingOf(promQuery)
<1>1. steady \subseteq series /\ series \intersect DOMAIN Usage = {}
  BY LabelsAssumption DEF WholeInv, AllSeries
<1>2. QED
  BY <1>1 DEF Streams, LastingOf, PodsOf

\* What arrives is an error or the answer to a shard that has points.
LEMMA ArrivalKeepsWhole ==
  ASSUME WholeInv, GatherInv, NEW i \in asking, ShardAnswered(i) \/ ShardRefused(i) \/ ShardFails(i)
  PROVE  WholeInv'
<1>1. PICK streams : /\ ShardArrives(i, streams)
                     /\ streams # Nil =>
                          /\ streams = Streams(promQuery)
                          /\ shards[i].start <= shards[i].end
  BY DEF ShardAnswered, ShardRefused, ShardFails
<1> DEFINE Arrival == [index : DOMAIN shards, streams : AnswersOf(query)]
           new == [index |-> i, streams |-> streams]
<1>2. /\ UNCHANGED <<series, qpc, query, promQuery, shards, range, steady, reply>> /\ qpc = "gather"
      /\ arrived' = Append(arrived, new)
  BY <1>1 DEF ShardArrives, shardVars
<1>3. IsWhole(new)
  <2>1. new.index = i /\ new.streams = streams
    OBVIOUS
  <2> HIDE DEF new
  <2>2. QED
    BY <1>1, <1>2, <2>1, StreamsLast DEF IsWhole
<1>4. arrived \in Seq(Arrival)
  BY DEF GatherInv
<1>5. ASSUME NEW n \in DOMAIN arrived' PROVE IsWhole(arrived'[n])
  <2>1. \/ n \in DOMAIN arrived /\ arrived'[n] = arrived[n]
        \/ arrived'[n] = new
    <3> HIDE DEF Arrival, new
    <3> QED
      BY <1>2, <1>4, <1>5
  <2>2. \A k \in DOMAIN arrived : IsWhole(arrived[k])
    BY <1>2 DEF WholeInv
  <2> HIDE DEF new
  <2>3. QED
    BY <1>3, <2>1, <2>2
<1>6. ASSUME NEW n \in DOMAIN arrived' PROVE IsWhole(arrived[n])'
  <2>1. IsWhole(arrived'[n])
    BY <1>5, <1>6
  <2>2. QED
    BY <1>2, <2>1 DEF IsWhole, LastingOf, PodsOf, HasContainer
<1>7. QED
  BY <1>2, <1>6 DEF WholeInv, RangeAnswerWhole, Answers

\* The merge is of all shards, and they have each step of the range once.
LEMMA MergeKeepsWhole ==
  ASSUME WholeInv, QueryInv, ShardInv, GatherInv, Merge
  PROVE  WholeInv'
<1>1. qpc = "gather" /\ asking = {} /\ complete /\ EachStepOnce
  BY CoveredOnce DEF Merge, QueryInv
<1>2. NoneFailed => WholeReply(Merged)
  BY <1>1, MergedIsWhole DEF WholeReply
<1>3. WholeReply(Nil)
  BY DEF WholeReply
<1>4. PICK result : Reply(result) /\ result = IF NoneFailed THEN Merged ELSE Nil
  BY DEF Merge
<1>5. WholeReply(result)
  BY <1>2, <1>3, <1>4
<1>6. QED
  BY <1>4, <1>5, ReplyKeepsWhole DEF Merge

\* The steps of a query, one by one.
LEMMA QueryingKeepsWhole ==
  ASSUME WholeInv, QueryInv, ShardInv, AnswerInv, Querying \/ LatestFails \/ \E i \in asking : ShardFails(i)
  PROVE  WholeInv'
<1>1. CASE AskMetricsApi
  <2>1. PICK result : Reply(result) /\ (query.range # Nil => result = Nil)
    BY <1>1 DEF AskMetricsApi
  <2>2. WholeReply(result)
    BY <2>1 DEF WholeReply
  <2>3. QED
    BY <1>1, <2>1, <2>2, ReplyKeepsWhole DEF AskMetricsApi
<1>2. CASE BuildFails \/ LatestFails
  <2>1. WholeReply(Nil)
    BY DEF WholeReply
  <2>2. QED
    BY <1>2, <2>1, ReplyKeepsWhole DEF BuildFails, LatestFails
<1>3. CASE BuildLatest \/ BuildRange \/ Shard
  BY <1>3, BuildKeepsWhole
<1>4. CASE AskLatest
  <2>1. PICK result : Reply(result)
    BY <1>4 DEF AskLatest
  <2>2. WholeReply(result)
    BY <1>4 DEF AskLatest, WholeInv, WholeReply
  <2>3. QED
    BY <1>4, <2>1, <2>2, ReplyKeepsWhole DEF AskLatest
<1>5. CASE Merge
  BY <1>5, MergeKeepsWhole DEF AnswerInv, Merge
<1>6. CASE \E i \in asking : ShardAnswered(i) \/ ShardRefused(i) \/ ShardFails(i)
  <2>1. PICK i \in asking : ShardAnswered(i) \/ ShardRefused(i) \/ ShardFails(i)
    BY <1>6
  <2>2. GatherInv
    BY <2>1 DEF ShardAnswered, ShardRefused, ShardFails, ShardArrives, AnswerInv
  <2>3. QED
    BY <2>1, <2>2, ArrivalKeepsWhole
<1>7. QED
  BY <1>1, <1>2, <1>3, <1>4, <1>5, <1>6 DEF Querying

\* Every step keeps the invariant.
LEMMA NextKeepsWhole ==
  ASSUME WholeInv, QueryInv, ShardInv, AnswerInv, [Next]_vars
  PROVE  WholeInv'
<1>1. CASE Lister \/ GoroutineGoes \/ OrphanGoes \/ PromRefuses
  BY <1>1, AsideKeepsWhole
     DEF Lister, Relist, ReceiveErr, ReceiveFound, SetSeries, GoroutineGoes, OrphanGoes, PromRefuses,
         queryVars, shardVars
<1>2. CASE \E new \in SeriesSets : SeriesChange(new)
  BY <1>2, SeriesChangeKeepsWhole
<1>3. CASE Querying \/ LatestFails \/ \E i \in asking : ShardFails(i)
  BY <1>3, QueryingKeepsWhole
<1>4. CASE \E r \in Requests : Request(r)
  BY <1>4, RequestKeepsWhole
<1>5. CASE AskMetric
  BY <1>5, AskKeepsWhole DEF AskMetric
<1>6. CASE SkipMetric \/ TakeAnswer \/ Decide \/ \E list \in MetricLists : Generate(list)
  BY <1>6, AsideKeepsWhole DEF SkipMetric, TakeAnswer, Decide, Generate, metricsVars, queryVars, shardVars
<1>7. CASE UNCHANGED vars
  BY <1>7, AsideKeepsWhole DEF vars, metricsVars, queryVars, shardVars
<1>8. QED
  BY <1>1, <1>2, <1>3, <1>4, <1>5, <1>6, <1>7 DEF Next, MetricsNext, Generating

(***************************************************************************)
(* The answer to a range is whole: the results of the shards, merged in    *)
(* their order, whatever order they arrive in, have each step of the range *)
(* once and in its place, for every pod and for every series that was      *)
(* there all the time (Query, promQueryRangeSharding and the merge of its  *)
(* results).                                                               *)
(***************************************************************************)
THEOREM RangeAnswersAreWhole == Spec => []RangeAnswerWhole
<1>1. Init => QueryInv /\ WholeInv
  BY DEF Init, MetricsInit, ShardInit, QueryInv, WholeInv, AllSeries, RangeAnswerWhole, Answers
<1>2. QueryInv /\ [Next]_vars => QueryInv'
  BY NextKeeps DEF Keeps
<1>3. Spec => []QueryInv
  BY <1>1, <1>2, PTL DEF Spec
<1>4. Spec => []ShardInv
  BY MetricsImplementShards, ShardInvHolds, PTL
<1>5. WholeInv /\ QueryInv /\ ShardInv /\ AnswerInv /\ [Next]_vars => WholeInv'
  BY NextKeepsWhole
<1>6. WholeInv => RangeAnswerWhole
  BY DEF WholeInv
<1>7. QED
  BY <1>1, <1>3, <1>4, <1>5, <1>6, AnswersAlways, PTL DEF Spec
================================================================================
