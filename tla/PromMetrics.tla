------------------------------ MODULE PromMetrics ------------------------------
(***************************************************************************)
(* The metric provider that asks Prometheus.  A lister finds out, every    *)
(* relist interval, which series there are and what metrics they are, and  *)
(* keeps that in two registries.  Queries for the latest samples, and for  *)
(* a range of time, are made into Prometheus queries with the help of the  *)
(* registries.  Everything that asks Prometheus runs in goroutines.        *)
(*                                                                         *)
(* Here Prometheus is the set of series it has, which changes; the names   *)
(* of pods and of series stand for the samples that carry them.            *)
(***************************************************************************)
EXTENDS RangeShards, FiniteSets

Seqs == INSTANCE SequencesExt

CONSTANTS
  Providers,       \* the metric providers that are tried: "prometheus", "metrics-api"
  SeriesSets,      \* what series Prometheus may have
  Matches,         \* the series each selector of a namer matches
  ObjectNamers,    \* the namers of each registry, in their order: what they select
  ExternalNamers,  \* (selector), keep of that (keeps) and call it (metrics)
  SelectedBy,      \* the pods each label selector selects, "" selects all
  OwnedBy,         \* the pods that the pattern of each workload matches
  Usage,           \* the resources that are measured of each container of each pod
  Ready,           \* the pods that are ready
  Requests,        \* queries the metric service is asked
  MetricsTroubles  \* how often each disturbance may happen: a bound

\* A query of pods has no field for a container.
ASSUME RequestsAssumption ==
  \A r \in Requests :
    /\ {"type", "container", "range"} \subseteq DOMAIN r
    /\ r.range \in Ranges \union {Nil}
    /\ r.type = "PodResource" => r.container = ""

Namers == [object |-> ObjectNamers, external |-> ExternalNamers]
Kinds == DOMAIN Namers

ASSUME NamersAssumption ==
  \A kind \in Kinds :
    Len(Namers[kind]) \in Nat /\ DOMAIN Namers[kind] = 1 .. Len(Namers[kind])

\* The samples of a series and those of a pod carry labels of their own.
ASSUME LabelsAssumption == (UNION SeriesSets) \intersect DOMAIN Usage = {}

VARIABLES
  provider,   \* the metric provider of the manager
  series,     \* the series Prometheus has
  \* the lister
  registry,   \* of each kind: for a metric, its series and the namer that named it
  lister,     \* what it does next
  listing,    \* the listing it is at: its goroutines, and its channels
  orphans,    \* listings it has given up, with goroutines that still run
  \* a query
  qpc,        \* what it does next
  query,      \* what is asked for
  promQuery,  \* the same, for Prometheus: a series, or pods
  asking,     \* the shards that are not answered yet
  arrived,    \* what has arrived in the channel of the shards
  reply,      \* the last result: the points of each label, or Nil for an error
  \* history and bound
  seen, lasting, \* the series there were at some time, and all the time, since the
                 \* listing began
  steady,        \* the series there were all the time since the query began
  misfortune     \* disturbances that may still happen

listerVars == <<registry, lister, listing, orphans, seen, lasting>>
queryVars == <<shardVars, qpc, query, promQuery, asking, arrived, reply, steady>>
metricsVars == <<provider, series, listerVars, queryVars, misfortune>>

MetricsInit ==
  /\ ShardInit
  /\ provider \in Providers
  /\ series \in SeriesSets
  /\ registry = [kind \in Kinds |-> <<>>]
  /\ lister = "idle"
  /\ listing = Nil
  /\ orphans = {}
  /\ qpc = "idle"
  /\ query = Nil
  /\ promQuery = Nil
  /\ asking = {}
  /\ arrived = <<>>
  /\ reply = Nil
  /\ seen = {} /\ lasting = {} /\ steady = {}
  /\ misfortune \in MetricsTroubles

Befalls(kind) ==
  /\ misfortune[kind] > 0
  /\ misfortune' = [misfortune EXCEPT ![kind] = @ - 1]

-----------------------------------------------------------------------------
(***************************************************************************)
(* listAllMetrics.  Each selector is asked for once, in a goroutine; the   *)
(* namers that repeat one are counted at once.  A goroutine sends its      *)
(* error, or that there is none and then its series.                       *)
(***************************************************************************)
Selectors(kind) == {Namers[kind][i].selector : i \in DOMAIN Namers[kind]}
Repeated(kind) == Len(Namers[kind]) - Cardinality(Selectors(kind))

NoSeries == [selector |-> Nil, series |-> {}]

\* A slip: a namer that repeats a selector has no series to send.
FoundAtOnceNothing(kind) == <<>>

FoundAtOnce(kind) == [i \in 1 .. Repeated(kind) |-> NoSeries]

NewListing(kind) ==
  [kind |-> kind,
   asked |-> [s \in Selectors(kind) |-> [state |-> "asked", series |-> {}]],
   errs |-> [i \in 1 .. Repeated(kind) |-> FALSE],
   found |-> FoundAtOnce(kind),
   received |-> 0,
   cached |-> [s \in Selectors(kind) |-> Nil]]

AtState(l, state) == {s \in DOMAIN l.asked : l.asked[s].state = state}

HasRoom(l, channel) == Len(channel) < Len(Namers[l.kind])

\* What a goroutine may make of the listing: its answer arrives, or it sends.
Moves(l) ==
  {[l EXCEPT !.asked[s] = [state |-> "answered", series |-> Matches[s] \intersect series]] :
     s \in AtState(l, "asked")}
  \union
  {[l EXCEPT !.asked[s].state = "done", !.errs = Append(@, TRUE)] :
     s \in {s \in AtState(l, "refused") : HasRoom(l, l.errs)}}
  \union
  {[l EXCEPT !.asked[s].state = "found", !.errs = Append(@, FALSE)] :
     s \in {s \in AtState(l, "answered") : HasRoom(l, l.errs)}}
  \union
  {[l EXCEPT !.asked[s].state = "done",
             !.found = Append(@, [selector |-> s, series |-> l.asked[s].series])] :
     s \in {s \in AtState(l, "found") : HasRoom(l, l.found)}}

Leftover(l) ==
  IF AtState(l, "done") = DOMAIN l.asked THEN {} ELSE {[l EXCEPT !.received = 0, !.cached = <<>>]}

GoroutineGoes ==
  /\ lister # "idle"
  /\ listing' \in Moves(listing)
  /\ UNCHANGED <<provider, series, queryVars, registry, lister, orphans, seen, lasting, misfortune>>

OrphanGoes ==
  /\ \E o \in orphans : \E m \in Moves(o) : orphans' = (orphans \ {o}) \union Leftover(m)
  /\ UNCHANGED <<provider, series, queryVars, registry, lister, listing, seen, lasting, misfortune>>

PromRefuses ==
  /\ lister # "idle"
  /\ \E s \in AtState(listing, "asked") : listing' = [listing EXCEPT !.asked[s].state = "refused"]
  /\ Befalls("failure")
  /\ UNCHANGED <<provider, series, queryVars, registry, lister, orphans, seen, lasting>>

-----------------------------------------------------------------------------
(***************************************************************************)
(* The lister.  After a success it comes back when the relist interval is  *)
(* over, after a failure when the backoff is, which goes on for ever.      *)
(***************************************************************************)
Begin(kind) ==
  /\ lister' = "errs"
  /\ listing' = NewListing(kind)
  /\ seen' = series
  /\ lasting' = series

Stop ==
  /\ lister' = "idle"
  /\ listing' = Nil
  /\ UNCHANGED <<seen, lasting>>

Relist ==
  /\ provider = "prometheus"
  /\ lister = "idle"
  /\ Begin("object")
  /\ UNCHANGED <<provider, series, queryVars, registry, orphans, misfortune>>

Received(l) == l.received = Len(Namers[l.kind])

ReceiveErr ==
  /\ lister = "errs"
  /\ ~ Received(listing)
  /\ listing.errs # <<>>
  /\ IF Head(listing.errs)
     THEN Stop /\ orphans' = orphans \union Leftover([listing EXCEPT !.errs = Tail(@)])
     ELSE /\ lister' = "found"
          /\ listing' = [listing EXCEPT !.errs = Tail(@)]
          /\ UNCHANGED <<orphans, seen, lasting>>
  /\ UNCHANGED <<provider, series, queryVars, registry, misfortune>>

ReceiveFound ==
  /\ lister = "found"
  /\ listing.found # <<>>
  /\ lister' = "errs"
  /\ LET f == Head(listing.found)
     IN listing' = [listing EXCEPT
          !.found = Tail(@),
          !.received = @ + 1,
          !.cached = IF f = NoSeries THEN @ ELSE [@ EXCEPT ![f.selector] = f.series]]
  /\ UNCHANGED <<provider, series, queryVars, registry, orphans, seen, lasting, misfortune>>

(***************************************************************************)
(* SetSeries.  Of several namers that call something the same, the last    *)
(* one has it; of several series of one namer, any.                        *)
(***************************************************************************)
Producers(kind, found, metric) ==
  UNION {{[namer |-> i, series |-> s] :
            s \in {s \in found[Namers[kind][i].selector] \intersect Namers[kind][i].keeps :
                     metric \in Namers[kind][i].metrics[s]}} : i \in DOMAIN Namers[kind]}

Metrics(kind, found) ==
  UNION {UNION {Namers[kind][i].metrics[s] :
                  s \in found[Namers[kind][i].selector] \intersect Namers[kind][i].keeps} :
           i \in DOMAIN Namers[kind]}

LastOf(producers) == {p \in producers : \A other \in producers : other.namer <= p.namer}

RegistriesOf(kind, found) ==
  {r \in [Metrics(kind, found) -> UNION {Producers(kind, found, m) : m \in Metrics(kind, found)}] :
     \A m \in DOMAIN r : r[m] \in LastOf(Producers(kind, found, m))}

\* A slip: what is not listed any more stays.
KeepsUnlisted(kind, new) ==
  [m \in DOMAIN registry[kind] \union DOMAIN new |->
     IF m \in DOMAIN new THEN new[m] ELSE registry[kind][m]]

Replaced(kind, new) == new

SetSeries ==
  /\ lister = "errs"
  /\ Received(listing)
  /\ IF \E s \in DOMAIN listing.cached : listing.cached[s] = Nil
     THEN Stop /\ UNCHANGED registry
     ELSE /\ \E r \in RegistriesOf(listing.kind, listing.cached) :
               registry' = [registry EXCEPT ![listing.kind] = Replaced(listing.kind, r)]
          /\ IF listing.kind = "object" THEN Begin("external") ELSE Stop
  /\ UNCHANGED <<provider, series, queryVars, orphans, misfortune>>

-----------------------------------------------------------------------------
(***************************************************************************)
(* What the metric service makes of a query it is sent: Nil if it cannot   *)
(* parse it.  A selector is only read when there is no name.               *)
(***************************************************************************)
Malformed == "malformed"

OfPods == {"PodResource", "ContainerResource"}
OfWorkload == {"WorkloadResource", "WorkloadContainerResource"}
OfMetric == {"Object", "External", "WorkloadExternal"}

ReadsSelector(q) == q.type \in OfPods \union {"Object"} /\ q.name = ""

Converted(q) ==
  IF \/ q.type \notin OfPods \union OfWorkload \union OfMetric
     \/ ReadsSelector(q) /\ q.selector = Malformed
     \/ q.type \in OfMetric /\ q.metricSelector = Malformed
  THEN Nil
  ELSE [q EXCEPT !.selector = IF ReadsSelector(q) THEN @ ELSE Nil]

(***************************************************************************)
(* What Prometheus is asked for.  Pods are listed in the cache; no pods    *)
(* can be asked for, and nothing that is not registered.                   *)
(***************************************************************************)
Measured == {"cpu", "memory"}

PodNames(q) ==
  IF q.name # "" THEN {q.name} ELSE IF q.selector # Nil THEN SelectedBy[q.selector] ELSE {}

AboutPods(pods, q) == [series |-> Nil, pods |-> pods, resource |-> q.resource, container |-> q.container]

PodQuery(q) ==
  IF q.resource \in Measured /\ PodNames(q) # {} THEN AboutPods(PodNames(q), q) ELSE Nil

WorkloadQuery(q) ==
  IF q.resource \in Measured /\ q.name \in DOMAIN OwnedBy
  THEN AboutPods(IF q.ready THEN OwnedBy[q.name] \intersect Ready ELSE OwnedBy[q.name], q)
  ELSE Nil

SeriesQuery(kind, metric) ==
  IF metric \in DOMAIN registry[kind]
  THEN [series |-> registry[kind][metric].series, pods |-> {}, resource |-> Nil, container |-> ""]
  ELSE Nil

\* A slip: the metrics of objects are looked for in both registries.
ObjectQueryAnywhere(q) ==
  IF PodNames(q) = {} THEN Nil
  ELSE SeriesQuery(IF q.metric \in DOMAIN registry.object THEN "object" ELSE "external", q.metric)

ObjectQuery(q) == IF PodNames(q) = {} THEN Nil ELSE SeriesQuery("object", q.metric)

BuiltQuery(q) ==
  CASE q.type \in OfPods -> PodQuery(q)
    [] q.type \in OfWorkload -> WorkloadQuery(q)
    [] q.type = "Object" -> ObjectQuery(q)
    [] q.type = "External" -> SeriesQuery("external", q.metric)
    [] q.type = "WorkloadExternal" ->
         IF q.name \in DOMAIN OwnedBy THEN SeriesQuery("external", q.metric) ELSE Nil

\* What Prometheus has of it.
HasContainer(pod, resource, container) ==
  \E c \in DOMAIN Usage[pod] : container \in {"", c} /\ resource \in Usage[pod][c]

Streams(pq) ==
  IF pq.series # Nil THEN {pq.series} \intersect series
  ELSE {p \in pq.pods \intersect DOMAIN Usage : HasContainer(p, pq.resource, pq.container)}

(***************************************************************************)
(* The provider that asks the metrics API instead.                         *)
(***************************************************************************)
MetricsApiSamples(q) ==
  LET pods == PodNames(q) \intersect DOMAIN Usage IN
  IF q.type \notin OfPods \/ (q.name # "" /\ pods = {}) THEN Nil
  ELSE IF q.type = "PodResource"
  THEN {p \in pods : DOMAIN Usage[p] # {} /\ \A c \in DOMAIN Usage[p] : q.resource \in Usage[p][c]}
  ELSE IF \E p \in pods : q.container \notin DOMAIN Usage[p] THEN Nil
  ELSE {p \in pods : q.resource \in Usage[p][q.container]}

-----------------------------------------------------------------------------
(***************************************************************************)
(* A query.                                                                *)
(***************************************************************************)
Ask(q) ==
  /\ query' = q
  /\ qpc' = "build"
  /\ steady' = series
  /\ reply' = Nil

Reply(streams) ==
  /\ qpc' = "idle"
  /\ reply' = streams
  /\ promQuery' = Nil
  /\ asking' = {}
  /\ arrived' = <<>>
  /\ UNCHANGED <<query, steady>>

\* A request of the metric service.
Request(r) ==
  /\ qpc = "idle"
  /\ Befalls("request")
  /\ IF Converted(r) = Nil
     THEN /\ query' = r
          /\ reply' = Nil
          /\ UNCHANGED <<qpc, steady>>
     ELSE Ask(Converted(r))
  /\ UNCHANGED <<provider, series, listerVars, shardVars, promQuery, asking, arrived>>

Latest(streams) == [label \in streams |-> <<>>]

AskMetricsApi ==
  /\ qpc = "build"
  /\ provider = "metrics-api"
  /\ LET samples == IF query.range = Nil THEN MetricsApiSamples(query) ELSE Nil
     IN Reply(IF samples = Nil THEN Nil ELSE Latest(samples))
  /\ UNCHANGED <<provider, series, listerVars, shardVars, misfortune>>

BuildFails ==
  /\ qpc = "build"
  /\ provider = "prometheus"
  /\ BuiltQuery(query) = Nil
  /\ Reply(Nil)
  /\ UNCHANGED <<provider, series, listerVars, shardVars, misfortune>>

BuildLatest ==
  /\ qpc = "build"
  /\ provider = "prometheus"
  /\ BuiltQuery(query) # Nil
  /\ query.range = Nil
  /\ promQuery' = BuiltQuery(query)
  /\ qpc' = "ask"
  /\ UNCHANGED <<provider, series, listerVars, shardVars, query, asking, arrived, reply, steady,
                 misfortune>>

BuildRange ==
  /\ qpc = "build"
  /\ provider = "prometheus"
  /\ BuiltQuery(query) # Nil
  /\ query.range # Nil
  /\ promQuery' = BuiltQuery(query)
  /\ BeginSharding(query.range)
  /\ qpc' = "shard"
  /\ UNCHANGED <<provider, series, listerVars, query, asking, arrived, reply, steady, misfortune>>

AskLatest ==
  /\ qpc = "ask"
  /\ Reply(Latest(Streams(promQuery)))
  /\ UNCHANGED <<provider, series, listerVars, shardVars, misfortune>>

LatestFails ==
  /\ qpc = "ask"
  /\ Reply(Nil)
  /\ Befalls("failure")
  /\ UNCHANGED <<provider, series, listerVars, shardVars>>

Shard ==
  /\ qpc = "shard"
  /\ AddShard
  /\ qpc' = IF complete' THEN "gather" ELSE "shard"
  /\ asking' = IF complete' THEN DOMAIN shards' ELSE {}
  /\ arrived' = <<>>
  /\ UNCHANGED <<provider, series, listerVars, query, promQuery, reply, steady, misfortune>>

\* A slip: the goroutine of a shard that failed sends nothing.
ShardArrivesUnlessRefused(i, streams) ==
  /\ qpc = "gather"
  /\ streams # Nil
  /\ asking' = asking \ {i}
  /\ arrived' = Append(arrived, [index |-> i, streams |-> streams])
  /\ UNCHANGED <<provider, series, listerVars, shardVars, qpc, query, promQuery, reply, steady>>

\* The goroutine of a shard.  Prometheus refuses a range that ends before it
\* starts.
ShardArrives(i, streams) ==
  /\ qpc = "gather"
  /\ i \in asking
  /\ asking' = asking \ {i}
  /\ arrived' = Append(arrived, [index |-> i, streams |-> streams])
  /\ UNCHANGED <<provider, series, listerVars, shardVars, qpc, query, promQuery, reply, steady>>

ShardAnswered(i) ==
  /\ shards[i].start <= shards[i].end
  /\ ShardArrives(i, Streams(promQuery))
  /\ UNCHANGED misfortune

ShardRefused(i) ==
  /\ shards[i].start > shards[i].end
  /\ ShardArrives(i, Nil)
  /\ UNCHANGED misfortune

ShardFails(i) ==
  /\ ShardArrives(i, Nil)
  /\ Befalls("failure")

PointsOf(i) ==
  [n \in 1 .. (shards[i].end - shards[i].start) \div range.step + 1 |->
     shards[i].start + (n - 1) * range.step]

\* A slip: the results are taken in the order of their arrival.
AsArrived == arrived

InOrder ==
  [i \in DOMAIN shards |-> arrived[CHOOSE n \in DOMAIN arrived : arrived[n].index = i]]

NoneFailed == \A n \in DOMAIN arrived : arrived[n].streams # Nil

Merged ==
  LET results == InOrder
  IN [label \in UNION {results[n].streams : n \in DOMAIN results} |->
        Seqs!FlattenSeq([n \in DOMAIN results |->
          IF label \in results[n].streams THEN PointsOf(results[n].index) ELSE <<>>])]

Merge ==
  /\ qpc = "gather"
  /\ asking = {}
  /\ Reply(IF NoneFailed THEN Merged ELSE Nil)
  /\ UNCHANGED <<provider, series, listerVars, shardVars, misfortune>>

-----------------------------------------------------------------------------
\* Prometheus gets other series.
SeriesChange(new) ==
  /\ new # series
  /\ Befalls("change")
  /\ series' = new
  /\ seen' = IF lister = "idle" THEN seen ELSE seen \union new
  /\ lasting' = IF lister = "idle" THEN lasting ELSE lasting \intersect new
  /\ steady' = IF qpc = "idle" THEN steady ELSE steady \intersect new
  /\ UNCHANGED <<provider, registry, lister, listing, orphans, shardVars, qpc, query, promQuery, asking,
                 arrived, reply>>

Lister == Relist \/ ReceiveErr \/ ReceiveFound \/ SetSeries

Querying ==
  \/ AskMetricsApi \/ BuildFails \/ BuildLatest \/ BuildRange \/ AskLatest \/ Shard \/ Merge
  \/ \E i \in asking : ShardAnswered(i) \/ ShardRefused(i)

MetricsNext ==
  \/ Lister \/ GoroutineGoes \/ OrphanGoes \/ PromRefuses
  \/ Querying \/ LatestFails \/ \E i \in asking : ShardFails(i)
  \/ \E r \in Requests : Request(r)
  \/ \E new \in SeriesSets : SeriesChange(new)

-----------------------------------------------------------------------------
AllSeries == UNION SeriesSets

MetricsTypeOK ==
  /\ provider \in Providers
  /\ series \subseteq AllSeries
  /\ DOMAIN registry = Kinds
  /\ lister \in {"idle", "errs", "found"}
  /\ (lister = "idle") <=> (listing = Nil)
  /\ qpc \in {"idle", "build", "ask", "shard", "gather"}
  /\ asking \subseteq DOMAIN shards
  /\ reply # Nil => \A label \in DOMAIN reply : label \in AllSeries \union DOMAIN Usage
  /\ lasting \subseteq seen
  /\ \A kind \in DOMAIN misfortune : misfortune[kind] \in Nat

(***************************************************************************)
(* Nobody waits for ever: what is left of a listing that was given up has  *)
(* room for what it still sends, and the lister only waits for what a      *)
(* goroutine is going to send ("we'll assume that we should receive one    *)
(* item per namer").                                                       *)
(***************************************************************************)
NobodyBlocks ==
  /\ \A o \in orphans : Moves(o) # {}
  /\ lister = "errs" => Received(listing) \/ listing.errs # <<>> \/ Moves(listing) # {}
  /\ lister = "found" => listing.found # <<>> \/ Moves(listing) # {}

(***************************************************************************)
(* A registry only changes to what one listing found, whole: it has every  *)
(* metric of the series that were there all the time of the listing, and   *)
(* none of series that were not there at any time of it.                   *)
(***************************************************************************)
FoundIn(kind, some) == [s \in Selectors(kind) |-> Matches[s] \intersect some]

ListedAsItWas ==
  [][\A kind \in Kinds : registry'[kind] # registry[kind] =>
       /\ Metrics(kind, FoundIn(kind, lasting)) \subseteq DOMAIN registry'[kind]
       /\ DOMAIN registry'[kind] \subseteq Metrics(kind, FoundIn(kind, seen))]_metricsVars

(***************************************************************************)
(* When Prometheus has come to rest, the registries get to hold what it    *)
(* has, whatever went wrong before.                                        *)
(***************************************************************************)
EventuallyListed ==
  <>[](provider = "prometheus" =>
         \A kind \in Kinds : registry[kind] \in RegistriesOf(kind, FoundIn(kind, series)))

(***************************************************************************)
(* The answer to a query over a range has the points of the range in their *)
(* order, none of them twice, and all of them of what Prometheus had all   *)
(* the time.                                                               *)
(***************************************************************************)
IsIncreasing(points) == \A n \in 1 .. Len(points) - 1 : points[n] < points[n + 1]

Answers == qpc = "idle" /\ query # Nil /\ reply # Nil

RangeAnswerWhole ==
  Answers /\ query.range # Nil =>
    \A label \in DOMAIN reply :
      /\ IsIncreasing(reply[label])
      /\ \A n \in DOMAIN reply[label] :
           reply[label][n] \in Steps(query.range.start, query.range.end, query.range.step)
      /\ label \in steady \union DOMAIN Usage =>
           Len(reply[label])
             = Cardinality(Steps(query.range.start, query.range.end, query.range.step))

(***************************************************************************)
(* An answer is about what the query names, whichever provider gives it:   *)
(* about pods it names or selects that have such a container, or about a   *)
(* series that some namer of that kind calls so.                           *)
(***************************************************************************)
Asked(q) ==
  IF q.type \in OfPods
  THEN {p \in PodNames(q) \intersect DOMAIN Usage : HasContainer(p, q.resource, q.container)}
  ELSE IF q.type \in OfWorkload
  THEN {p \in OwnedBy[q.name] : (q.ready => p \in Ready) /\ HasContainer(p, q.resource, q.container)}
  ELSE LET namers == Namers[IF q.type = "Object" THEN "object" ELSE "external"]
       IN {s \in AllSeries : \E i \in DOMAIN namers : s \in namers[i].keeps /\ q.metric \in namers[i].metrics[s]}

AnswersTheQuery == Answers => DOMAIN reply \subseteq Asked(query)
=============================================================================
