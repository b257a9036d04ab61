--------------------------- MODULE ReactiveGenerator ---------------------------
(***************************************************************************)
(* The generator of reactive portraits, next to the metric service: it     *)
(* reads the scale of the target, asks the metric provider for the latest  *)
(* samples of one metric after another, has the ReplicaCalculator of       *)
(* Kubernetes make a number of replicas of them, and takes the largest.    *)
(*                                                                         *)
(* One query at a time is modelled, of the generator or of the metric      *)
(* service: queries share nothing but the registries, which they read.     *)
(***************************************************************************)
EXTENDS PromMetrics

CONSTANTS
  MetricLists,    \* lists of metrics a portrait may ask for
  TargetSelector, \* the selector of the scale of the target
  Mappings,       \* for each resource the kind of the target may be: can it be scaled
  Scales,         \* replicas the scale of the target may have
  Proposals       \* replicas the ReplicaCalculator may come up with

ASSUME ReplicasAssumption == Scales \subseteq Nat /\ Proposals \subseteq Nat

VARIABLES
  gpc,          \* what the generator does next
  specReplicas, \* the replicas of the scale when it read it
  metrics,      \* the metrics it was asked for
  proposals,    \* what they ask for so far, Nil for one that is invalid
  portrait      \* the last result, Nil for an error

generatorVars == <<gpc, specReplicas, metrics, proposals, portrait>>
vars == <<metricsVars, generatorVars>>

Init ==
  /\ MetricsInit
  /\ gpc = "idle"
  /\ specReplicas = 0
  /\ metrics = <<>>
  /\ proposals = <<>>
  /\ portrait = Nil

(***************************************************************************)
(* The query of a metric, Nil if there is none for it.                     *)
(***************************************************************************)
NoQuery ==
  [type |-> Nil, name |-> "", selector |-> Nil, resource |-> Nil, container |-> "", metric |-> Nil,
   metricSelector |-> "", ready |-> FALSE, range |-> Nil]

QueryOf(m) ==
  CASE m.source \in {"Resource", "ContainerResource"} ->
         IF m.target \in {"AverageValue", "Utilization"} /\ m.resource \in Measured
         THEN [NoQuery EXCEPT
                 !.type = IF m.container = "" THEN "PodResource" ELSE "ContainerResource",
                 !.selector = TargetSelector, !.resource = m.resource, !.container = m.container]
         ELSE Nil
    [] m.source = "Pods" ->
         [NoQuery EXCEPT !.type = "Object", !.selector = TargetSelector, !.metric = m.metric]
    [] m.source = "Object" ->
         IF m.target \in {"Value", "AverageValue"}
         THEN [NoQuery EXCEPT !.type = "Object", !.name = m.object, !.metric = m.metric]
         ELSE Nil
    [] m.source = "External" ->
         IF m.target \in {"Value", "AverageValue"}
         THEN [NoQuery EXCEPT !.type = "External", !.metric = m.metric]
         ELSE Nil
    [] OTHER -> Nil

-----------------------------------------------------------------------------
\* The first resource that works is taken.  An algorithm, a tolerance or a
\* selector that cannot be read ends the generator like a scale that cannot.
CanScale == \E i \in DOMAIN Mappings : Mappings[i]

Generate(list) ==
  /\ gpc = "idle"
  /\ Befalls("generate")
  /\ metrics' = list
  /\ proposals' = <<>>
  /\ portrait' = Nil
  /\ specReplicas' \in Scales
  /\ gpc' = IF CanScale THEN "metrics" ELSE "idle"
  /\ UNCHANGED <<provider, series, listerVars, queryVars>>

Metric == metrics[Len(proposals) + 1]

Proposed(replicas) == proposals' = Append(proposals, replicas)

SkipMetric ==
  /\ gpc = "metrics"
  /\ Len(proposals) < Len(metrics)
  /\ QueryOf(Metric) = Nil
  /\ Proposed(Nil)
  /\ UNCHANGED <<metricsVars, gpc, specReplicas, metrics, portrait>>

AskMetric ==
  /\ gpc = "metrics"
  /\ qpc = "idle"
  /\ Len(proposals) < Len(metrics)
  /\ QueryOf(Metric) # Nil
  /\ Ask(QueryOf(Metric))
  /\ gpc' = "waits"
  /\ UNCHANGED <<provider, series, listerVars, shardVars, promQuery, asking, arrived, misfortune,
                 specReplicas, metrics, proposals, portrait>>

HasSamples == reply # Nil /\ DOMAIN reply # {}

\* The ReplicaCalculator may fail, too.
TakeAnswer ==
  /\ gpc = "waits"
  /\ qpc = "idle"
  /\ \E n \in IF HasSamples THEN Proposals \union {Nil} ELSE {Nil} : Proposed(n)
  /\ gpc' = "metrics"
  /\ UNCHANGED <<metricsVars, specReplicas, metrics, portrait>>

Invalid == {i \in DOMAIN proposals : proposals[i] = Nil}

Largest ==
  CHOOSE n \in {1} \union {proposals[i] : i \in DOMAIN proposals \ Invalid} :
    \A i \in DOMAIN proposals \ Invalid : n >= 1 /\ n >= proposals[i]

\* A slip: it is enough that one metric is valid.
TooFewValidOnlyAll == Invalid = DOMAIN proposals

TooFewValid ==
  \/ Invalid = DOMAIN proposals
  \/ Invalid # {} /\ Largest < specReplicas

Decide ==
  /\ gpc = "metrics"
  /\ Len(proposals) = Len(metrics)
  /\ portrait' = IF TooFewValid THEN Nil ELSE Largest
  /\ gpc' = "idle"
  /\ UNCHANGED <<metricsVars, specReplicas, metrics, proposals>>

Generating == SkipMetric \/ AskMetric \/ TakeAnswer \/ Decide

Next ==
  \/ MetricsNext /\ (gpc = "waits" => qpc # "idle" \/ query' = query) /\ UNCHANGED generatorVars
  \/ Generating
  \/ \E list \in MetricLists : Generate(list)

\* Prometheus answers in the end; the lister, its goroutines, and whoever asks go
\* on.
Fairness ==
  /\ WF_vars(Lister /\ UNCHANGED generatorVars)
  /\ WF_vars(GoroutineGoes /\ UNCHANGED generatorVars)
  /\ WF_vars((Querying /\ UNCHANGED generatorVars) \/ Generating)

Spec == Init /\ [][Next]_vars /\ Fairness

-----------------------------------------------------------------------------
TypeOK ==
  /\ MetricsTypeOK
  /\ specReplicas \in Scales \union {0}
  /\ gpc \in {"idle", "metrics", "waits"}
  /\ Len(proposals) <= Len(metrics)
  /\ \A i \in DOMAIN proposals : proposals[i] \in Proposals \union {Nil}
  /\ portrait \in Proposals \union {1, Nil}

(***************************************************************************)
(* No metric is ignored: a portrait has at least the replicas each metric  *)
(* asks for, and one that could not be evaluated does not let the target   *)
(* be scaled down ("if all metrics are invalid or some are invalid and we  *)
(* would scale down, return error").                                       *)
(***************************************************************************)
NoneIgnored ==
  gpc = "idle" /\ portrait # Nil =>
    /\ Len(proposals) = Len(metrics)
    /\ \E i \in DOMAIN proposals : proposals[i] # Nil
    /\ \A i \in DOMAIN proposals :
         portrait >= IF proposals[i] = Nil THEN specReplicas ELSE proposals[i]

(***************************************************************************)
(* Whoever asks gets an answer, and the generator comes to a result,       *)
(* whatever Prometheus and the provider do.                                *)
(***************************************************************************)
EveryQueryAnswered == []<>(qpc = "idle" /\ gpc = "idle")
=============================================================================
