------------------------------- MODULE MCMetrics -------------------------------
EXTENDS ReactiveGenerator, TLC

T(requests, generates, changes, failures) ==
  [request |-> requests, generate |-> generates, change |-> changes, failure |-> failures]

\* Three pods, one of them without a measured container.
MCUsage ==
  "web-0" :> ("main" :> {"cpu", "memory"} @@ "log" :> {"cpu", "memory"})
    @@ "web-1" :> ("main" :> {"cpu"} @@ "log" :> {"cpu", "memory"})
    @@ "job-0" :> ("main" :> {"cpu"})
MCSelectedBy == "" :> DOMAIN MCUsage @@ "web" :> {"web-0", "web-1"} @@ "none" :> {}
MCOwnedBy == "web" :> {"web-0", "web-1"}
MCReady == {"web-0", "job-0"}

\* Series a and b match the same selector, c another one.  The namers of the
\* metrics of objects share a selector, those of external metrics a name.
MCSeriesSets == {{"a"}, {"b", "c"}}
MCMatches == "ab" :> {"a", "b"} @@ "c" :> {"c"}
Namer(selector, keeps, named) == [selector |-> selector, keeps |-> keeps, metrics |-> named]
N(a, b, c) == "a" :> a @@ "b" :> b @@ "c" :> c
MCObjectNamers == <<Namer("ab", {"a"}, N({"hits"}, {}, {})), Namer("ab", {"b"}, N({}, {"rate"}, {}))>>
MCExternalNamers ==
  <<Namer("ab", {"a", "b"}, N({"queue"}, {}, {})), Namer("c", {"c"}, N({}, {}, {"queue"}))>>

R(start, end, step) == [start |-> start, end |-> end, step |-> step]
MCRanges == {R(1, 9, 2), R(0, 6, 1), R(1, 0, 1)}

OfPod(type, name, selector, resource, container) ==
  [NoQuery EXCEPT !.type = type, !.name = name, !.selector = selector, !.resource = resource,
                  !.container = container]
Workload(type, name, ready) ==
  [NoQuery EXCEPT !.type = type, !.name = name, !.selector = "", !.resource = "cpu", !.ready = ready]
OfSeries(type, name, metric, selector) ==
  [NoQuery EXCEPT !.type = type, !.name = name, !.selector = "web", !.metric = metric,
                  !.metricSelector = selector]

MCRequests ==
  {OfPod("PodResource", "", "", "memory", ""), OfPod("PodResource", "web-1", "malformed", "cpu", ""),
   OfPod("PodResource", "", "malformed", "cpu", ""),
   OfPod("ContainerResource", "", "", "cpu", "log"),
   Workload("WorkloadResource", "web", TRUE), Workload("WorkloadContainerResource", "other", FALSE),
   OfSeries("Object", "x", "queue", ""), OfSeries("Object", "", "hits", "malformed")}
  \union
  {[OfSeries("WorkloadExternal", "web", "queue", "") EXCEPT !.range = r] : r \in MCRanges}
  \union
  {[OfPod("PodResource", "", "web", "cpu", "") EXCEPT !.range = R(1, 9, 2)]}

M(source, target, metric) ==
  [source |-> source, target |-> target, resource |-> "cpu", container |-> "", metric |-> metric,
   object |-> "x"]

MCMetricLists ==
  {<<M("External", "Value", "queue"), M("Resource", "Utilization", Nil)>>,
   <<M("Pods", "AverageValue", "hits"), M("Object", "Utilization", "hits")>>,
   <<[M("ContainerResource", "AverageValue", Nil) EXCEPT !.container = "log"]>>, <<>>}

MCMappings == <<FALSE, TRUE>>

MCMetricsTroubles == {T(1, 0, 1, 0), T(1, 0, 0, 1), T(0, 1, 1, 0), T(0, 1, 0, 1), T(0, 0, 1, 1)}
=============================================================================
