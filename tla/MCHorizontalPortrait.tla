------------------------- MODULE MCHorizontalPortrait -------------------------
EXTENDS HorizontalPortrait

CONSTANTS CronJob, OtherJob

T(edits, results, loads, failures, crashes) ==
  [edit |-> edits, result |-> results, load |-> loads, failure |-> failures, crash |-> crashes]

Template(schedule, image) == [f \in {"schedule", "image"} |-> IF f = "image" THEN image ELSE schedule]

\* Three jobs of one type, two of which differ from the first in one part each,
\* one job of another type and one of a type nobody knows; a generator; and a
\* portrait that others fill, of a type without a generator.
MCSpecs ==
  {PortraitSpec(FALSE, "Predictive", "ExternalJob", CronJob, Template("a", "a")),
   PortraitSpec(FALSE, "Predictive", "ExternalJob", CronJob, Template("b", "a")),
   PortraitSpec(FALSE, "Predictive", "ExternalJob", CronJob, Template("a", "b")),
   PortraitSpec(FALSE, "Predictive", "ExternalJob", OtherJob, Template("a", "a")),
   PortraitSpec(FALSE, "Predictive", "ExternalJob", "unknown", Template("a", "a")),
   PortraitSpec(FALSE, "Reactive", "KubeHPA", Nil, Nil),
   PortraitSpec(TRUE, "Predictive", "KubeHPA", Nil, Nil)}

MCTroubles ==
  {T(2, 1, 0, 0, 0), T(1, 0, 1, 1, 0), T(1, 1, 0, 1, 0), T(1, 1, 0, 0, 1), T(0, 1, 1, 0, 1),
   T(1, 0, 2, 0, 0), T(0, 2, 0, 1, 0)}
=============================================================================
