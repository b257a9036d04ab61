-------------------------------- MODULE MCIHPA --------------------------------
EXTENDS IHPA

Plain == [disabled |-> FALSE, gray |-> Nil]
Disabled == [disabled |-> TRUE, gray |-> Nil]
Gray(state, percent) ==
  [disabled |-> FALSE,
   gray |-> [state |-> state, interval |-> 1, percent |-> percent, observation |-> MaxAge]]

\* An autoscaler with these behaviors.
A(up, down) ==
  [min |-> 1, max |-> 4, paused |-> FALSE, mode |-> "Auto", up |-> up, down |-> down,
   profile |-> "Default"]
Paused(spec) == [spec EXCEPT !.paused = TRUE]
InPreview(spec) == [spec EXCEPT !.mode = "Preview"]

V(n) == [replicas |-> n, from |-> "forever"]

T(portraits, edits, failures, crashes, tampers) ==
  [portrait |-> portraits, edit |-> edits, failure |-> failures, crash |-> crashes,
   tamper |-> tampers]

(***************************************************************************)
(* An autoscaler that has come to rest: it was reconciled to the value it  *)
(* has, and everything is cached.                                          *)
(***************************************************************************)
AtRest(s, v) ==
  [NewAutoscaler(1, s) EXCEPT
     !.finalizer = TRUE,
     !.status = [NoStatus EXCEPT
                   !.current = StoredValue(v),
                   !.active = [reason |-> "Succeeded", generation |-> 1],
                   !.limited = [reason |-> "WithinRange", generation |-> 1],
                   !.progressing = [reason |-> "Match", generation |-> 1]]]

RestInit ==
  /\ \E s \in Specs, v \in Portraits :
       /\ ihpa = AtRest(s, v)
       /\ portrait = v
       /\ rp = [exists |-> TRUE, owner |-> 1, deleting |-> FALSE,
                spec |-> WantedProfileSpec(s, SettledData(ihpa.status))]
  /\ cachedIhpa = ihpa
  /\ lagging = FALSE
  /\ cachedRp = rp
  /\ rpLagging = FALSE
  /\ queued = FALSE
  /\ timer = Nil
  /\ pc = "idle"
  /\ copy = NoAutoscaler
  /\ original = NoStatus
  /\ conflict = FALSE
  /\ remain = 0
  /\ sinceChange = MaxAge
  /\ left \in Troubles

RestSpec == RestInit /\ [][Next]_vars /\ Fairness

\* The same with the highest value there is to begin with.
HighSpec ==
  /\ RestInit /\ \A v \in Portraits : v.replicas <= portrait.replicas
  /\ [][Next]_vars
  /\ Fairness

\* Profiles that follow at once, one spec with a gray strategy that need not
\* wait, and edits from each of them to each other.
PlainSpecs ==
  {A(Plain, Plain), [A(Plain, Disabled) EXCEPT !.max = 2, !.profile = "Custom"],
   [A(Plain, Plain) EXCEPT !.up.gray =
      [state |-> "Online", interval |-> 0, percent |-> 60, observation |-> 0]],
   Paused(A(Plain, Plain)), InPreview(A(Plain, Plain))}
PlainPortraits == {Nil, V(3)}
PlainTroubles == {T(1, 1, 1, 0, 0), T(0, 2, 0, 1, 0), T(0, 1, 0, 1, 1)}

\* One gray change, up or down, with nothing or two restarts in its course.
GraySpecs == {A(Gray("Online", 60), Gray(s, 50)) : s \in {"Cutoff", "Standby", "Deleted"}}
GrayPortraits == {V(3), V(1)}
GrayTroubles == {T(1, 0, 0, 0, 0), T(1, 0, 0, 2, 0)}

\* One gray change, with nothing in its course.
CalmTroubles == {T(1, 0, 0, 0, 0)}

\* One gray change, and one restart.
RestartTroubles == {T(1, 0, 0, 1, 0)}

\* One gray change, and one call that fails.
FailTroubles == {T(1, 0, 1, 0, 0)}

\* A quarter of two pods is none.
StallSpecs == {A(Plain, Gray("Cutoff", 25))}

\* From a preview to a gray change.
PreviewSpecs == {InPreview(A(Gray("Online", 50), Plain)), A(Gray("Online", 50), Plain)}
PreviewTroubles == {T(1, 1, 0, 0, 0)}

\* A portrait value beyond the bounds, and a restart before the bounds are applied to it.
BoundsSpecs == {A(Plain, Gray("Cutoff", 25))}
BoundsPortraits == {V(8), V(4)}
BoundsTroubles == {T(2, 0, 0, 1, 0)}

\* A portrait value beyond the bounds, and nothing else.
ClampSpecs == {[A(Plain, Gray("Cutoff", 50)) EXCEPT !.min = 2]}
ClampPortraits == {V(4), V(0)}

\* Values of a dynamic portrait without an expire time.
ZeroSpecs == {A(Plain, Gray("Cutoff", 50))}
ZeroPortraits == {[replicas |-> n, from |-> "zero"] : n \in {4, 2}}

\* The portrait changes twice: back again, or to another value while a gray change is on.
TwiceSpecs == {A(Plain, Gray("Cutoff", 50))}
MidwayPortraits == {V(4), V(2), V(1)}
TwiceTroubles == {T(2, 0, 0, 0, 0)}
=============================================================================
