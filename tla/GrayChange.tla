------------------------------ MODULE GrayChange ------------------------------
(***************************************************************************)
(* The replicas an autoscaler (IHPA) asks of its ReplicaProfile: those of  *)
(* the current portrait value, kept within the bounds of the autoscaler,   *)
(* or, while a gray change is on, a mixture of the previous and the        *)
(* current value that moves by a percentage of their difference at a time. *)
(*                                                                         *)
(* Everything here is a pure function of the autoscaler's spec and status. *)
(* Time is counted in ticks; instead of the time of the last gray step the *)
(* status keeps its age, which grows no further than any wait there is.    *)
(***************************************************************************)
EXTENDS Integers

CONSTANTS
  Nil,     \* a nil pointer
  MaxAge   \* ages are counted up to here: no wait is longer

ASSUME MaxAgeAssumption == MaxAge \in Nat

ScaleModes == {"Auto", "Preview"}

GrayStrategy ==
  [state : {"Online", "Cutoff", "Standby", "Deleted"},
   interval : 0 .. MaxAge, percent : 1 .. 100, observation : 0 .. MaxAge]

ScalingBehavior == [disabled : BOOLEAN, gray : GrayStrategy \union {Nil}]

\* profile: the settings handed on to the profile as they are (Behavior.ReplicaProfile).
IHPASpec ==
  [min : Nat, max : Nat, paused : BOOLEAN, mode : ScaleModes,
   up : ScalingBehavior, down : ScalingBehavior, profile : {"Default", "Custom"}]

(***************************************************************************)
(* A portrait value.  Its provenance stands for the provider and the       *)
(* expire time: "forever" is no expire time, and "zero" a pointer to the   *)
(* zero time, which dynamic portraits without an expire time come with.    *)
(***************************************************************************)
Provenance == {"forever", "zero", "t1", "t2"}
PortraitValue == [replicas : Nat, from : Provenance]

GrayStatus == [percent : 0 .. 100, age : 0 .. MaxAge]

ASSUME NilAssumption == Nil \notin PortraitValue /\ Nil \notin GrayStatus

Reasons == {"None", "Failed", "NoValue", "Paused", "Succeeded",
            "WithinRange", "TooFew", "TooMany", "Match", "NotMatch"}
Condition == [reason : Reasons, generation : Nat]

IHPAStatus ==
  [previous : PortraitValue \union {Nil}, current : PortraitValue \union {Nil},
   gray : GrayStatus \union {Nil},
   active : Condition, limited : Condition, progressing : Condition]

NoCondition == [reason |-> "None", generation |-> 0]
NoStatus ==
  [previous |-> Nil, current |-> Nil, gray |-> Nil,
   active |-> NoCondition, limited |-> NoCondition, progressing |-> NoCondition]

LesserOf(a, b) == IF a < b THEN a ELSE b
GreaterOf(a, b) == IF a > b THEN a ELSE b
AbsOf(a) == IF a < 0 THEN - a ELSE a

-----------------------------------------------------------------------------
\* The bounds of the spec; the upper one has the last word.
Capped(spec, n) == LesserOf(GreaterOf(n, spec.min), spec.max)

Limit(spec, n) ==
  CASE GreaterOf(n, spec.min) > spec.max -> "TooMany"
    [] n < spec.min /\ spec.min <= spec.max -> "TooFew"
    [] OTHER -> "WithinRange"

\* What is capped is the value in the status itself.
CappedStatus(spec, status) ==
  [status EXCEPT !.current.replicas = Capped(spec, @)]

Scales(status) == status.previous # Nil /\ status.current # Nil
ScalesUp(status) ==
  Scales(status) /\ status.current.replicas > status.previous.replicas
ScalesDown(status) ==
  Scales(status) /\ status.current.replicas < status.previous.replicas

CurrentGrayStrategy(spec, status) ==
  CASE ScalesUp(status) -> spec.up.gray
    [] ScalesDown(status) -> spec.down.gray
    [] OTHER -> Nil

IsGrayActive(spec, status) ==
  spec.mode # "Preview" /\ CurrentGrayStrategy(spec, status) # Nil

(***************************************************************************)
(* The first change starts at once, the next ones wait for the interval,   *)
(* and when all is changed the observation time has to pass.               *)
(***************************************************************************)
Wait(strategy, percent) ==
  CASE percent = 0 -> 0
    [] percent = 100 -> strategy.observation
    [] OTHER -> strategy.interval

\* A slip: the observation time is not waited for.
GrayRemainTimeUnobserved(strategy, gray) ==
  IF gray.percent = 100 THEN 0
  ELSE GreaterOf(0, Wait(strategy, gray.percent) - gray.age)

GrayRemainTime(strategy, gray) ==
  GreaterOf(0, Wait(strategy, gray.percent) - gray.age)

\* A slip: the change is taken to end only beyond its end.
GrayEndedBeyond(strategy, gray) ==
  gray.percent > 100 /\ GrayRemainTime(strategy, gray) = 0

GrayEnded(strategy, gray) ==
  gray.percent = 100 /\ GrayRemainTime(strategy, gray) = 0

\* A slip: the percentage is not kept to 100.
NextGrayBeyond(strategy, gray) ==
  IF GrayRemainTime(strategy, gray) = 0
  THEN [percent |-> gray.percent + strategy.percent, age |-> 0]
  ELSE gray

\* A slip: no time is waited for.
NextGrayAtOnce(strategy, gray) ==
  [percent |-> LesserOf(100, gray.percent + strategy.percent), age |-> 0]

\* The gray status after this reconcile: one step further if its time has come.
NextGray(strategy, gray) ==
  IF GrayRemainTime(strategy, gray) = 0
  THEN [percent |-> LesserOf(100, gray.percent + strategy.percent), age |-> 0]
  ELSE gray

GrayReplicas(status, percent) ==
  GreaterOf(1,
    (AbsOf(status.current.replicas - status.previous.replicas) * percent) \div 100)

ReplicaData == [online : Nat, cutoff : Nat, standby : Nat]

SettledData(status) ==
  [online |-> status.current.replicas, cutoff |-> 0, standby |-> 0]

\* A slip: the share is counted back from the current value.
GrayDataFromCurrent(status, strategy, percent) ==
  LET changed == GrayReplicas(status, percent)
  IN  [online  |-> IF ScalesUp(status) THEN status.current.replicas - changed
                                       ELSE status.current.replicas + changed,
       cutoff  |-> IF ScalesDown(status) /\ strategy.state = "Cutoff" THEN changed ELSE 0,
       standby |-> IF ScalesDown(status) /\ strategy.state = "Standby" THEN changed ELSE 0]

GrayData(status, strategy, percent) ==
  LET changed == GrayReplicas(status, percent)
  IN  [online  |-> IF ScalesUp(status) THEN status.previous.replicas + changed
                                       ELSE status.previous.replicas - changed,
       cutoff  |-> IF ScalesDown(status) /\ strategy.state = "Cutoff" THEN changed ELSE 0,
       standby |-> IF ScalesDown(status) /\ strategy.state = "Standby" THEN changed ELSE 0]

(***************************************************************************)
(* generateIHPAReplicaData, for a status whose current value is capped     *)
(* already: the replicas to ask for, the gray status that goes with them,  *)
(* and the time to wait.  There is no answer when a gray change is on that *)
(* has no gray status: the code dereferences a nil pointer.                *)
(***************************************************************************)
HasNoGrayStatus(spec, status) ==
  IsGrayActive(spec, status) /\ status.gray = Nil

GenerateReplicaData(spec, status) ==
  LET strategy == CurrentGrayStrategy(spec, status)
      next == NextGray(strategy, status.gray)
  IN  IF ~ IsGrayActive(spec, status) \/ GrayEnded(strategy, status.gray)
      THEN [data |-> SettledData(status), gray |-> status.gray, remain |-> 0]
      ELSE [data |-> GrayData(status, strategy, next.percent), gray |-> next,
            remain |-> GrayRemainTime(strategy, status.gray)]
=============================================================================
