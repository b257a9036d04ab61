------------------------------ MODULE MCPortraits ------------------------------
EXTENDS Portraits, TLC

Rule(start, end, n) == [start |-> start, end |-> end, replicas |-> n]

Static(n, priority) == [key |-> "Static", priority |-> priority, replicas |-> n]
Cron(rules, priority) == [key |-> "Cron", priority |-> priority, rules |-> rules]
Dynamic(type, spec, priority) == [key |-> type, priority |-> priority, spec |-> spec]

Active(providers) == [paused |-> FALSE, providers |-> providers]
Paused(providers) == [paused |-> TRUE, providers |-> providers]

D == [type |-> "Static", replicas |-> 0, rules |-> {}, points |-> <<>>, expire |-> Nil]
StaticData(n, expire) == [D EXCEPT !.replicas = n, !.expire = expire]
CronData(rules, expire) == [D EXCEPT !.type = "Cron", !.rules = rules, !.expire = expire]
SeriesData(points, expire) ==
  [D EXCEPT !.type = "TimeSeries", !.points = points, !.expire = expire]

T(edits, datas, failures, crashes) ==
  [edit |-> edits, data |-> datas, failure |-> failures, crash |-> crashes]

\* Two sets of rules for the Cron provider, rules that overlap for a while,
\* rules that cannot be parsed, a portrait next to a static value of the same
\* priority, and nothing but a portrait.
MCSpecs ==
  {Active(<<Static(2, 0), Cron({Rule(0, 2, 3)}, 1)>>),
   Active(<<Cron({Rule(1, 2, 1), Rule(2, 1, 4)}, 1), Dynamic("P", 1, 1)>>),
   Active(<<Cron({Rule(0, 2, 3), Rule(1, 2, 4)}, 1)>>),
   Active(<<Cron({Rule(Nil, 2, 3)}, 1)>>),
   Active(<<Dynamic("P", 1, 1), Static(2, 1)>>),
   Active(<<Dynamic("P", 2, 0)>>),
   Paused(<<Dynamic("P", 1, 1), Static(2, 1)>>)}

\* Data that expire, that begin and end with rules, that change from point to
\* point, that overlap, and a mixture.
MCDatas ==
  {StaticData(3, 2),
   CronData({Rule(0, 2, 3)}, 4), CronData({Rule(0, 2, 3), Rule(1, 2, 4)}, Nil),
   SeriesData(2 :> 3 @@ 3 :> 1, Nil), SeriesData(1 :> 1, 2)}

MCTroubles == {T(1, 1, 0, 0), T(0, 1, 1, 1), T(1, 0, 0, 1), T(2, 0, 1, 0), T(0, 2, 0, 0)}
=============================================================================
