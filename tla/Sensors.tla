------------------------------ MODULE Sensors ------------------------------
(***************************************************************************)
(* The sensor hub (sensors.py) and the wake-up at the start of an          *)
(* autonomous run (main.py:188-199): poll() turns readings that cross a    *)
(* threshold into events, at most one for each cooldown of its rule, and   *)
(* evaluate_wake() decides from the newest events whether to wake, at most *)
(* once for each cooldown of its own.  The hub's memory is the process's;  *)
(* what has woken it is only on the ledger, where other wakes are as well. *)
(***************************************************************************)
EXTENDS EventLedger, Integers

CONSTANTS
  Hubs,          \* processes, each with a hub
  Rules,         \* threshold rules
  Key,           \* what a rule's cooldown is kept under: source, metric, message
  Cooldown,      \* each rule's cooldown_secs
  Watched,       \* rules with a watched severity
  NoRule,        \* the rule of a failed read, whose severity is watched
  WakeCooldown,  \* cooldown_secs of evaluate_wake
  Limit,         \* its limit (20)
  MaxStarts,     \* bound: starts of a process
  MaxTime,       \* bound: the clock
  MaxEvents      \* bound: events on the ledger

ASSUME SensorAssumption ==
  /\ NoRule \notin Rules /\ Watched \subseteq Rules
  /\ DOMAIN Key = Rules
  /\ Cooldown \in [Rules -> Nat]
  /\ WakeCooldown \in Nat \ {0} /\ Limit \in Nat \ {0}
  /\ {MaxStarts, MaxTime, MaxEvents} \subseteq Nat

VARIABLES
  clock,   \* the time
  events,  \* events of kinds sensor and wake
  hub      \* each process: where it is, and what its hub remembers

sensorVars == <<clock, events, hub>>

-----------------------------------------------------------------------------
Never == -1
Keys == {Key[rule] : rule \in Rules}

\* `polled' is the `now' of a poll; `life' counts the starts of the process;
\* `cause' and `seen' are those of the decision to wake.
Started(life) == [at |-> "idle", polled |-> 0, fired |-> [key \in Keys |-> Never], life |-> life,
                  cause |-> 0, seen |-> 0]

SensorInit ==
  /\ clock = 0
  /\ events = <<>>
  /\ hub = [h \in Hubs |-> Started(1)]

Tick ==
  /\ clock < MaxTime
  /\ clock' = clock + 1
  /\ UNCHANGED <<events, hub>>

Record(event) == Len(events) < MaxEvents /\ events' = Append(events, event)

StartPoll(h) ==
  /\ hub[h].at = "idle"
  /\ hub' = [hub EXCEPT ![h].at = "poll", ![h].polled = clock]
  /\ UNCHANGED <<clock, events>>

\* A provider whose read() raises: an event, without any cooldown.
ReadFails(h) ==
  /\ hub[h].at = "poll"
  /\ Record([kind |-> "sensor", rule |-> NoRule, at |-> clock, hub |-> <<h, hub[h].life>>,
             polled |-> hub[h].polled])
  /\ UNCHANGED <<clock, hub>>

Cooled(h, rule) ==
  LET last == hub[h].fired[Key[rule]]
  IN  last = Never \/ hub[h].polled - last >= Cooldown[rule]

\* Mutant: the cooldown runs from the last poll, not from the last event.
CrossesSincePoll(h) ==
  /\ hub[h].at = "poll"
  /\ \E rule \in Rules :
       /\ Record([kind |-> "sensor", rule |-> rule, at |-> clock, hub |-> <<h, hub[h].life>>,
                  polled |-> hub[h].polled])
       /\ hub' = [hub EXCEPT ![h].fired[Key[rule]] = hub[h].polled]
  /\ UNCHANGED clock

\* A reading crosses a rule's threshold.
Crosses(h) ==
  /\ hub[h].at = "poll"
  /\ \E rule \in Rules :
       /\ Cooled(h, rule)
       /\ Record([kind |-> "sensor", rule |-> rule, at |-> clock, hub |-> <<h, hub[h].life>>,
                  polled |-> hub[h].polled])
       /\ hub' = [hub EXCEPT ![h].fired[Key[rule]] = hub[h].polled]
  /\ UNCHANGED clock

EndPoll(h) ==
  /\ hub[h].at = "poll"
  /\ hub' = [hub EXCEPT ![h].at = "evaluate", ![h].polled = 0]
  /\ UNCHANGED <<clock, events>>

-----------------------------------------------------------------------------
\* What evaluate_wake looks at: the watched ones among the newest sensor
\* events, and the sensor's among the newest wakes.
Candidates ==
  {i \in EventsOfKind(events, "sensor", Limit) : events[i].rule \in Watched \cup {NoRule}}

SensorWakes == {i \in EventsOfKind(events, "wake", Limit) : events[i].sensor}

Latest(ids) == CHOOSE i \in ids : \A j \in ids : j <= i

\* Mutant: the time since the last wake is asked for.
WarrantedByNow ==
  /\ Candidates # {}
  /\ SensorWakes # {} => clock - events[Latest(SensorWakes)].at >= WakeCooldown

Warranted ==
  /\ Candidates # {}
  /\ SensorWakes # {} => events[Latest(Candidates)].at - events[Latest(SensorWakes)].at >= WakeCooldown

Evaluate(h) ==
  /\ hub[h].at = "evaluate"
  /\ hub' = [hub EXCEPT ![h].at = IF Warranted THEN "wake" ELSE "idle",
                        ![h].cause = IF Warranted THEN Latest(Candidates) ELSE 0,
                        ![h].seen = IF Warranted THEN Len(events) ELSE 0]
  /\ UNCHANGED <<clock, events>>

\* main.py records the wake after it has been decided.
RecordWake(h) ==
  /\ hub[h].at = "wake"
  /\ Record([kind |-> "wake", sensor |-> TRUE, at |-> clock, cause |-> hub[h].cause, seen |-> hub[h].seen])
  /\ hub' = [hub EXCEPT ![h].at = "idle", ![h].cause = 0, ![h].seen = 0]
  /\ UNCHANGED clock

\* autonomous_turn
OtherWake ==
  /\ Record([kind |-> "wake", sensor |-> FALSE, at |-> clock, cause |-> 0, seen |-> 0])
  /\ UNCHANGED <<clock, hub>>

\* The process ends, or dies, and another one starts with a new hub.
Restart(h) ==
  /\ hub' = [hub EXCEPT ![h] = Started(@.life + 1)]
  /\ hub[h].life < MaxStarts
  /\ UNCHANGED <<clock, events>>

SensorNext ==
  \/ Tick \/ OtherWake
  \/ \E h \in Hubs : \/ StartPoll(h) \/ ReadFails(h) \/ Crosses(h) \/ EndPoll(h)
                     \/ Evaluate(h) \/ RecordWake(h) \/ Restart(h)

-----------------------------------------------------------------------------

SensorEvents == IdsOfKind(events, "sensor")
Wakes == IdsOfKind(events, "wake")

\* While a hub lives, what is kept under one key makes no two events within
\* the cooldown of the later one, also when several rules share the key, or
\* poll() takes long (sensors.py:128-131).
FiredApart ==
  \A i, j \in SensorEvents :
    (i < j /\ events[i].hub = events[j].hub /\ {events[i].rule, events[j].rule} \subseteq Rules) =>
      (Key[events[i].rule] = Key[events[j].rule]
         => events[j].polled - events[i].polled >= Cooldown[events[j].rule])

\* Two sensor wakes are a cooldown apart, and no event wakes twice, unless the
\* second was decided before the first was recorded, or after so many others
\* that the window no longer shows it (sensors.py:159-166).
WakesApart ==
  \A i, j \in Wakes :
    (/\ i < j /\ events[i].sensor /\ events[j].sensor
     /\ i <= events[j].seen
     /\ Cardinality({k \in Wakes : i < k /\ k <= events[j].seen}) < Limit)
      => /\ events[j].at - events[i].at >= WakeCooldown
         /\ events[j].cause > i
=============================================================================
