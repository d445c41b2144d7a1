-------------------------- MODULE ActivitySelection --------------------------
(***************************************************************************)
(* What the autonomy engine chooses to do, in the long run: candidates are *)
(* generated from the evidence at hand (activities.py), the best of them   *)
(* is selected, its outcome changes the evidence, and the miners of        *)
(* learned.py make of the outcomes strategies that favour or disfavour     *)
(* candidates.  The steps an activity consists of are in Autonomy, and the *)
(* commits of a miner in Learning; here an activity is three steps and a   *)
(* miner one.  Affect, which may shift the weights, is off.                *)
(***************************************************************************)
EXTENDS EventLedger, LearnedStore

CONSTANTS
  Engines,        \* autonomy sessions
  Past,           \* the ledger at first
  Beginnings,     \* the evidence there may be at first, and bounds: the activities of each session
                  \* and the experiences that are of none
  MaxCandidates,  \* max_candidates (12)
  RecentWindow,   \* recent_keys that are kept (10)
  StuckAfter,     \* stuck_threshold
  MineLimit,      \* events of a kind a miner reads (200)
  MaxMined        \* bound: times the miners run

\* The sources of candidates in the order of the generator, with the most each
\* may give and, in ten-thousandths, the weighted sum of its scores.  `rank' is
\* the place of the key among the others in alphabetical order.
Source(name, category, quota, score, novelty, rank) ==
  [name |-> name, category |-> category, quota |-> quota, score |-> score,
   novelty |-> novelty, rank |-> rank]

Gathered == <<
  Source("curiosity",  "INVESTIGATE", 5, 5550, 50, 2),
  Source("goal",       "BUILD",       4, 6115, 30, 3),
  Source("revisit",    "REVISIT",     4, 6390, 40, 8),
  Source("reflection", "LEARN",       5, 5225, 50, 7)>>

Derived == <<
  Source("question",   "RESEARCH",   40, 5770, 60, 6),
  Source("interest",   "EXPLORE",     3, 5070, 60, 4),
  Source("uncertain",  "INVESTIGATE", 3, 5890, 45, 10),
  Source("knowledge",  "RESEARCH",    5, 5375, 50, 5),
  Source("understand", "RESEARCH",   10, 5550, 50, 11)>>

Needed == <<
  Source("capability", "ACQUIRE",     4, 6850, 50, 1),
  Source("sensor",     "INVESTIGATE", 3, 5700, 50, 9)>>

Sources == Gathered \o Derived \o Needed
Names == {Sources[k].name : k \in DOMAIN Sources}
SourceOf(key) == CHOOSE source \in ToSet(Sources) : source.name = key[1]

ASSUME SelectionAssumption ==
  /\ Past \in Seq([kind : {"goal_opened", "reflection", "sensor"}])
  /\ Beginnings \subseteq [evidence : [Names -> SUBSET Nat], turns : [Engines -> Nat], others : Nat]
  /\ \A beginning \in Beginnings : IsFiniteSet(UNION {beginning.evidence[name] : name \in Names})
  /\ {MaxCandidates, RecentWindow, StuckAfter, MineLimit} \subseteq Nat \ {0}
  /\ MaxMined \in Nat

VARIABLES
  diary,     \* the events
  evidence,  \* what each source has: ids of events, goals, curiosities or records
  engine,    \* each session
  lessons,   \* the learned objects, by subject
  allowance  \* what is left of the bounds

selectionVars == <<diary, evidence, engine, lessons, allowance>>

-----------------------------------------------------------------------------
Resting == [at |-> "idle", key |-> <<"none", 0>>, start |-> 0, result |-> "unknown",
            recent |-> <<>>, tried |-> <<>>, avoid |-> {}]

SelectionInit ==
  /\ diary = Past
  /\ \E beginning \in Beginnings :
       /\ evidence = beginning.evidence
       /\ allowance = [turns |-> beginning.turns, others |-> beginning.others, mined |-> MaxMined]
  /\ engine = [s \in Engines |-> Resting]
  /\ lessons = [subject \in {} |-> FirstSighting("none", 0, FALSE)]

\* What each source gives: the newest of its evidence, up to its quota.
Gatherings ==
  UNION {{<<k, id>> : id \in Newest(evidence[Sources[k].name], Sources[k].quota)} : k \in DOMAIN Sources}

\* Source by source, the newest first.
Earlier(x, y) == x[1] < y[1] \/ (x[1] = y[1] /\ x[2] > y[2])

\* generate_activities: of all of them the first max_candidates.
Generated ==
  {<<Sources[x[1]].name, x[2]>> :
     x \in {y \in Gatherings : Cardinality({z \in Gatherings : Earlier(z, y)}) < MaxCandidates}}

\* The goal a strategy is for, 0 for none.
Context(key) == IF key[1] \in {"goal", "capability"} THEN key[2] ELSE 0
StrategyOf(key) == <<"strategy", Context(key), SourceOf(key).category>>

\* strategy_bonus_for, in tenths.
Bonus(key) ==
  LET general == <<"strategy", 0, SourceOf(key).category>>
  IN  IF StrategyOf(key) \in DOMAIN lessons
      THEN LET row == lessons[StrategyOf(key)]
           IN  CASE row.status = "established" /\ row.confidence >= PromoteConfidence -> 12
                 [] row.status = "contradicted" -> 7
                 [] OTHER -> 10
      ELSE IF general \in DOMAIN lessons /\ lessons[general].status = "established" THEN 11 ELSE 10

Repeats(s, key) == Cardinality({i \in DOMAIN engine[s].recent : engine[s].recent[i] = key})

\* Mutant: what was done lately counts as much as anything else.
ScoreRigid(s, key) ==
  IF key \in engine[s].avoid THEN 0 ELSE SourceOf(key).score * Bonus(key)

DoubledOften[n \in Nat] == IF n = 0 THEN 1 ELSE 2 * DoubledOften[n - 1]

\* A repeat halves the score.  (It is rounded to six digits, which none of the
\* windows used here can tell.)
Score(s, key) ==
  IF key \in engine[s].avoid THEN 0
  ELSE SourceOf(key).score * Bonus(key) * DoubledOften[RecentWindow - Repeats(s, key)]

\* Where an id of at most two digits comes in the order of strings.
StringOrder(id) == IF id < 10 THEN 20 * id - 1 ELSE 2 * id

\* Score, novelty and key, in this order.
Standing(s, key) == <<Score(s, key), SourceOf(key).novelty, SourceOf(key).rank, StringOrder(key[2])>>
Beats(x, y) == \E i \in DOMAIN x : x[i] > y[i] /\ \A j \in 1..(i - 1) : x[j] = y[j]

\* select_activity
Selected(s) ==
  CHOOSE key \in Generated :
    \A other \in Generated \ {key} : Beats(Standing(s, key), Standing(s, other))

-----------------------------------------------------------------------------
Happening(kind, s, key) ==
  [kind |-> kind, session |-> s, key |-> key, result |-> "unknown", stuck |-> FALSE,
   start |-> 0, offered |-> {}]

Noticed(event) == diary' = Append(diary, event)
Now(s, state) == engine' = [engine EXCEPT ![s] = state]

\* `offered' is history: the candidates that are not avoided.
Choose(s) ==
  /\ engine[s].at = "idle" /\ Generated # {}
  /\ allowance.turns[s] > 0 /\ allowance' = [allowance EXCEPT !.turns[s] = @ - 1]
  /\ Noticed([Happening("activity_started", s, Selected(s)) EXCEPT
                !.offered = Generated \ engine[s].avoid])
  /\ Now(s, [engine[s] EXCEPT !.at = "run", !.key = Selected(s), !.start = Len(diary')])
  /\ UNCHANGED <<evidence, lessons>>

Remembered(keys) == SubSeq(keys, Max({1, Len(keys) - RecentWindow + 1}), Len(keys))

\* The experience of the activity; one that failed is evidence to revisit.
Live(s) ==
  /\ engine[s].at = "run"
  /\ \E result \in {"success", "failure"} :
       /\ Noticed([Happening("experience", s, engine[s].key) EXCEPT
                     !.result = result, !.start = engine[s].start])
       /\ Now(s, [engine[s] EXCEPT
                    !.at = "finish", !.result = result,
                    !.recent = Remembered(Append(@, engine[s].key)),
                    !.tried = Append(@, <<engine[s].key, result>>)])
       /\ evidence' = IF result = "failure" THEN [evidence EXCEPT !.revisit = @ \cup {Len(diary')}]
                      ELSE evidence
  /\ UNCHANGED <<lessons, allowance>>

\* An acquisition that succeeded is an experience too, and so is what was seen
\* of the main server: of no activity, and for no goal (acquisition.py:401,
\* telemetry.py:402).
LiveElsewhere ==
  /\ allowance.others > 0 /\ allowance' = [allowance EXCEPT !.others = @ - 1]
  /\ \E result \in {"success", "unknown"} :
       Noticed([Happening("experience", "elsewhere", <<"none", 0>>) EXCEPT !.result = result])
  /\ UNCHANGED <<evidence, engine, lessons>>

Identical(s) ==
  LET tried == engine[s].tried
  IN  /\ Len(tried) >= StuckAfter
      /\ \A i \in (Len(tried) - StuckAfter + 1)..Len(tried) : tried[i] = tried[Len(tried)]

Ended(s, stuck) ==
  [Happening("activity_finished", s, engine[s].key) EXCEPT !.result = engine[s].result, !.stuck = stuck]

\* A success answers a curiosity.
FinishNormal(s) ==
  /\ engine[s].at = "finish" /\ ~Identical(s)
  /\ Noticed(Ended(s, FALSE))
  /\ evidence' = IF engine[s].key[1] = "curiosity" /\ engine[s].result = "success"
                 THEN [evidence EXCEPT !.curiosity = @ \ {engine[s].key[2]}] ELSE evidence
  /\ Now(s, [engine[s] EXCEPT !.at = "idle"])
  /\ UNCHANGED <<lessons, allowance>>

\* A stuck one is avoided from now on, and its goal, if it is still open, gives
\* way to a refined one; its session is paused, and resumed at some time.
FinishStuck(s) ==
  /\ engine[s].at = "finish" /\ Identical(s)
  /\ LET goal == Context(engine[s].key)
         refined == Len(diary) + 2
         refine(ids) == IF goal \in ids THEN (ids \ {goal}) \cup {refined} ELSE ids
     IN  IF goal \in evidence.goal
         THEN /\ diary' = diary \o <<Ended(s, TRUE), Happening("goal_opened", s, engine[s].key)>>
              /\ evidence' = [evidence EXCEPT !.goal = refine(@), !.capability = refine(@)]
         ELSE Noticed(Ended(s, TRUE)) /\ UNCHANGED evidence
  /\ Now(s, [engine[s] EXCEPT !.at = "idle", !.avoid = @ \cup {engine[s].key}])
  /\ UNCHANGED <<lessons, allowance>>

-----------------------------------------------------------------------------
Recent(kind) == EventsOfKind(diary, kind, MineLimit)
NewestFirst(ids) ==
  [k \in 1..Cardinality(ids) |-> CHOOSE i \in ids : Cardinality({j \in ids : j > i}) = k - 1]

CategoryOf(i) == SourceOf(diary[i].key).category
Tell(subject, event, against) == [subject |-> subject, event |-> event, against |-> against]

\* mine_skills: an activity that was started is told by its key.
Performed(k) == \E i \in Recent("activity_started") : diary[i].key = diary[k].key
Skills ==
  LET ids == NewestFirst({k \in Recent("activity_finished") : Performed(k)})
  IN  [i \in DOMAIN ids |->
         Tell(<<"skill", 0, CategoryOf(ids[i])>>, ids[i], diary[ids[i]].result = "failure")]

\* mine_preferences: to select is to prefer, until one is stuck.
Preferences ==
  LET chosen == NewestFirst(Recent("activity_started"))
      stuck  == NewestFirst({k \in Recent("activity_finished") : diary[k].stuck /\ Performed(k)})
      of(ids, against) ==
        [i \in DOMAIN ids |-> Tell(<<"prefers", 0, CategoryOf(ids[i])>>, ids[i], against)]
  IN  of(chosen, FALSE) \o of(stuck, TRUE)

\* Mutant: the newest of all the activities.
RunningNewest(exp) ==
  LET starts == Recent("activity_started")
  IN  IF starts = {} THEN "UNKNOWN" ELSE CategoryOf(Max(starts))

\* The activity an experience is taken to be of: the latest one started before
\* it, in any session.
Running(exp) ==
  LET starts == {i \in Recent("activity_started") : i < exp}
  IN  IF starts = {} THEN "UNKNOWN" ELSE CategoryOf(Max(starts))

\* mine_strategies
Strategies ==
  LET ids == NewestFirst({i \in Recent("experience") : diary[i].result # "unknown"})
  IN  [i \in DOMAIN ids |->
         Tell(<<"strategy", Context(diary[ids[i]].key), Running(ids[i])>>, ids[i],
              diary[ids[i]].result = "failure")]

\* observe
Told(table, telling) ==
  LET subject == telling.subject
  IN  IF subject \notin DOMAIN table
      THEN [x \in DOMAIN table \cup {subject} |->
              IF x = subject THEN FirstSighting(subject, telling.event, telling.against) ELSE table[x]]
      ELSE IF Counted(table[subject], telling.event) THEN table
      ELSE [table EXCEPT ![subject] = Observed(@, @, telling.event, telling.against)]

Mine ==
  /\ allowance.mined > 0 /\ allowance' = [allowance EXCEPT !.mined = @ - 1]
  /\ lessons' = FoldLeft(Told, lessons, Skills \o Preferences \o Strategies)
  /\ UNCHANGED <<diary, evidence, engine>>

SelectionNext ==
  \/ \E s \in Engines : Choose(s) \/ Live(s) \/ FinishNormal(s) \/ FinishStuck(s)
  \/ LiveElsewhere
  \/ Mine

-----------------------------------------------------------------------------

\* The selections of a session.
Selections(s) == {i \in IdsOfKind(diary, "activity_started") : diary[i].session = s}

\* Recent selections make way: among one selection more than the window holds,
\* of candidates that were on offer all the time and few enough for it, each
\* has its turn, whatever strategies were learned meanwhile (activities.py:
\* 313-316, 343-346, autonomy.py:279).  A window of ten has room for four.
Rotation ==
  \A s \in Engines :
    LET turn   == Newest(Selections(s), RecentWindow + 1)
        taken  == {diary[i].key : i \in turn}
        steady == {key \in UNION {diary[i].offered : i \in turn} : \A i \in turn : key \in diary[i].offered}
        others == Cardinality(steady) - 1
    IN  (Cardinality(turn) > RecentWindow /\ taken \subseteq steady /\ others * (others + 3) <= 2 * RecentWindow)
          => steady = taken

\* A strategy rests on activities of its category: the experience of one counts
\* for another category only when a second session started an activity while
\* the first was at its own, or for none when so many have been started since
\* that its start was out of sight (learned.py:422-429).  What is no experience
\* of an activity, such as an acquisition's, counts for whatever was started
\* last, but never for a strategy of a goal (learned.py:423, acquisition.py:401).
StrategiesTruthful ==
  \A subject \in DOMAIN lessons :
    subject[1] = "strategy" =>
      \A e \in ToSet(lessons[subject].support \o lessons[subject].contra) :
        LET start == diary[e].start
        IN  IF start = 0 THEN subject[2] = 0
            ELSE \/ subject[3] = CategoryOf(start)
                 \/ \E i \in IdsOfKind(diary, "activity_started") :
                      start < i /\ i < e /\ diary[i].session # diary[e].session
                 \/ subject[3] = "UNKNOWN" /\
                      Cardinality({i \in IdsOfKind(diary, "activity_started") : i > start}) >= MineLimit
=============================================================================
