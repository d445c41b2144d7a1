--------------------------- MODULE TelemetryProofs ---------------------------
(* Machine-checked facts about Telemetry, for every value of its constants. *)
EXTENDS Telemetry, FiniteSetTheorems, WellFoundedInduction, TLAPS

-----------------------------------------------------------------------------
(* Sequences that grow, and the least and the greatest of a set. *)

\* A sequence of whatever it holds.
Table(t) == t \in Seq({t[i] : i \in DOMAIN t})

LEMMA TableFacts ==
  ASSUME NEW t, Table(t)
  PROVE  Len(t) \in Nat /\ DOMAIN t = 1..Len(t)
BY DEF Table

LEMMA AppendFacts ==
  ASSUME NEW t, Table(t), NEW e
  PROVE  LET u == Append(t, e)
         IN  /\ Table(u) /\ Len(u) = Len(t) + 1 /\ DOMAIN u = DOMAIN t \cup {Len(t) + 1}
             /\ Len(t) \in Nat /\ Len(t) + 1 \notin DOMAIN t
             /\ (\A i \in DOMAIN t : u[i] = t[i]) /\ u[Len(t) + 1] = e
<1> DEFINE S == {t[i] : i \in DOMAIN t} \cup {e}
           u == Append(t, e)
<1>1. t \in Seq(S) /\ e \in S
  <2>1. {t[i] : i \in DOMAIN t} \subseteq S
    OBVIOUS
  <2>2. \A i \in DOMAIN t : t[i] \in S
    OBVIOUS
  <2> HIDE DEF S
  <2>3. Len(t) \in Nat /\ DOMAIN t = 1..Len(t) /\ t = [i \in 1..Len(t) |-> t[i]]
    BY DEF Table
  <2>4. t \in [1..Len(t) -> S]
    BY <2>2, <2>3
  <2> QED
    BY <2>3, <2>4 DEF S
<1> HIDE DEF S
<1>2. /\ u \in Seq(S) /\ Len(u) = Len(t) + 1 /\ Len(t) \in Nat
      /\ DOMAIN t = 1..Len(t) /\ DOMAIN u = 1..Len(u)
      /\ (\A i \in DOMAIN t : u[i] = t[i]) /\ u[Len(t) + 1] = e
  BY <1>1
<1> HIDE DEF u
<1>3. Table(u)
  BY <1>2 DEF Table
<1> QED
  BY <1>2, <1>3 DEF u

LEMMA Least ==
  ASSUME NEW S \in SUBSET Nat, S # {}
  PROVE  \E m \in S : \A n \in S : m <= n
<1> DEFINE R == OpToRel(<, Nat)
<1>1. IsWellFoundedOn(R, Nat)
  BY NatLessThanWellFounded
<1>2. \A x, y \in Nat : x < y => <<x, y>> \in R
  BY DEF OpToRel
<1> HIDE DEF R
<1>3. PICK m \in S : \A y \in S : ~(<<y, m>> \in R)
  BY <1>1, WFMin
<1>4. \A n \in S : ~(n < m)
  BY <1>2, <1>3
<1>5. \A n \in S : m \in Nat /\ n \in Nat
  BY <1>3
<1> QED
  BY <1>4, <1>5

\* The greatest of some event ids.
LEMMA MaxFacts ==
  ASSUME NEW S \in SUBSET Nat, S # {}, NEW bound \in Nat, \A n \in S : n <= bound
  PROVE  Max(S) \in S /\ \A n \in S : n <= Max(S)
<1> DEFINE bounds == {b \in Nat : \A n \in S : n <= b}
<1>1. PICK b \in bounds : \A c \in bounds : b <= c
  <2>1. bounds \in SUBSET Nat /\ bound \in bounds
    OBVIOUS
  <2> QED
    BY <2>1, Least
<1>2. b \in Nat /\ \A n \in S : n <= b /\ n \in Nat
  OBVIOUS
<1>3. b \in S
  <2>1. SUFFICES ASSUME b \notin S PROVE FALSE
    OBVIOUS
  <2>2. \A n \in S : n <= b - 1
    BY <1>2, <2>1
  <2>3. b - 1 \in Nat
    <3>1. PICK n \in S : TRUE
      OBVIOUS
    <3>2. n \in Nat /\ n <= b - 1 /\ b \in Nat
      BY <1>2, <2>2
    <3> QED
      BY <3>2
  <2>4. b - 1 \in bounds
    BY <2>2, <2>3
  <2> QED
    BY <1>1, <1>2, <2>4
<1>4. \E x \in S : \A y \in S : x >= y
  BY <1>2, <1>3
<1>5. Max(S) \in S /\ \A y \in S : Max(S) >= y
  BY <1>4 DEF Max
<1> QED
  BY <1>2, <1>5

-----------------------------------------------------------------------------
(* What a step does to the processes and the tables. *)

FieldNames == {"pc", "pass", "offset", "batch", "cur", "held"}

\* The tables are sequences, and the processes have the locals they need; the
\* lines in a batch are of no concern.
Shape ==
  /\ Table(marks) /\ Table(ledger)
  /\ DOMAIN proc = Processes /\ \A p \in Processes : DOMAIN proc[p] = FieldNames
  /\ budget \in [bytes : Nat, runs : Nat, crashes : Nat, rotations : Nat]

Local(p) == Collect(p) \/ Promote(p) \/ Begin(p)
ProcStep(p) == Local(p) \/ Crash(p)

\* Only p has gone on.
Others(p) == /\ DOMAIN proc' = Processes /\ DOMAIN proc'[p] = FieldNames
             /\ \A q \in Processes \ {p} : proc'[q] = proc[q]

LEMMA IdleFields == DOMAIN Idle = FieldNames /\ Idle.pc = "off"
BY DEF Idle, FieldNames

\* A line that is neither stored nor recorded at the moment.
Quiet(p) ==
  /\ proc[p].pc \notin {"mark", "record"} /\ proc'[p].pc \notin {"mark", "record"}
  /\ UNCHANGED marks

LEMMA PollEffect ==
  ASSUME Shape, NEW p \in Processes,
         Begin(p) \/ Poll(p) \/ PollFails(p) \/ PollLoses(p) \/ PollRaises(p) \/ ReadCursor(p) \/ SkipLines(p)
  PROVE  /\ Others(p) /\ Quiet(p) /\ UNCHANGED ledger
         /\ proc[p].pc \notin {"experience", "marker"} /\ proc'[p].pc \notin {"experience", "marker"}
<1> USE IdleFields DEF Shape, Others, Quiet, FieldNames
<1>1. CASE Begin(p)
  BY <1>1 DEF Begin
<1>2. CASE Poll(p)
  BY <1>2 DEF Poll
<1>3. CASE PollFails(p)
  BY <1>3 DEF PollFails, AfterCollect
<1>4. CASE PollRaises(p)
  BY <1>4 DEF PollRaises
<1>5. CASE ReadCursor(p)
  BY <1>5 DEF ReadCursor
<1>6. CASE SkipLines(p)
  BY <1>6 DEF SkipLines
<1>7. CASE PollLoses(p)
  BY <1>7 DEF PollLoses, AfterCollect
<1> QED
  BY <1>1, <1>2, <1>3, <1>4, <1>5, <1>6, <1>7

LEMMA SetCursorEffect ==
  ASSUME Shape, NEW p \in Processes, SetCursor(p)
  PROVE  /\ Others(p) /\ Quiet(p) /\ UNCHANGED <<ledger, budget>>
         /\ proc[p].pc \notin {"experience", "marker"} /\ proc'[p].pc \notin {"experience", "marker"}
BY DEF Shape, Others, Quiet, FieldNames, SetCursor, AfterCollect

LEMMA DeduplicateEffect ==
  ASSUME Shape, NEW p \in Processes, Deduplicate(p)
  PROVE  /\ Others(p) /\ proc[p].pc = "line" /\ UNCHANGED <<marks, ledger, budget>>
         /\ \/ proc'[p].pc = "line"
            \/ /\ proc'[p].pc = "mark" /\ proc'[p].batch = proc[p].batch
               /\ ~Seen(Head(proc[p].batch))
BY DEF Shape, Others, FieldNames, Deduplicate, Advance

LEMMA MarkEffect ==
  ASSUME Shape, NEW p \in Processes, MarkSeen(p)
  PROVE  /\ Others(p) /\ proc[p].pc = "mark" /\ UNCHANGED <<ledger, budget>>
         /\ marks' = Append(marks, Head(proc[p].batch))
         /\ IF Head(proc[p].batch) \in Significant
            THEN proc'[p].pc = "record" /\ proc'[p].batch = proc[p].batch
            ELSE proc'[p].pc = "line"
BY DEF Shape, Others, FieldNames, MarkSeen, Advance

LEMMA RecordLineEffect ==
  ASSUME Shape, NEW p \in Processes, RecordLine(p)
  PROVE  /\ Others(p) /\ proc[p].pc = "record" /\ proc'[p].pc = "line" /\ UNCHANGED <<marks, budget>>
         /\ ledger' = Append(ledger, Event("telemetry", Head(proc[p].batch), {}, 0))
BY DEF Shape, Others, FieldNames, RecordLine, Advance, Record

LEMMA ReadEffect ==
  ASSUME Shape, NEW p \in Processes, ReadUnpromoted(p)
  PROVE  /\ Others(p) /\ Quiet(p) /\ UNCHANGED <<ledger, budget>>
         /\ \/ proc'[p].pc = "off"
            \/ proc'[p].pc = "experience" /\ proc'[p].held = Unpromoted /\ Unpromoted # {}
BY IdleFields DEF Shape, Others, Quiet, FieldNames, ReadUnpromoted

LEMMA ExperienceEffect ==
  ASSUME Shape, NEW p \in Processes, RecordExperience(p)
  PROVE  /\ Others(p) /\ Quiet(p) /\ UNCHANGED budget
         /\ proc[p].pc = "experience" /\ proc'[p].pc = "marker" /\ proc'[p].held = proc[p].held
         /\ ledger' = Append(ledger, Event("experience", Fragment, Newest(proc[p].held, Told), 0))
BY DEF Shape, Others, Quiet, FieldNames, RecordExperience, Record

LEMMA MarkerEffect ==
  ASSUME Shape, NEW p \in Processes, RecordMarker(p)
  PROVE  /\ Others(p) /\ Quiet(p) /\ UNCHANGED budget
         /\ proc[p].pc = "marker" /\ proc'[p].pc = "off"
         /\ ledger' = Append(ledger, Event("telemetry_promoted", Fragment, {}, Max(proc[p].held)))
BY IdleFields DEF Shape, Others, Quiet, FieldNames, RecordMarker, Record, CoverUpTo

LEMMA CrashEffect ==
  ASSUME Shape, NEW p \in Processes, Crash(p)
  PROVE  /\ Others(p) /\ proc'[p].pc = "off" /\ UNCHANGED <<marks, ledger>>
         /\ budget' \in [bytes : Nat, runs : Nat, crashes : Nat, rotations : Nat]
         /\ budget'.crashes = budget.crashes - 1
<1>1. Others(p) /\ proc'[p].pc = "off" /\ UNCHANGED <<marks, ledger>>
  BY IdleFields DEF Shape, Others, FieldNames, Crash
<1>2. budget' \in [bytes : Nat, runs : Nat, crashes : Nat, rotations : Nat]
      /\ budget'.crashes = budget.crashes - 1
  BY DEF Shape, Crash, Spend
<1> QED
  BY <1>1, <1>2

\* The bounds, but for the crashes.
LEMMA BudgetStep ==
  ASSUME Shape, NEW p \in Processes, Local(p) \/ WriteHalf \/ Rotate
  PROVE  /\ budget' \in [bytes : Nat, runs : Nat, crashes : Nat, rotations : Nat]
         /\ budget'.crashes = budget.crashes
<1>1. CASE Collect(p) \/ Promote(p)
  BY <1>1 DEF Shape, Collect, Promote, Poll, PollFails, PollLoses, PollRaises, ReadCursor, SkipLines,
     Deduplicate, MarkSeen, RecordLine, SetCursor, ReadUnpromoted, RecordExperience, RecordMarker
<1>2. CASE Begin(p)
  BY <1>2 DEF Shape, Begin, Spend
<1>3. CASE WriteHalf \/ Rotate
  BY <1>3 DEF Shape, WriteHalf, Rotate, Spend
<1> QED
  BY <1>1, <1>2, <1>3 DEF Local

\* Which steps there are.
LEMMA Cases ==
  ASSUME NEW p \in Processes, ProcStep(p)
  PROVE  \/ Begin(p) \/ Poll(p) \/ PollFails(p) \/ PollLoses(p) \/ PollRaises(p) \/ ReadCursor(p) \/ SkipLines(p)
         \/ SetCursor(p) \/ Deduplicate(p) \/ MarkSeen(p) \/ RecordLine(p) \/ ReadUnpromoted(p)
         \/ RecordExperience(p) \/ RecordMarker(p) \/ Crash(p)
BY DEF ProcStep, Local, Collect, Promote

\* The ledger only grows, by one event at most.
Kept == /\ Table(ledger')
        /\ DOMAIN ledger \subseteq DOMAIN ledger'
        /\ \A i \in DOMAIN ledger : ledger'[i] = ledger[i]
        /\ \A i \in DOMAIN ledger' \ DOMAIN ledger : i = Len(ledger) + 1 /\ ledger' = Append(ledger, ledger'[i])

LEMMA StepFacts ==
  ASSUME Shape, NEW p \in Processes, ProcStep(p)
  PROVE  Others(p) /\ Kept
<1>1. Table(ledger)
  BY DEF Shape
<1>2. ASSUME NEW e, ledger' = Append(ledger, e) PROVE Kept
  BY <1>1, <1>2, AppendFacts DEF Kept
<1>3. ASSUME UNCHANGED ledger PROVE Kept
  BY <1>1, <1>3 DEF Kept
<1>4. CASE Begin(p) \/ Poll(p) \/ PollFails(p) \/ PollLoses(p) \/ PollRaises(p) \/ ReadCursor(p) \/ SkipLines(p)
  BY <1>3, <1>4, PollEffect
<1>5. CASE SetCursor(p) \/ Deduplicate(p) \/ MarkSeen(p) \/ ReadUnpromoted(p) \/ Crash(p)
  BY <1>3, <1>5, SetCursorEffect, DeduplicateEffect, MarkEffect, ReadEffect, CrashEffect
<1>6. CASE RecordLine(p) \/ RecordExperience(p) \/ RecordMarker(p)
  BY <1>2, <1>6, RecordLineEffect, ExperienceEffect, MarkerEffect
<1> QED
  BY <1>4, <1>5, <1>6, Cases

LEMMA ShapeInit == Init => Shape
<1> SUFFICES ASSUME Init PROVE Shape
  OBVIOUS
<1>1. Table(<<>>)
  BY DEF Table
<1>2. DOMAIN proc = Processes /\ \A p \in Processes : DOMAIN proc[p] = FieldNames
  BY IdleFields DEF Init
<1>3. budget \in [bytes : Nat, runs : Nat, crashes : Nat, rotations : Nat]
  BY BoundsAssumption DEF Init
<1> QED
  BY <1>1, <1>2, <1>3 DEF Init, Shape

LEMMA ShapeStep ==
  ASSUME Shape, NEW p \in Processes, ProcStep(p)
  PROVE  Shape'
<1>1. Others(p) /\ Kept
  BY StepFacts
<1>2. DOMAIN proc' = Processes /\ \A q \in Processes : DOMAIN proc'[q] = FieldNames
  BY <1>1 DEF Others, Shape
<1>3. budget' \in [bytes : Nat, runs : Nat, crashes : Nat, rotations : Nat]
  BY BudgetStep, CrashEffect DEF ProcStep
<1>4. Table(marks')
  <2>1. CASE UNCHANGED marks
    <3>1. Table(marks)
      BY DEF Shape
    <3> QED
      BY <2>1, <3>1
  <2>2. CASE MarkSeen(p)
    <3>1. Table(marks)
      BY DEF Shape
    <3>2. Table(Append(marks, Head(proc[p].batch)))
      BY <3>1, AppendFacts
    <3>3. marks' = Append(marks, Head(proc[p].batch))
      BY <2>2, MarkEffect
    <3> QED
      BY <3>2, <3>3
  <2>3. UNCHANGED marks \/ MarkSeen(p)
    BY Cases, PollEffect, SetCursorEffect, DeduplicateEffect, RecordLineEffect, ReadEffect,
       ExperienceEffect, MarkerEffect, CrashEffect DEF Quiet
  <2> QED
    BY <2>1, <2>2, <2>3
<1> QED
  BY <1>1, <1>2, <1>3, <1>4 DEF Shape, Kept

-----------------------------------------------------------------------------
(* Lines that are stored as seen, and lines that are recorded. *)

Hits(t, S) == {i \in DOMAIN t : t[i] \in S}
At(pr, place) == {p \in Processes : pr[p].pc = place}
With(pr, place, l) == {p \in Processes : pr[p].pc = place /\ Head(pr[p].batch) = l}
Copies(log, l) == {i \in IdsOfKind(log, "telemetry") : log[i].line = l}

\* What is marked is recorded, about to be, or was cut off by a crash.
AllRecorded(m, log, pr, crashes) ==
  Cardinality(Hits(m, Significant))
    <= Cardinality(IdsOfKind(log, "telemetry")) + (MaxCrashes - crashes) + Cardinality(At(pr, "record"))

\* Nobody gets to marking a line once it is marked; and each mark leads to one
\* event at most.
MarkedOnce(m, pr, l) ==
  Len(m) <= Retention =>
    Cardinality(Hits(m, {l})) + Cardinality(With(pr, "mark", l)) <= Cardinality(Processes)
OncePerMark(m, log, pr, l) ==
  Cardinality(Copies(log, l)) + Cardinality(With(pr, "record", l)) <= Cardinality(Hits(m, {l}))

CountedIn(m, log, pr, crashes) ==
  /\ AllRecorded(m, log, pr, crashes)
  /\ \A l \in Stamped : MarkedOnce(m, pr, l) /\ OncePerMark(m, log, pr, l)

Counted == CountedIn(marks, ledger, proc, budget.crashes)

LEMMA HitsFacts ==
  ASSUME NEW t, Table(t), NEW S
  PROVE  IsFiniteSet(Hits(t, S)) /\ Cardinality(Hits(t, S)) \in Nat
<1>1. Len(t) \in Nat /\ DOMAIN t = 1..Len(t)
  BY TableFacts
<1>2. IsFiniteSet(1..Len(t)) /\ Hits(t, S) \subseteq 1..Len(t)
  BY <1>1, FS_Interval DEF Hits
<1>3. IsFiniteSet(Hits(t, S))
  BY <1>2, FS_Subset
<1> QED
  BY <1>3, FS_CardinalityType

LEMMA HitsAppend ==
  ASSUME NEW t, Table(t), NEW e, NEW S
  PROVE  Cardinality(Hits(Append(t, e), S)) =
           IF e \in S THEN Cardinality(Hits(t, S)) + 1 ELSE Cardinality(Hits(t, S))
<1> DEFINE u == Append(t, e)  n == Len(t) + 1
<1>1. /\ DOMAIN u = DOMAIN t \cup {n} /\ n \notin DOMAIN t
      /\ (\A i \in DOMAIN t : u[i] = t[i]) /\ u[n] = e
  BY AppendFacts
<1> HIDE DEF u, n
<1>2. CASE e \in S
  <2>1. Hits(u, S) = Hits(t, S) \cup {n} /\ n \notin Hits(t, S)
    BY <1>1, <1>2 DEF Hits
  <2> QED
    BY <1>2, <2>1, HitsFacts, FS_AddElement DEF u
<1>3. CASE e \notin S
  <2>1. Hits(u, S) = Hits(t, S)
    BY <1>1, <1>3 DEF Hits
  <2> QED
    BY <1>3, <2>1 DEF u
<1> QED
  BY <1>2, <1>3

LEMMA EventsFacts ==
  ASSUME NEW log, Table(log), NEW l
  PROVE  /\ IsFiniteSet(IdsOfKind(log, "telemetry")) /\ Cardinality(IdsOfKind(log, "telemetry")) \in Nat
         /\ IsFiniteSet(Copies(log, l)) /\ Cardinality(Copies(log, l)) \in Nat
<1>1. Len(log) \in Nat /\ DOMAIN log = 1..Len(log)
  BY TableFacts
<1>2. IsFiniteSet(1..Len(log)) /\ IdsOfKind(log, "telemetry") \subseteq 1..Len(log)
      /\ Copies(log, l) \subseteq 1..Len(log)
  BY <1>1, FS_Interval DEF IdsOfKind, Copies
<1>3. IsFiniteSet(IdsOfKind(log, "telemetry")) /\ IsFiniteSet(Copies(log, l))
  BY <1>2, FS_Subset
<1> QED
  BY <1>3, FS_CardinalityType

LEMMA EventsAppend ==
  ASSUME NEW log, Table(log), NEW e, NEW l
  PROVE  LET more == Append(log, e)
         IN  /\ e.kind # "telemetry" => /\ IdsOfKind(more, "telemetry") = IdsOfKind(log, "telemetry")
                                        /\ Copies(more, l) = Copies(log, l)
             /\ e.kind = "telemetry" =>
                  /\ Cardinality(IdsOfKind(more, "telemetry")) = Cardinality(IdsOfKind(log, "telemetry")) + 1
                  /\ Cardinality(Copies(more, l)) = IF e.line = l THEN Cardinality(Copies(log, l)) + 1
                                                    ELSE Cardinality(Copies(log, l))
<1> DEFINE more == Append(log, e)  n == Len(log) + 1
<1>1. /\ DOMAIN more = DOMAIN log \cup {n} /\ n \notin DOMAIN log
      /\ (\A i \in DOMAIN log : more[i] = log[i]) /\ more[n] = e
  BY AppendFacts
<1> HIDE DEF more, n
<1>2. ASSUME e.kind # "telemetry"
      PROVE  /\ IdsOfKind(more, "telemetry") = IdsOfKind(log, "telemetry")
             /\ Copies(more, l) = Copies(log, l)
  BY <1>1, <1>2 DEF IdsOfKind, Copies
<1>3. ASSUME e.kind = "telemetry"
      PROVE  /\ Cardinality(IdsOfKind(more, "telemetry")) = Cardinality(IdsOfKind(log, "telemetry")) + 1
             /\ Cardinality(Copies(more, l)) = IF e.line = l THEN Cardinality(Copies(log, l)) + 1
                                               ELSE Cardinality(Copies(log, l))
  <2>1. /\ IdsOfKind(more, "telemetry") = IdsOfKind(log, "telemetry") \cup {n}
        /\ n \notin IdsOfKind(log, "telemetry") /\ n \notin Copies(log, l)
    BY <1>1, <1>3 DEF IdsOfKind, Copies
  <2>2. Copies(more, l) = IF e.line = l THEN Copies(log, l) \cup {n} ELSE Copies(log, l)
    BY <1>1, <1>3 DEF IdsOfKind, Copies
  <2> QED
    BY <2>1, <2>2, EventsFacts, FS_AddElement
<1> QED
  BY <1>2, <1>3 DEF more

LEMMA ProcessSets ==
  ASSUME NEW pr, NEW place, NEW l
  PROVE  /\ IsFiniteSet(At(pr, place)) /\ Cardinality(At(pr, place)) \in Nat
         /\ IsFiniteSet(With(pr, place, l)) /\ Cardinality(With(pr, place, l)) \in Nat
         /\ Cardinality(With(pr, place, l)) <= Cardinality(Processes)
         /\ Cardinality(Processes) \in Nat
<1>1. At(pr, place) \subseteq Processes /\ With(pr, place, l) \subseteq Processes
  BY DEF At, With
<1>2. IsFiniteSet(At(pr, place)) /\ IsFiniteSet(With(pr, place, l))
      /\ Cardinality(With(pr, place, l)) <= Cardinality(Processes)
  BY <1>1, ProcessesAssumption, FS_Subset
<1> QED
  BY <1>2, ProcessesAssumption, FS_CardinalityType

LEMMA Removed ==
  ASSUME NEW S, IsFiniteSet(S), NEW x
  PROVE  /\ Cardinality(S) \in Nat /\ Cardinality(S \ {x}) \in Nat
         /\ Cardinality(S \ {x}) <= Cardinality(S) /\ Cardinality(S) <= Cardinality(S \ {x}) + 1
<1>1. Cardinality(S) \in Nat /\ Cardinality(S \ {x}) \in Nat
  BY FS_RemoveElement, FS_CardinalityType
<1>2. Cardinality(S \ {x}) = IF x \in S THEN Cardinality(S) - 1 ELSE Cardinality(S)
  BY FS_RemoveElement
<1> QED
  BY <1>1, <1>2

\* How the sets of processes change when p goes on.
LEMMA AtStep ==
  ASSUME NEW p \in Processes, Others(p), NEW place
  PROVE  /\ proc'[p].pc = place => At(proc', place) = At(proc, place) \cup {p}
         /\ proc'[p].pc # place => At(proc', place) = At(proc, place) \ {p}
BY DEF At, Others

LEMMA WithStep ==
  ASSUME NEW p \in Processes, Others(p), NEW place, NEW l
  PROVE  IF proc'[p].pc = place /\ Head(proc'[p].batch) = l
         THEN With(proc', place, l) = With(proc, place, l) \cup {p}
         ELSE With(proc', place, l) = With(proc, place, l) \ {p}
BY DEF With, Others

\* While no fingerprint is forgotten, every one is looked at.
LEMMA NoneForgotten ==
  ASSUME Shape, Len(marks) <= Retention
  PROVE  Newest(DOMAIN marks, Retention) = DOMAIN marks
<1>1. Len(marks) \in Nat /\ DOMAIN marks = 1..Len(marks) /\ Retention \in Nat
  BY TableFacts, LimitsAssumption DEF Shape
<1>2. ASSUME NEW i \in DOMAIN marks PROVE Cardinality({j \in DOMAIN marks : j > i}) < Retention
  <2>1. {j \in DOMAIN marks : j > i} = (i + 1)..Len(marks)
    BY <1>1
  <2>2. Cardinality((i + 1)..Len(marks)) <= Len(marks) - i /\ i >= 1
    <3>1. i + 1 \in Int /\ Len(marks) \in Int /\ i <= Len(marks) /\ i >= 1
      BY <1>1
    <3>2. Cardinality((i + 1)..Len(marks)) = IF i + 1 > Len(marks) THEN 0 ELSE Len(marks) - (i + 1) + 1
      BY <3>1, FS_Interval
    <3> QED
      BY <3>1, <3>2
  <2>3. Cardinality((i + 1)..Len(marks)) \in Nat
    <3>1. i + 1 \in Int /\ Len(marks) \in Int
      BY <1>1
    <3> QED
      BY <3>1, FS_Interval, FS_CardinalityType
  <2>4. Cardinality((i + 1)..Len(marks)) < Retention
    BY <1>1, <2>2, <2>3
  <2> QED
    BY <2>1, <2>4
<1> QED
  BY <1>2 DEF Newest

LEMMA CountedInit == Init => Counted
<1> SUFFICES ASSUME Init PROVE Counted
  OBVIOUS
<1>1. marks = <<>> /\ ledger = <<>> /\ budget.crashes = MaxCrashes /\ MaxCrashes \in Nat
  BY BoundsAssumption DEF Init
<1>2. Hits(marks, Significant) = {} /\ \A l : Hits(marks, {l}) = {} /\ Copies(ledger, l) = {}
  BY <1>1 DEF Hits, Copies, IdsOfKind
<1>3. IdsOfKind(ledger, "telemetry") = {}
  BY <1>1 DEF IdsOfKind
<1>4. At(proc, "record") = {} /\ \A l : With(proc, "record", l) = {}
  BY IdleFields DEF Init, At, With
<1>5. AllRecorded(marks, ledger, proc, budget.crashes)
  <2>1. /\ Cardinality(Hits(marks, Significant)) = 0
        /\ Cardinality(IdsOfKind(ledger, "telemetry")) = 0
        /\ Cardinality(At(proc, "record")) = 0
    BY <1>2, <1>3, <1>4, FS_EmptySet
  <2> QED
    BY <1>1, <2>1 DEF AllRecorded
<1>6. ASSUME NEW l PROVE MarkedOnce(marks, proc, l) /\ OncePerMark(marks, ledger, proc, l)
  <2>1. Cardinality(With(proc, "mark", l)) \in Nat /\ Cardinality(Processes) \in Nat
        /\ Cardinality(With(proc, "mark", l)) <= Cardinality(Processes)
    BY ProcessSets
  <2>2. /\ Cardinality(Hits(marks, {l})) = 0 /\ Cardinality(Copies(ledger, l)) = 0
        /\ Cardinality(With(proc, "record", l)) = 0
    BY <1>2, <1>4, FS_EmptySet
  <2> QED
    BY <2>1, <2>2 DEF MarkedOnce, OncePerMark
<1> QED
  BY <1>5, <1>6 DEF Counted, CountedIn

\* A step that neither marks nor records a line.
LEMMA QuietCounts ==
  ASSUME Counted, NEW p \in Processes, Others(p), Quiet(p), Table(ledger),
         \/ UNCHANGED ledger
         \/ \E e : ledger' = Append(ledger, e) /\ e.kind # "telemetry",
         budget'.crashes = budget.crashes
  PROVE  CountedIn(marks', ledger', proc', budget'.crashes)
<1>1. IdsOfKind(ledger', "telemetry") = IdsOfKind(ledger, "telemetry")
      /\ \A l : Copies(ledger', l) = Copies(ledger, l)
  <2>1. CASE UNCHANGED ledger
    BY <2>1
  <2>2. ASSUME NEW e, ledger' = Append(ledger, e), e.kind # "telemetry", NEW l
        PROVE  /\ IdsOfKind(ledger', "telemetry") = IdsOfKind(ledger, "telemetry")
               /\ Copies(ledger', l) = Copies(ledger, l)
    BY <2>2, EventsAppend
  <2> QED
    BY <2>1, <2>2
<1>2. At(proc', "record") = At(proc, "record")
  BY DEF At, Others, Quiet
<1>3. \A l : With(proc', "record", l) = With(proc, "record", l) /\ With(proc', "mark", l) = With(proc, "mark", l)
  BY DEF With, Others, Quiet
<1>4. marks' = marks
  BY DEF Quiet
<1> QED
  BY <1>1, <1>2, <1>3, <1>4 DEF Counted, CountedIn, AllRecorded, MarkedOnce, OncePerMark

LEMMA DeduplicateCounts ==
  ASSUME Shape, Counted, NEW p \in Processes, Deduplicate(p)
  PROVE  CountedIn(marks', ledger', proc', budget'.crashes)
<1>1. Others(p) /\ proc[p].pc = "line" /\ marks' = marks /\ ledger' = ledger /\ budget' = budget
  BY DeduplicateEffect
<1>2. proc'[p].pc # "record"
  BY DeduplicateEffect
<1>3. At(proc', "record") = At(proc, "record") /\ \A l : With(proc', "record", l) = With(proc, "record", l)
  BY <1>1, <1>2 DEF At, With, Others
<1>4. ASSUME NEW l \in Stamped, Len(marks) <= Retention
      PROVE  Cardinality(Hits(marks, {l})) + Cardinality(With(proc', "mark", l)) <= Cardinality(Processes)
  <2>1. CASE proc'[p].pc = "mark" /\ Head(proc'[p].batch) = l
    <3>1. ~Seen(l)
      BY <2>1, DeduplicateEffect
    <3>2. Hits(marks, {l}) = {}
      BY <1>4, <3>1, NoneForgotten DEF Seen, Hits
    <3>3. /\ Cardinality(With(proc', "mark", l)) \in Nat /\ Cardinality(Processes) \in Nat
          /\ Cardinality(With(proc', "mark", l)) <= Cardinality(Processes)
      BY ProcessSets
    <3> QED
      BY <3>2, <3>3, FS_EmptySet
  <2>2. CASE ~(proc'[p].pc = "mark" /\ Head(proc'[p].batch) = l)
    <3>1. With(proc', "mark", l) = With(proc, "mark", l)
      BY <1>1, <2>2 DEF With, Others
    <3> QED
      BY <1>4, <3>1 DEF Counted, CountedIn, MarkedOnce
  <2> QED
    BY <2>1, <2>2
<1> QED
  BY <1>1, <1>3, <1>4 DEF Counted, CountedIn, AllRecorded, MarkedOnce, OncePerMark

LEMMA MarkCounts ==
  ASSUME Shape, Counted, NEW p \in Processes, MarkSeen(p)
  PROVE  CountedIn(marks', ledger', proc', budget'.crashes)
<1> DEFINE line == Head(proc[p].batch)
<1>1. Others(p) /\ proc[p].pc = "mark" /\ ledger' = ledger /\ budget' = budget
      /\ marks' = Append(marks, line)
  BY MarkEffect
<1>2. IF line \in Significant THEN proc'[p].pc = "record" /\ Head(proc'[p].batch) = line
      ELSE proc'[p].pc = "line"
  BY MarkEffect
<1> HIDE DEF line
<1>3. Table(marks) /\ Table(ledger) /\ budget.crashes \in Nat /\ MaxCrashes \in Nat
  BY BoundsAssumption DEF Shape
<1>4. AllRecorded(marks', ledger', proc', budget'.crashes)
  <2>1. Cardinality(Hits(marks', Significant)) =
          IF line \in Significant THEN Cardinality(Hits(marks, Significant)) + 1
          ELSE Cardinality(Hits(marks, Significant))
    BY <1>1, <1>3, HitsAppend
  <2>2. Cardinality(At(proc', "record")) =
          IF line \in Significant THEN Cardinality(At(proc, "record")) + 1 ELSE Cardinality(At(proc, "record"))
    <3>1. p \notin At(proc, "record")
      BY <1>1 DEF At
    <3>2. CASE line \in Significant
      <4>1. At(proc', "record") = At(proc, "record") \cup {p}
        BY <1>1, <1>2, <3>2, AtStep
      <4> QED
        BY <3>1, <3>2, <4>1, ProcessSets, FS_AddElement
    <3>3. CASE line \notin Significant
      <4>1. At(proc', "record") = At(proc, "record")
        BY <1>1, <1>2, <3>3 DEF At, Others
      <4> QED
        BY <3>3, <4>1
    <3> QED
      BY <3>2, <3>3
  <2>3. Cardinality(Hits(marks, Significant)) \in Nat /\ Cardinality(At(proc, "record")) \in Nat
        /\ Cardinality(IdsOfKind(ledger, "telemetry")) \in Nat
    BY <1>3, HitsFacts, ProcessSets, EventsFacts
  <2> QED
    BY <1>1, <1>3, <2>1, <2>2, <2>3 DEF Counted, CountedIn, AllRecorded
<1>5. ASSUME NEW l \in Stamped
      PROVE  MarkedOnce(marks', proc', l) /\ OncePerMark(marks', ledger', proc', l)
  <2>1. Cardinality(Hits(marks', {l})) =
          IF line = l THEN Cardinality(Hits(marks, {l})) + 1 ELSE Cardinality(Hits(marks, {l}))
    BY <1>1, <1>3, HitsAppend
  <2>2. /\ Cardinality(Hits(marks, {l})) \in Nat /\ Cardinality(Copies(ledger, l)) \in Nat
        /\ Cardinality(With(proc, "mark", l)) \in Nat /\ Cardinality(With(proc, "record", l)) \in Nat
        /\ IsFiniteSet(With(proc, "mark", l)) /\ IsFiniteSet(With(proc, "record", l))
        /\ Cardinality(Processes) \in Nat
    BY <1>3, HitsFacts, ProcessSets, EventsFacts
  <2>3. Cardinality(With(proc', "mark", l)) =
          IF line = l THEN Cardinality(With(proc, "mark", l)) - 1 ELSE Cardinality(With(proc, "mark", l))
    <3>1. With(proc', "mark", l) = With(proc, "mark", l) \ {p}
      BY <1>1, <1>2, WithStep
    <3>2. p \in With(proc, "mark", l) <=> line = l
      BY <1>1 DEF With, line
    <3> QED
      BY <2>2, <3>1, <3>2, FS_RemoveElement
  <2>4. Cardinality(With(proc', "record", l)) <=
          IF line = l THEN Cardinality(With(proc, "record", l)) + 1 ELSE Cardinality(With(proc, "record", l))
    <3>1. p \notin With(proc, "record", l)
      BY <1>1 DEF With
    <3>2. CASE line \in Significant /\ line = l
      <4>1. With(proc', "record", l) = With(proc, "record", l) \cup {p}
        BY <1>1, <1>2, <3>2, WithStep
      <4>2. Cardinality(With(proc', "record", l)) = Cardinality(With(proc, "record", l)) + 1
        BY <2>2, <3>1, <4>1, FS_AddElement
      <4> QED
        BY <2>2, <3>2, <4>2
    <3>3. CASE ~(line \in Significant /\ line = l)
      <4>1. With(proc', "record", l) = With(proc, "record", l)
        BY <1>1, <1>2, <3>3 DEF With, Others
      <4> QED
        BY <2>2, <4>1
    <3> QED
      BY <3>2, <3>3
  <2>5. Cardinality(With(proc', "record", l)) \in Nat
    BY ProcessSets
  <2>6. MarkedOnce(marks', proc', l)
    <3>1. Len(marks') = Len(marks) + 1 /\ Len(marks) \in Nat /\ Retention \in Nat
      BY <1>1, <1>3, AppendFacts, LimitsAssumption
    <3>2. MarkedOnce(marks, proc, l)
      BY DEF Counted, CountedIn
    <3> QED
      BY <2>1, <2>2, <2>3, <3>1, <3>2 DEF MarkedOnce
  <2>7. OncePerMark(marks', ledger', proc', l)
    <3>1. OncePerMark(marks, ledger, proc, l)
      BY DEF Counted, CountedIn
    <3> QED
      BY <1>1, <2>1, <2>2, <2>4, <2>5, <3>1 DEF OncePerMark
  <2> QED
    BY <2>6, <2>7
<1> QED
  BY <1>4, <1>5 DEF CountedIn

LEMMA RecordCounts ==
  ASSUME Shape, Counted, NEW p \in Processes, RecordLine(p)
  PROVE  CountedIn(marks', ledger', proc', budget'.crashes)
<1> DEFINE line == Head(proc[p].batch)  e == Event("telemetry", line, {}, 0)
<1>1. Others(p) /\ proc[p].pc = "record" /\ proc'[p].pc = "line" /\ marks' = marks /\ budget' = budget
      /\ ledger' = Append(ledger, e)
  BY RecordLineEffect
<1>2. e.kind = "telemetry" /\ e.line = line
  BY DEF Event
<1> HIDE DEF e, line
<1>3. Table(marks) /\ Table(ledger) /\ budget.crashes \in Nat /\ MaxCrashes \in Nat
  BY BoundsAssumption DEF Shape
<1>4. AllRecorded(marks', ledger', proc', budget'.crashes)
  <2>1. Cardinality(IdsOfKind(ledger', "telemetry")) = Cardinality(IdsOfKind(ledger, "telemetry")) + 1
    BY <1>1, <1>2, <1>3, EventsAppend
  <2>2. Cardinality(At(proc', "record")) = Cardinality(At(proc, "record")) - 1
    <3>1. p \in At(proc, "record") /\ At(proc', "record") = At(proc, "record") \ {p}
      BY <1>1, AtStep DEF At
    <3> QED
      BY <3>1, ProcessSets, FS_RemoveElement
  <2>3. Cardinality(Hits(marks, Significant)) \in Nat /\ Cardinality(At(proc, "record")) \in Nat
        /\ Cardinality(IdsOfKind(ledger, "telemetry")) \in Nat
    BY <1>3, HitsFacts, ProcessSets, EventsFacts
  <2> QED
    BY <1>1, <1>3, <2>1, <2>2, <2>3 DEF Counted, CountedIn, AllRecorded
<1>5. ASSUME NEW l \in Stamped
      PROVE  MarkedOnce(marks', proc', l) /\ OncePerMark(marks', ledger', proc', l)
  <2>1. Cardinality(Copies(ledger', l)) =
          IF line = l THEN Cardinality(Copies(ledger, l)) + 1 ELSE Cardinality(Copies(ledger, l))
    BY <1>1, <1>2, <1>3, EventsAppend
  <2>2. /\ Cardinality(Hits(marks, {l})) \in Nat /\ Cardinality(Copies(ledger, l)) \in Nat
        /\ Cardinality(With(proc, "record", l)) \in Nat /\ IsFiniteSet(With(proc, "record", l))
    BY <1>3, HitsFacts, ProcessSets, EventsFacts
  <2>3. Cardinality(With(proc', "record", l)) =
          IF line = l THEN Cardinality(With(proc, "record", l)) - 1 ELSE Cardinality(With(proc, "record", l))
    <3>1. With(proc', "record", l) = With(proc, "record", l) \ {p}
      BY <1>1, WithStep
    <3>2. p \in With(proc, "record", l) <=> line = l
      BY <1>1 DEF With, line
    <3> QED
      BY <2>2, <3>1, <3>2, FS_RemoveElement
  <2>4. With(proc', "mark", l) = With(proc, "mark", l)
    BY <1>1 DEF With, Others
  <2>5. MarkedOnce(marks, proc, l) /\ OncePerMark(marks, ledger, proc, l)
    BY DEF Counted, CountedIn
  <2>6. MarkedOnce(marks', proc', l)
    BY <1>1, <2>4, <2>5 DEF MarkedOnce
  <2>7. OncePerMark(marks', ledger', proc', l)
    BY <1>1, <2>1, <2>2, <2>3, <2>5 DEF OncePerMark
  <2> QED
    BY <2>6, <2>7
<1> QED
  BY <1>4, <1>5 DEF CountedIn

LEMMA CrashCounts ==
  ASSUME Shape, Counted, NEW p \in Processes, Crash(p)
  PROVE  CountedIn(marks', ledger', proc', budget'.crashes)
<1>1. Others(p) /\ proc'[p].pc = "off" /\ marks' = marks /\ ledger' = ledger
      /\ budget'.crashes = budget.crashes - 1
  BY CrashEffect
<1>2. Table(marks) /\ Table(ledger) /\ budget.crashes \in Nat /\ MaxCrashes \in Nat
  BY BoundsAssumption DEF Shape
<1>3. AllRecorded(marks', ledger', proc', budget'.crashes)
  <2>1. At(proc', "record") = At(proc, "record") \ {p}
    BY <1>1, AtStep
  <2>2. /\ Cardinality(At(proc', "record")) \in Nat /\ Cardinality(At(proc, "record")) \in Nat
        /\ Cardinality(At(proc, "record")) <= Cardinality(At(proc', "record")) + 1
    BY <2>1, ProcessSets, Removed
  <2>3. Cardinality(Hits(marks, Significant)) \in Nat /\ Cardinality(IdsOfKind(ledger, "telemetry")) \in Nat
    BY <1>2, HitsFacts, EventsFacts
  <2> QED
    BY <1>1, <1>2, <2>2, <2>3 DEF Counted, CountedIn, AllRecorded
<1>4. ASSUME NEW l \in Stamped
      PROVE  MarkedOnce(marks', proc', l) /\ OncePerMark(marks', ledger', proc', l)
  <2>1. /\ With(proc', "mark", l) = With(proc, "mark", l) \ {p}
        /\ With(proc', "record", l) = With(proc, "record", l) \ {p}
    BY <1>1, WithStep
  <2>2. /\ Cardinality(With(proc', "mark", l)) <= Cardinality(With(proc, "mark", l))
        /\ Cardinality(With(proc', "record", l)) <= Cardinality(With(proc, "record", l))
        /\ Cardinality(With(proc', "mark", l)) \in Nat /\ Cardinality(With(proc', "record", l)) \in Nat
        /\ Cardinality(With(proc, "mark", l)) \in Nat /\ Cardinality(With(proc, "record", l)) \in Nat
        /\ Cardinality(Processes) \in Nat
    BY <2>1, ProcessSets, Removed
  <2>3. Cardinality(Hits(marks, {l})) \in Nat /\ Cardinality(Copies(ledger, l)) \in Nat
    BY <1>2, HitsFacts, EventsFacts
  <2>4. MarkedOnce(marks, proc, l) /\ OncePerMark(marks, ledger, proc, l)
    BY DEF Counted, CountedIn
  <2> QED
    BY <1>1, <2>2, <2>3, <2>4 DEF MarkedOnce, OncePerMark
<1> QED
  BY <1>3, <1>4 DEF CountedIn

LEMMA CountedStep ==
  ASSUME Shape, Counted, NEW p \in Processes, ProcStep(p)
  PROVE  CountedIn(marks', ledger', proc', budget'.crashes)
<1>1. Table(ledger)
  BY DEF Shape
<1>2. CASE Begin(p) \/ Poll(p) \/ PollFails(p) \/ PollLoses(p) \/ PollRaises(p) \/ ReadCursor(p) \/ SkipLines(p)
  <2>1. Others(p) /\ Quiet(p) /\ UNCHANGED ledger
    BY <1>2, PollEffect
  <2>2. budget'.crashes = budget.crashes
    BY <1>2, BudgetStep DEF Local, Collect
  <2> QED
    BY <1>1, <2>1, <2>2, QuietCounts
<1>3. CASE SetCursor(p)
  BY <1>1, <1>3, SetCursorEffect, QuietCounts
<1>4. CASE ReadUnpromoted(p)
  BY <1>1, <1>4, ReadEffect, QuietCounts
<1>5. CASE RecordExperience(p)
  <2>1. Event("experience", Fragment, Newest(proc[p].held, Told), 0).kind # "telemetry"
    BY DEF Event
  <2> QED
    BY <1>1, <1>5, <2>1, ExperienceEffect, QuietCounts
<1>6. CASE RecordMarker(p)
  <2>1. Event("telemetry_promoted", Fragment, {}, Max(proc[p].held)).kind # "telemetry"
    BY DEF Event
  <2> QED
    BY <1>1, <1>6, <2>1, MarkerEffect, QuietCounts
<1>7. CASE Deduplicate(p)
  BY <1>7, DeduplicateCounts
<1>8. CASE MarkSeen(p)
  BY <1>8, MarkCounts
<1>9. CASE RecordLine(p)
  BY <1>9, RecordCounts
<1>10. CASE Crash(p)
  BY <1>10, CrashCounts
<1> QED
  BY <1>2, <1>3, <1>4, <1>5, <1>6, <1>7, <1>8, <1>9, <1>10, Cases

-----------------------------------------------------------------------------
(* Promotion. *)

\* An event that an experience tells of, that was crowded out of one, or that is
\* out of the window.
Settled(log, i) ==
  \/ \E e \in IdsOfKind(log, "experience") : i \in log[e].about
  \/ \E e \in IdsOfKind(log, "experience") : Cardinality({j \in log[e].about : j > i}) >= Told
  \/ Cardinality({j \in IdsOfKind(log, "telemetry") : j > i}) >= Window
ImportantOf(log) == {i \in IdsOfKind(log, "telemetry") : log[i].line \in Important}

CoveredOf(log) ==
  LET markers == EventsOfKind(log, "telemetry_promoted", 1)
  IN  IF markers = {} THEN 0 ELSE log[CHOOSE i \in markers : TRUE].upto

\* What a process is about to cover with its marker.
HoldsAll(r, log) == r.pc \in {"experience", "marker"} =>
  /\ r.held \subseteq DOMAIN log /\ r.held # {}
  /\ \A i \in ImportantOf(log) : i <= Max(r.held) => Settled(log, i) \/ (r.pc = "experience" /\ i \in r.held)

CoversAll(log) ==
  /\ CoveredOf(log) \in DOMAIN log \cup {0}
  /\ \A i \in ImportantOf(log) : i <= CoveredOf(log) => Settled(log, i)

Promoting == (\A p \in Processes : HoldsAll(proc[p], ledger)) /\ CoversAll(ledger)

LEMMA CoversAllComplete == CoversAll(ledger) => PromotionComplete
BY DEF CoversAll, PromotionComplete, CoveredOf, Covered, Settled, ImportantOf, Recorded, Experiences

LEMMA SettledStays ==
  ASSUME Table(ledger), Kept, NEW i, Settled(ledger, i)
  PROVE  Settled(ledger', i)
<1>1. CASE \E e \in IdsOfKind(ledger, "experience") : i \in ledger[e].about
  BY <1>1 DEF Settled, Kept, IdsOfKind
<1>3. CASE \E e \in IdsOfKind(ledger, "experience") : Cardinality({j \in ledger[e].about : j > i}) >= Told
  BY <1>3 DEF Settled, Kept, IdsOfKind
<1>2. CASE Cardinality({j \in IdsOfKind(ledger, "telemetry") : j > i}) >= Window
  <2> DEFINE later == {j \in IdsOfKind(ledger, "telemetry") : j > i}
             more == {j \in IdsOfKind(ledger', "telemetry") : j > i}
  <2>1. IsFiniteSet(IdsOfKind(ledger', "telemetry"))
    BY EventsFacts DEF Kept
  <2>2. more \subseteq IdsOfKind(ledger', "telemetry") /\ later \subseteq more
    BY DEF Kept, IdsOfKind
  <2> HIDE DEF later, more
  <2>3. IsFiniteSet(more)
    BY <2>1, <2>2, FS_Subset
  <2>4. IsFiniteSet(later) /\ Cardinality(later) <= Cardinality(more)
    BY <2>2, <2>3, FS_Subset
  <2>5. Cardinality(later) \in Nat /\ Cardinality(more) \in Nat /\ Window \in Nat
    BY <2>3, <2>4, FS_CardinalityType, LimitsAssumption
  <2>6. Cardinality(more) >= Window
    BY <1>2, <2>4, <2>5 DEF later
  <2> QED
    BY <2>6 DEF Settled, more
<1> QED
  BY <1>1, <1>2, <1>3 DEF Settled

\* Event ids, and the greatest of some.
LEMMA IdFacts ==
  ASSUME NEW log, Table(log)
  PROVE  /\ Len(log) \in Nat
         /\ \A i \in DOMAIN log : i \in Nat /\ 0 < i /\ i <= Len(log)
         /\ \A S \in SUBSET DOMAIN log : S # {} => Max(S) \in S /\ \A i \in S : i <= Max(S)
<1>1. Len(log) \in Nat /\ DOMAIN log = 1..Len(log)
  BY TableFacts
<1>2. ASSUME NEW S \in SUBSET DOMAIN log, S # {}
      PROVE  Max(S) \in S /\ \A i \in S : i <= Max(S)
  <2>1. S \in SUBSET Nat /\ \A i \in S : i <= Len(log)
    BY <1>1
  <2> QED
    BY <1>1, <1>2, <2>1, MaxFacts
<1> QED
  BY <1>1, <1>2

\* What is not among the newest is older than a full number of newest ones.
LEMMA NewestFull ==
  ASSUME NEW S \in SUBSET Nat, IsFiniteSet(S), NEW limit \in Nat \ {0}, NEW bound \in Nat,
         \A n \in S : n <= bound, NEW i \in S, i \notin Newest(S, limit)
  PROVE  Cardinality({j \in Newest(S, limit) : j > i}) >= limit
<1> DEFINE kept == Newest(S, limit)
           Later(k) == {j \in S : j > k}
           above == {j \in kept : j > i}
<1>1. \A k \in S : k \in kept <=> Cardinality(Later(k)) < limit
  BY DEF Newest
<1>2. kept \subseteq S
  BY DEF Newest
<1>3. \A k : IsFiniteSet(Later(k)) /\ Cardinality(Later(k)) \in Nat
  BY FS_Subset, FS_CardinalityType
<1>4. IsFiniteSet(above) /\ Cardinality(above) \in Nat
  <2>1. above \subseteq S
    BY <1>2
  <2> HIDE DEF above
  <2> QED
    BY <2>1, FS_Subset, FS_CardinalityType
<1> HIDE DEF kept
<1>5. SUFFICES ASSUME Cardinality(above) < limit PROVE FALSE
  BY <1>4 DEF kept
<1> DEFINE left == {k \in S \ kept : i <= k}
<1>6. PICK m \in left : \A k \in left : k <= m
  <2>0. i \in Nat /\ i <= i /\ i \notin kept
    BY DEF kept
  <2>1. i \in left /\ left \in SUBSET Nat /\ \A k \in left : k <= bound
    BY <2>0
  <2> HIDE DEF left
  <2> QED
    BY <2>1, MaxFacts
<1>7. Later(m) \subseteq above
  <2>1. ASSUME NEW j \in Later(m) PROVE j \in above
    <3>1. j \in Nat /\ m \in Nat /\ i \in Nat /\ j \in S /\ j > m /\ i <= m
      BY <1>6
    <3>2. j > i /\ i <= j /\ ~(j <= m)
      BY <3>1
    <3>3. j \in kept
      BY <1>6, <3>1, <3>2
    <3> QED
      BY <3>2, <3>3
  <2> QED
    BY <2>1
<1>8. Cardinality(Later(m)) <= Cardinality(above)
  <2> HIDE DEF above, Later
  <2> QED
    BY <1>4, <1>7, FS_Subset
<1>9. Cardinality(Later(m)) < limit
  <2>1. Cardinality(Later(m)) \in Nat
    BY <1>3
  <2> HIDE DEF Later, above
  <2> QED
    BY <1>4, <1>5, <1>8, <2>1
<1>10. m \in kept
  BY <1>1, <1>6, <1>9
<1> QED
  BY <1>6, <1>10

\* The newest marker decides.
LEMMA CoveredAppend ==
  ASSUME NEW log, Table(log), NEW e
  PROVE  CoveredOf(Append(log, e)) = IF e.kind = "telemetry_promoted" THEN e.upto ELSE CoveredOf(log)
<1> DEFINE more == Append(log, e)  n == Len(log) + 1
           ids == IdsOfKind(log, "telemetry_promoted")
           ids2 == IdsOfKind(more, "telemetry_promoted")
<1>1. /\ Table(more) /\ DOMAIN more = DOMAIN log \cup {n} /\ n \notin DOMAIN log
      /\ (\A i \in DOMAIN log : more[i] = log[i]) /\ more[n] = e
  BY AppendFacts
<1>2. \A i \in DOMAIN log : i \in Nat /\ i < n
  BY IdFacts
<1>n. n \in Nat
  BY IdFacts
<1> HIDE DEF more, n
<1>3. CASE e.kind # "telemetry_promoted"
  <2>1. ids2 = ids
    BY <1>1, <1>3 DEF IdsOfKind
  <2>2. EventsOfKind(more, "telemetry_promoted", 1) = EventsOfKind(log, "telemetry_promoted", 1)
    BY <2>1 DEF EventsOfKind
  <2>3. \A i \in EventsOfKind(log, "telemetry_promoted", 1) : more[i] = log[i]
    BY <1>1 DEF EventsOfKind, Newest, IdsOfKind
  <2>4. CoveredOf(more) = CoveredOf(log)
    <3> DEFINE markers == EventsOfKind(log, "telemetry_promoted", 1)
    <3>1. CASE markers = {}
      BY <2>2, <3>1 DEF CoveredOf
    <3>2. CASE markers # {}
      <4> DEFINE c == CHOOSE i \in markers : TRUE
      <4>1. c \in markers
        BY <3>2
      <4>2. more[c] = log[c]
        BY <2>3, <4>1
      <4>3. CoveredOf(log) = log[c].upto
        BY <3>2 DEF CoveredOf
      <4>4. CoveredOf(more) = more[c].upto
        BY <2>2, <3>2 DEF CoveredOf
      <4> QED
        BY <4>2, <4>3, <4>4
    <3> QED
      BY <3>1, <3>2
  <2> QED
    BY <1>3, <2>4 DEF more
<1>4. CASE e.kind = "telemetry_promoted"
  <2>1. ids2 = ids \cup {n}
    BY <1>1, <1>4 DEF IdsOfKind
  <2>2. \A i \in ids : i \in Nat /\ i < n
    BY <1>2 DEF IdsOfKind
  <2>3. IsFiniteSet(ids2)
    <3>1. ids2 \subseteq 1..Len(more) /\ Len(more) \in Nat
      BY <1>1, TableFacts DEF IdsOfKind
    <3>2. IsFiniteSet(1..Len(more))
      BY <3>1, FS_Interval
    <3> QED
      BY <3>1, <3>2, FS_Subset
  <2>4. EventsOfKind(more, "telemetry_promoted", 1) = {n}
    <3>1. {j \in ids2 : j > n} = {}
      BY <1>n, <2>1, <2>2
    <3>2. Cardinality({j \in ids2 : j > n}) < 1
      BY <3>1, FS_EmptySet
    <3>3. ASSUME NEW i \in ids PROVE ~(Cardinality({j \in ids2 : j > i}) < 1)
      <4> DEFINE later == {j \in ids2 : j > i}
      <4>1. n \in later
        BY <1>n, <2>1, <2>2
      <4>2. IsFiniteSet(later)
        BY <2>3, FS_Subset
      <4> HIDE DEF later
      <4>3. Cardinality(later) \in Nat /\ Cardinality(later) # 0
        BY <4>1, <4>2, FS_CardinalityType, FS_EmptySet
      <4>4. ~(Cardinality(later) < 1)
        BY <4>3
      <4> QED
        BY <4>4 DEF later
    <3>4. \A i \in ids2 : Cardinality({j \in ids2 : j > i}) < 1 <=> i = n
      BY <2>1, <3>2, <3>3
    <3>5. n \in ids2
      BY <2>1
    <3> HIDE DEF ids, ids2
    <3>6. Newest(ids2, 1) = {n}
      BY <3>4, <3>5 DEF Newest
    <3> QED
      BY <3>6 DEF EventsOfKind, ids2
  <2>5. (CHOOSE i \in {n} : TRUE) = n
    OBVIOUS
  <2>6. CoveredOf(more) = e.upto
    BY <1>1, <2>4, <2>5 DEF CoveredOf
  <2> QED
    BY <1>4, <2>6 DEF more
<1> QED
  BY <1>3, <1>4

LEMMA PromotingInit == Init => Promoting
<1> SUFFICES ASSUME Init PROVE Promoting
  OBVIOUS
<1>1. ledger = <<>> /\ \A p \in Processes : proc[p].pc = "off"
  BY IdleFields DEF Init
<1>2. \A kind : IdsOfKind(ledger, kind) = {}
  BY <1>1 DEF IdsOfKind
<1>3. CoveredOf(ledger) = 0
  BY <1>2 DEF CoveredOf, EventsOfKind, Newest
<1> QED
  BY <1>1, <1>2, <1>3 DEF Promoting, HoldsAll, CoversAll, ImportantOf

\* Nothing that is held gets lost, and nothing new is as old.
LEMMA HeldStays ==
  ASSUME Table(ledger), Kept, NEW r, HoldsAll(r, ledger)
  PROVE  HoldsAll(r, ledger')
<1> SUFFICES ASSUME r.pc \in {"experience", "marker"} PROVE HoldsAll(r, ledger')
  BY DEF HoldsAll
<1>1. r.held \subseteq DOMAIN ledger /\ r.held # {} /\ DOMAIN ledger \subseteq DOMAIN ledger'
  BY DEF HoldsAll, Kept
<1>2. Max(r.held) \in r.held
  BY <1>1, IdFacts
<1>3. Max(r.held) <= Len(ledger) /\ Max(r.held) \in Nat /\ Len(ledger) \in Nat
  BY <1>1, <1>2, IdFacts
<1>4. ASSUME NEW i \in ImportantOf(ledger'), i <= Max(r.held)
      PROVE  Settled(ledger', i) \/ (r.pc = "experience" /\ i \in r.held)
  <2>1. i \in DOMAIN ledger
    BY <1>3, <1>4 DEF Kept, ImportantOf, IdsOfKind
  <2>2. i \in ImportantOf(ledger)
    BY <1>4, <2>1 DEF Kept, ImportantOf, IdsOfKind
  <2> QED
    BY <1>4, <2>2, SettledStays DEF HoldsAll
<1> QED
  BY <1>1, <1>4 DEF HoldsAll

\* A process that looks for what is to be promoted.
LEMMA ReadHolds ==
  ASSUME Shape, Promoting, NEW p \in Processes, ReadUnpromoted(p)
  PROVE  HoldsAll(proc'[p], ledger')
<1>1. Table(ledger) /\ UNCHANGED ledger
  BY ReadEffect DEF Shape
<1>2. CASE proc'[p].pc = "off"
  BY <1>2 DEF HoldsAll
<1>3. CASE proc'[p].pc = "experience" /\ proc'[p].held = Unpromoted /\ Unpromoted # {}
  <2>1. Unpromoted \subseteq DOMAIN ledger
    BY DEF Unpromoted, EventsOfKind, Newest, IdsOfKind
  <2>2. ASSUME NEW i \in ImportantOf(ledger)
        PROVE  Settled(ledger, i) \/ i \in Unpromoted
    <3>1. CASE i \notin EventsOfKind(ledger, "telemetry", Window)
      <4> DEFINE n == Cardinality({j \in IdsOfKind(ledger, "telemetry") : j > i})
      <4>1. ~(n < Window)
        BY <2>2, <3>1 DEF EventsOfKind, Newest, ImportantOf
      <4>2. n \in Nat /\ Window \in Nat
        <5>1. IsFiniteSet({j \in IdsOfKind(ledger, "telemetry") : j > i})
          BY <1>1, EventsFacts, FS_Subset
        <5> QED
          BY <5>1, FS_CardinalityType, LimitsAssumption
      <4> HIDE DEF n
      <4>3. n >= Window
        BY <4>1, <4>2
      <4> QED
        BY <4>3 DEF Settled, n
    <3>2. CASE i \in EventsOfKind(ledger, "telemetry", Window)
      <4>1. CoveredOf(ledger) = Covered
        BY DEF CoveredOf, Covered
      <4>2. i \in Nat /\ Covered \in Nat
        <5>1. i \in DOMAIN ledger /\ Covered \in DOMAIN ledger \cup {0}
          BY <4>1 DEF ImportantOf, IdsOfKind, Promoting, CoversAll
        <5> QED
          BY <1>1, <5>1, IdFacts
      <4>3. CASE i <= Covered
        BY <2>2, <4>1, <4>3 DEF Promoting, CoversAll
      <4>4. CASE i > Covered
        BY <2>2, <3>2, <4>4 DEF Unpromoted, ImportantOf
      <4> QED
        BY <4>2, <4>3, <4>4
    <3> QED
      BY <3>1, <3>2
  <2> QED
    BY <1>1, <1>3, <2>1, <2>2 DEF HoldsAll
<1> QED
  BY <1>2, <1>3, ReadEffect

\* An experience settles what it is made of.
LEMMA ExperienceHolds ==
  ASSUME Shape, Promoting, NEW p \in Processes, RecordExperience(p)
  PROVE  HoldsAll(proc'[p], ledger')
<1> DEFINE held == proc[p].held  told == Newest(held, Told)
           e == Event("experience", Fragment, told, 0)  n == Len(ledger) + 1
<1>1. /\ proc[p].pc = "experience" /\ proc'[p].pc = "marker" /\ proc'[p].held = held
      /\ ledger' = Append(ledger, e)
  BY ExperienceEffect
<1>2. Table(ledger) /\ Kept
  BY StepFacts DEF Shape, ProcStep, Local, Promote
<1>3. e.kind = "experience" /\ e.about = told
  BY DEF Event
<1> HIDE DEF e, held, told
<1>4. n \in IdsOfKind(ledger', "experience") /\ ledger'[n].about = told
  BY <1>1, <1>2, <1>3, AppendFacts DEF IdsOfKind
<1> HIDE DEF n
<1>5. HoldsAll(proc[p], ledger')
  BY <1>2, HeldStays DEF Promoting
<1>6. ASSUME NEW i \in held PROVE Settled(ledger', i)
  <2>1. CASE i \in told
    BY <1>4, <2>1 DEF Settled
  <2>2. CASE i \notin told
    <3>1. held \subseteq DOMAIN ledger
      <4>1. HoldsAll(proc[p], ledger)
        BY DEF Promoting
      <4> QED
        BY <1>1, <4>1 DEF HoldsAll, held
    <3>2. Len(ledger) \in Nat /\ DOMAIN ledger = 1..Len(ledger)
      BY <1>2, TableFacts
    <3>3. held \in SUBSET Nat /\ IsFiniteSet(held) /\ \A k \in held : k <= Len(ledger)
      <4>1. IsFiniteSet(1..Len(ledger))
        BY <3>2, FS_Interval
      <4>2. IsFiniteSet(held)
        BY <3>1, <3>2, <4>1, FS_Subset
      <4>3. \A k \in 1..Len(ledger) : k \in Nat /\ k <= Len(ledger)
        BY <3>2
      <4> QED
        BY <3>1, <3>2, <4>2, <4>3
    <3>4. Told \in Nat \ {0}
      BY LimitsAssumption
    <3>5. Cardinality({j \in told : j > i}) >= Told
      BY <2>2, <3>2, <3>3, <3>4, NewestFull DEF told
    <3> QED
      BY <1>4, <3>5 DEF Settled
  <2> QED
    BY <2>1, <2>2
<1> QED
  BY <1>1, <1>5, <1>6 DEF HoldsAll, held

LEMMA CoversStep ==
  ASSUME Shape, Promoting, NEW p \in Processes, ProcStep(p)
  PROVE  CoversAll(ledger')
<1>1. Table(ledger) /\ Kept
  BY StepFacts DEF Shape
<1>2. \A i : Settled(ledger, i) => Settled(ledger', i)
  BY <1>1, SettledStays
<1>3. CASE RecordMarker(p)
  <2> DEFINE e == Event("telemetry_promoted", Fragment, {}, Max(proc[p].held))
  <2>1. proc[p].pc = "marker" /\ ledger' = Append(ledger, e)
    BY <1>3, MarkerEffect
  <2>2. e.kind = "telemetry_promoted" /\ e.upto = Max(proc[p].held)
    BY DEF Event
  <2> HIDE DEF e
  <2>3. CoveredOf(ledger') = Max(proc[p].held)
    BY <1>1, <2>1, <2>2, CoveredAppend
  <2>4. HoldsAll(proc[p], ledger')
    BY <1>1, HeldStays DEF Promoting
  <2>5. Max(proc[p].held) \in DOMAIN ledger'
    <3>1. proc[p].held \subseteq DOMAIN ledger' /\ proc[p].held # {} /\ Table(ledger')
      BY <1>1, <2>1, <2>4 DEF HoldsAll, Kept
    <3> QED
      BY <3>1, IdFacts
  <2> QED
    BY <2>1, <2>3, <2>4, <2>5 DEF CoversAll, HoldsAll
<1>4. CASE ~RecordMarker(p)
  <2>1. CoveredOf(ledger') = CoveredOf(ledger)
    <3>1. ASSUME NEW e, ledger' = Append(ledger, e), e.kind # "telemetry_promoted"
          PROVE  CoveredOf(ledger') = CoveredOf(ledger)
      BY <1>1, <3>1, CoveredAppend
    <3>2. CASE UNCHANGED ledger
      BY <3>2
    <3>3. CASE RecordLine(p)
      <4>1. Event("telemetry", Head(proc[p].batch), {}, 0).kind # "telemetry_promoted"
        BY DEF Event
      <4> QED
        BY <3>1, <3>3, <4>1, RecordLineEffect
    <3>4. CASE RecordExperience(p)
      <4>1. Event("experience", Fragment, Newest(proc[p].held, Told), 0).kind # "telemetry_promoted"
        BY DEF Event
      <4> QED
        BY <3>1, <3>4, <4>1, ExperienceEffect
    <3>5. UNCHANGED ledger \/ RecordLine(p) \/ RecordExperience(p)
      BY <1>4, Cases, PollEffect, SetCursorEffect, DeduplicateEffect, MarkEffect, ReadEffect, CrashEffect
    <3> QED
      BY <3>2, <3>3, <3>4, <3>5
  <2>2. CoveredOf(ledger) \in DOMAIN ledger \cup {0}
    BY DEF Promoting, CoversAll
  <2>3. CoveredOf(ledger) <= Len(ledger) /\ Len(ledger) \in Nat /\ CoveredOf(ledger) \in Nat
    BY <1>1, <2>2, IdFacts
  <2>4. ASSUME NEW i \in ImportantOf(ledger'), i <= CoveredOf(ledger)
        PROVE  Settled(ledger', i)
    <3>1. i \in DOMAIN ledger
      <4>1. i \in DOMAIN ledger'
        BY <2>4 DEF ImportantOf, IdsOfKind
      <4>2. i \in DOMAIN ledger \/ i = Len(ledger) + 1
        BY <1>1, <4>1 DEF Kept
      <4>3. i # Len(ledger) + 1
        BY <2>3, <2>4
      <4> QED
        BY <4>2, <4>3
    <3>2. i \in ImportantOf(ledger)
      BY <1>1, <2>4, <3>1 DEF Kept, ImportantOf, IdsOfKind
    <3> QED
      BY <1>2, <2>4, <3>2 DEF Promoting, CoversAll
  <2> QED
    BY <1>1, <2>1, <2>2, <2>4 DEF CoversAll, Kept
<1> QED
  BY <1>3, <1>4

LEMMA PromotingStep ==
  ASSUME Shape, Promoting, NEW p \in Processes, ProcStep(p)
  PROVE  (\A q \in Processes : HoldsAll(proc'[q], ledger')) /\ CoversAll(ledger')
<1>1. Table(ledger) /\ Kept /\ Others(p)
  BY StepFacts DEF Shape
<1>2. \A q \in Processes : HoldsAll(proc[q], ledger')
  BY <1>1, HeldStays DEF Promoting
<1>3. HoldsAll(proc'[p], ledger')
  <2>1. CASE ReadUnpromoted(p)
    BY <2>1, ReadHolds
  <2>2. CASE RecordExperience(p)
    BY <2>2, ExperienceHolds
  <2>3. CASE ~ReadUnpromoted(p) /\ ~RecordExperience(p)
    <3>1. proc'[p].pc \notin {"experience", "marker"}
      BY <2>3, Cases, PollEffect, SetCursorEffect, DeduplicateEffect, MarkEffect, RecordLineEffect,
         MarkerEffect, CrashEffect
    <3> QED
      BY <3>1 DEF HoldsAll
  <2> QED
    BY <2>1, <2>2, <2>3
<1>4. ASSUME NEW q \in Processes PROVE HoldsAll(proc'[q], ledger')
  <2>1. CASE q = p
    BY <1>3, <2>1
  <2>2. CASE q # p
    BY <1>1, <1>2, <2>2 DEF Others
  <2> QED
    BY <2>1, <2>2
<1> QED
  BY <1>4, CoversStep

-----------------------------------------------------------------------------
(* The theorems. *)

IInv == Shape /\ Counted /\ Promoting

LEMMA Invariance == Spec => []IInv
<1>1. Init => IInv
  BY ShapeInit, CountedInit, PromotingInit DEF IInv
<1>2. ASSUME IInv, [Next]_vars PROVE IInv'
  <2>1. ASSUME NEW p \in Processes, ProcStep(p) PROVE IInv'
    <3>1. Shape'
      BY <1>2, <2>1, ShapeStep DEF IInv
    <3>2. Counted'
      BY <1>2, <2>1, CountedStep DEF IInv, Counted
    <3>3. Promoting'
      BY <1>2, <2>1, PromotingStep DEF IInv, Promoting
    <3> QED
      BY <3>1, <3>2, <3>3 DEF IInv
  <2>2. ASSUME UNCHANGED <<marks, ledger, proc>>,
               budget' \in [bytes : Nat, runs : Nat, crashes : Nat, rotations : Nat],
               budget'.crashes = budget.crashes
        PROVE  IInv'
    <3>1. Shape'
      BY <1>2, <2>2 DEF IInv, Shape
    <3>2. Counted'
      BY <1>2, <2>2 DEF IInv, Counted
    <3>3. Promoting'
      BY <1>2, <2>2 DEF IInv, Promoting
    <3> QED
      BY <3>1, <3>2, <3>3 DEF IInv
  <2>3. CASE WriteHalf \/ Rotate
    <3>1. UNCHANGED <<marks, ledger, proc>>
      BY <2>3 DEF WriteHalf, Rotate
    <3>2. budget' \in [bytes : Nat, runs : Nat, crashes : Nat, rotations : Nat]
          /\ budget'.crashes = budget.crashes
      BY <1>2, <2>3 DEF IInv, Shape, WriteHalf, Rotate, Spend
    <3> QED
      BY <2>2, <3>1, <3>2
  <2>4. CASE UNCHANGED vars
    BY <1>2, <2>2, <2>4 DEF vars, IInv, Shape
  <2> QED
    BY <1>2, <2>1, <2>3, <2>4 DEF Next, ProcStep, Local
<1> QED
  BY <1>1, <1>2, PTL DEF Spec

\* What was stored as seen is on the ledger, but for one line a crash, however
\* many processes collect and wherever they die (telemetry.py:353-363).
THEOREM SeenAreRecorded == Spec => []SeenIsRecorded
<1>1. IInv => SeenIsRecorded
  BY DEF IInv, Counted, CountedIn, AllRecorded, SeenIsRecorded, Hits, At, Recorded
<1> QED
  BY <1>1, Invariance, PTL

\* As long as no fingerprint is forgotten, a line with its own timestamp is
\* recorded once for each process at most, whatever is read again.
THEOREM NotRecordedAgain == Spec => []RecordedOnce
<1>1. IInv => RecordedOnce
  <2> SUFFICES ASSUME IInv, Len(marks) <= Retention, NEW l \in Stamped
               PROVE  Cardinality({i \in Recorded : ledger[i].line = l}) <= Cardinality(Processes)
    BY DEF RecordedOnce
  <2>1. MarkedOnce(marks, proc, l) /\ OncePerMark(marks, ledger, proc, l)
    BY DEF IInv, Counted, CountedIn
  <2>2. /\ Cardinality(Hits(marks, {l})) \in Nat /\ Cardinality(Copies(ledger, l)) \in Nat
        /\ Cardinality(With(proc, "mark", l)) \in Nat /\ Cardinality(With(proc, "record", l)) \in Nat
        /\ Cardinality(Processes) \in Nat
    BY HitsFacts, EventsFacts, ProcessSets DEF IInv, Shape
  <2>3. Cardinality(Copies(ledger, l)) <= Cardinality(Processes)
    BY <2>1, <2>2 DEF MarkedOnce, OncePerMark
  <2> QED
    BY <2>3 DEF Copies, Recorded
<1> QED
  BY <1>1, Invariance, PTL

\* The marker of a promotion drops no important event, whatever other processes
\* record and promote meanwhile, but those that ten newer ones in an experience,
\* or a window full of newer ones, have crowded out.
THEOREM NothingDropped == Spec => []PromotionComplete
<1>1. IInv => PromotionComplete
  BY CoversAllComplete DEF IInv, Promoting
<1> QED
  BY <1>1, Invariance, PTL
==============================================================================
