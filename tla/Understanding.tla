---------------------------- MODULE Understanding ----------------------------
(***************************************************************************)
(* What she understands about Surya (understanding.py): a table of         *)
(* records, and the two passes that derive them from the ledger:           *)
(* mine_understanding(), after every turn of a chat, after every activity  *)
(* and at the end of a run, from what was said; and                        *)
(* mine_telemetry_understanding() (telemetry.py), when telemetry is        *)
(* promoted, from the newest telemetry events.  A pass reads the visible   *)
(* records once and keeps that picture of them, updating it with its own   *)
(* writes only; other callers of the store change the records meanwhile.   *)
(* Each commit is a step, and so is a read that a later commit depends on; *)
(* a crash may fall between any two.  A text is a member of Statements,    *)
(* one for each token signature, and telemetry of too little importance    *)
(* is left out; the windows of 200 events said and of 500 records are      *)
(* never full.                                                             *)
(***************************************************************************)
EXTENDS EventLedger, Integers, FiniteSetsExt

CONSTANTS
  Processes,    \* processes with the database open
  Statements,   \* what may be said
  Form,         \* what the markers in each make of it
  Overlap,      \* tokens two statements have in common (_overlap_size)
  Commands,     \* what other callers of the store do
  Window,       \* telemetry events a pass reads (`limit`)
  MaxEvents,    \* bound: events on the ledger
  MaxPasses,    \* bound: passes, in all
  MaxCommands,  \* bound: commands, in all
  MaxCrashes    \* bound: crashes, in all

Forms == {"fact", "preference", "contrast", "question", "telemetry"}

\* KIND_CONFIDENCE_CAP and KIND_DEFAULT_CONFIDENCE, in hundredths.
Cap == [fact |-> 100, observation |-> 90, preference |-> 90, interest |-> 85,
        project |-> 90, identity |-> 90, inference |-> 55, uncertainty |-> 40]
Default == [fact |-> 50, observation |-> 60, preference |-> 50, interest |-> 50,
            project |-> 55, identity |-> 50, inference |-> 40, uncertainty |-> 35]
Boost == 8

\* How sure a note is at first; what telemetry shows is noted at 0.45.
Sure(kind, form) == IF form = "telemetry" THEN 45 ELSE Min({Default[kind], Cap[kind]})

VisibleStatus == {"active", "uncertain", "contradicted", "outdated"}
Revisable == {"active", "uncertain"}

ASSUME UnderstandingAssumption ==
  /\ Form \in [Statements -> Forms]
  /\ Overlap \in [Statements \X Statements -> Nat]
  /\ Commands \subseteq {"uncertain", "outdated", "infer"}
  /\ {Window, MaxEvents, MaxPasses, MaxCommands, MaxCrashes} \subseteq Nat

VARIABLES
  ledger,   \* the events: what was said
  records,  \* the understanding_records table
  proc,     \* each process's pass
  mined,    \* history: the events of passes that came to their end
  torn,     \* history: records a crash kept from replacing another
  budget    \* what is left of the bounds

vars == <<ledger, records, proc, mined, torn, budget>>

-----------------------------------------------------------------------------
\* note
Noted(kind, statement, event) ==
  Append(records, [statement |-> statement, kind |-> kind, sources |-> {event},
                   confidence |-> Sure(kind, Form[statement]), status |-> "active", old |-> 0])

\* Mutant: the cap of the kind is left out.
AffirmedUncapped(id, held, event) ==
  [records EXCEPT ![id].sources = held.sources \cup {event},
                  ![id].confidence = Min({held.confidence + Boost, 100})]

\* affirm writes back what it read, with one more source.
Affirmed(id, held, event) ==
  [records EXCEPT ![id].sources = held.sources \cup {event},
                  ![id].confidence = Min({held.confidence + Boost, Cap[held.kind]})]

\* Mutant: the old record is not marked.
ReplacedQuietly(old, new) == [records EXCEPT ![new].old = old]

\* The last commit of revise, with contradict=True.
Replaced(old, new) == [records EXCEPT ![old].status = "contradicted", ![new].old = old]

\* An entry of the miner's dict, None when a statement has none.
None == [id |-> 0, sources |-> {}, status |-> "none"]
Entry(table, id) == [id |-> id, sources |-> table[id].sources, status |-> table[id].status]

\* Mutant: only active records are read.
PictureActive ==
  [s \in Statements |->
     LET ids == {i \in DOMAIN records : records[i].statement = s /\ records[i].status = "active"}
     IN  IF ids = {} THEN None ELSE Entry(records, Min(ids))]

\* The dict a pass starts with.  Visible records come newest first, so that
\* of two with one signature the older is kept.
Picture ==
  [s \in Statements |->
     LET ids == {i \in DOMAIN records : records[i].statement = s /\ records[i].status \in VisibleStatus}
     IN  IF ids = {} THEN None ELSE Entry(records, Min(ids))]

\* _mine_contradiction: the closest revisable records of the picture, of which
\* the first in its order is taken.
Targets(known, s) ==
  LET close == {t \in Statements \ {s} : /\ known[t].status \in Revisable
                                         /\ Overlap[<<s, t>>] >= 2}
  IN  {t \in close : \A u \in close : Overlap[<<s, t>>] >= Overlap[<<s, u>>]}

-----------------------------------------------------------------------------
Idle == [at |-> "idle", events |-> {}, took |-> {}, known |-> [s \in Statements |-> None],
         id |-> 0, held |-> <<>>, new |-> 0, aborted |-> FALSE]

Init ==
  /\ ledger = <<>> /\ records = <<>>
  /\ proc = [p \in Processes |-> Idle]
  /\ mined = {} /\ torn = {}
  /\ budget = [passes |-> MaxPasses, commands |-> MaxCommands, crashes |-> MaxCrashes]

Go(p, state) == proc' = [proc EXCEPT ![p] = state]

Say ==
  /\ Len(ledger) < MaxEvents
  /\ \E s \in Statements : ledger' = Append(ledger, s)
  /\ UNCHANGED <<records, proc, mined, torn, budget>>

\* A pass over events, with the picture of the records.
Pass(p, events) ==
  /\ proc[p].at = "idle" /\ budget.passes > 0
  /\ budget' = [budget EXCEPT !.passes = @ - 1]
  /\ Go(p, [Idle EXCEPT !.at = "mine", !.events = events, !.took = events, !.known = Picture])
  /\ UNCHANGED <<ledger, records, mined, torn>>

IsTelemetry(e) == Form[ledger[e]] = "telemetry"
Heard == {e \in DOMAIN ledger : ~IsTelemetry(e)}
Observed == {e \in DOMAIN ledger : IsTelemetry(e)}

Begin(p) == Pass(p, Heard)

\* The newest `limit` events.
Watch(p) == Pass(p, Newest(Observed, Window))

\* A pass takes its events in the order of their ids.
Event(p) == Min(proc[p].events)
Said(p) == ledger[Event(p)]
Known(p) == proc[p].known[Said(p)]
Mining(p) == proc[p].at = "mine" /\ proc[p].events # {}

\* The event is done, and the record it led to is what the picture shows.
NextEvent(p, table, id) ==
  Go(p, [proc[p] EXCEPT !.at = "mine", !.events = @ \ {Event(p)}, !.id = 0, !.held = <<>>, !.new = 0,
                        !.known[Said(p)] = IF id = 0 THEN @ ELSE Entry(table, id)])

\* Questions, what was counted, and contrasts with nothing to contradict.
Skip(p) ==
  /\ Mining(p)
  /\ \/ Form[Said(p)] = "question"
     \/ Event(p) \in Known(p).sources
     \/ Known(p) = None /\ Form[Said(p)] = "contrast" /\ Targets(proc[p].known, Said(p)) = {}
  /\ NextEvent(p, records, 0)
  /\ UNCHANGED <<ledger, records, mined, torn, budget>>

\* Mutant: the error is swallowed, and the event passed over.
AbortQuietly(p) == NextEvent(p, records, 0)

\* What a raised ValueError does: the pass is over.
Abort(p) == Go(p, [Idle EXCEPT !.aborted = TRUE])

\* A statement that is known is affirmed, if its record is active by now.
\* (A pass over telemetry leaves its picture as it was, which no later event
\* of the pass can tell: each of them is a source of its own.)
Repeat(p) ==
  LET id == Known(p).id
  IN  /\ Mining(p)
      /\ Form[Said(p)] # "question" /\ Known(p) # None /\ Event(p) \notin Known(p).sources
      /\ IF records[id].status = "active"
         THEN Go(p, [proc[p] EXCEPT !.at = "affirm", !.id = id, !.held = records[id]])
         ELSE Abort(p)
      /\ UNCHANGED <<ledger, records, mined, torn, budget>>

Affirm(p) ==
  /\ proc[p].at = "affirm"
  /\ records' = Affirmed(proc[p].id, proc[p].held, Event(p))
  /\ NextEvent(p, records', proc[p].id)
  /\ UNCHANGED <<ledger, mined, torn, budget>>

\* _mine_preference and _mine_fact, and what telemetry shows.
Note(p) ==
  /\ Mining(p)
  /\ Form[Said(p)] \in {"fact", "preference", "telemetry"} /\ Known(p) = None
  /\ records' = Noted(IF IsTelemetry(Event(p)) THEN "observation" ELSE Form[Said(p)], Said(p), Event(p))
  /\ NextEvent(p, records', Len(records'))
  /\ UNCHANGED <<ledger, mined, torn, budget>>

\* revise reads the old record, and refuses one that is resolved by now.
Contrast(p) ==
  /\ Mining(p)
  /\ Form[Said(p)] = "contrast" /\ Known(p) = None
  /\ \E t \in Targets(proc[p].known, Said(p)) :
       LET id == proc[p].known[t].id
       IN  IF records[id].status \in Revisable
           THEN Go(p, [proc[p] EXCEPT !.at = "revise", !.id = id])
           ELSE Abort(p)
  /\ UNCHANGED <<ledger, records, mined, torn, budget>>

\* The new record is committed before the old one is changed.
NoteRevision(p) ==
  /\ proc[p].at = "revise"
  /\ records' = Noted("fact", Said(p), Event(p))
  /\ Go(p, [proc[p] EXCEPT !.at = "replace", !.new = Len(records')])
  /\ UNCHANGED <<ledger, mined, torn, budget>>

Replace(p) ==
  /\ proc[p].at = "replace"
  /\ records' = Replaced(proc[p].id, proc[p].new)
  /\ NextEvent(p, records', proc[p].new)
  /\ UNCHANGED <<ledger, mined, torn, budget>>

End(p) ==
  /\ proc[p].at = "mine" /\ proc[p].events = {}
  /\ mined' = mined \cup proc[p].took
  /\ Go(p, Idle)
  /\ UNCHANGED <<ledger, records, torn, budget>>

Crash(p) ==
  /\ proc[p].at # "idle" /\ budget.crashes > 0
  /\ budget' = [budget EXCEPT !.crashes = @ - 1]
  /\ torn' = torn \cup ({proc[p].new} \ {0})
  /\ Go(p, Idle)
  /\ UNCHANGED <<ledger, records, mined>>

-----------------------------------------------------------------------------
MarkUncertain(id) ==
  /\ "uncertain" \in Commands /\ records[id].status = "active"
  /\ records' = [records EXCEPT ![id].status = "uncertain"]

\* refresh_understanding: what nobody has affirmed for long grows stale.
MarkOutdated(id) ==
  /\ "outdated" \in Commands /\ records[id].status = "active"
  /\ records[id].kind \in {"inference", "uncertainty", "preference", "interest"}
  /\ records' = [records EXCEPT ![id].status = "outdated"]

\* note() of a guess of her own.
Infer(s) ==
  /\ "infer" \in Commands /\ ledger # <<>> /\ Form[s] \in {"fact", "preference"}
  /\ records' = Noted("inference", s, Len(ledger))

Command ==
  /\ budget.commands > 0
  /\ \/ \E id \in DOMAIN records : MarkUncertain(id) \/ MarkOutdated(id)
     \/ \E s \in Statements : Infer(s)
  /\ budget' = [budget EXCEPT !.commands = @ - 1]
  /\ UNCHANGED <<ledger, proc, mined, torn>>

-----------------------------------------------------------------------------
\* The newest record that replaced one, 0 if there is none.
superseded_by(id) ==
  Max({0} \cup {j \in DOMAIN records : records[j].old = id})

\* Sources that are not on the ledger are left out.
resolve_sources(id) == records[id].sources \cap DOMAIN ledger

explain(id) ==
  LET successor == superseded_by(id)
  IN  [supporting |-> resolve_sources(id),
       contradicted_by |-> IF successor = 0 THEN {} ELSE resolve_sources(successor)]

covered_source_ids == UNION {records[i].sources : i \in DOMAIN records}

-----------------------------------------------------------------------------
Step(p) ==
  \/ Begin(p) \/ Watch(p) \/ Skip(p) \/ Repeat(p) \/ Affirm(p) \/ Note(p)
  \/ Contrast(p) \/ NoteRevision(p) \/ Replace(p) \/ End(p) \/ Crash(p)

Next == Say \/ Command \/ \E p \in Processes : Step(p)

Spec == Init /\ [][Next]_vars

-----------------------------------------------------------------------------

\* A record is as certain as the events behind it warrant: one boost for each
\* event after the first and never above the cap of its kind, however often
\* the ledger is mined, and whatever is lost or done twice
\* (understanding.py:184-185, 491, telemetry.py:469, 473).
ConfidenceEarned ==
  \A i \in DOMAIN records :
    records[i].confidence
      <= Min({Cap[records[i].kind],
              Sure(records[i].kind, Form[records[i].statement]) + Boost * (Cardinality(records[i].sources) - 1)})

\* When a pass has come to its end, everything it read that is neither a
\* question nor a contrast is a source of some record, after crashes and
\* aborted passes as well (understanding.py:483-503, telemetry.py:462-476).
FinishedPassCovers ==
  \A e \in mined :
    Form[ledger[e]] \in {"fact", "preference", "telemetry"} => e \in covered_source_ids

\* A contradicted record is explained by what was said against it, and what
\* spoke for it is kept; and a contrast that is noted has contradicted
\* something, but for a crash between the two commits of revise
\* (understanding.py:217-228, 322-339).
BothSidesKept ==
  /\ \A i \in DOMAIN records :
       records[i].status = "contradicted" => explain(i).supporting # {} /\ explain(i).contradicted_by # {}
  /\ \A j \in DOMAIN records \ torn :
       Form[records[j].statement] = "contrast" =>
         \/ records[j].old # 0 /\ records[records[j].old].status = "contradicted"
         \/ \E p \in Processes : proc[p].new = j

\* What was said is derived once: of the records made from what Surya said
\* there are never two for one statement (understanding.py:490, 422, 437).
DerivedOnce ==
  \A i, j \in DOMAIN records :
    (records[i].statement = records[j].statement /\ {records[i].kind, records[j].kind} \subseteq {"fact", "preference"})
      => i = j
=============================================================================
