------------------------------ MODULE Learning ------------------------------
(***************************************************************************)
(* The end of an autonomy run, over one database: consolidate(), called by *)
(* the engine, makes a claim of every event that has none; main.py then    *)
(* calls consolidate_learning(), which counts the events as evidence for   *)
(* and against learned objects and turns mature ones into claims.  Several *)
(* processes may do so at once, events keep arriving, and callers of the   *)
(* stores change what they find.                                           *)
(* Each statement that commits is a step; a crash may fall between any two.*)
(* All texts share a signature, and all experiences a goal and a category; *)
(* the windows of a hundred events and more are never full.                *)
(***************************************************************************)
EXTENDS EventLedger, KnowledgeStore, LearnedStore

CONSTANTS
  Processes,       \* processes with the database open
  Earlier,         \* the events on the ledger at first
  Arrivals,        \* the events that may be recorded later
  Commands,        \* what callers do to claims and learned objects
  ClaimBudget,     \* the budget of consolidate
  LearningBudget,  \* the budget of consolidate_learning
  MinNewEvents,    \* min_new_events of consolidation_due
  MaxEvents,       \* bound: events on the ledger
  MaxPasses,       \* bound: passes, in all
  MaxCommands,     \* bound: commands, in all
  MaxCrashes       \* bound: crashes, in all

Outcomes == {"success", "failure", "unknown"}

\* The learned objects: a pattern for each outcome, and a strategy, which the
\* direct miners (skills and preferences too) count for and against.
Strategy == "strategy"
Objects == Outcomes \cup {Strategy}

Events == [kind : {"outcome", "experience", "reflection"}, result : Outcomes, correction : BOOLEAN]

ObjectCommands == {"correct", "decay"}
AllCommands == ObjectCommands \cup (ClaimStatus \ {"active"})

ASSUME LearningAssumption ==
  /\ Earlier \in Seq(Events) /\ Arrivals \subseteq Events /\ Commands \subseteq AllCommands
  /\ {ClaimBudget, LearningBudget} \subseteq Nat \ {0} /\ MinNewEvents \in Nat
  /\ {MaxEvents, MaxPasses, MaxCommands, MaxCrashes} \subseteq Nat

VARIABLES
  ledger,   \* the event table
  learned,  \* the learned_objects table
  claims,   \* the knowledge_records table
  proc,     \* each process's program counter and locals
  op,       \* a caller between what it reads and what it writes
  corrections,  \* history variable: the corrections saved, of which object by which event
  budget    \* what is left of the bounds: passes, commands, crashes

vars == <<ledger, learned, claims, proc, op, corrections, budget>>

-----------------------------------------------------------------------------
\* What a claim is about when it was not promoted from an object.
ByEvent == "event"
ByCaller == "caller"

Ids(kinds) == UNION {IdsOfKind(ledger, kind) : kind \in kinds}

\* The events consolidate() makes claims of: the oldest, up to its budget.
Uncovered ==
  LET ids == Ids({"outcome", "reflection"}) \ CoveredSources(claims)
  IN  {e \in ids : Cardinality({f \in ids : f < e}) < ClaimBudget}

\* 0 when the object has no row; its unique index allows no second.
RowOf(object) ==
  IF \E i \in DOMAIN learned : learned[i].object = object
  THEN CHOOSE i \in DOMAIN learned : learned[i].object = object ELSE 0

KnownPatterns == {o \in Outcomes : RowOf(o) # 0}

MinedKinds == {"outcome", "experience"}

\* consolidation_due
Due ==
  LET counted == UNION {ToSet(learned[i].support \o learned[i].contra) : i \in DOMAIN learned}
  IN  \/ Cardinality(Ids(MinedKinds) \ counted) >= MinNewEvents
      \/ \E i \in DOMAIN ledger : ledger[i].correction

\* Calls of observe.
Sighting(object, event, against) == [object |-> object, event |-> event, against |-> against]

\* One cluster, which a single event does not make.
PatternEvents ==
  LET events == Ids(MinedKinds) IN IF Cardinality(events) < 2 THEN {} ELSE events

\* The two passes of mine_patterns.
Supporting(events) == {Sighting(ledger[e].result, e, FALSE) : e \in events}

Contradicting(events, known) ==
  {call \in [object : known, event : events, against : {TRUE}] :
     /\ call.object # ledger[call.event].result
     /\ ~Counted(learned[RowOf(call.object)], call.event)}

\* Mutant: every experience is evidence for the strategy.
StrategySightingsBlind ==
  {Sighting(Strategy, e, FALSE) : e \in {e \in Ids({"experience"}) : ledger[e].result # "unknown"}}

StrategySightings ==
  {Sighting(Strategy, e, ledger[e].result = "failure") :
     e \in {e \in Ids({"experience"}) : ledger[e].result # "unknown"}}

\* The order the miners take events in: outcomes first, the newest first.
Precedes(d, e) ==
  IF ledger[d].kind = ledger[e].kind THEN d >= e ELSE ledger[d].kind = "outcome"

-----------------------------------------------------------------------------
NoRow == [FirstSighting("none", 0, FALSE) EXCEPT !.support = <<>>]
NoCall == Sighting("none", 0, FALSE)

Idle == [pc |-> "idle", events |-> {}, calls |-> {}, known |-> {}, touched |-> {},
         call |-> NoCall, held |-> NoRow, rows |-> <<>>, at |-> 0, sources |-> {},
         claim |-> 0, spent |-> 0, seen |-> 0, clean |-> FALSE]

Quiet == [cmd |-> "none", id |-> 0, held |-> NoRow, event |-> 0, new |-> 0]

Init ==
  /\ ledger = Earlier /\ learned = <<>> /\ claims = <<>>
  /\ proc = [p \in Processes |-> Idle] /\ op = Quiet /\ corrections = <<>>
  /\ budget = [passes |-> MaxPasses, commands |-> MaxCommands, crashes |-> MaxCrashes]

\* A step of p, and one that writes to a table: history variable `clean' is
\* kept by a pass that nobody else's write falls into.
Go(p, state) == proc' = [proc EXCEPT ![p] = state]
Dirtied(q) == [proc[q] EXCEPT !.clean = FALSE]
Write(p, state) == proc' = [q \in Processes |-> IF q = p THEN state ELSE Dirtied(q)]

Record(event) ==
  /\ Len(ledger) < MaxEvents
  /\ ledger' = Append(ledger, event)
  /\ UNCHANGED <<learned, claims, proc, op, corrections, budget>>

-----------------------------------------------------------------------------
\* consolidate(): what is covered is read once.
Begin(p) ==
  /\ proc[p].pc = "idle" /\ budget.passes > 0
  /\ budget' = [budget EXCEPT !.passes = @ - 1]
  /\ Go(p, [Idle EXCEPT !.pc = "claim", !.events = Uncovered])
  /\ UNCHANGED <<ledger, learned, claims, op, corrections>>

ClaimEvent(p, event) ==
  /\ proc[p].pc = "claim" /\ \A e \in proc[p].events : event <= e
  /\ claims' = Propose(claims, ByEvent, {event})
  /\ Write(p, [proc[p] EXCEPT !.events = @ \ {event}])
  /\ UNCHANGED <<ledger, learned, op, corrections, budget>>

AskDue(p) ==
  /\ proc[p].pc = "claim" /\ proc[p].events = {}
  /\ Go(p, IF Due THEN [Idle EXCEPT !.pc = "start"] ELSE Idle)
  /\ UNCHANGED <<ledger, learned, claims, op, corrections, budget>>

\* The miners: mine_patterns in its two passes, and a direct one.
Miners == {"patterns", "siblings", "strategies"}

StartPatterns(p) ==
  /\ proc[p].pc = "start"
  /\ Go(p, [proc[p] EXCEPT !.pc = "patterns", !.events = PatternEvents,
              !.calls = Supporting(PatternEvents), !.known = KnownPatterns,
              !.seen = Len(ledger), !.clean = TRUE])
  /\ UNCHANGED <<ledger, learned, claims, op, corrections, budget>>

\* A call of observe has returned.
Observe(p, call) ==
  [proc[p] EXCEPT !.calls = @ \ {call}, !.call = NoCall, !.held = NoRow,
                  !.touched = @ \cup {call.object}]

\* The first half of observe, which returns if the event was counted.
ObserveRead(p, call) ==
  LET id  == RowOf(call.object)
      row == IF id = 0 THEN NoRow ELSE learned[id]
  IN  /\ proc[p].pc \in Miners /\ proc[p].call = NoCall
      /\ \A other \in proc[p].calls : Precedes(call.event, other.event)
      /\ Go(p, IF Counted(row, call.event) THEN Observe(p, call)
               ELSE [proc[p] EXCEPT !.call = call, !.held = row])
      /\ UNCHANGED <<ledger, learned, claims, op, corrections, budget>>

\* The second half: the UPDATE of a row that was read, or an INSERT.
ObserveUpdate(p) ==
  LET call == proc[p].call
  IN  /\ proc[p].pc \in Miners /\ call # NoCall /\ proc[p].held # NoRow
      /\ learned' = [learned EXCEPT ![RowOf(call.object)] =
                       Observed(@, proc[p].held, call.event, call.against)]
      /\ Write(p, Observe(p, call))
      /\ UNCHANGED <<ledger, claims, op, corrections, budget>>

ObserveInsert(p) ==
  LET call == proc[p].call
  IN  /\ proc[p].pc \in Miners /\ call # NoCall /\ proc[p].held = NoRow /\ RowOf(call.object) = 0
      /\ learned' = Append(learned, FirstSighting(call.object, call.event, call.against))
      /\ Write(p, Observe(p, call))
      /\ UNCHANGED <<ledger, claims, op, corrections, budget>>

\* Another process has inserted the row meanwhile: the unique index refuses a
\* second, the miner fails, and nothing is spent on it.
MinerFails(p) ==
  /\ proc[p].pc \in Miners /\ proc[p].call # NoCall
  /\ proc[p].held = NoRow /\ RowOf(proc[p].call.object) # 0
  /\ Go(p, [proc[p] EXCEPT !.pc = IF @ = "patterns" THEN "siblings" ELSE @,
              !.calls = {}, !.call = NoCall, !.held = NoRow, !.touched = {}])
  /\ UNCHANGED <<ledger, learned, claims, op, corrections, budget>>

\* Mutant: only the patterns that were there before are siblings.
StartSiblingsStale(p) ==
  /\ proc[p].pc = "patterns" /\ proc[p].calls = {}
  /\ Go(p, [proc[p] EXCEPT !.pc = "siblings",
              !.calls = Contradicting(proc[p].events, proc[p].known)])
  /\ UNCHANGED <<ledger, learned, claims, op, corrections, budget>>

StartSiblings(p) ==
  /\ proc[p].pc = "patterns" /\ proc[p].calls = {}
  /\ Go(p, [proc[p] EXCEPT !.pc = "siblings",
              !.calls = Contradicting(proc[p].events, proc[p].known \cup proc[p].touched)])
  /\ UNCHANGED <<ledger, learned, claims, op, corrections, budget>>

\* spend() of what a miner touched.
Spent(p) ==
  LET spent == proc[p].spent + Cardinality(proc[p].touched)
  IN  IF spent > LearningBudget THEN proc[p].spent ELSE spent

StartStrategies(p) ==
  /\ proc[p].pc = "siblings" /\ proc[p].calls = {}
  /\ Go(p, [proc[p] EXCEPT !.pc = "strategies", !.events = {}, !.calls = StrategySightings,
              !.spent = Spent(p), !.known = {}, !.touched = {}])
  /\ UNCHANGED <<ledger, learned, claims, op, corrections, budget>>

-----------------------------------------------------------------------------
\* Promotion, over a snapshot of the rows, newest first.
StartPromotion(p) ==
  /\ proc[p].pc = "strategies" /\ proc[p].calls = {}
  /\ Go(p, [proc[p] EXCEPT !.pc = "promote", !.rows = learned, !.at = Len(learned),
              !.spent = Spent(p), !.touched = {}])
  /\ UNCHANGED <<ledger, learned, claims, op, corrections, budget>>

Ready(row) == row.status = "established" /\ row.confidence >= PromoteConfidence

Believed(row) == row.claim # 0 /\ claims[row.claim].status = "active"

\* Where the evidence is of a believed row that its claim does not rest on yet.
Fresh(row) == {k \in DOMAIN row.support : row.support[k] \notin claims[row.claim].sources}

CurrentRow(p) == proc[p].rows[proc[p].at]

Promoting(p) == proc[p].pc = "promote" /\ proc[p].at > 0 /\ proc[p].spent < LearningBudget

\* Done with a row; an exception costs nothing.
NextRow(p, cost) == [proc[p] EXCEPT !.pc = "promote", !.at = @ - 1, !.spent = @ + cost,
                       !.sources = {}, !.claim = 0]

\* _promote_if_ready and _demote_if_contradicted look at the claim of the row.
DecideAffirm(p) ==
  LET row == CurrentRow(p)
  IN  /\ Promoting(p) /\ Ready(row) /\ Believed(row) /\ Fresh(row) # {}
      /\ Go(p, [proc[p] EXCEPT !.pc = "affirm", !.claim = row.claim,
                  !.sources = {row.support[Max(Fresh(row))]}])
      /\ UNCHANGED <<ledger, learned, claims, op, corrections, budget>>

DecideDemote(p) ==
  LET row == CurrentRow(p)
  IN  /\ Promoting(p) /\ row.status = "contradicted" /\ Believed(row)
      /\ Go(p, [proc[p] EXCEPT !.pc = "demote", !.claim = row.claim])
      /\ UNCHANGED <<ledger, learned, claims, op, corrections, budget>>

\* Mutant: a row that is linked is left alone, whatever became of its claim.
LeaveAloneLinked(p) ==
  LET row == CurrentRow(p)
  IN  /\ Promoting(p)
      /\ Ready(row) => row.claim # 0 /\ (Believed(row) => Fresh(row) = {})
      /\ row.status = "contradicted" => ~Believed(row)
      /\ Go(p, NextRow(p, 1))
      /\ UNCHANGED <<ledger, learned, claims, op, corrections, budget>>

LeaveAlone(p) ==
  LET row == CurrentRow(p)
  IN  /\ Promoting(p)
      /\ Ready(row) => Believed(row) /\ Fresh(row) = {}
      /\ row.status = "contradicted" => ~Believed(row)
      /\ Go(p, NextRow(p, 1))
      /\ UNCHANGED <<ledger, learned, claims, op, corrections, budget>>

\* Mutant: what is believed is proposed again.
ProposeClaimAgain(p) ==
  LET row == CurrentRow(p)
  IN  /\ Promoting(p) /\ Ready(row)
      /\ claims' = Propose(claims, row.object, ToSet(row.support))
      /\ Write(p, [proc[p] EXCEPT !.pc = "link", !.claim = Len(claims')])
      /\ UNCHANGED <<ledger, learned, op, corrections, budget>>

ProposeClaim(p) ==
  LET row == CurrentRow(p)
  IN  /\ Promoting(p) /\ Ready(row) /\ ~Believed(row)
      /\ claims' = Propose(claims, row.object, ToSet(row.support))
      /\ Write(p, [proc[p] EXCEPT !.pc = "link", !.claim = Len(claims')])
      /\ UNCHANGED <<ledger, learned, op, corrections, budget>>

LinkClaim(p) ==
  /\ proc[p].pc = "link"
  /\ learned' = [learned EXCEPT ![proc[p].at].claim = proc[p].claim]
  /\ Write(p, NextRow(p, 1))
  /\ UNCHANGED <<ledger, claims, op, corrections, budget>>

\* affirm and mark_uncertain read the claim again and refuse one that is not
\* active by now.
ReadClaim(p) ==
  LET claim == claims[proc[p].claim]
  IN  /\ proc[p].pc \in {"affirm", "demote"}
      /\ Go(p, IF claim.status # "active" THEN NextRow(p, 0)
               ELSE [proc[p] EXCEPT !.sources = @ \cup claim.sources,
                       !.pc = IF @ = "affirm" THEN "affirming" ELSE "demoting"])
      /\ UNCHANGED <<ledger, learned, claims, op, corrections, budget>>

AffirmClaim(p) ==
  /\ proc[p].pc = "affirming"
  /\ claims' = WriteSources(claims, proc[p].claim, proc[p].sources)
  /\ Write(p, NextRow(p, 1))
  /\ UNCHANGED <<ledger, learned, op, corrections, budget>>

DemoteClaim(p) ==
  /\ proc[p].pc = "demoting"
  /\ claims' = WriteStatus(claims, proc[p].claim, "uncertain")
  /\ Write(p, NextRow(p, 1))
  /\ UNCHANGED <<ledger, learned, op, corrections, budget>>

EndPass(p) ==
  /\ proc[p].pc = "promote" /\ (proc[p].at = 0 \/ proc[p].spent >= LearningBudget)
  /\ Go(p, Idle)
  /\ UNCHANGED <<ledger, learned, claims, op, corrections, budget>>

-----------------------------------------------------------------------------
\* A caller of the stores reads a record, and may be refused.
CommandClaim(cmd, id) ==
  /\ op = Quiet /\ budget.commands > 0
  /\ cmd \notin ObjectCommands /\ MayBecome(claims[id].status, cmd)
  /\ op' = [Quiet EXCEPT !.cmd = cmd, !.id = id]
  /\ budget' = [budget EXCEPT !.commands = @ - 1]
  /\ UNCHANGED <<ledger, learned, claims, proc, corrections>>

\* apply_correction names an event, whichever is on the ledger; apply_decay
\* names none.
CommandObject(cmd, id, event) ==
  /\ op = Quiet /\ budget.commands > 0
  /\ cmd \in ObjectCommands /\ (cmd = "decay" <=> event = 0)
  /\ op' = [Quiet EXCEPT !.cmd = cmd, !.id = id, !.held = learned[id], !.event = event]
  /\ budget' = [budget EXCEPT !.commands = @ - 1]
  /\ UNCHANGED <<ledger, learned, claims, proc, corrections>>

\* Mutant: the old claim is marked first.
ProposeInsteadMarked(event) ==
  /\ op.cmd \in Replacing /\ op.new = 0
  /\ claims' = Propose(WriteStatus(claims, op.id, op.cmd), ByCaller, {event})
  /\ op' = [op EXCEPT !.new = Len(claims')]
  /\ proc' = [q \in Processes |-> Dirtied(q)]
  /\ UNCHANGED <<ledger, learned, corrections, budget>>

\* supersede and contradict commit the new claim first.
ProposeInstead(event) ==
  /\ op.cmd \in Replacing /\ op.new = 0
  /\ claims' = Propose(claims, ByCaller, {event})
  /\ op' = [op EXCEPT !.new = Len(claims')]
  /\ proc' = [q \in Processes |-> Dirtied(q)]
  /\ UNCHANGED <<ledger, learned, corrections, budget>>

\* The last commit of a command.
SaveCommand ==
  /\ op # Quiet /\ (op.cmd \in Replacing => op.new # 0)
  /\ claims' = IF op.cmd \in ObjectCommands THEN claims
               ELSE IF op.cmd \in Replacing THEN Replace(claims, op.id, op.cmd, op.new)
               ELSE WriteStatus(claims, op.id, op.cmd)
  /\ learned' = CASE op.cmd = "correct" -> [learned EXCEPT ![op.id] = Corrected(@, op.held, op.event)]
                  [] op.cmd = "decay"   -> [learned EXCEPT ![op.id] = Decayed(@, op.held)]
                  [] OTHER              -> learned
  /\ corrections' = IF op.cmd # "correct" THEN corrections
                    ELSE Append(corrections, <<learned[op.id].object, op.event>>)
  /\ op' = Quiet
  /\ proc' = [q \in Processes |-> Dirtied(q)]
  /\ UNCHANGED <<ledger, budget>>

Crash(p) ==
  /\ proc[p].pc # "idle" /\ budget.crashes > 0
  /\ Go(p, Idle)
  /\ budget' = [budget EXCEPT !.crashes = @ - 1]
  /\ UNCHANGED <<ledger, learned, claims, op, corrections>>

CrashCaller ==
  /\ op # Quiet /\ budget.crashes > 0
  /\ op' = Quiet
  /\ budget' = [budget EXCEPT !.crashes = @ - 1]
  /\ UNCHANGED <<ledger, learned, claims, proc, corrections>>

Mine(p) ==
  \/ StartPatterns(p) \/ (\E call \in proc[p].calls : ObserveRead(p, call)) \/ ObserveUpdate(p) \/ ObserveInsert(p)
  \/ MinerFails(p) \/ StartSiblings(p) \/ StartStrategies(p)

Promote(p) ==
  \/ StartPromotion(p) \/ DecideAffirm(p) \/ DecideDemote(p) \/ LeaveAlone(p)
  \/ ProposeClaim(p) \/ LinkClaim(p) \/ ReadClaim(p) \/ AffirmClaim(p)
  \/ DemoteClaim(p) \/ EndPass(p)

Pass(p) ==
  \/ Begin(p) \/ (\E event \in proc[p].events : ClaimEvent(p, event)) \/ AskDue(p)
  \/ Mine(p) \/ Promote(p)

Caller ==
  \/ \E cmd \in Commands :
       \/ \E id \in DOMAIN claims : CommandClaim(cmd, id)
       \/ \E id \in DOMAIN learned, event \in {0} \cup DOMAIN ledger : CommandObject(cmd, id, event)
  \/ \E event \in DOMAIN ledger : ProposeInstead(event)
  \/ SaveCommand

Next ==
  \/ \E event \in Arrivals : Record(event)
  \/ \E p \in Processes : Pass(p) \/ Crash(p)
  \/ Caller \/ CrashCaller

Spec == Init /\ [][Next]_vars

-----------------------------------------------------------------------------
\* How often a list holds x.
Times(list, x) == Cardinality({k \in DOMAIN list : list[k] = x})

\* Mining counts an event once (observe, learned.py:156), however passes,
\* corrections and crashes overlap: an object rests on no event twice, and what
\* is held against it a second time, or although it speaks for it, was named by
\* as many corrections, which ask for no such thing (learned.py:181).
CountedOnce ==
  \A i \in DOMAIN learned, e \in DOMAIN ledger :
    LET row == learned[i]
    IN  /\ Times(row.support, e) <= 1
        /\ Times(row.support, e) + Times(row.contra, e)
             <= 1 + Times(corrections, <<row.object, e>>)

\* Where event e belongs in a row of the table.
Side(row, e) ==
  IF row.object \in {ledger[e].result, IF ledger[e].result = "success" THEN Strategy ELSE "none"}
  THEN row.support ELSE row.contra

\* Pass 2 of mine_patterns is order-independent (learned.py:331) and re-runs
\* are idempotent: after mining that no other writer fell into, each event it
\* saw supports the pattern of its own outcome and contradicts that of every
\* other outcome ever seen, and an experience counts for or against the
\* strategy, whatever earlier passes did before they died.  Only what a
\* correction held against the object already stays there.
MiningComplete ==
  \A p \in Processes :
    LET seen == {e \in 1..proc[p].seen : ledger[e].kind \in MinedKinds}
    IN  proc[p].pc = "promote" /\ proc[p].clean /\ Cardinality(seen) > 1 =>
          \A e \in seen :
            /\ RowOf(ledger[e].result) # 0
            /\ \A i \in DOMAIN learned :
                 (learned[i].object = Strategy =>
                    ledger[e].kind = "experience" /\ ledger[e].result # "unknown") =>
                   \/ Contains(Side(learned[i], e), e)
                   \/ /\ Contains(corrections, <<learned[i].object, e>>)
                      /\ Contains(learned[i].contra, e)

\* Evidence thresholds (learned.py:30): a claim promoted from an object rests on
\* at least MIN_SUPPORT events, all of which happened the way it says.
PromotedOnEvidence ==
  \A i \in DOMAIN claims : claims[i].origin \in Objects =>
    LET said == IF claims[i].origin = Strategy THEN "success" ELSE claims[i].origin
    IN  /\ Cardinality(claims[i].sources) >= MinSupport
        /\ \A e \in claims[i].sources : ledger[e].result = said

\* An active promoted claim that no row links to and nobody is about to link.
Orphan(i) ==
  /\ claims[i].origin \in Objects /\ claims[i].status = "active"
  /\ \A j \in DOMAIN learned : learned[j].claim # i
  /\ \A p \in Processes : ~(proc[p].pc = "link" /\ proc[p].claim = i)

\* A claim is proposed and linked in two commits (consolidation.py:217-220): an
\* object loses control of a claim, which then nothing demotes, only when a
\* crash falls between them, and once for each.
OrphansOnlyByCrash ==
  Cardinality({i \in DOMAIN claims : Orphan(i)}) <= MaxCrashes - budget.crashes

\* What a promotion that nothing disturbed and the budget did not cut short
\* leaves (consolidation.py:176-188): a mature object is believed, a
\* contradicted one is not, although claims and objects change between passes.
PassSettles ==
  \A p \in Processes : proc[p].pc = "promote" /\ proc[p].clean /\ proc[p].at = 0 =>
    \A i \in DOMAIN learned :
      /\ Ready(learned[i]) => Believed(learned[i])
      /\ learned[i].status = "contradicted" => ~Believed(learned[i])

\* Both sides of a replacement stay explainable (knowledge.py:225-227): a claim
\* that is superseded or contradicted is named by a later one, also when a
\* crash cuts the replacement in two.
ReplacedHasSuccessor ==
  \A i \in DOMAIN claims :
    claims[i].status \in Replacing => \E j \in DOMAIN claims : claims[j].old = i

=============================================================================
