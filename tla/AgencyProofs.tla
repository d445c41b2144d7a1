---------------------------- MODULE AgencyProofs -----------------------------
(* Machine-checked facts about Agency, for every value of its constants. *)
EXTENDS Agency, FiniteSetTheorems, TLAPS

-----------------------------------------------------------------------------
(* The inductive invariant. *)

ToolNames == Tools \cup {NoTool} \cup {request.tool : request \in Requests}
Verdicts == {"none", "allow", "deny", "require_approval"}
Places == {"idle", "load", "decide", "goals", "save", "affect", "close", "execute", "audit", "send",
           "note"}

Procs ==
  [at : Places, kind : Calls \cup {"none"}, step : Nat, held : SUBSET Nat, id : Nat, goals : Nat,
   tool : ToolNames, verdict : Verdicts, approved : BOOLEAN, ok : BOOLEAN, seen : Nat]

Decisions == [kind : {"decision"}, tool : ToolNames, verdict : Verdicts]
Communications == [kind : {"communication"}, message : Nat, sent : BOOLEAN]
Events == PastEvents \cup Decisions \cup Communications \cup [kind : {"outcome", "affect"}]

TypeOK ==
  /\ ledger \in Seq(Events)
  /\ proc \in [Processes -> Procs]
  /\ snapshot \subseteq DOMAIN ledger
  /\ budget \in [calls : Nat, turns : Nat, crashes : Nat]

\* Which calls come to which places, and with which event of their own.
KindOf ==
  [idle |-> Calls \cup {"none"}, load |-> {"task", "turn", "outcome", "affect", "interests"},
   decide |-> {"task", "turn"}, goals |-> {"task", "turn"}, affect |-> {"affect"},
   save |-> {"outcome", "affect", "interests"}, close |-> {"close"}, execute |-> {"task", "tool"},
   audit |-> {"task", "tool"}, send |-> {"dispatch"}, note |-> {"dispatch"}]

Placed == \A p \in Processes :
  /\ proc[p].kind \in KindOf[proc[p].at]
  /\ proc[p].at = "load" /\ proc[p].kind # "outcome" => proc[p].id = 0
  /\ proc[p].at = "load" /\ proc[p].kind = "outcome" => proc[p].id \in DOMAIN ledger
  /\ proc[p].at \in {"decide", "affect"} => proc[p].id = 0

\* The decision a turn came to.
IsDecision(id, tool, verdict) ==
  /\ id \in DOMAIN ledger
  /\ ledger[id].kind = "decision" /\ ledger[id].tool = tool /\ ledger[id].verdict = verdict

\* A process that holds a state holds all of the saved one but what is known to
\* have been overlapped, and nothing but that and its own event.
Holders == {"decide", "goals", "affect", "save"}
Holding == \A p \in Processes : proc[p].at \in Holders =>
  /\ proc[p].held \subseteq DOMAIN ledger
  /\ proc[p].held \ {proc[p].id} \subseteq snapshot \cup overlapped
  /\ snapshot \ overlapped \subseteq proc[p].held
  /\ proc[p].at = "save" => proc[p].id \in proc[p].held \cup {0}
  /\ proc[p].at = "goals" => /\ proc[p].id \in proc[p].held
                             /\ IsDecision(proc[p].id, proc[p].tool, proc[p].verdict)

\* What is executed for a task was decided, allowed and saved.
Carried(id, tool) == id \in snapshot \cup overlapped /\ IsDecision(id, tool, "allow")
Decided ==
  /\ \A p \in Processes :
       proc[p].at \in {"execute", "audit"} /\ proc[p].kind = "task" => Carried(proc[p].id, proc[p].tool)
  /\ \A run \in ran : \/ run.by = "task" /\ Carried(run.id, run.tool)
                      \/ run.by = "tool" /\ (Risk[run.tool] = "read_only" \/ run.approved)

\* The number of a call is above those of the calls that are still to come.
Sending == {"send", "note"}
Numbered ==
  /\ \A p \in Processes : proc[p].at \in Sending => proc[p].id > budget.calls
  /\ \A m \in delivered : m \in Nat /\ m > budget.calls
  /\ \A i \in IdsOfKind(ledger, "communication") : ledger[i].message > budget.calls
  /\ \A p, q \in Processes :
       p # q /\ proc[p].at \in Sending /\ proc[q].at \in Sending => proc[p].id # proc[q].id

\* A message is sent once, and is on the ledger only after that.
Unsent == \A p \in Processes :
  /\ proc[p].at = "send" =>
       /\ proc[p].id \notin delivered
       /\ \A i \in IdsOfKind(ledger, "communication") : ledger[i].message # proc[p].id
  /\ proc[p].at = "note" /\ ~proc[p].ok => proc[p].id \notin delivered

\* What a caller who has found the goal active may still not have seen.
Closings == IdsOfKind(ledger, "goal_closed")
LookedUp == \A p \in Processes : proc[p].at = "close" =>
  /\ proc[p].seen <= Cardinality(Closings)
  /\ \A i \in Closings : ledger[i].goal = proc[p].id => Unseen(ledger, i, proc[p].seen)

-----------------------------------------------------------------------------
(* What a step does to the processes. *)

LEMMA IdleTypes == Idle \in Procs
BY DEF Idle, Procs, Places, Verdicts, ToolNames

\* The assignments to a process.
LEMMA ProcTypes ==
  ASSUME NEW r \in Procs, NEW place \in Places
  PROVE  /\ \A kind \in Calls : [r EXCEPT !.kind = kind] \in Procs
         /\ [r EXCEPT !.at = place] \in Procs
         /\ \A id \in Nat : [r EXCEPT !.at = place, !.id = id] \in Procs
         /\ \A id \in Nat, n \in Nat : [r EXCEPT !.at = place, !.id = id, !.seen = n] \in Procs
         /\ \A id \in Nat, tool \in ToolNames, b \in BOOLEAN :
              [r EXCEPT !.at = place, !.tool = tool, !.id = id, !.approved = b] \in Procs
         /\ \A id \in Nat, b \in BOOLEAN : [r EXCEPT !.at = place, !.id = id, !.approved = b] \in Procs
         /\ \A ids \in SUBSET Nat : [r EXCEPT !.at = place, !.held = ids] \in Procs
         /\ \A id \in Nat, ids \in SUBSET Nat :
              [r EXCEPT !.at = place, !.id = id, !.held = ids] \in Procs
         /\ \A id \in Nat, ids \in SUBSET Nat, tool \in ToolNames, verdict \in Verdicts :
              [r EXCEPT !.at = place, !.id = id, !.held = ids, !.tool = tool, !.verdict = verdict] \in Procs
         /\ [r EXCEPT !.goals = @ + 1] \in Procs
         /\ [r EXCEPT !.at = place, !.approved = TRUE, !.verdict = "none"] \in Procs
         /\ [r EXCEPT !.at = place, !.step = @ + 1, !.id = 0, !.goals = 0] \in Procs
         /\ \A b \in BOOLEAN : [r EXCEPT !.at = place, !.ok = b] \in Procs
<1>1. \A kind \in Calls : [r EXCEPT !.kind = kind] \in Procs
  BY DEF Procs
<1>2. [r EXCEPT !.at = place] \in Procs
  BY DEF Procs
<1>3. \A id \in Nat : [r EXCEPT !.at = place, !.id = id] \in Procs
  BY DEF Procs
<1>4. \A id \in Nat, n \in Nat : [r EXCEPT !.at = place, !.id = id, !.seen = n] \in Procs
  BY DEF Procs
<1>5. \A id \in Nat, tool \in ToolNames, b \in BOOLEAN :
        [r EXCEPT !.at = place, !.tool = tool, !.id = id, !.approved = b] \in Procs
  BY DEF Procs
<1>6. \A id \in Nat, b \in BOOLEAN : [r EXCEPT !.at = place, !.id = id, !.approved = b] \in Procs
  BY DEF Procs
<1>7. \A ids \in SUBSET Nat : [r EXCEPT !.at = place, !.held = ids] \in Procs
  BY DEF Procs
<1>8. \A id \in Nat, ids \in SUBSET Nat : [r EXCEPT !.at = place, !.id = id, !.held = ids] \in Procs
  BY DEF Procs
<1>9. \A id \in Nat, ids \in SUBSET Nat, tool \in ToolNames, verdict \in Verdicts :
        [r EXCEPT !.at = place, !.id = id, !.held = ids, !.tool = tool, !.verdict = verdict] \in Procs
  BY DEF Procs
<1>10. [r EXCEPT !.goals = @ + 1] \in Procs
  BY DEF Procs
<1>11. [r EXCEPT !.at = place, !.approved = TRUE, !.verdict = "none"] \in Procs
  BY DEF Procs, Verdicts
<1>12. [r EXCEPT !.at = place, !.step = @ + 1, !.id = 0, !.goals = 0] \in Procs
  <2>1. r.step + 1 \in Nat
    BY DEF Procs
  <2>2. \A n \in Nat : [r EXCEPT !.at = place, !.step = n, !.id = 0, !.goals = 0] \in Procs
    BY DEF Procs
  <2> QED
    BY <2>1, <2>2
<1>13. \A b \in BOOLEAN : [r EXCEPT !.at = place, !.ok = b] \in Procs
  BY DEF Procs
<1> QED
  BY <1>1, <1>2, <1>3, <1>4, <1>5, <1>6, <1>7, <1>8, <1>9, <1>10, <1>11, <1>12, <1>13

\* Only p has gone on.
Others(p) == proc' \in [Processes -> Procs] /\ \A q \in Processes \ {p} : proc'[q] = proc[q]

LEMMA GoEffect ==
  ASSUME TypeOK, NEW p \in Processes, NEW state \in Procs, Go(p, state)
  PROVE  Others(p) /\ proc'[p] = state
BY DEF TypeOK, Go, Others

\* The ledger only grows.
Kept == /\ ledger' \in Seq(Events)
        /\ DOMAIN ledger \subseteq DOMAIN ledger'
        /\ \A i \in DOMAIN ledger : ledger'[i] = ledger[i]

LEMMA LedgerFacts ==
  ASSUME TypeOK
  PROVE  /\ NextId \in Nat \ {0} /\ NextId \notin DOMAIN ledger
         /\ \A i \in DOMAIN ledger : i \in Nat /\ i > 0 /\ i < NextId
         /\ DOMAIN ledger \in SUBSET Nat
BY DEF TypeOK, NextId

LEMMA RecordEffect ==
  ASSUME TypeOK, NEW e \in Events, Record(e)
  PROVE  /\ Kept
         /\ DOMAIN ledger' = DOMAIN ledger \cup {NextId}
         /\ ledger'[NextId] = e
<1>1. ledger \in Seq(Events) /\ ledger' = Append(ledger, e)
  BY DEF TypeOK, Record
<1> QED
  BY <1>1 DEF Kept, NextId

LEMMA IdsFacts ==
  ASSUME NEW log \in Seq(Events), NEW kind
  PROVE  /\ IdsOfKind(log, kind) \subseteq DOMAIN log
         /\ IsFiniteSet(IdsOfKind(log, kind))
         /\ Cardinality(IdsOfKind(log, kind)) \in Nat
<1>1. Len(log) \in Nat /\ DOMAIN log = 1..Len(log)
  OBVIOUS
<1>2. IdsOfKind(log, kind) \subseteq 1..Len(log)
  BY <1>1 DEF IdsOfKind
<1>3. IsFiniteSet(IdsOfKind(log, kind))
  <2>1. IsFiniteSet(1..Len(log))
    BY <1>1, FS_Interval
  <2> QED
    BY <1>2, <2>1, FS_Subset
<1> QED
  BY <1>1, <1>2, <1>3, FS_CardinalityType

Budgets == [calls : Nat, turns : Nat, crashes : Nat]

LEMMA BeginEffect ==
  ASSUME TypeOK, NEW p \in Processes, NEW state \in Procs, NEW kind, Begin(p, kind, state)
  PROVE  /\ Others(p) /\ proc[p].at = "idle"
         /\ proc'[p].kind = kind /\ kind \in Calls
         /\ \A x \in {"at", "id", "goals", "tool", "held", "approved", "ok", "seen"} :
              proc'[p][x] = state[x]
         /\ budget' \in Budgets /\ budget.calls \in Nat /\ budget'.calls = budget.calls - 1
<1>1. budget \in Budgets /\ kind \in Calls
  BY AgencyAssumption DEF TypeOK, Begin, Budgets
<1>2. budget' \in Budgets /\ budget.calls \in Nat /\ budget'.calls = budget.calls - 1
  BY <1>1 DEF Begin, Budgets
<1>3. [state EXCEPT !.kind = kind] \in Procs
  BY <1>1, ProcTypes, IdleTypes DEF Places
<1>4. Others(p) /\ proc'[p] = [state EXCEPT !.kind = kind]
  BY <1>3, GoEffect DEF Begin
<1>5. /\ proc'[p].kind = kind
      /\ \A x \in {"at", "id", "goals", "tool", "held", "approved", "ok", "seen"} :
           proc'[p][x] = state[x]
  BY <1>4 DEF Procs
<1> QED
  BY <1>1, <1>2, <1>4, <1>5 DEF Begin

\* A call begins.
LEMMA StartEffect ==
  ASSUME TypeOK, NEW p \in Processes, Start(p)
  PROVE  /\ Others(p) /\ proc[p].at = "idle"
         /\ UNCHANGED <<snapshot, effects, overlapped, cut>>
         /\ budget' \in Budgets /\ budget.calls \in Nat /\ budget'.calls = budget.calls - 1
         /\ \/ /\ proc'[p].at = "load" /\ proc'[p].id = 0 /\ UNCHANGED ledger
               /\ proc'[p].kind \in {"task", "turn", "affect", "interests"}
            \/ /\ proc'[p].at = "load" /\ proc'[p].id = NextId /\ proc'[p].kind = "outcome"
               /\ Record([kind |-> "outcome"])
            \/ proc'[p].at = "idle" /\ proc'[p].kind \in Calls /\ UNCHANGED ledger
            \/ /\ proc'[p].at = "close" /\ proc'[p].kind = "close" /\ UNCHANGED ledger
               /\ proc'[p].id \in ActiveGoals /\ proc'[p].seen = Cardinality(Closings)
            \/ proc'[p].at = "execute" /\ proc'[p].kind = "tool" /\ UNCHANGED ledger
            \/ /\ proc'[p].at \in Sending /\ proc'[p].kind = "dispatch" /\ ~proc'[p].ok
               /\ proc'[p].id = budget.calls /\ UNCHANGED ledger
<1> USE IdleTypes
<1>0. "idle" \in Places /\ "load" \in Places /\ "close" \in Places /\ "execute" \in Places
      /\ "send" \in Places /\ "note" \in Places
  BY DEF Places
<1>1. budget.calls \in Nat
  BY DEF TypeOK
<1>2. CASE StartTurn(p) \/ StartAffect(p) \/ StartInterests(p)
  <2>1. [Idle EXCEPT !.at = "load"] \in Procs
    BY <1>0, ProcTypes
  <2>2. [Idle EXCEPT !.at = "load"].at = "load" /\ [Idle EXCEPT !.at = "load"].id = 0
    BY DEF Idle
  <2>3. PICK kind \in {"task", "turn", "affect", "interests"} :
          Begin(p, kind, [Idle EXCEPT !.at = "load"])
    BY <1>2 DEF StartTurn, StartAffect, StartInterests
  <2> QED
    BY <1>2, <2>1, <2>2, <2>3, BeginEffect DEF StartTurn, StartAffect, StartInterests
<1>3. CASE StartOutcome(p)
  <2> DEFINE state == [Idle EXCEPT !.at = "load", !.id = NextId]
  <2>1. state \in Procs
    BY <1>0, ProcTypes, LedgerFacts
  <2>2. state.at = "load" /\ state.id = NextId
    BY DEF Idle
  <2>3. Begin(p, "outcome", state)
    BY <1>3 DEF StartOutcome
  <2> HIDE DEF state
  <2> QED
    BY <1>3, <2>1, <2>2, <2>3, BeginEffect DEF StartOutcome
<1>4. CASE StartClose(p)
  <2>1. PICK goal \in IdsOfKind(ledger, "goal_opened") :
          Begin(p, "close", IF goal \in ActiveGoals
                            THEN [Idle EXCEPT !.at = "close", !.id = goal,
                                              !.seen = Cardinality(IdsOfKind(ledger, "goal_closed"))]
                            ELSE Idle)
    BY <1>4 DEF StartClose
  <2>2. goal \in Nat /\ Cardinality(Closings) \in Nat
    BY IdsFacts, LedgerFacts DEF TypeOK, Closings
  <2>3. CASE goal \in ActiveGoals
    <3> DEFINE state == [Idle EXCEPT !.at = "close", !.id = goal, !.seen = Cardinality(Closings)]
    <3>1. state \in Procs
      BY <1>0, <2>2, ProcTypes
    <3>2. state.at = "close" /\ state.id = goal /\ state.seen = Cardinality(Closings)
      BY DEF Idle
    <3>3. Begin(p, "close", state)
      BY <2>1, <2>3 DEF Closings
    <3> HIDE DEF state
    <3> QED
      BY <1>4, <2>3, <3>1, <3>2, <3>3, BeginEffect DEF StartClose
  <2>4. CASE goal \notin ActiveGoals
    <3>1. Begin(p, "close", Idle) /\ Idle.at = "idle"
      BY <2>1, <2>4 DEF Idle
    <3> QED
      BY <1>4, <3>1, BeginEffect DEF StartClose
  <2> QED
    BY <2>3, <2>4
<1>5. CASE StartTool(p)
  <2>1. PICK tool \in Tools, approved \in BOOLEAN :
          Begin(p, "tool", [Idle EXCEPT !.at = "execute", !.tool = tool, !.id = budget.calls,
                                        !.approved = approved])
    BY <1>5 DEF StartTool
  <2> DEFINE state == [Idle EXCEPT !.at = "execute", !.tool = tool, !.id = budget.calls,
                                   !.approved = approved]
  <2>2. state \in Procs
    <3>1. tool \in ToolNames
      BY DEF ToolNames
    <3> QED
      BY <1>0, <1>1, <3>1, ProcTypes
  <2>3. state.at = "execute"
    BY DEF Idle
  <2>4. Begin(p, "tool", state)
    BY <2>1
  <2> HIDE DEF state
  <2> QED
    BY <1>5, <2>2, <2>3, <2>4, BeginEffect DEF StartTool
<1>6. CASE StartDispatch(p)
  <2>1. PICK place \in Sending, approved \in BOOLEAN :
          Begin(p, "dispatch", [Idle EXCEPT !.at = place, !.id = budget.calls, !.approved = approved])
    <3>1. PICK gate \in BOOLEAN, approver \in BOOLEAN :
            LET verdict == Verdict([risk |-> "message", sandboxed |-> FALSE, cost |-> TRUE], gate)
                approved == verdict = "allow" \/ approver
            IN  Begin(p, "dispatch", [Idle EXCEPT !.at = IF approved THEN "send" ELSE "note",
                                                  !.id = budget.calls, !.approved = approved])
      BY <1>6 DEF StartDispatch
    <3> DEFINE approved == Verdict([risk |-> "message", sandboxed |-> FALSE, cost |-> TRUE], gate) = "allow"
                           \/ approver
    <3>2. Begin(p, "dispatch", [Idle EXCEPT !.at = IF approved THEN "send" ELSE "note",
                                            !.id = budget.calls, !.approved = approved])
      BY <3>1
    <3>3. approved \in BOOLEAN /\ (IF approved THEN "send" ELSE "note") \in Sending
      BY DEF Sending
    <3> QED
      BY <3>2, <3>3
  <2> DEFINE state == [Idle EXCEPT !.at = place, !.id = budget.calls, !.approved = approved]
  <2>2. state \in Procs
    BY <1>0, <1>1, ProcTypes DEF Sending
  <2>3. state.at = place /\ state.id = budget.calls /\ state.ok = FALSE
    BY DEF Idle
  <2>4. Begin(p, "dispatch", state)
    BY <2>1
  <2> HIDE DEF state
  <2> QED
    BY <1>6, <2>2, <2>3, <2>4, BeginEffect DEF StartDispatch
<1> QED
  BY <1>2, <1>3, <1>4, <1>5, <1>6 DEF Start

\* The call is over.
LEMMA ReturnEffect ==
  ASSUME TypeOK, NEW p \in Processes, Return(p)
  PROVE  Others(p) /\ proc'[p].at = "idle" /\ proc'[p].kind = "none"
BY IdleTypes, GoEffect DEF Return, Idle

\* A process is somewhere else, with the call, the event and the tool it had.
Moved(p, place) ==
  /\ proc'[p].at = place /\ proc'[p].kind = proc[p].kind /\ proc'[p].id = proc[p].id
  /\ proc'[p].tool = proc[p].tool

LEMMA ProcFacts ==
  ASSUME TypeOK, NEW p \in Processes
  PROVE  proc[p] \in Procs /\ proc[p].id \in Nat /\ proc[p].held \in SUBSET Nat
BY DEF TypeOK, Procs

LEMMA LoadEffect ==
  ASSUME TypeOK, NEW p \in Processes, Load(p)
  PROVE  /\ proc[p].at = "load" /\ Others(p)
         /\ UNCHANGED <<ledger, snapshot, effects, overlapped, cut, budget>>
         /\ \/ /\ Moved(p, "decide") /\ proc'[p].held = snapshot
               /\ proc[p].kind \in {"task", "turn"}
            \/ /\ Moved(p, "save") /\ proc'[p].held = snapshot \cup {proc[p].id}
               /\ proc[p].kind = "outcome"
            \/ Moved(p, "affect") /\ proc'[p].held = snapshot /\ proc[p].kind = "affect"
            \/ Moved(p, "save") /\ proc'[p].held = snapshot /\ proc[p].kind = "interests"
            \/ /\ proc'[p].at = "idle" /\ proc'[p].kind = "none"
               /\ proc[p].kind \in {"affect", "interests"}
<1>1. proc[p] \in Procs /\ proc[p].id \in Nat /\ snapshot \in SUBSET Nat
  BY ProcFacts, LedgerFacts DEF TypeOK
<1>2. "decide" \in Places /\ "save" \in Places /\ "affect" \in Places
  BY DEF Places
<1>3. ASSUME NEW place \in Places, NEW ids \in SUBSET Nat,
             Go(p, [proc[p] EXCEPT !.at = place, !.held = ids])
      PROVE  Others(p) /\ Moved(p, place) /\ proc'[p].held = ids
  <2>1. [proc[p] EXCEPT !.at = place, !.held = ids] \in Procs
    BY <1>1, ProcTypes
  <2>2. Others(p) /\ proc'[p] = [proc[p] EXCEPT !.at = place, !.held = ids]
    BY <1>3, <2>1, GoEffect
  <2> QED
    BY <1>1, <2>2 DEF Moved, Procs
<1>4. Shaped(snapshot, proc[p].id) = snapshot \cup {proc[p].id}
      /\ Shaped(snapshot, proc[p].id) \in SUBSET Nat
  BY <1>1 DEF Shaped
<1>5. CASE proc[p].kind \in {"task", "turn"} /\ Go(p, [proc[p] EXCEPT !.at = "decide", !.held = snapshot])
  BY <1>1, <1>2, <1>3, <1>5 DEF Load
<1>6. CASE /\ proc[p].kind = "outcome"
           /\ Go(p, [proc[p] EXCEPT !.at = "save", !.held = Shaped(snapshot, proc[p].id)])
  <2>1. Others(p) /\ Moved(p, "save") /\ proc'[p].held = snapshot \cup {proc[p].id}
    BY <1>1, <1>2, <1>3, <1>4, <1>6
  <2> QED
    BY <1>6, <2>1 DEF Load
<1>7. CASE proc[p].kind = "affect" /\ Go(p, [proc[p] EXCEPT !.at = "affect", !.held = snapshot])
  <2>1. Others(p) /\ Moved(p, "affect") /\ proc'[p].held = snapshot
    BY <1>1, <1>2, <1>3, <1>7
  <2> QED
    BY <1>7, <2>1 DEF Load
<1>8. CASE proc[p].kind = "interests" /\ Go(p, [proc[p] EXCEPT !.at = "save", !.held = snapshot])
  BY <1>1, <1>2, <1>3, <1>8 DEF Load
<1>9. CASE proc[p].kind \in {"affect", "interests"} /\ Return(p)
  BY <1>9, ReturnEffect DEF Load
<1> QED
  BY <1>5, <1>6, <1>7, <1>8, <1>9 DEF Load

LEMMA AffectEffect ==
  ASSUME TypeOK, NEW p \in Processes, RecordAffect(p)
  PROVE  /\ proc[p].at = "affect" /\ Others(p)
         /\ UNCHANGED <<snapshot, effects, overlapped, cut, budget>>
         /\ Record([kind |-> "affect"])
         /\ proc'[p].at = "save" /\ proc'[p].kind = proc[p].kind
         /\ proc'[p].id = NextId /\ proc'[p].held = proc[p].held \cup {NextId}
<1> DEFINE state == [proc[p] EXCEPT !.at = "save", !.id = NextId, !.held = Shaped(@, NextId)]
<1>1. proc[p] \in Procs /\ NextId \in Nat /\ proc[p].held \cup {NextId} \in SUBSET Nat
  BY ProcFacts, LedgerFacts
<1>2. state = [proc[p] EXCEPT !.at = "save", !.id = NextId, !.held = proc[p].held \cup {NextId}]
  BY DEF Shaped
<1>3. state \in Procs
  BY <1>1, <1>2, ProcTypes DEF Places
<1>4. /\ state.at = "save" /\ state.kind = proc[p].kind /\ state.id = NextId
      /\ state.held = proc[p].held \cup {NextId}
  BY <1>1, <1>2 DEF Procs
<1>5. Go(p, state)
  BY DEF RecordAffect
<1> HIDE DEF state
<1>6. Others(p) /\ proc'[p] = state
  BY <1>3, <1>5, GoEffect
<1> QED
  BY <1>4, <1>6 DEF RecordAffect

\* A turn that comes to a decision.
DecideFor(p, action) ==
  /\ Record([kind |-> "decision", tool |-> action.tool, verdict |-> action.verdict])
  /\ Go(p, [proc[p] EXCEPT !.at = "goals", !.id = NextId, !.held = Shaped(@, NextId),
                           !.tool = action.tool, !.verdict = action.verdict])

LEMMA AskedTypes == \A action \in Asked : action.tool \in ToolNames /\ action.verdict \in Verdicts
<1> SUFFICES ASSUME NEW action \in Asked PROVE action.tool \in ToolNames /\ action.verdict \in Verdicts
  OBVIOUS
<1>1. CASE action = [tool |-> NoTool, verdict |-> "none"]
  BY <1>1 DEF ToolNames, Verdicts
<1>2. ASSUME NEW request \in Requests, NEW approved \in BOOLEAN,
             action = [tool |-> request.tool, verdict |-> Verdict(request, approved)]
      PROVE  action.tool \in ToolNames /\ action.verdict \in Verdicts
  <2>1. action.tool \in ToolNames
    BY <1>2 DEF ToolNames
  <2>2. Verdict(request, approved) \in Verdicts
    BY DEF Verdict, Verdicts
  <2> QED
    BY <1>2, <2>1, <2>2
<1> QED
  BY <1>1, <1>2 DEF Asked

LEMMA DecideForEffect ==
  ASSUME TypeOK, NEW p \in Processes, NEW action \in Asked, DecideFor(p, action)
  PROVE  /\ Others(p)
         /\ proc'[p].at = "goals" /\ proc'[p].kind = proc[p].kind
         /\ proc'[p].id = NextId /\ proc'[p].held = proc[p].held \cup {NextId}
         /\ \E e \in Decisions : /\ Record(e) /\ e.kind = "decision"
                                 /\ e.tool = proc'[p].tool /\ e.verdict = proc'[p].verdict
<1> DEFINE e == [kind |-> "decision", tool |-> action.tool, verdict |-> action.verdict]
           held == proc[p].held \cup {NextId}
           state == [proc[p] EXCEPT !.at = "goals", !.id = NextId, !.held = held,
                                    !.tool = action.tool, !.verdict = action.verdict]
<1>1. action.tool \in ToolNames /\ action.verdict \in Verdicts
  BY AskedTypes
<1>2. e \in Decisions /\ e.kind = "decision" /\ e.tool = action.tool /\ e.verdict = action.verdict
  BY <1>1 DEF Decisions
<1>3. proc[p] \in Procs /\ NextId \in Nat /\ held \in SUBSET Nat /\ "goals" \in Places
  BY ProcFacts, LedgerFacts DEF Places
<1>4. Shaped(proc[p].held, NextId) = held
  BY DEF Shaped
<1>5. Record(e) /\ Go(p, state)
  BY <1>4 DEF DecideFor
<1> HIDE DEF e, held
<1>6. state \in Procs
  BY <1>1, <1>3, ProcTypes
<1>7. DOMAIN proc[p] = {"at", "kind", "step", "held", "id", "goals", "tool", "verdict", "approved", "ok", "seen"}
  BY <1>3 DEF Procs
<1>8. /\ state.at = "goals" /\ state.kind = proc[p].kind /\ state.id = NextId
      /\ state.held = held
  BY <1>7
<1>9. state.tool = action.tool /\ state.verdict = action.verdict
  BY <1>7
<1> HIDE DEF state
<1>10. Others(p) /\ proc'[p] = state
  BY <1>5, <1>6, GoEffect
<1> QED
  BY <1>2, <1>5, <1>8, <1>9, <1>10 DEF held

LEMMA DecideEffect ==
  ASSUME TypeOK, NEW p \in Processes, Decide(p)
  PROVE  /\ proc[p].at = "decide" /\ Others(p)
         /\ UNCHANGED <<snapshot, effects, overlapped, cut>>
         /\ budget' \in Budgets /\ budget'.calls = budget.calls
         /\ \/ proc'[p].at = "idle" /\ proc'[p].kind = "none" /\ UNCHANGED ledger
            \/ /\ proc'[p].at = "goals" /\ proc'[p].kind = proc[p].kind
               /\ proc'[p].id = NextId /\ proc'[p].held = proc[p].held \cup {NextId}
               /\ \E e \in Decisions : /\ Record(e) /\ e.kind = "decision"
                                       /\ e.tool = proc'[p].tool /\ e.verdict = proc'[p].verdict
<1>1. budget \in Budgets
  BY DEF TypeOK, Budgets
<1>2. /\ proc[p].at = "decide" /\ UNCHANGED <<snapshot, effects, overlapped, cut>>
      /\ \/ TurnRaises(p) /\ UNCHANGED <<ledger, budget>>
         \/ /\ budget.turns > 0 /\ budget' = [budget EXCEPT !.turns = @ - 1]
            /\ \E action \in Asked : DecideFor(p, action)
  <2>1. proc[p].at = "decide" /\ UNCHANGED <<snapshot, effects, overlapped, cut>>
    BY DEF Decide
  <2>2. \/ TurnRaises(p) /\ UNCHANGED <<ledger, budget>>
        \/ /\ budget.turns > 0 /\ budget' = [budget EXCEPT !.turns = @ - 1]
           /\ \E action \in Asked : DecideFor(p, action)
    BY DEF Decide, DecideFor
  <2> QED
    BY <2>1, <2>2, Zenon
<1>3. CASE TurnRaises(p) /\ UNCHANGED <<ledger, budget>>
  BY <1>1, <1>2, <1>3, ReturnEffect DEF TurnRaises
<1>4. CASE /\ budget.turns > 0 /\ budget' = [budget EXCEPT !.turns = @ - 1]
           /\ \E action \in Asked : DecideFor(p, action)
  <2>1. budget' \in Budgets /\ budget'.calls = budget.calls
    BY <1>1, <1>4 DEF Budgets
  <2> QED
    BY <1>2, <1>4, <2>1, DecideForEffect
<1> QED
  BY <1>2, <1>3, <1>4

LEMMA GoalEffect ==
  ASSUME TypeOK, NEW p \in Processes, OpenGoal(p)
  PROVE  /\ proc[p].at = "goals" /\ Others(p)
         /\ UNCHANGED <<snapshot, effects, overlapped, budget>>
         /\ \/ /\ Moved(p, "goals") /\ proc'[p].held = proc[p].held
               /\ proc'[p].verdict = proc[p].verdict
               /\ Record([kind |-> "goal_opened"]) /\ UNCHANGED cut
            \/ /\ proc'[p].at = "idle" /\ proc'[p].kind = "none" /\ UNCHANGED ledger
               /\ cut' = cut \cup {<<"event", proc[p].id>>}
<1>1. CASE TurnRaises(p) /\ UNCHANGED ledger /\ cut' = cut \cup {<<"event", proc[p].id>>}
  BY <1>1, ReturnEffect DEF OpenGoal, TurnRaises
<1>2. CASE /\ Record([kind |-> "goal_opened"]) /\ UNCHANGED cut
           /\ Go(p, [proc[p] EXCEPT !.goals = @ + 1])
  <2>1. proc[p] \in Procs /\ [proc[p] EXCEPT !.goals = @ + 1] \in Procs
    BY ProcFacts, ProcTypes DEF Places
  <2>2. Others(p) /\ proc'[p] = [proc[p] EXCEPT !.goals = @ + 1]
    BY <1>2, <2>1, GoEffect
  <2>3. /\ proc'[p].at = proc[p].at /\ proc'[p].kind = proc[p].kind /\ proc'[p].id = proc[p].id
        /\ proc'[p].tool = proc[p].tool /\ proc'[p].held = proc[p].held
        /\ proc'[p].verdict = proc[p].verdict
    BY <2>1, <2>2 DEF Procs
  <2> QED
    BY <1>2, <2>2, <2>3 DEF OpenGoal, Moved
<1> QED
  BY <1>1, <1>2 DEF OpenGoal

LEMMA SaveEffect ==
  ASSUME TypeOK, Placed, NEW p \in Processes, Save(p)
  PROVE  /\ proc[p].at \in {"goals", "save"} /\ Others(p)
         /\ UNCHANGED <<ledger, effects, cut, budget>>
         /\ snapshot' = proc[p].held
         /\ overlapped' = IF \E q \in Processes \ {p} : proc[q].at \in Holders
                          THEN overlapped \cup ({proc[p].id} \ {0}) ELSE overlapped
         /\ \/ proc'[p].at = "idle" /\ proc'[p].kind = "none"
            \/ /\ proc[p].at = "goals" /\ Moved(p, "execute") /\ proc[p].kind = "task"
               /\ proc[p].verdict = "allow"
<1>1. CASE Return(p)
  BY <1>1, ReturnEffect DEF Save, Holders
<1>2. CASE /\ proc[p].kind = "task" /\ proc[p].verdict = "allow"
           /\ Go(p, [proc[p] EXCEPT !.at = "execute", !.approved = TRUE, !.verdict = "none"])
  <2>1. proc[p] \in Procs /\ [proc[p] EXCEPT !.at = "execute", !.approved = TRUE, !.verdict = "none"] \in Procs
    BY ProcFacts, ProcTypes DEF Places
  <2>2. Others(p) /\ proc'[p] = [proc[p] EXCEPT !.at = "execute", !.approved = TRUE, !.verdict = "none"]
    BY <1>2, <2>1, GoEffect
  <2>3. Moved(p, "execute")
    BY <2>1, <2>2 DEF Procs, Moved
  <2>4. proc[p].at = "goals"
    BY <1>2 DEF Save, Placed, KindOf
  <2> QED
    BY <1>2, <2>2, <2>3, <2>4 DEF Save, Holders
<1> QED
  BY <1>1, <1>2 DEF Save, AfterTurn

LEMMA CloseEffect ==
  ASSUME TypeOK, NEW p \in Processes, CloseGoal(p)
  PROVE  /\ proc[p].at = "close" /\ Others(p) /\ proc'[p].at = "idle" /\ proc'[p].kind = "none"
         /\ UNCHANGED <<snapshot, effects, overlapped, cut, budget>>
         /\ \E e \in PastEvents : /\ Record(e) /\ e.kind = "goal_closed"
                                  /\ e.goal = proc[p].id /\ e.seen = proc[p].seen
<1> DEFINE e == [kind |-> "goal_closed", goal |-> proc[p].id, seen |-> proc[p].seen]
<1>1. e \in PastEvents
  BY ProcFacts DEF PastEvents, Procs
<1>2. Record(e) /\ e.kind = "goal_closed" /\ e.goal = proc[p].id /\ e.seen = proc[p].seen
  BY DEF CloseGoal
<1> QED
  BY <1>1, <1>2, ReturnEffect DEF CloseGoal

\* A task goes on to its next step, or the call is over.
AfterToolEffect(p) ==
  \/ proc'[p].at = "idle" /\ proc'[p].kind = "none"
  \/ proc'[p].at = "load" /\ proc'[p].kind = "task" /\ proc'[p].id = 0

LEMMA AfterToolStep ==
  ASSUME TypeOK, NEW p \in Processes, NEW ok, AfterTool(p, ok)
  PROVE  Others(p) /\ AfterToolEffect(p)
<1>1. CASE Return(p)
  BY <1>1, ReturnEffect DEF AfterToolEffect
<1>2. CASE /\ proc[p].kind = "task"
           /\ Go(p, [proc[p] EXCEPT !.at = "load", !.step = @ + 1, !.id = 0, !.goals = 0])
  <2>1. /\ proc[p] \in Procs
        /\ [proc[p] EXCEPT !.at = "load", !.step = @ + 1, !.id = 0, !.goals = 0] \in Procs
    BY ProcFacts, ProcTypes DEF Places
  <2>2. /\ Others(p)
        /\ proc'[p] = [proc[p] EXCEPT !.at = "load", !.step = @ + 1, !.id = 0, !.goals = 0]
    BY <1>2, <2>1, GoEffect
  <2>3. proc'[p].at = "load" /\ proc'[p].kind = proc[p].kind /\ proc'[p].id = 0
    BY <2>1, <2>2 DEF Procs
  <2> QED
    BY <1>2, <2>2, <2>3 DEF AfterToolEffect
<1> QED
  BY <1>1, <1>2 DEF AfterTool

LEMMA ExecuteEffect ==
  ASSUME TypeOK, NEW p \in Processes, Execute(p)
  PROVE  /\ proc[p].at = "execute" /\ Others(p)
         /\ UNCHANGED <<ledger, snapshot, audits, delivered, overlapped, cut, budget>>
         /\ \/ AfterToolEffect(p) /\ UNCHANGED ran
            \/ Moved(p, "audit") /\ UNCHANGED ran
            \/ /\ Moved(p, "audit")
               /\ Risk[proc[p].tool] = "read_only" \/ proc[p].approved
               /\ ran' = ran \cup {[by |-> proc[p].kind, id |-> proc[p].id, tool |-> proc[p].tool,
                                    approved |-> proc[p].approved]}
<1>1. ASSUME NEW ok \in BOOLEAN, Go(p, [proc[p] EXCEPT !.at = "audit", !.ok = ok])
      PROVE  Others(p) /\ Moved(p, "audit")
  <2>1. proc[p] \in Procs /\ [proc[p] EXCEPT !.at = "audit", !.ok = ok] \in Procs
    BY ProcFacts, ProcTypes DEF Places
  <2>2. Others(p) /\ proc'[p] = [proc[p] EXCEPT !.at = "audit", !.ok = ok]
    BY <1>1, <2>1, GoEffect
  <2> QED
    BY <2>1, <2>2 DEF Procs, Moved
<1>2. CASE AfterTool(p, FALSE) /\ UNCHANGED ran
  BY <1>2, AfterToolStep DEF Execute
<1>3. CASE Go(p, [proc[p] EXCEPT !.at = "audit", !.ok = FALSE]) /\ UNCHANGED ran
  BY <1>1, <1>3 DEF Execute
<1>4. CASE /\ Risk[proc[p].tool] = "read_only" \/ proc[p].approved
           /\ \E ok \in BOOLEAN : Go(p, [proc[p] EXCEPT !.at = "audit", !.ok = ok])
           /\ ran' = ran \cup {[by |-> proc[p].kind, id |-> proc[p].id, tool |-> proc[p].tool,
                                approved |-> proc[p].approved]}
  <2>1. Others(p) /\ Moved(p, "audit")
    BY <1>1, <1>4
  <2> QED
    BY <1>4, <2>1 DEF Execute
<1> QED
  BY <1>2, <1>3, <1>4 DEF Execute

LEMMA AuditEffect ==
  ASSUME TypeOK, NEW p \in Processes, Audit(p)
  PROVE  /\ proc[p].at = "audit" /\ Others(p) /\ AfterToolEffect(p)
         /\ UNCHANGED <<ledger, snapshot, ran, delivered, overlapped, cut, budget>>
         /\ audits' = audits \cup {<<proc[p].kind, proc[p].id>>}
BY AfterToolStep DEF Audit

LEMMA SendEffect ==
  ASSUME TypeOK, NEW p \in Processes, Send(p)
  PROVE  /\ proc[p].at = "send" /\ Others(p)
         /\ UNCHANGED <<ledger, snapshot, ran, audits, overlapped, cut, budget>>
         /\ \/ proc'[p].at = "idle" /\ proc'[p].kind = "none" /\ UNCHANGED delivered
            \/ Moved(p, "note") /\ proc'[p].ok /\ delivered' = delivered \cup {proc[p].id}
<1>1. CASE Return(p) /\ UNCHANGED delivered
  BY <1>1, ReturnEffect DEF Send
<1>2. CASE Go(p, [proc[p] EXCEPT !.at = "note", !.ok = TRUE]) /\ delivered' = delivered \cup {proc[p].id}
  <2>1. proc[p] \in Procs /\ [proc[p] EXCEPT !.at = "note", !.ok = TRUE] \in Procs
    BY ProcFacts, ProcTypes DEF Places
  <2>2. Others(p) /\ proc'[p] = [proc[p] EXCEPT !.at = "note", !.ok = TRUE]
    BY <1>2, <2>1, GoEffect
  <2>3. Moved(p, "note") /\ proc'[p].ok
    BY <2>1, <2>2 DEF Procs, Moved
  <2> QED
    BY <1>2, <2>2, <2>3 DEF Send
<1> QED
  BY <1>1, <1>2 DEF Send

LEMMA NoteEffect ==
  ASSUME TypeOK, NEW p \in Processes, Note(p)
  PROVE  /\ proc[p].at = "note" /\ Others(p) /\ proc'[p].at = "idle" /\ proc'[p].kind = "none"
         /\ UNCHANGED <<snapshot, effects, overlapped, cut, budget>>
         /\ \E e \in Communications : /\ Record(e) /\ e.kind = "communication"
                                      /\ e.message = proc[p].id /\ e.sent = proc[p].ok
<1> DEFINE e == [kind |-> "communication", message |-> proc[p].id, sent |-> proc[p].ok]
<1>1. proc[p].id \in Nat /\ proc[p].ok \in BOOLEAN
  BY ProcFacts DEF Procs
<1>2. e \in Communications
  BY <1>1 DEF Communications
<1>3. Record(e) /\ e.kind = "communication" /\ e.message = proc[p].id /\ e.sent = proc[p].ok
  BY DEF Note
<1> QED
  BY <1>2, <1>3, ReturnEffect DEF Note

LEMMA CrashEffect ==
  ASSUME TypeOK, NEW p \in Processes, Crash(p)
  PROVE  /\ proc[p].at # "idle" /\ Others(p) /\ proc'[p].at = "idle" /\ proc'[p].kind = "none"
         /\ UNCHANGED <<ledger, snapshot, effects, overlapped>>
         /\ budget' \in Budgets /\ budget'.calls = budget.calls
         /\ cut \subseteq cut'
         /\ proc[p].at \in {"audit", "note"} => <<proc[p].kind, proc[p].id>> \in cut'
         /\ proc[p].at \in {"load", "goals", "save"} => <<"event", proc[p].id>> \in cut'
<1>1. budget' \in Budgets /\ budget'.calls = budget.calls
  BY DEF TypeOK, Crash, Budgets
<1>2. /\ cut \subseteq cut'
      /\ proc[p].at \in {"audit", "note"} => <<proc[p].kind, proc[p].id>> \in cut'
      /\ proc[p].at \in {"load", "goals", "save"} => <<"event", proc[p].id>> \in cut'
  BY DEF Crash
<1> QED
  BY <1>1, <1>2, ReturnEffect DEF Crash

-----------------------------------------------------------------------------
(* What every step keeps. *)

Step(p) == Start(p) \/ Work(p) \/ Crash(p)

\* The ledger grows by one event at most.
LEMMA LedgerStep ==
  ASSUME TypeOK, Placed, NEW p \in Processes, Step(p)
  PROVE  /\ Kept /\ Others(p)
         /\ \/ UNCHANGED ledger
            \/ \E e \in Events : Record(e) /\ ledger'[NextId] = e /\ DOMAIN ledger' = DOMAIN ledger \cup {NextId}
<1>1. ASSUME UNCHANGED ledger PROVE Kept
  BY <1>1 DEF Kept, TypeOK
<1>2. [kind |-> "outcome"] \in Events /\ [kind |-> "affect"] \in Events
  BY DEF Events
<1>3. [kind |-> "goal_opened"] \in Events
  BY DEF Events, PastEvents
<1>4. PastEvents \subseteq Events /\ Decisions \subseteq Events /\ Communications \subseteq Events
  BY DEF Events
<1>5. Others(p) /\ (UNCHANGED ledger \/ \E e \in Events : Record(e))
  <2>1. CASE Start(p)
    BY <1>2, <2>1, StartEffect
  <2>2. CASE Load(p)
    BY <2>2, LoadEffect
  <2>3. CASE RecordAffect(p)
    BY <1>2, <2>3, AffectEffect
  <2>4. CASE Decide(p)
    BY <1>4, <2>4, DecideEffect
  <2>5. CASE OpenGoal(p)
    BY <1>3, <2>5, GoalEffect
  <2>6. CASE Save(p)
    BY <2>6, SaveEffect
  <2>7. CASE CloseGoal(p)
    BY <1>4, <2>7, CloseEffect
  <2>8. CASE Execute(p)
    BY <2>8, ExecuteEffect
  <2>9. CASE Audit(p)
    BY <2>9, AuditEffect
  <2>10. CASE Send(p)
    BY <2>10, SendEffect
  <2>11. CASE Note(p)
    BY <1>4, <2>11, NoteEffect
  <2>12. CASE Crash(p)
    BY <2>12, CrashEffect
  <2> QED
    BY <2>1, <2>2, <2>3, <2>4, <2>5, <2>6, <2>7, <2>8, <2>9, <2>10, <2>11, <2>12 DEF Step, Work
<1> QED
  BY <1>1, <1>5, RecordEffect

\* The state and the tally of overlapped events change only when a state is saved.
LEMMA SnapshotStep ==
  ASSUME TypeOK, Placed, NEW p \in Processes, Step(p), ~Save(p)
  PROVE  UNCHANGED <<snapshot, overlapped>>
<1>1. CASE Start(p)
  BY <1>1, StartEffect
<1>2. CASE Crash(p)
  BY <1>2, CrashEffect
<1>3. CASE Work(p)
  BY <1>3, LoadEffect, AffectEffect, DecideEffect, GoalEffect, CloseEffect, ExecuteEffect,
     AuditEffect, SendEffect, NoteEffect DEF Work
<1> QED
  BY <1>1, <1>2, <1>3 DEF Step

\* The budget of calls shrinks when a call begins.
LEMMA BudgetStep ==
  ASSUME TypeOK, Placed, NEW p \in Processes, Step(p)
  PROVE  /\ budget \in Budgets /\ budget' \in Budgets
         /\ IF Start(p) THEN budget'.calls = budget.calls - 1 ELSE budget'.calls = budget.calls
<1>1. budget \in Budgets
  BY DEF TypeOK, Budgets
<1>2. CASE Start(p)
  BY <1>1, <1>2, StartEffect
<1>3. ASSUME Crash(p), ~Start(p)
      PROVE  budget' \in Budgets /\ budget'.calls = budget.calls
  BY <1>3, CrashEffect
<1>4. ASSUME Work(p), ~Start(p)
      PROVE  budget' \in Budgets /\ budget'.calls = budget.calls
  BY <1>1, <1>4, LoadEffect, AffectEffect, DecideEffect, GoalEffect, SaveEffect, CloseEffect,
     ExecuteEffect, AuditEffect, SendEffect, NoteEffect DEF Work
<1> QED
  BY <1>1, <1>2, <1>3, <1>4 DEF Step

LEMMA TypeInit == Init => TypeOK
<1> SUFFICES ASSUME Init PROVE TypeOK
  OBVIOUS
<1>1. ledger \in Seq(Events)
  BY PastsAreLedgers DEF Init, Events
<1>2. proc \in [Processes -> Procs]
  BY IdleTypes DEF Init
<1>3. snapshot \subseteq DOMAIN ledger
  BY DEF Init
<1>4. budget \in [calls : Nat, turns : Nat, crashes : Nat]
  BY AgencyAssumption DEF Init
<1> QED
  BY <1>1, <1>2, <1>3, <1>4 DEF TypeOK

LEMMA TypeStep ==
  ASSUME TypeOK, Placed, Holding, NEW p \in Processes, Step(p)
  PROVE  TypeOK'
<1>1. Kept /\ proc' \in [Processes -> Procs]
  BY LedgerStep DEF Others
<1>2. snapshot' \subseteq DOMAIN ledger'
  <2>1. CASE Save(p)
    BY <2>1, SaveEffect DEF Holding, Holders, TypeOK
  <2>2. CASE ~Save(p)
    BY <1>1, <2>2, SnapshotStep DEF TypeOK, Kept
  <2> QED
    BY <2>1, <2>2
<1>3. budget' \in [calls : Nat, turns : Nat, crashes : Nat]
  BY BudgetStep DEF Budgets
<1> QED
  BY <1>1, <1>2, <1>3 DEF TypeOK, Kept

\* Where a process may be, given its call and its event.
PlacedAt(r, log) ==
  /\ r.kind \in KindOf[r.at]
  /\ r.at = "load" /\ r.kind # "outcome" => r.id = 0
  /\ r.at = "load" /\ r.kind = "outcome" => r.id \in DOMAIN log
  /\ r.at \in {"decide", "affect"} => r.id = 0

LEMMA PlacedInit == Init => Placed
BY DEF Init, Placed, Idle, KindOf

LEMMA PlacedStep ==
  ASSUME TypeOK, Placed, NEW p \in Processes, Step(p)
  PROVE  Placed'
<1>1. Kept /\ Others(p)
  BY LedgerStep
<1>2. PlacedAt(proc[p], ledger)
  BY DEF Placed, PlacedAt
<1>3. PlacedAt(proc'[p], ledger')
  <2>1. CASE Start(p)
    <3>1. CASE proc'[p].id = NextId /\ proc'[p].kind = "outcome" /\ Record([kind |-> "outcome"])
               /\ proc'[p].at = "load"
      <4>1. [kind |-> "outcome"] \in Events
        BY DEF Events
      <4> QED
        BY <3>1, <4>1, RecordEffect DEF PlacedAt, KindOf
    <3> QED
      BY <2>1, <3>1, StartEffect DEF PlacedAt, KindOf, Sending
  <2>2. CASE Load(p)
    BY <1>2, <2>2, LoadEffect DEF PlacedAt, KindOf, Moved
  <2>3. CASE RecordAffect(p)
    BY <1>2, <2>3, AffectEffect DEF PlacedAt, KindOf
  <2>4. CASE Decide(p)
    BY <1>2, <2>4, DecideEffect DEF PlacedAt, KindOf
  <2>5. CASE OpenGoal(p)
    BY <1>2, <2>5, GoalEffect DEF PlacedAt, KindOf, Moved
  <2>6. CASE Save(p)
    BY <1>2, <2>6, SaveEffect DEF PlacedAt, KindOf, Moved
  <2>7. CASE CloseGoal(p)
    BY <2>7, CloseEffect DEF PlacedAt, KindOf
  <2>8. CASE Execute(p)
    BY <1>2, <2>8, ExecuteEffect DEF PlacedAt, KindOf, Moved, AfterToolEffect
  <2>9. CASE Audit(p)
    BY <1>2, <2>9, AuditEffect DEF PlacedAt, KindOf, AfterToolEffect
  <2>10. CASE Send(p)
    BY <1>2, <2>10, SendEffect DEF PlacedAt, KindOf, Moved
  <2>11. CASE Note(p)
    BY <2>11, NoteEffect DEF PlacedAt, KindOf
  <2>12. CASE Crash(p)
    <3>1. proc'[p].at = "idle" /\ proc'[p].kind = "none"
      BY <2>12, CrashEffect
    <3> QED
      BY <3>1 DEF PlacedAt, KindOf
  <2> QED
    BY <2>1, <2>2, <2>3, <2>4, <2>5, <2>6, <2>7, <2>8, <2>9, <2>10, <2>11, <2>12 DEF Step, Work
<1>4. ASSUME NEW q \in Processes PROVE PlacedAt(proc'[q], ledger')
  <2>1. CASE q = p
    BY <1>3, <2>1
  <2>2. CASE q # p
    BY <1>1, <2>2 DEF Others, Kept, Placed, PlacedAt
  <2> QED
    BY <2>1, <2>2
<1> QED
  BY <1>4 DEF Placed, PlacedAt

\* What a holder holds.
HeldAt(r, log, saved, known) == r.at \in Holders =>
  /\ r.held \subseteq DOMAIN log
  /\ r.held \ {r.id} \subseteq saved \cup known
  /\ saved \ known \subseteq r.held
  /\ r.at = "save" => r.id \in r.held \cup {0}
  /\ r.at = "goals" =>
       /\ r.id \in r.held /\ r.id \in DOMAIN log
       /\ log[r.id].kind = "decision" /\ log[r.id].tool = r.tool /\ log[r.id].verdict = r.verdict

LEMMA HoldingInit == Init => Holding
BY DEF Init, Holding, Idle, Holders

LEMMA HoldingStep ==
  ASSUME TypeOK, Placed, Holding, NEW p \in Processes, Step(p)
  PROVE  Holding'
<1>1. Kept /\ Others(p)
  BY LedgerStep
<1>2. \A q \in Processes : HeldAt(proc[q], ledger, snapshot, overlapped)
  BY DEF Holding, HeldAt, IsDecision
<1>3. 0 \notin DOMAIN ledger /\ NextId \notin DOMAIN ledger /\ snapshot \subseteq DOMAIN ledger
  BY LedgerFacts DEF TypeOK
<1>4. CASE Save(p)
  <2>1. proc'[p].at \notin Holders
    BY <1>4, SaveEffect DEF Holders, Moved
  <2>2. HeldAt(proc[p], ledger, snapshot, overlapped) /\ proc[p].at \in Holders
    BY <1>2, <1>4, SaveEffect DEF Holders
  <2>3. snapshot' = proc[p].held /\ overlapped \subseteq overlapped' /\ ledger' = ledger
    BY <1>4, SaveEffect
  <2>4. proc[p].id \in proc[p].held \cup {0}
    BY <1>4, <2>2, SaveEffect DEF HeldAt
  <2>5. ASSUME NEW q \in Processes, q # p, proc[q].at \in Holders
        PROVE  HeldAt(proc'[q], ledger', snapshot', overlapped')
    <3>1. overlapped' = overlapped \cup ({proc[p].id} \ {0})
      BY <1>4, <2>5, SaveEffect
    <3>2. proc'[q] = proc[q] /\ HeldAt(proc[q], ledger, snapshot, overlapped)
      BY <1>1, <1>2, <2>5 DEF Others
    <3>3. proc[p].held \ {proc[p].id} \subseteq snapshot \cup overlapped
      BY <2>2 DEF HeldAt
    <3>4. snapshot \ overlapped \subseteq proc[p].held
      BY <2>2 DEF HeldAt
    <3>5. proc[p].held \subseteq DOMAIN ledger
      BY <2>2 DEF HeldAt
    <3>6. snapshot' \ overlapped' \subseteq proc[q].held
      <4>1. snapshot' \ overlapped' \subseteq snapshot \ overlapped
        BY <1>3, <2>3, <3>1, <3>3, <3>5
      <4> QED
        BY <2>5, <3>2, <4>1 DEF HeldAt
    <3>7. proc[q].held \ {proc[q].id} \subseteq snapshot' \cup overlapped'
      <4>1. proc[q].held \ {proc[q].id} \subseteq snapshot \cup overlapped
        BY <2>5, <3>2 DEF HeldAt
      <4> QED
        BY <2>3, <3>4, <4>1
    <3> QED
      BY <2>3, <3>2, <3>6, <3>7 DEF HeldAt
  <2>6. ASSUME NEW q \in Processes PROVE HeldAt(proc'[q], ledger', snapshot', overlapped')
    BY <1>1, <2>1, <2>5 DEF HeldAt, Others
  <2> QED
    BY <2>6 DEF Holding, HeldAt, IsDecision
<1>5. CASE ~Save(p)
  <2>1. snapshot' = snapshot /\ overlapped' = overlapped
    BY <1>5, SnapshotStep
  <2>2. ASSUME NEW q \in Processes, q # p PROVE HeldAt(proc'[q], ledger', snapshot', overlapped')
    BY <1>1, <1>2, <2>1, <2>2 DEF Others, Kept, HeldAt
  <2>3. HeldAt(proc'[p], ledger', snapshot', overlapped')
    <3> USE <2>1 DEF Holders
    <3>1. CASE Start(p)
      BY <3>1, StartEffect DEF HeldAt, Sending
    <3>2. CASE Load(p)
      BY <1>3, <3>2, LoadEffect DEF HeldAt, Moved, Placed
    <3>3. CASE RecordAffect(p)
      <4>1. [kind |-> "affect"] \in Events
        BY DEF Events
      <4>2. proc[p].id = 0
        BY <3>3, AffectEffect DEF Placed
      <4>3. proc[p].held \ {0} \subseteq snapshot \cup overlapped /\ proc[p].held \subseteq DOMAIN ledger
            /\ snapshot \ overlapped \subseteq proc[p].held
        BY <1>2, <3>3, <4>2, AffectEffect DEF HeldAt
      <4> QED
        BY <1>1, <1>3, <3>3, <4>1, <4>3, AffectEffect, RecordEffect DEF HeldAt, Kept
    <3>4. CASE Decide(p)
      <4>1. CASE proc'[p].at = "idle"
        BY <4>1 DEF HeldAt
      <4>2. CASE proc'[p].at # "idle"
        <5>1. proc[p].at = "decide" /\ proc[p].id = 0
          BY <3>4, DecideEffect DEF Placed
        <5>2. proc[p].held \ {0} \subseteq snapshot \cup overlapped /\ proc[p].held \subseteq DOMAIN ledger
              /\ snapshot \ overlapped \subseteq proc[p].held
          BY <1>2, <5>1 DEF HeldAt
        <5>3. PICK e \in Decisions : /\ Record(e) /\ e.kind = "decision"
                                     /\ e.tool = proc'[p].tool /\ e.verdict = proc'[p].verdict
          BY <3>4, <4>2, DecideEffect
        <5>4. ledger'[NextId] = e /\ DOMAIN ledger' = DOMAIN ledger \cup {NextId}
          BY <5>3, RecordEffect DEF Events
        <5> QED
          BY <1>1, <1>3, <3>4, <4>2, <5>2, <5>3, <5>4, DecideEffect DEF HeldAt, Kept
      <4> QED
        BY <4>1, <4>2
    <3>5. CASE OpenGoal(p)
      BY <1>1, <1>2, <3>5, GoalEffect DEF HeldAt, Kept, Moved
    <3>6. CASE CloseGoal(p) \/ Execute(p) \/ Audit(p) \/ Send(p) \/ Note(p) \/ Crash(p)
      <4>1. CASE CloseGoal(p) \/ Note(p) \/ Crash(p)
        BY <4>1, CloseEffect, NoteEffect, CrashEffect DEF HeldAt
      <4>2. CASE Execute(p) \/ Audit(p) \/ Send(p)
        <5>1. proc'[p].at \notin Holders
          BY <4>2, ExecuteEffect, AuditEffect, SendEffect DEF Moved, AfterToolEffect
        <5> QED
          BY <5>1 DEF HeldAt
      <4> QED
        BY <3>6, <4>1, <4>2
    <3> QED
      BY <1>5, <3>1, <3>2, <3>3, <3>4, <3>5, <3>6 DEF Step, Work
  <2> QED
    BY <2>2, <2>3 DEF Holding, HeldAt, IsDecision
<1> QED
  BY <1>4, <1>5

-----------------------------------------------------------------------------
(* The state and the decisions. *)

\* What was part of the state stays so, or is known to have been overlapped.
LEMMA KnownStep ==
  ASSUME TypeOK, Placed, Holding, NEW p \in Processes, Step(p)
  PROVE  snapshot \cup overlapped \subseteq snapshot' \cup overlapped'
<1>1. CASE Save(p)
  <2>1. proc[p].at \in Holders /\ snapshot' = proc[p].held /\ overlapped \subseteq overlapped'
    BY <1>1, SaveEffect DEF Holders
  <2>2. snapshot \ overlapped \subseteq proc[p].held
    BY <2>1 DEF Holding
  <2> QED
    BY <2>1, <2>2
<1>2. CASE ~Save(p)
  BY <1>2, SnapshotStep
<1> QED
  BY <1>1, <1>2

\* It is still so after the step.
CarriedOn(id, tool) ==
  /\ id \in snapshot' \cup overlapped' /\ id \in DOMAIN ledger'
  /\ ledger'[id].kind = "decision" /\ ledger'[id].tool = tool /\ ledger'[id].verdict = "allow"

LEMMA CarriedKept ==
  ASSUME TypeOK, Placed, Holding, NEW p \in Processes, Step(p), NEW id, NEW tool, Carried(id, tool)
  PROVE  CarriedOn(id, tool)
BY KnownStep, LedgerStep DEF Carried, CarriedOn, IsDecision, Kept

LEMMA DecidedInit == Init => Decided
BY DEF Init, Decided, Idle

LEMMA DecidedStep ==
  ASSUME TypeOK, Placed, Holding, Decided, NEW p \in Processes, Step(p)
  PROVE  Decided'
<1>1. Kept /\ Others(p)
  BY LedgerStep
<1>2. ASSUME NEW q \in Processes, q # p, proc'[q].at \in {"execute", "audit"}, proc'[q].kind = "task"
      PROVE  CarriedOn(proc[q].id, proc[q].tool) /\ proc'[q] = proc[q]
  BY <1>1, <1>2, CarriedKept DEF Others, Decided
<1>3. ASSUME Moved(p, "audit"), Execute(p), proc[p].kind = "task"
      PROVE  Carried(proc[p].id, proc[p].tool) /\ CarriedOn(proc'[p].id, proc'[p].tool)
  <2>1. Carried(proc[p].id, proc[p].tool)
    BY <1>3, ExecuteEffect DEF Decided
  <2> QED
    BY <1>3, <2>1, CarriedKept DEF Moved
<1>4. ASSUME proc'[p].at \in {"execute", "audit"}, proc'[p].kind = "task"
      PROVE  CarriedOn(proc'[p].id, proc'[p].tool)
  <2>1. CASE Save(p)
    <3>1. /\ proc[p].at = "goals" /\ Moved(p, "execute") /\ proc[p].verdict = "allow"
          /\ snapshot' = proc[p].held /\ ledger' = ledger
      BY <1>4, <2>1, SaveEffect
    <3>2. proc[p].id \in proc[p].held /\ IsDecision(proc[p].id, proc[p].tool, "allow")
      BY <3>1 DEF Holding, Holders
    <3> QED
      BY <3>1, <3>2 DEF CarriedOn, IsDecision, Moved
  <2>2. CASE Execute(p)
    BY <1>3, <1>4, <2>2, ExecuteEffect DEF AfterToolEffect, Moved
  <2>3. CASE Start(p)
    BY <1>4, <2>3, StartEffect DEF Sending
  <2>4. CASE Load(p) \/ RecordAffect(p) \/ Decide(p) \/ OpenGoal(p) \/ CloseGoal(p)
    BY <1>4, <2>4, LoadEffect, AffectEffect, DecideEffect, GoalEffect, CloseEffect DEF Moved
  <2>5. CASE Audit(p) \/ Send(p) \/ Note(p) \/ Crash(p)
    BY <1>4, <2>5, AuditEffect, SendEffect, NoteEffect, CrashEffect DEF Moved, AfterToolEffect
  <2> QED
    BY <2>1, <2>2, <2>3, <2>4, <2>5 DEF Step, Work
<1>5. ASSUME NEW run \in ran'
      PROVE  \/ run.by = "task" /\ CarriedOn(run.id, run.tool)
             \/ run.by = "tool" /\ (Risk[run.tool] = "read_only" \/ run.approved)
  <2>1. CASE run \in ran
    BY <2>1, CarriedKept DEF Decided
  <2>2. CASE run \notin ran
    <3>1. Execute(p)
      <4>1. CASE Start(p) \/ Crash(p)
        BY <2>2, <4>1, StartEffect, CrashEffect DEF effects
      <4>2. CASE Load(p) \/ RecordAffect(p) \/ Decide(p) \/ OpenGoal(p) \/ Save(p) \/ CloseGoal(p)
        BY <2>2, <4>2, LoadEffect, AffectEffect, DecideEffect, GoalEffect, SaveEffect, CloseEffect
           DEF effects
      <4>3. CASE Audit(p) \/ Send(p) \/ Note(p)
        BY <2>2, <4>3, AuditEffect, SendEffect, NoteEffect DEF effects
      <4> QED
        BY <4>1, <4>2, <4>3 DEF Step, Work
    <3>2. /\ proc[p].at = "execute" /\ Moved(p, "audit")
          /\ Risk[proc[p].tool] = "read_only" \/ proc[p].approved
          /\ run = [by |-> proc[p].kind, id |-> proc[p].id, tool |-> proc[p].tool,
                    approved |-> proc[p].approved]
      BY <2>2, <3>1, ExecuteEffect
    <3>3. proc[p].kind \in {"task", "tool"}
      BY <3>2 DEF Placed, KindOf
    <3>4. run.by = proc[p].kind /\ run.id = proc[p].id /\ run.tool = proc[p].tool
      BY <3>2
    <3>5. run.approved = proc[p].approved
      BY <3>2
    <3>6. CASE proc[p].kind = "task"
      BY <1>3, <3>1, <3>2, <3>4, <3>6, CarriedKept
    <3>7. CASE proc[p].kind = "tool"
      BY <3>2, <3>4, <3>5, <3>7
    <3> QED
      BY <3>3, <3>6, <3>7
  <2> QED
    BY <2>1, <2>2
<1>6. ASSUME NEW q \in Processes, proc'[q].at \in {"execute", "audit"}, proc'[q].kind = "task"
      PROVE  CarriedOn(proc'[q].id, proc'[q].tool)
  <2>1. CASE q = p
    BY <1>4, <1>6, <2>1
  <2>2. CASE q # p
    <3>1. CarriedOn(proc[q].id, proc[q].tool) /\ proc'[q] = proc[q]
      BY <1>2, <1>6, <2>2
    <3> QED
      BY <3>1
  <2> QED
    BY <2>1, <2>2
<1> QED
  BY <1>5, <1>6 DEF Decided, Carried, CarriedOn, IsDecision

LEMMA DecidedGivesApproval == ASSUME Decided PROVE RunsOnApproval
BY DEF Decided, Carried, IsDecision, RunsOnApproval

LEMMA KeepsUpInit == Init => StateKeepsUp
BY DEF Init, StateKeepsUp

LEMMA KeepsUpStep ==
  ASSUME TypeOK, Placed, Holding, StateKeepsUp, NEW p \in Processes, Step(p)
  PROVE  StateKeepsUp'
<1> DEFINE At == {"load", "goals", "save"}
           Shaping == {"decision", "outcome", "affect"}
<1>1. Kept /\ Others(p)
  BY LedgerStep
<1>2. cut \subseteq cut'
  <2>1. CASE Start(p)
    BY <2>1, StartEffect
  <2>2. CASE Crash(p)
    BY <2>2, CrashEffect
  <2>3. CASE Work(p)
    BY <2>3, LoadEffect, AffectEffect, DecideEffect, GoalEffect, SaveEffect, CloseEffect,
       ExecuteEffect, AuditEffect, SendEffect, NoteEffect DEF Work
  <2> QED
    BY <2>1, <2>2, <2>3 DEF Step
<1>3. ASSUME NEW i \in DOMAIN ledger, proc[p].id = i, proc[p].at \in At
      PROVE  \/ i \in snapshot' \cup overlapped' \/ <<"event", i>> \in cut'
             \/ proc'[p].id = i /\ proc'[p].at \in At
  <2>1. i # 0 /\ i \in Nat
    BY LedgerFacts
  <2>2. CASE Load(p)
    BY <1>3, <2>1, <2>2, LoadEffect DEF Placed, Moved
  <2>3. CASE OpenGoal(p)
    BY <1>3, <2>3, GoalEffect DEF Moved
  <2>4. CASE Save(p)
    <3>1. proc[p].id \in proc[p].held
      BY <1>3, <2>1, <2>4, SaveEffect DEF Holding, Holders
    <3> QED
      BY <1>3, <2>4, <3>1, SaveEffect
  <2>5. CASE Crash(p)
    BY <1>3, <2>5, CrashEffect
  <2>6. ~(Start(p) \/ RecordAffect(p) \/ Decide(p) \/ CloseGoal(p) \/ Execute(p) \/ Audit(p)
          \/ Send(p) \/ Note(p))
    <3>1. ~Start(p)
      BY <1>3, StartEffect
    <3>2. ~RecordAffect(p) /\ ~Decide(p) /\ ~CloseGoal(p)
      BY <1>3, AffectEffect, DecideEffect, CloseEffect
    <3>3. ~Execute(p) /\ ~Audit(p) /\ ~Send(p) /\ ~Note(p)
      BY <1>3, ExecuteEffect, AuditEffect, SendEffect, NoteEffect
    <3> QED
      BY <3>1, <3>2, <3>3
  <2> QED
    BY <2>2, <2>3, <2>4, <2>5, <2>6 DEF Step, Work
<1>4. ASSUME NEW i \in DOMAIN ledger, ledger[i].kind \in Shaping
      PROVE  \/ i \in snapshot' \cup overlapped' \/ <<"event", i>> \in cut'
             \/ \E q \in Processes : proc'[q].id = i /\ proc'[q].at \in At
  <2>1. CASE i \in snapshot \cup overlapped
    BY <2>1, KnownStep
  <2>2. CASE <<"event", i>> \in cut
    BY <1>2, <2>2
  <2>3. CASE \E q \in Processes : proc[q].id = i /\ proc[q].at \in At
    <3>1. PICK q \in Processes : proc[q].id = i /\ proc[q].at \in At
      BY <2>3
    <3>2. CASE q = p
      BY <1>3, <3>1, <3>2
    <3>3. CASE q # p
      BY <1>1, <3>1, <3>3 DEF Others
    <3> QED
      BY <3>2, <3>3
  <2> QED
    BY <1>4, <2>1, <2>2, <2>3 DEF StateKeepsUp
<1>5. ASSUME NEW i \in DOMAIN ledger' \ DOMAIN ledger, ledger'[i].kind \in Shaping
      PROVE  proc'[p].id = i /\ proc'[p].at \in At
  <2>1. PICK e \in Events :
          Record(e) /\ ledger'[NextId] = e /\ DOMAIN ledger' = DOMAIN ledger \cup {NextId}
    BY <1>5, LedgerStep
  <2>2. i = NextId /\ e.kind \in Shaping
    BY <1>5, <2>1
  <2>3. ledger' # ledger
    BY <1>5
  <2>4. ASSUME NEW f, Record(f) PROVE f = e
    BY <2>1, <2>4 DEF Record, TypeOK
  <2>5. CASE Start(p)
    BY <2>2, <2>3, <2>5, StartEffect
  <2>6. CASE RecordAffect(p)
    BY <2>2, <2>6, AffectEffect
  <2>7. CASE Decide(p)
    BY <2>2, <2>3, <2>7, DecideEffect
  <2>8. CASE OpenGoal(p)
    <3>1. Record([kind |-> "goal_opened"])
      BY <2>3, <2>8, GoalEffect
    <3> QED
      BY <2>2, <2>4, <3>1
  <2>9. CASE CloseGoal(p)
    <3>1. PICK f \in PastEvents : Record(f) /\ f.kind = "goal_closed"
      BY <2>9, CloseEffect
    <3> QED
      BY <2>2, <2>4, <3>1
  <2>10. CASE Note(p)
    <3>1. PICK f \in Communications : Record(f) /\ f.kind = "communication"
      BY <2>10, NoteEffect
    <3> QED
      BY <2>2, <2>4, <3>1
  <2>11. ~(Load(p) \/ Save(p) \/ Execute(p) \/ Audit(p) \/ Send(p) \/ Crash(p))
    BY <2>3, LoadEffect, SaveEffect, ExecuteEffect, AuditEffect, SendEffect, CrashEffect
  <2> QED
    BY <2>5, <2>6, <2>7, <2>8, <2>9, <2>10, <2>11 DEF Step, Work
<1> QED
  BY <1>1, <1>4, <1>5 DEF StateKeepsUp, Kept

-----------------------------------------------------------------------------
(* The messages and the runs. *)

\* What is recorded of messages and of closings, and by whom.
LEMMA RecordedBy ==
  ASSUME TypeOK, Placed, NEW p \in Processes, Step(p), NEW i \in DOMAIN ledger' \ DOMAIN ledger
  PROVE  /\ i = NextId
         /\ ledger'[i].kind = "communication" =>
              Note(p) /\ ledger'[i].message = proc[p].id /\ ledger'[i].sent = proc[p].ok
         /\ ledger'[i].kind = "goal_closed" =>
              CloseGoal(p) /\ ledger'[i].goal = proc[p].id /\ ledger'[i].seen = proc[p].seen
<1> DEFINE Told == {"communication", "goal_closed"}
<1>1. PICK e \in Events :
        Record(e) /\ ledger'[NextId] = e /\ DOMAIN ledger' = DOMAIN ledger \cup {NextId}
  BY LedgerStep
<1>2. i = NextId /\ ledger'[i] = e /\ ledger' # ledger
  BY <1>1
<1>3. ASSUME NEW f, Record(f) PROVE f = e
  BY <1>1, <1>3 DEF Record, TypeOK
<1>4. CASE Start(p)
  <2>1. Record([kind |-> "outcome"])
    BY <1>2, <1>4, StartEffect
  <2> QED
    BY <1>2, <1>3, <2>1
<1>5. CASE RecordAffect(p)
  <2>1. Record([kind |-> "affect"])
    BY <1>5, AffectEffect
  <2> QED
    BY <1>2, <1>3, <2>1
<1>6. CASE Decide(p)
  <2>1. PICK f \in Decisions : Record(f) /\ f.kind = "decision"
    BY <1>2, <1>6, DecideEffect
  <2> QED
    BY <1>2, <1>3, <2>1
<1>7. CASE OpenGoal(p)
  <2>1. Record([kind |-> "goal_opened"])
    BY <1>2, <1>7, GoalEffect
  <2> QED
    BY <1>2, <1>3, <2>1
<1>8. CASE CloseGoal(p)
  <2>1. PICK f \in PastEvents : /\ Record(f) /\ f.kind = "goal_closed"
                                /\ f.goal = proc[p].id /\ f.seen = proc[p].seen
    BY <1>8, CloseEffect
  <2> QED
    BY <1>2, <1>3, <1>8, <2>1
<1>9. CASE Note(p)
  <2>1. PICK f \in Communications : /\ Record(f) /\ f.kind = "communication"
                                    /\ f.message = proc[p].id /\ f.sent = proc[p].ok
    BY <1>9, NoteEffect
  <2> QED
    BY <1>2, <1>3, <1>9, <2>1
<1>10. ~(Load(p) \/ Save(p) \/ Execute(p) \/ Audit(p) \/ Send(p) \/ Crash(p))
  BY <1>2, LoadEffect, SaveEffect, ExecuteEffect, AuditEffect, SendEffect, CrashEffect
<1> QED
  BY <1>4, <1>5, <1>6, <1>7, <1>8, <1>9, <1>10 DEF Step, Work

\* What reaches its recipient.
LEMMA DeliveredStep ==
  ASSUME TypeOK, Placed, NEW p \in Processes, Step(p)
  PROVE  \/ UNCHANGED delivered
         \/ /\ Send(p) /\ proc[p].at = "send" /\ delivered' = delivered \cup {proc[p].id}
            /\ Moved(p, "note") /\ proc'[p].ok
<1>1. CASE Start(p) \/ Crash(p)
  BY <1>1, StartEffect, CrashEffect DEF effects
<1>2. CASE Load(p) \/ RecordAffect(p) \/ Decide(p) \/ OpenGoal(p) \/ Save(p) \/ CloseGoal(p)
  BY <1>2, LoadEffect, AffectEffect, DecideEffect, GoalEffect, SaveEffect, CloseEffect DEF effects
<1>3. CASE Execute(p) \/ Audit(p) \/ Note(p)
  BY <1>3, ExecuteEffect, AuditEffect, NoteEffect DEF effects
<1>4. CASE Send(p)
  BY <1>4, SendEffect
<1> QED
  BY <1>1, <1>2, <1>3, <1>4 DEF Step, Work

\* How a process gets to sending a message and to noting it.
LEMMA SendingStep ==
  ASSUME TypeOK, Placed, NEW p \in Processes, Step(p), proc'[p].at \in Sending
  PROVE  \/ /\ Start(p) /\ proc'[p].id = budget.calls /\ ~proc'[p].ok /\ UNCHANGED ledger
            /\ budget'.calls = budget.calls - 1 /\ UNCHANGED delivered
         \/ /\ Send(p) /\ proc[p].at = "send" /\ Moved(p, "note") /\ proc'[p].ok
            /\ UNCHANGED ledger
<1>1. CASE Start(p)
  BY <1>1, StartEffect DEF Sending, effects
<1>2. CASE Load(p) \/ RecordAffect(p) \/ Decide(p) \/ OpenGoal(p) \/ Save(p) \/ CloseGoal(p)
  BY <1>2, LoadEffect, AffectEffect, DecideEffect, GoalEffect, SaveEffect, CloseEffect
     DEF Sending, Moved
<1>3. CASE Execute(p) \/ Audit(p) \/ Note(p) \/ Crash(p)
  BY <1>3, ExecuteEffect, AuditEffect, NoteEffect, CrashEffect DEF Sending, Moved, AfterToolEffect
<1>4. CASE Send(p)
  BY <1>4, SendEffect DEF Sending
<1> QED
  BY <1>1, <1>2, <1>3, <1>4 DEF Step, Work

LEMMA NumberedInit == Init => Numbered /\ Unsent
<1> SUFFICES ASSUME Init PROVE Numbered /\ Unsent
  OBVIOUS
<1>1. \A p \in Processes : proc[p].at = "idle"
  BY DEF Init, Idle
<1>2. delivered = {}
  BY DEF Init
<1>3. IdsOfKind(ledger, "communication") = {}
  <2>1. ledger \in Seq(PastEvents)
    BY PastsAreLedgers DEF Init
  <2>2. \A i \in DOMAIN ledger : ledger[i].kind # "communication"
    BY <2>1 DEF PastEvents
  <2> QED
    BY <2>2 DEF IdsOfKind
<1> QED
  BY <1>1, <1>2, <1>3 DEF Numbered, Unsent, Sending

LEMMA NumberedStep ==
  ASSUME TypeOK, Placed, Numbered, NEW p \in Processes, Step(p)
  PROVE  Numbered'
<1>1. Kept /\ Others(p)
  BY LedgerStep
<1>2. budget.calls \in Nat /\ budget'.calls \in Nat /\ budget'.calls <= budget.calls
  BY BudgetStep DEF Budgets
<1>3. \A q \in Processes : proc[q].id \in Nat /\ proc'[q].id \in Nat
  BY <1>1, ProcFacts DEF Others, Procs
<1>4. ASSUME proc'[p].at \in Sending PROVE proc'[p].id > budget'.calls
  BY <1>2, <1>3, <1>4, SendingStep DEF Numbered, Sending, Moved
<1>5. ASSUME NEW q \in Processes, proc'[q].at \in Sending PROVE proc'[q].id > budget'.calls
  BY <1>1, <1>2, <1>3, <1>4, <1>5 DEF Numbered, Others
<1>6. ASSUME NEW m \in delivered' PROVE m \in Nat /\ m > budget'.calls
  BY <1>2, <1>3, <1>6, DeliveredStep DEF Numbered, Sending
<1>7. ASSUME NEW i \in IdsOfKind(ledger', "communication")
      PROVE  ledger'[i].message > budget'.calls
  <2>1. CASE i \in DOMAIN ledger
    <3>1. ledger[i] \in Events /\ ledger[i].kind = "communication" /\ ledger'[i] = ledger[i]
      BY <1>1, <1>7, <2>1 DEF IdsOfKind, Kept, TypeOK
    <3>2. ledger[i].message \in Nat
      BY <3>1 DEF Events, PastEvents, Decisions, Communications
    <3>3. ledger[i].message > budget.calls
      BY <2>1, <3>1 DEF Numbered, IdsOfKind
    <3> QED
      BY <1>2, <3>1, <3>2, <3>3
  <2>2. CASE i \notin DOMAIN ledger
    <3>1. Note(p) /\ ledger'[i].message = proc[p].id
      BY <1>7, <2>2, RecordedBy DEF IdsOfKind
    <3> QED
      BY <1>2, <1>3, <3>1, NoteEffect DEF Numbered, Sending
  <2> QED
    BY <2>1, <2>2
<1>8. ASSUME NEW q \in Processes, q # p, proc[q].at \in Sending, proc'[p].at \in Sending
      PROVE  proc'[p].id # proc[q].id
  <2>1. proc[q].id > budget.calls /\ proc[q].id \in Nat
    BY <1>3, <1>8 DEF Numbered
  <2> QED
    BY <1>2, <1>8, <2>1, SendingStep DEF Numbered, Sending, Moved
<1>9. ASSUME NEW q \in Processes, NEW r \in Processes, q # r,
             proc'[q].at \in Sending, proc'[r].at \in Sending
      PROVE  proc'[q].id # proc'[r].id
  BY <1>1, <1>8, <1>9 DEF Others, Numbered
<1> QED
  BY <1>5, <1>6, <1>7, <1>9 DEF Numbered

LEMMA UnsentStep ==
  ASSUME TypeOK, Placed, Numbered, Unsent, NEW p \in Processes, Step(p)
  PROVE  Unsent'
<1>1. Kept /\ Others(p)
  BY LedgerStep
<1>2. budget.calls \in Nat
  BY BudgetStep DEF Budgets
<1>3. ASSUME NEW q \in Processes, q # p, proc[q].at \in Sending,
             proc[q].id \notin delivered
      PROVE  proc'[q] = proc[q] /\ proc[q].id \notin delivered'
  BY <1>1, <1>3, DeliveredStep DEF Others, Numbered, Sending
<1>4. ASSUME NEW i \in IdsOfKind(ledger', "communication"), i \notin IdsOfKind(ledger, "communication")
      PROVE  Note(p) /\ ledger'[i].message = proc[p].id
  <2>1. i \notin DOMAIN ledger
    BY <1>1, <1>4 DEF Kept, IdsOfKind
  <2> QED
    BY <1>4, <2>1, RecordedBy DEF IdsOfKind
<1>5. ASSUME NEW q \in Processes, proc'[q].at = "send"
      PROVE  /\ proc'[q].id \notin delivered'
             /\ \A i \in IdsOfKind(ledger', "communication") : ledger'[i].message # proc'[q].id
  <2>1. CASE q = p
    <3>1. /\ proc'[p].id = budget.calls /\ UNCHANGED <<ledger, delivered>>
      BY <1>5, <2>1, SendingStep DEF Sending, Moved
    <3>2. budget.calls \notin delivered
      BY <1>2 DEF Numbered
    <3>3. \A i \in IdsOfKind(ledger, "communication") : ledger[i].message # budget.calls
      BY <1>2 DEF Numbered
    <3> QED
      BY <2>1, <3>1, <3>2, <3>3
  <2>2. CASE q # p
    <3>1. proc'[q] = proc[q]
      BY <1>1, <2>2 DEF Others
    <3>2. proc[q].id \notin delivered
      BY <1>5, <3>1 DEF Unsent
    <3>3. ASSUME NEW i \in IdsOfKind(ledger', "communication") PROVE ledger'[i].message # proc[q].id
      <4>1. CASE i \in IdsOfKind(ledger, "communication")
        BY <1>1, <1>5, <3>1, <4>1 DEF Unsent, Kept, IdsOfKind
      <4>2. CASE i \notin IdsOfKind(ledger, "communication")
        BY <1>4, <1>5, <2>2, <3>1, <3>3, <4>2, NoteEffect DEF Numbered, Sending
      <4> QED
        BY <4>1, <4>2
    <3> QED
      BY <1>3, <1>5, <2>2, <3>1, <3>2, <3>3 DEF Sending
  <2> QED
    BY <2>1, <2>2
<1>6. ASSUME NEW q \in Processes, proc'[q].at = "note", ~proc'[q].ok
      PROVE  proc'[q].id \notin delivered'
  <2>1. CASE q = p
    <3>1. proc'[p].id = budget.calls /\ UNCHANGED delivered
      BY <1>6, <2>1, SendingStep DEF Sending
    <3>2. budget.calls \notin delivered
      BY <1>2 DEF Numbered
    <3> QED
      BY <2>1, <3>1, <3>2
  <2>2. CASE q # p
    <3>1. proc'[q] = proc[q]
      BY <1>1, <2>2 DEF Others
    <3> QED
      BY <1>3, <1>6, <2>2, <3>1 DEF Unsent, Sending
  <2> QED
    BY <2>1, <2>2
<1> QED
  BY <1>5, <1>6 DEF Unsent

LEMMA AuditedInit == Init => EffectsAudited
<1> SUFFICES ASSUME Init PROVE EffectsAudited
  OBVIOUS
<1>1. ran = {} /\ delivered = {}
  BY DEF Init
<1> QED
  BY <1>1 DEF EffectsAudited

\* The tools run and audited.
LEMMA RunsStep ==
  ASSUME TypeOK, Placed, NEW p \in Processes, Step(p)
  PROVE  /\ audits \subseteq audits' /\ cut \subseteq cut'
         /\ \A run \in ran' \ ran :
              /\ proc'[p].at = "audit" /\ run.by = proc'[p].kind /\ run.id = proc'[p].id
         /\ proc[p].at = "audit" => <<proc[p].kind, proc[p].id>> \in audits' \cup cut'
<1>1. CASE Start(p)
  BY <1>1, StartEffect DEF effects
<1>2. CASE Crash(p)
  BY <1>2, CrashEffect DEF effects
<1>3. CASE Load(p) \/ RecordAffect(p) \/ Decide(p)
  BY <1>3, LoadEffect, AffectEffect, DecideEffect DEF effects
<1>4. CASE OpenGoal(p) \/ Save(p) \/ CloseGoal(p)
  BY <1>4, GoalEffect, SaveEffect, CloseEffect DEF effects
<1>5. CASE Send(p) \/ Note(p)
  BY <1>5, SendEffect, NoteEffect DEF effects
<1>6. CASE Execute(p)
  BY <1>6, ExecuteEffect DEF effects, Moved
<1>7. CASE Audit(p)
  BY <1>7, AuditEffect DEF effects
<1> QED
  BY <1>1, <1>2, <1>3, <1>4, <1>5, <1>6, <1>7 DEF Step, Work

LEMMA AuditedStep ==
  ASSUME TypeOK, Placed, Unsent, EffectsAudited, NEW p \in Processes, Step(p)
  PROVE  EffectsAudited'
<1>1. Kept /\ Others(p) /\ audits \subseteq audits' /\ cut \subseteq cut'
  BY LedgerStep, RunsStep
<1>2. ASSUME NEW run \in ran'
      PROVE  \/ <<run.by, run.id>> \in audits' \cup cut'
             \/ \E q \in Processes : proc'[q].at = "audit" /\ proc'[q].kind = run.by /\ proc'[q].id = run.id
  <2>1. CASE run \in ran
    <3>1. CASE <<run.by, run.id>> \in audits \cup cut
      BY <1>1, <3>1
    <3>2. ASSUME NEW q \in Processes, proc[q].at = "audit", proc[q].kind = run.by, proc[q].id = run.id
          PROVE  \/ <<run.by, run.id>> \in audits' \cup cut'
                 \/ proc'[q].at = "audit" /\ proc'[q].kind = run.by /\ proc'[q].id = run.id
      <4>1. CASE q = p
        BY <3>2, <4>1, RunsStep
      <4>2. CASE q # p
        BY <1>1, <3>2, <4>2 DEF Others
      <4> QED
        BY <4>1, <4>2
    <3> QED
      BY <2>1, <3>1, <3>2 DEF EffectsAudited
  <2>2. CASE run \notin ran
    BY <2>2, RunsStep
  <2> QED
    BY <2>1, <2>2
<1>3. ASSUME NEW m \in delivered'
      PROVE  \/ \E i \in IdsOfKind(ledger', "communication") : ledger'[i].message = m /\ ledger'[i].sent
             \/ <<"dispatch", m>> \in cut'
             \/ \E q \in Processes : proc'[q].at = "note" /\ proc'[q].kind = "dispatch" /\ proc'[q].id = m
  <2>1. CASE m \in delivered
    <3>1. ASSUME NEW i \in IdsOfKind(ledger, "communication"), ledger[i].message = m, ledger[i].sent
          PROVE  i \in IdsOfKind(ledger', "communication") /\ ledger'[i].message = m /\ ledger'[i].sent
      BY <1>1, <3>1 DEF Kept, IdsOfKind
    <3>2. ASSUME proc[p].at = "note", proc[p].kind = "dispatch", proc[p].id = m
          PROVE  \/ \E i \in IdsOfKind(ledger', "communication") : ledger'[i].message = m /\ ledger'[i].sent
                 \/ <<"dispatch", m>> \in cut'
      <4>1. proc[p].ok
        BY <2>1, <3>2 DEF Unsent
      <4>2. CASE Note(p)
        <5>1. PICK e \in Communications : /\ Record(e) /\ e.kind = "communication"
                                          /\ e.message = proc[p].id /\ e.sent = proc[p].ok
          BY <4>2, NoteEffect
        <5>2. e \in Events
          BY DEF Events
        <5>3. ledger'[NextId] = e /\ NextId \in DOMAIN ledger'
          BY <5>1, <5>2, RecordEffect
        <5>4. NextId \in IdsOfKind(ledger', "communication")
          BY <5>1, <5>3 DEF IdsOfKind
        <5>5. ledger'[NextId].message = m /\ ledger'[NextId].sent
          BY <3>2, <4>1, <5>1, <5>3
        <5> QED
          BY <5>4, <5>5
      <4>3. CASE Crash(p)
        BY <3>2, <4>3, CrashEffect
      <4>4. ~Start(p) /\ ~Load(p) /\ ~RecordAffect(p) /\ ~Decide(p) /\ ~OpenGoal(p)
        BY <3>2, StartEffect, LoadEffect, AffectEffect, DecideEffect, GoalEffect
      <4>5. ~Save(p) /\ ~CloseGoal(p) /\ ~Execute(p) /\ ~Audit(p) /\ ~Send(p)
        BY <3>2, SaveEffect, CloseEffect, ExecuteEffect, AuditEffect, SendEffect
      <4> QED
        BY <4>2, <4>3, <4>4, <4>5 DEF Step, Work
    <3>3. ASSUME NEW q \in Processes, q # p, proc[q].at = "note", proc[q].kind = "dispatch", proc[q].id = m
          PROVE  proc'[q].at = "note" /\ proc'[q].kind = "dispatch" /\ proc'[q].id = m
      BY <1>1, <3>3 DEF Others
    <3> QED
      BY <1>1, <2>1, <3>1, <3>2, <3>3 DEF EffectsAudited
  <2>2. CASE m \notin delivered
    <3>1. m = proc[p].id /\ proc[p].at = "send" /\ Moved(p, "note")
      BY <2>2, <1>3, DeliveredStep
    <3>2. proc[p].kind = "dispatch"
      BY <3>1 DEF Placed, KindOf
    <3> QED
      BY <3>1, <3>2 DEF Moved
  <2> QED
    BY <2>1, <2>2
<1>4. ASSUME NEW i \in IdsOfKind(ledger', "communication"), ~ledger'[i].sent
      PROVE  ledger'[i].message \notin delivered'
  <2>1. CASE i \in DOMAIN ledger
    <3>1. ledger'[i] = ledger[i] /\ i \in IdsOfKind(ledger, "communication")
      BY <1>1, <1>4, <2>1 DEF Kept, IdsOfKind
    <3>2. ledger[i].message \notin delivered
      BY <1>4, <3>1 DEF EffectsAudited
    <3> QED
      BY <3>1, <3>2, DeliveredStep DEF Unsent
  <2>2. CASE i \notin DOMAIN ledger
    <3>1. Note(p) /\ ledger'[i].message = proc[p].id /\ ledger'[i].sent = proc[p].ok
      BY <1>4, <2>2, RecordedBy DEF IdsOfKind
    <3>2. proc[p].at = "note" /\ delivered' = delivered
      BY <3>1, NoteEffect DEF effects
    <3>3. proc[p].id \notin delivered
      BY <1>4, <3>1, <3>2 DEF Unsent
    <3> QED
      BY <3>1, <3>2, <3>3
  <2> QED
    BY <2>1, <2>2
<1> QED
  BY <1>2, <1>3, <1>4 DEF EffectsAudited

-----------------------------------------------------------------------------
(* Goals that are closed again. *)

LEMMA BeforeFacts ==
  ASSUME NEW log \in Seq(Events), NEW i \in IdsOfKind(log, "goal_closed")
  PROVE  LET later == {k \in IdsOfKind(log, "goal_closed") : k > i}
         IN  /\ Before(log, i) \in Nat /\ Cardinality(later) \in Nat
             /\ Cardinality(IdsOfKind(log, "goal_closed")) = Before(log, i) + Cardinality(later)
<1> DEFINE all == IdsOfKind(log, "goal_closed")
           later == {k \in all : k > i}
           upto == {k \in all : k <= i}
<1>1. IsFiniteSet(all) /\ all \subseteq DOMAIN log
  BY IdsFacts
<1>2. IsFiniteSet(later) /\ IsFiniteSet(upto)
  BY <1>1, FS_Subset
<1>3. all = upto \cup later
  BY <1>1
<1>4. upto \cap later = {}
  BY <1>1
<1>5. Cardinality(upto) \in Nat /\ Cardinality(later) \in Nat
  BY <1>2, FS_CardinalityType
<1>6. Cardinality(all) = Cardinality(upto) + Cardinality(later)
  <2> HIDE DEF all, later, upto
  <2>1. Cardinality(upto \cup later) = Cardinality(upto) + Cardinality(later) - Cardinality({})
    BY <1>2, <1>4, FS_Union
  <2> QED
    BY <1>3, <1>5, <2>1, FS_EmptySet
<1> QED
  BY <1>5, <1>6 DEF Before

\* A goal that is found active has been closed only where the window does not
\* reach any more.
LEMMA ActiveUnseen ==
  ASSUME TypeOK, NEW goal \in ActiveGoals, NEW i \in Closings, ledger[i].goal = goal
  PROVE  Unseen(ledger, i, Cardinality(Closings))
<1> DEFINE later == {k \in Closings : k > i}
<1>1. ledger \in Seq(Events) /\ Window \in Nat
  BY AgencyAssumption DEF TypeOK
<1>2. i \notin Newest(Closings, Window)
  BY DEF ActiveGoals, EventsOfKind, Closings
<1>3. ~(Cardinality(later) < Window)
  BY <1>2 DEF Newest
<1>4. /\ Before(ledger, i) \in Nat /\ Cardinality(later) \in Nat
      /\ Cardinality(Closings) = Before(ledger, i) + Cardinality(later)
  BY <1>1, BeforeFacts DEF Closings
<1> HIDE DEF later
<1> QED
  BY <1>1, <1>3, <1>4 DEF Unseen

\* What an event adds to the closings.
LEMMA ClosingsStep ==
  ASSUME TypeOK, Placed, NEW p \in Processes, Step(p)
  PROVE  LET closings == IdsOfKind(ledger', "goal_closed")
         IN  /\ Cardinality(Closings) \in Nat /\ Cardinality(closings) \in Nat
             /\ Cardinality(Closings) <= Cardinality(closings)
             /\ \A i \in Closings : /\ i \in closings /\ ledger'[i] = ledger[i]
                                    /\ Before(ledger', i) = Before(ledger, i)
                                    /\ Before(ledger, i) \in Nat
             /\ \A i \in closings \ Closings :
                  /\ i = NextId /\ Before(ledger', i) = Cardinality(Closings) + 1
                  /\ CloseGoal(p) /\ ledger'[i].goal = proc[p].id /\ ledger'[i].seen = proc[p].seen
<1> DEFINE closings == IdsOfKind(ledger', "goal_closed")
<1>1. Kept /\ ledger \in Seq(Events) /\ ledger' \in Seq(Events)
  BY LedgerStep DEF TypeOK, Kept
<1>2. IsFiniteSet(Closings) /\ IsFiniteSet(closings)
      /\ Cardinality(Closings) \in Nat /\ Cardinality(closings) \in Nat
  BY <1>1, IdsFacts DEF Closings
<1>3. Closings \subseteq closings /\ \A i \in Closings : ledger'[i] = ledger[i]
  BY <1>1 DEF Kept, Closings, IdsOfKind
<1>4. Cardinality(Closings) <= Cardinality(closings)
  BY <1>2, <1>3, FS_Subset
<1>5. ASSUME NEW i \in closings \ Closings
      PROVE  /\ i = NextId /\ i \notin DOMAIN ledger
             /\ CloseGoal(p) /\ ledger'[i].goal = proc[p].id /\ ledger'[i].seen = proc[p].seen
  <2>1. i \in DOMAIN ledger' /\ ledger'[i].kind = "goal_closed"
    BY <1>5 DEF IdsOfKind
  <2>2. i \notin DOMAIN ledger
    BY <1>1, <1>5, <2>1 DEF Kept, Closings, IdsOfKind
  <2> QED
    BY <2>1, <2>2, RecordedBy
<1>6. \A i \in Closings : i \in DOMAIN ledger /\ i < NextId /\ i \in Nat
  BY LedgerFacts DEF Closings, IdsOfKind
<1>7. NextId \in Nat
  BY LedgerFacts
<1>8. ASSUME NEW i \in Closings
      PROVE  Before(ledger', i) = Before(ledger, i) /\ Before(ledger, i) \in Nat
  <2>1. ASSUME NEW k \in closings, k <= i PROVE k \in Closings
    BY <1>5, <1>6, <1>7, <2>1
  <2>2. {k \in closings : k <= i} = {k \in Closings : k <= i}
    BY <1>3, <2>1
  <2>3. Before(ledger, i) \in Nat
    BY <1>1, BeforeFacts DEF Closings
  <2> QED
    BY <2>2, <2>3 DEF Before, Closings
<1>9. ASSUME NEW i \in closings \ Closings
      PROVE  Before(ledger', i) = Cardinality(Closings) + 1
  <2>1. {k \in closings : k <= i} = Closings \cup {i}
    BY <1>3, <1>5, <1>6, <1>7
  <2>2. Cardinality(Closings \cup {i}) = Cardinality(Closings) + 1
    BY <1>2, <1>9, FS_AddElement
  <2> QED
    BY <2>1, <2>2 DEF Before
<1> HIDE DEF closings
<1>10. \A i \in Closings : /\ i \in closings /\ ledger'[i] = ledger[i]
                           /\ Before(ledger', i) = Before(ledger, i)
                           /\ Before(ledger, i) \in Nat
  BY <1>3, <1>8
<1>11. \A i \in closings \ Closings :
         /\ i = NextId /\ Before(ledger', i) = Cardinality(Closings) + 1
         /\ CloseGoal(p) /\ ledger'[i].goal = proc[p].id /\ ledger'[i].seen = proc[p].seen
  BY <1>5, <1>9
<1> QED
  BY <1>2, <1>4, <1>10, <1>11 DEF closings

LEMMA LookedUpInit == Init => LookedUp /\ ClosedAgainOnlyUnseen
<1> SUFFICES ASSUME Init PROVE LookedUp /\ ClosedAgainOnlyUnseen
  OBVIOUS
<1>1. LookedUp
  BY DEF Init, Idle, LookedUp
<1>2. ClosedAgainOnlyUnseen
  BY PastsAreLedgers DEF Init, ClosedAgainOnlyUnseen
<1> QED
  BY <1>1, <1>2

LEMMA LookedUpStep ==
  ASSUME TypeOK, Placed, LookedUp, NEW p \in Processes, Step(p)
  PROVE  LookedUp'
<1> DEFINE closings == IdsOfKind(ledger', "goal_closed")
<1>1. Others(p)
  BY LedgerStep
<1>2. /\ Cardinality(Closings) \in Nat /\ Cardinality(closings) \in Nat
      /\ Cardinality(Closings) <= Cardinality(closings)
      /\ \A i \in Closings : /\ i \in closings /\ ledger'[i] = ledger[i]
                             /\ Before(ledger', i) = Before(ledger, i)
                             /\ Before(ledger, i) \in Nat
      /\ \A i \in closings \ Closings : Before(ledger', i) = Cardinality(Closings) + 1
  BY ClosingsStep
<1>3. ASSUME NEW q \in Processes, q # p, proc[q].at = "close"
      PROVE  /\ proc[q].seen <= Cardinality(closings)
             /\ \A i \in closings : ledger'[i].goal = proc[q].id => Unseen(ledger', i, proc[q].seen)
  <2>1. proc[q].seen \in Nat /\ proc[q].seen <= Cardinality(Closings)
    BY <1>3 DEF LookedUp, TypeOK, Procs
  <2>2. ASSUME NEW i \in Closings, ledger'[i].goal = proc[q].id
        PROVE  Unseen(ledger', i, proc[q].seen)
    <3>1. Unseen(ledger, i, proc[q].seen)
      BY <1>2, <1>3, <2>2 DEF LookedUp
    <3> QED
      BY <1>2, <3>1 DEF Unseen
  <2>3. ASSUME NEW i \in closings \ Closings PROVE Unseen(ledger', i, proc[q].seen)
    <3>1. Before(ledger', i) = Cardinality(Closings) + 1
      BY <1>2
    <3> QED
      BY <1>2, <2>1, <3>1 DEF Unseen
  <2> HIDE DEF closings
  <2> QED
    BY <1>2, <2>1, <2>2, <2>3
<1>4. ASSUME proc'[p].at = "close"
      PROVE  /\ proc'[p].seen <= Cardinality(closings)
             /\ \A i \in closings : ledger'[i].goal = proc'[p].id => Unseen(ledger', i, proc'[p].seen)
  <2>1. Start(p)
    <3>1. ~(Load(p) \/ RecordAffect(p) \/ Decide(p) \/ OpenGoal(p) \/ Save(p) \/ CloseGoal(p))
      BY <1>4, LoadEffect, AffectEffect, DecideEffect, GoalEffect, SaveEffect, CloseEffect DEF Moved
    <3>2. ~(Execute(p) \/ Audit(p) \/ Send(p) \/ Note(p) \/ Crash(p))
      BY <1>4, ExecuteEffect, AuditEffect, SendEffect, NoteEffect, CrashEffect
         DEF Moved, AfterToolEffect
    <3> QED
      BY <3>1, <3>2 DEF Step, Work
  <2>2. UNCHANGED ledger /\ proc'[p].id \in ActiveGoals /\ proc'[p].seen = Cardinality(Closings)
    BY <1>4, <2>1, StartEffect DEF Sending
  <2>3. closings = Closings
    BY <2>2 DEF Closings
  <2>4. \A i \in Closings : ledger[i].goal = proc'[p].id => Unseen(ledger, i, Cardinality(Closings))
    BY <2>2, ActiveUnseen
  <2> QED
    BY <1>2, <2>2, <2>3, <2>4
<1>5. ASSUME NEW q \in Processes, proc'[q].at = "close"
      PROVE  /\ proc'[q].seen <= Cardinality(closings)
             /\ \A i \in closings : ledger'[i].goal = proc'[q].id => Unseen(ledger', i, proc'[q].seen)
  <2>1. CASE q = p
    BY <1>4, <1>5, <2>1
  <2>2. CASE q # p
    <3>1. proc'[q] = proc[q]
      BY <1>1, <2>2 DEF Others
    <3> QED
      BY <1>3, <1>5, <2>2, <3>1
  <2> QED
    BY <2>1, <2>2
<1> QED
  BY <1>5 DEF LookedUp, Closings

LEMMA ClosedAgainStep ==
  ASSUME TypeOK, Placed, LookedUp, ClosedAgainOnlyUnseen, NEW p \in Processes, Step(p)
  PROVE  ClosedAgainOnlyUnseen'
<1> DEFINE closings == IdsOfKind(ledger', "goal_closed")
<1>1. /\ \A i \in Closings : /\ i \in closings /\ ledger'[i] = ledger[i]
                             /\ Before(ledger', i) = Before(ledger, i)
      /\ \A i \in closings \ Closings :
           /\ i = NextId
           /\ CloseGoal(p) /\ ledger'[i].goal = proc[p].id /\ ledger'[i].seen = proc[p].seen
  BY ClosingsStep
<1>2. \A i \in Closings : i < NextId /\ i \in Nat
  BY LedgerFacts DEF Closings, IdsOfKind
<1>3. NextId \in Nat
  BY LedgerFacts
<1>4. ASSUME NEW i \in closings, NEW j \in closings, i < j, ledger'[i].goal = ledger'[j].goal
      PROVE  Unseen(ledger', i, ledger'[j].seen)
  <2>1. i \in Closings
    BY <1>1, <1>2, <1>3, <1>4
  <2>2. Unseen(ledger, i, ledger'[j].seen)
    <3>1. CASE j \in Closings
      BY <1>1, <1>4, <2>1, <3>1 DEF ClosedAgainOnlyUnseen, UnseenOnly, Closings
    <3>2. CASE j \notin Closings
      <4>1. ledger'[j].goal = proc[p].id /\ ledger'[j].seen = proc[p].seen /\ CloseGoal(p)
        BY <1>1, <3>2
      <4>2. proc[p].at = "close" /\ ledger[i].goal = proc[p].id
        BY <1>1, <1>4, <2>1, <4>1, CloseEffect
      <4> QED
        BY <2>1, <4>1, <4>2 DEF LookedUp
    <3> QED
      BY <3>1, <3>2
  <2> QED
    BY <1>1, <2>1, <2>2 DEF Unseen
<1>5. UnseenOnly(ledger')
  BY <1>4 DEF UnseenOnly
<1> QED
  BY <1>5 DEF ClosedAgainOnlyUnseen

-----------------------------------------------------------------------------
(* The theorems. *)

Properties == StateKeepsUp /\ EffectsAudited /\ ClosedAgainOnlyUnseen
IInv == /\ TypeOK /\ Placed /\ Holding /\ Decided /\ Numbered /\ Unsent /\ LookedUp
        /\ Properties

LEMMA Invariance == Spec => []IInv
<1>1. Init => IInv
  BY TypeInit, PlacedInit, HoldingInit, DecidedInit, NumberedInit, LookedUpInit, KeepsUpInit,
     AuditedInit DEF IInv, Properties
<1>2. ASSUME IInv, [Next]_vars PROVE IInv'
  <2>1. ASSUME NEW p \in Processes, Step(p) PROVE IInv'
    <3>1. TypeOK' /\ Placed' /\ Holding' /\ Decided'
      BY <1>2, <2>1, TypeStep, PlacedStep, HoldingStep, DecidedStep DEF IInv
    <3>2. Numbered' /\ Unsent' /\ LookedUp'
      BY <1>2, <2>1, NumberedStep, UnsentStep, LookedUpStep DEF IInv
    <3>3. Properties'
      BY <1>2, <2>1, KeepsUpStep, AuditedStep, ClosedAgainStep DEF IInv, Properties
    <3> QED
      BY <3>1, <3>2, <3>3 DEF IInv
  <2>2. CASE UNCHANGED vars
    <3>1. TypeOK' /\ Placed' /\ Holding'
      BY <1>2, <2>2 DEF IInv, vars, TypeOK, Placed, Holding, IsDecision
    <3>2. Decided'
      BY <1>2, <2>2 DEF IInv, vars, Decided, Carried, IsDecision
    <3>3. Numbered' /\ Unsent' /\ LookedUp'
      BY <1>2, <2>2 DEF IInv, vars, Numbered, Unsent, LookedUp, Closings
    <3>4. Properties'
      BY <1>2, <2>2
         DEF IInv, vars, Properties, StateKeepsUp, EffectsAudited, ClosedAgainOnlyUnseen
    <3> QED
      BY <3>1, <3>2, <3>3, <3>4 DEF IInv
  <2> QED
    BY <1>2, <2>1, <2>2 DEF Next, Step
<1> QED
  BY <1>1, <1>2, PTL DEF Spec

\* The ledger, the saved state and the processes' calls keep their types, and
\* the saved state never speaks of an event that is not on the ledger.
THEOREM TypeCorrect == Spec => []TypeOK
<1>1. IInv => TypeOK
  BY DEF IInv
<1> QED
  BY <1>1, Invariance, PTL

\* An outcome, a decision or a change of affect gets lost from the saved state
\* only by a call that was cut off or by two calls that overlap
\* (core.py:95, 112-114).
THEOREM NothingShapedIsLost == Spec => []StateKeepsUp
<1>1. IInv => StateKeepsUp
  BY DEF IInv, Properties
<1> QED
  BY <1>1, Invariance, PTL

\* No tool with effects runs without an approval or an allowed decision that was
\* recorded, asked for this tool and was carried through to the saved state
\* (runtime.py:134, core.py:88-94).
THEOREM EffectsAreApproved == Spec => []RunsOnApproval
<1>1. IInv => RunsOnApproval
  BY DecidedGivesApproval DEF IInv
<1> QED
  BY <1>1, Invariance, PTL

\* Every run of a tool and every message is on record, unless the process died
\* in between, and nothing recorded as blocked was sent
\* (tools.py:105-110, comms.py:107-115).
THEOREM EffectsAreOnRecord == Spec => []EffectsAudited
<1>1. IInv => EffectsAudited
  BY DEF IInv, Properties
<1> QED
  BY <1>1, Invariance, PTL

\* A goal is closed twice only by a caller who could not see the first closing,
\* whatever the window and however many processes close goals
\* (core.py:118, 124).
THEOREM NoVisibleClosingRepeated == Spec => []ClosedAgainOnlyUnseen
<1>1. IInv => ClosedAgainOnlyUnseen
  BY DEF IInv, Properties
<1> QED
  BY <1>1, Invariance, PTL
==============================================================================
