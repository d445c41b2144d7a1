------------------------------- MODULE Agency -------------------------------
(***************************************************************************)
(* What the agent does in the world and how it is recorded: the turns of   *)
(* AgentCore (core.py), the tasks of AgentRuntime (runtime.py), the        *)
(* PolicyGate (policy.py), the ToolRegistry (tools.py), messages           *)
(* (comms.py), and the agent state, which turns, outcomes and affect       *)
(* (affect.py) load, change and save, and which forgets interests nobody   *)
(* mentions (learning.py).  Processes share the ledger and the state;      *)
(* each is in one call at a time.  A commit, the run of a tool and a       *)
(* delivery are steps, and so is a read that a later commit depends on.    *)
(* Events nothing here reads back (observation, wake, learning,            *)
(* invalid_decision) are left out.                                         *)
(***************************************************************************)
EXTENDS EventLedger

CONSTANTS
  Processes,   \* processes with the database open
  Tools,       \* registered tools
  Risk,        \* the risk_level of each
  NoTool,      \* no action
  Requests,    \* actions a decision may ask for
  Window,      \* how many events of a kind are read back (100)
  MaxSteps,    \* max_steps of a task
  MaxGoals,    \* bound: goals of a decision
  Pasts,       \* ledgers to start from
  Kinds,       \* the calls that are made
  MaxCalls,    \* bound: calls, in all
  MaxTurns,    \* bound: turns that come to a decision, in all
  MaxCrashes   \* bound: crashes, in all

Approvable == {"write", "command", "network", "message", "install"}
Risks == Approvable \cup {"read_only", "destructive", "low_risk"}
Calls == {"task", "turn", "outcome", "affect", "interests", "close", "tool", "dispatch"}

\* `tool' may be one that is not registered; `sandboxed' is a sandbox.* action
\* with the scope sandbox; `cost' is within the limits or not.
Actions == [tool : STRING, risk : Risks, sandboxed : BOOLEAN, cost : BOOLEAN]

ASSUME AgencyAssumption ==
  /\ Risk \in [Tools -> Risks]
  /\ NoTool \notin Tools /\ Tools \subseteq STRING
  /\ Requests \subseteq Actions /\ \A request \in Requests : request.tool # NoTool
  /\ Kinds \subseteq Calls
  /\ Window \in Nat \ {0} /\ MaxSteps \in Nat \ {0}
  /\ {MaxGoals, MaxCalls, MaxTurns, MaxCrashes} \subseteq Nat

VARIABLES
  ledger,      \* events: decision, goal_opened, goal_closed, outcome, affect, communication
  snapshot,    \* the newest agent state, as the events that shaped it
  proc,        \* each process's call
  ran,         \* history: runs of tools
  audits,      \* what the tools' auditor was told
  delivered,   \* messages that have been sent, each the number of its call
  overlapped,  \* history: events whose state was saved while another held an older one
  cut,         \* history: events, runs and messages whose call did not come to its end
  budget       \* what is left of the bounds

vars == <<ledger, snapshot, proc, ran, audits, delivered, overlapped, cut, budget>>
effects == <<ran, audits, delivered>>

-----------------------------------------------------------------------------
\* PolicyGate.evaluate, `approved' being what its approver says.
Verdict(request, approved) ==
  CASE ~request.cost \/ request.risk = "destructive" -> "deny"
    [] request.cost /\ request.risk = "read_only" -> "allow"
    [] request.cost /\ request.risk \notin Approvable \cup {"read_only", "destructive"} -> "deny"
    [] OTHER -> IF request.sandboxed \/ approved THEN "allow" ELSE "require_approval"

\* Mutant: only the oldest closing is looked at.
ActiveGoalsOldest ==
  LET closings == IdsOfKind(ledger, "goal_closed")
      first == {i \in closings : Cardinality({j \in closings : j < i}) < 1}
  IN  EventsOfKind(ledger, "goal_opened", Window) \ {ledger[i].goal : i \in first}

\* _active_goals, two windows of the newest events.
ActiveGoals ==
  EventsOfKind(ledger, "goal_opened", Window)
    \ {ledger[i].goal : i \in EventsOfKind(ledger, "goal_closed", Window)}

\* A change of the state: its fields are not told apart, but for the event
\* that gave rise to the change.
Shaped(state, id) == state \cup {id}

\* `Unseen' by whoever closes a goal that closing i has closed before: it was not
\* there yet, or the window no longer reached it.
Before(log, i) == Cardinality({k \in IdsOfKind(log, "goal_closed") : k <= i})
Unseen(log, i, seen) == seen < Before(log, i) \/ seen - Before(log, i) >= Window
UnseenOnly(log) ==
  \A i, j \in IdsOfKind(log, "goal_closed") :
    (i < j /\ log[i].goal = log[j].goal) => Unseen(log, i, log[j].seen)

\* The goals of earlier processes, opened and closed as these do.
PastEvents == [kind : {"goal_opened"}] \cup [kind : {"goal_closed"}, goal : Nat, seen : Nat]
ASSUME PastsAreLedgers == \A past \in Pasts : past \in Seq(PastEvents) /\ UnseenOnly(past)

Idle == [at |-> "idle", kind |-> "none", step |-> 0, held |-> {}, id |-> 0, goals |-> 0,
         tool |-> NoTool, verdict |-> "none", approved |-> FALSE, ok |-> FALSE, seen |-> 0]

Init ==
  /\ ledger \in Pasts
  /\ snapshot = {i \in DOMAIN ledger : ledger[i].kind \in {"decision", "outcome", "affect"}}
  /\ proc = [p \in Processes |-> Idle]
  /\ ran = {} /\ audits = {} /\ delivered = {}
  /\ overlapped = {} /\ cut = {}
  /\ budget = [calls |-> MaxCalls, turns |-> MaxTurns, crashes |-> MaxCrashes]

Go(p, state) == proc' = [proc EXCEPT ![p] = state]
Return(p) == Go(p, Idle)
Record(event) == ledger' = Append(ledger, event)
NextId == Len(ledger) + 1

\* The call gets a number, which names its message or the run of its tool.
Begin(p, kind, state) ==
  /\ proc[p].at = "idle" /\ budget.calls > 0 /\ kind \in Kinds
  /\ budget' = [budget EXCEPT !.calls = @ - 1]
  /\ Go(p, [state EXCEPT !.kind = kind])

-----------------------------------------------------------------------------
\* run_task, or a turn of its own (turn, autonomous_turn).
StartTurn(p) ==
  /\ \E kind \in {"task", "turn"} : Begin(p, kind, [Idle EXCEPT !.at = "load"])
  /\ UNCHANGED <<ledger, snapshot, effects, overlapped, cut>>

\* record_outcome
StartOutcome(p) ==
  /\ Begin(p, "outcome", [Idle EXCEPT !.at = "load", !.id = NextId])
  /\ Record([kind |-> "outcome"])
  /\ UNCHANGED <<snapshot, effects, overlapped, cut>>

\* apply_affect
StartAffect(p) ==
  /\ Begin(p, "affect", [Idle EXCEPT !.at = "load"])
  /\ UNCHANGED <<ledger, snapshot, effects, overlapped, cut>>

\* tend_interests
StartInterests(p) ==
  /\ Begin(p, "interests", [Idle EXCEPT !.at = "load"])
  /\ UNCHANGED <<ledger, snapshot, effects, overlapped, cut>>

\* Mutant: a task loads the state once, in its first step.
LoadOnce(p) ==
  LET state == IF proc[p].step = 0 THEN snapshot ELSE proc[p].held
  IN  /\ proc[p].at = "load"
      /\ \/ /\ proc[p].kind \in {"task", "turn"}
            /\ Go(p, [proc[p] EXCEPT !.at = "decide", !.held = state])
         \/ /\ proc[p].kind = "outcome"
            /\ Go(p, [proc[p] EXCEPT !.at = "save", !.held = Shaped(state, proc[p].id)])
         \/ /\ proc[p].kind = "affect"
            /\ Return(p) \/ Go(p, [proc[p] EXCEPT !.at = "affect", !.held = state])
         \/ /\ proc[p].kind = "interests"
            /\ Return(p) \/ Go(p, [proc[p] EXCEPT !.at = "save", !.held = state])
      /\ UNCHANGED <<ledger, snapshot, effects, overlapped, cut, budget>>

\* load_state; affect may find that the evidence calls for no change, and no
\* interest may have grown weaker.  What tending changes has no event of its own.
Load(p) ==
  /\ proc[p].at = "load"
  /\ \/ /\ proc[p].kind \in {"task", "turn"}
        /\ Go(p, [proc[p] EXCEPT !.at = "decide", !.held = snapshot])
     \/ /\ proc[p].kind = "outcome"
        /\ Go(p, [proc[p] EXCEPT !.at = "save", !.held = Shaped(snapshot, proc[p].id)])
     \/ /\ proc[p].kind = "affect"
        /\ Return(p) \/ Go(p, [proc[p] EXCEPT !.at = "affect", !.held = snapshot])
     \/ /\ proc[p].kind = "interests"
        /\ Return(p) \/ Go(p, [proc[p] EXCEPT !.at = "save", !.held = snapshot])
  /\ UNCHANGED <<ledger, snapshot, effects, overlapped, cut, budget>>

RecordAffect(p) ==
  /\ proc[p].at = "affect"
  /\ Record([kind |-> "affect"])
  /\ Go(p, [proc[p] EXCEPT !.at = "save", !.id = NextId, !.held = Shaped(@, NextId)])
  /\ UNCHANGED <<snapshot, effects, overlapped, cut, budget>>

\* A turn that raises ends a task with a failure, or its caller's call.
TurnRaises(p) == Return(p)

\* The action a decision asks for, if it does, with the policy's verdict.
Asked == {[tool |-> NoTool, verdict |-> "none"]} \cup
         {[tool |-> request.tool, verdict |-> Verdict(request, approved)] :
            request \in Requests, approved \in BOOLEAN}

\* The provider's decision, which may be refused.
Decide(p) ==
  /\ proc[p].at = "decide"
  /\ \/ TurnRaises(p) /\ UNCHANGED <<ledger, budget>>
     \/ /\ budget.turns > 0 /\ budget' = [budget EXCEPT !.turns = @ - 1]
        /\ \E action \in Asked :
             /\ Record([kind |-> "decision", tool |-> action.tool, verdict |-> action.verdict])
             /\ Go(p, [proc[p] EXCEPT !.at = "goals", !.id = NextId, !.held = Shaped(@, NextId),
                                      !.tool = action.tool, !.verdict = action.verdict])
  /\ UNCHANGED <<snapshot, effects, overlapped, cut>>

\* The decision's goals, at most MaxGoals of which are valid; an invalid one
\* raises when the ones before it are open.
OpenGoal(p) ==
  /\ proc[p].at = "goals"
  /\ \/ /\ proc[p].goals < MaxGoals
        /\ Record([kind |-> "goal_opened"])
        /\ Go(p, [proc[p] EXCEPT !.goals = @ + 1])
        /\ UNCHANGED cut
     \/ /\ TurnRaises(p) /\ UNCHANGED ledger
        /\ cut' = cut \cup {<<"event", proc[p].id>>}
  /\ UNCHANGED <<snapshot, effects, overlapped, budget>>

\* Mutant: only a denial keeps an action from being executed.
AfterTurnUnlessDenied(p) ==
  CASE proc[p].kind # "task" \/ proc[p].tool = NoTool \/ proc[p].verdict = "deny" -> Return(p)
    [] OTHER -> Go(p, [proc[p] EXCEPT !.at = "execute", !.approved = TRUE, !.verdict = "none"])

\* What run_task does with a decision once its turn is over.
AfterTurn(p) ==
  CASE proc[p].kind # "task" \/ proc[p].tool = NoTool \/ proc[p].verdict # "allow" -> Return(p)
    [] OTHER -> Go(p, [proc[p] EXCEPT !.at = "execute", !.approved = TRUE, !.verdict = "none"])

\* save_state
Save(p) ==
  /\ proc[p].at \in {"goals", "save"}
  /\ snapshot' = proc[p].held
  /\ overlapped' = IF \E q \in Processes \ {p} : proc[q].at \in {"decide", "goals", "affect", "save"}
                   THEN overlapped \cup ({proc[p].id} \ {0}) ELSE overlapped
  /\ AfterTurn(p)
  /\ UNCHANGED <<ledger, effects, cut, budget>>

-----------------------------------------------------------------------------
\* close_goal looks whether the goal is active, and then records.
StartClose(p) ==
  /\ \E goal \in IdsOfKind(ledger, "goal_opened") :
       Begin(p, "close", IF goal \in ActiveGoals
                         THEN [Idle EXCEPT !.at = "close", !.id = goal,
                                           !.seen = Cardinality(IdsOfKind(ledger, "goal_closed"))]
                         ELSE Idle)
  /\ UNCHANGED <<ledger, snapshot, effects, overlapped, cut>>

\* `seen' is history: the closings there were when the goal was looked up.
CloseGoal(p) ==
  /\ proc[p].at = "close"
  /\ Record([kind |-> "goal_closed", goal |-> proc[p].id, seen |-> proc[p].seen])
  /\ Return(p)
  /\ UNCHANGED <<snapshot, effects, overlapped, cut, budget>>

\* ToolRegistry.execute called with approved=False; the registry's approver may
\* be missing, or say no.
StartTool(p) ==
  /\ \E tool \in Tools, approved \in BOOLEAN :
       Begin(p, "tool", [Idle EXCEPT !.at = "execute", !.tool = tool, !.id = budget.calls,
                                     !.approved = approved])
  /\ UNCHANGED <<ledger, snapshot, effects, overlapped, cut>>

\* run_task gives up, ends with a success, or takes the next of max_steps.
AfterTool(p, ok) ==
  IF proc[p].kind = "task" /\ ~ok /\ proc[p].step + 1 < MaxSteps
  THEN Go(p, [proc[p] EXCEPT !.at = "load", !.step = @ + 1, !.id = 0, !.goals = 0])
  ELSE Return(p)

\* validate, the security check and the approval, and then the run; a tool that
\* is not registered is not even audited.
Execute(p) ==
  LET tool == proc[p].tool
      may == Risk[tool] = "read_only" \/ proc[p].approved
  IN  /\ proc[p].at = "execute"
      /\ \/ tool \notin Tools /\ AfterTool(p, FALSE) /\ UNCHANGED ran
         \/ tool \in Tools /\ Go(p, [proc[p] EXCEPT !.at = "audit", !.ok = FALSE]) /\ UNCHANGED ran
         \/ /\ tool \in Tools /\ may
            /\ \E ok \in BOOLEAN : Go(p, [proc[p] EXCEPT !.at = "audit", !.ok = ok])
            /\ ran' = ran \cup {[by |-> proc[p].kind, id |-> proc[p].id, tool |-> tool,
                                 approved |-> proc[p].approved]}
      /\ UNCHANGED <<ledger, snapshot, audits, delivered, overlapped, cut, budget>>

\* Mutant: what the tool raises is not caught.
AuditUnlessRaised(p) ==
  /\ proc[p].at = "audit"
  /\ audits' = IF proc[p].ok THEN audits \cup {<<proc[p].kind, proc[p].id>>} ELSE audits
  /\ AfterTool(p, proc[p].ok)
  /\ UNCHANGED <<ledger, snapshot, ran, delivered, overlapped, cut, budget>>

\* Every result is reported, the refusals and what the tool raised too.
Audit(p) ==
  /\ proc[p].at = "audit"
  /\ audits' = audits \cup {<<proc[p].kind, proc[p].id>>}
  /\ AfterTool(p, proc[p].ok)
  /\ UNCHANGED <<ledger, snapshot, ran, delivered, overlapped, cut, budget>>

-----------------------------------------------------------------------------
\* dispatch asks the policy, and when that does not allow it, its own approver.
StartDispatch(p) ==
  /\ \E gate, approver \in BOOLEAN :
       LET verdict == Verdict([risk |-> "message", sandboxed |-> FALSE, cost |-> TRUE], gate)
           approved == verdict = "allow" \/ approver
       IN  Begin(p, "dispatch", [Idle EXCEPT !.at = IF approved THEN "send" ELSE "note",
                                             !.id = budget.calls, !.approved = approved])
  /\ UNCHANGED <<ledger, snapshot, effects, overlapped, cut>>

\* What the channel raises leaves dispatch at once.
Send(p) ==
  /\ proc[p].at = "send"
  /\ \/ Return(p) /\ UNCHANGED delivered
     \/ /\ delivered' = delivered \cup {proc[p].id}
        /\ Go(p, [proc[p] EXCEPT !.at = "note", !.ok = TRUE])
  /\ UNCHANGED <<ledger, snapshot, ran, audits, overlapped, cut, budget>>

\* _audit
Note(p) ==
  /\ proc[p].at = "note"
  /\ Record([kind |-> "communication", message |-> proc[p].id, sent |-> proc[p].ok])
  /\ Return(p)
  /\ UNCHANGED <<snapshot, effects, overlapped, cut, budget>>

Crash(p) ==
  /\ proc[p].at # "idle" /\ budget.crashes > 0
  /\ budget' = [budget EXCEPT !.crashes = @ - 1]
  /\ cut' = cut \cup (CASE proc[p].at \in {"audit", "note"} -> {<<proc[p].kind, proc[p].id>>}
                      [] proc[p].at \in {"load", "goals", "save"} -> {<<"event", proc[p].id>>}
                      [] OTHER -> {})
  /\ Return(p)
  /\ UNCHANGED <<ledger, snapshot, effects, overlapped>>

Start(p) == StartTurn(p) \/ StartOutcome(p) \/ StartAffect(p) \/ StartInterests(p)
            \/ StartClose(p) \/ StartTool(p) \/ StartDispatch(p)

Work(p) ==
  \/ Load(p) \/ RecordAffect(p) \/ Decide(p) \/ OpenGoal(p) \/ Save(p) \/ CloseGoal(p)
  \/ Execute(p) \/ Audit(p) \/ Send(p) \/ Note(p)

Next == \E p \in Processes : Start(p) \/ Work(p) \/ Crash(p)

Spec == Init /\ [][Next]_vars

-----------------------------------------------------------------------------

\* Whatever a turn, an outcome or a change of affect has put on the ledger is
\* part of the agent's state, unless its call was cut off before the state was
\* saved, or another process held an older state when it was: two calls that
\* do not overlap never lose each other's changes (core.py:95, 112-114).
StateKeepsUp ==
  \A i \in DOMAIN ledger :
    ledger[i].kind \in {"decision", "outcome", "affect"} =>
      \/ i \in snapshot \cup overlapped \/ <<"event", i>> \in cut
      \/ \E p \in Processes : /\ proc[p].id = i
                              /\ proc[p].at \in {"load", "goals", "save"}

\* A goal is closed a second time only by a caller who looked before the first
\* closing was there, or when so many have been closed since that the window
\* has forgotten it (core.py:118, 124).
ClosedAgainOnlyUnseen == UnseenOnly(ledger)

\* A tool with effects runs only on somebody's approval, or for a decision that
\* is on the ledger with the verdict allow, asked for this tool, and was carried
\* through to the saved state (runtime.py:134, core.py:88-94).
RunsOnApproval ==
  \A run \in ran :
    Risk[run.tool] # "read_only" =>
      \/ run.by = "tool" /\ run.approved
      \/ /\ run.by = "task" /\ run.id \in snapshot \cup overlapped
         /\ ledger[run.id].tool = run.tool /\ ledger[run.id].verdict = "allow"

\* What has an effect outside is on record, unless the process died in between:
\* each run of a tool with its auditor, each message on the ledger; and what is
\* recorded as blocked was never sent (tools.py:105-110, comms.py:107-115).
EffectsAudited ==
  /\ \A run \in ran :
       \/ <<run.by, run.id>> \in audits \cup cut
       \/ \E p \in Processes : proc[p].at = "audit" /\ proc[p].kind = run.by /\ proc[p].id = run.id
  /\ \A m \in delivered :
       \/ \E i \in IdsOfKind(ledger, "communication") : ledger[i].message = m /\ ledger[i].sent
       \/ <<"dispatch", m>> \in cut
       \/ \E p \in Processes : proc[p].at = "note" /\ proc[p].kind = "dispatch" /\ proc[p].id = m
  /\ \A i \in IdsOfKind(ledger, "communication") : ~ledger[i].sent => ledger[i].message \notin delivered
=============================================================================
