------------------------------ MODULE Autonomy ------------------------------
(***************************************************************************)
(* AutonomyEngine (autonomy.py) over its three durable stores, which share *)
(* one SQLite file: the event ledger (memory.py), the session table        *)
(* (session.py) and the curiosity table (curiosity.py).                    *)
(*                                                                         *)
(* Every statement that commits is a step of its own, so a crash can fall  *)
(* between any two of them.  Each session has an engine, which loses `mem' *)
(* in a crash, and a caller that pauses, stops and resumes it: between the *)
(* engine's runs, or from another process while a step is under way        *)
(* (Concurrent).  Scores are in ActivitySelection: here any candidate may  *)
(* be selected.                                                            *)
(***************************************************************************)
EXTENDS Naturals, Sequences, FiniteSets

CONSTANTS
  Sessions,        \* session ids; one engine each
  NoSession,       \* the session of an event that no session recorded
  Curiosities,     \* ids of the curiosity table
  Threshold,       \* stuck_threshold
  MaxActivities,   \* max_activities of a run
  InitialGoals,    \* goals open before the first run
  MaxGoals,        \* bound: goals opened by decisions, in all
  MaxRuns,         \* bound: runs begun, in all
  MaxCrashes,      \* bound: crashes, in all
  MaxCommands,     \* bound: pause/stop/resume calls, in all
  UseSandbox,      \* run(use_sandbox=...)
  Concurrent       \* the caller may act while a run is under way

ASSUME ThresholdAssumption == Threshold \in Nat /\ Threshold >= 2
ASSUME ActivitiesAssumption == MaxActivities \in Nat \ {0}
ASSUME GoalsAssumption == InitialGoals \in Nat /\ MaxGoals \in Nat
ASSUME BoundsAssumption == MaxRuns \in Nat /\ MaxCrashes \in Nat /\ MaxCommands \in Nat
ASSUME ModesAssumption == UseSandbox \in BOOLEAN /\ Concurrent \in BOOLEAN
ASSUME NoSessionAssumption == NoSession \notin Sessions

VARIABLES
  ledger,      \* the event table, in id order
  curiosity,   \* the status of each curiosity, "none" before it is opened
  row,         \* the session table
  mem,         \* the engine's copy of its session
  pc,          \* where the engine is in run() and _step()
  candidate,   \* the selected activity
  result,      \* its result
  hop,         \* the curiosity status the engine is about to write
  completed,   \* activities completed in this run
  op,          \* the caller's command and the row it has read
  skipped,     \* history: activities left unlived by a caller that passed over
               \* an interruption (positions of activity_started in the ledger)
  budget       \* what is left of the bounds: runs, crashes, commands, goals

stores == <<ledger, curiosity, row>>
locals == <<candidate, result, hop, completed, skipped>>
vars == <<ledger, curiosity, row, mem, pc, candidate, result, hop, completed, op, skipped, budget>>

-----------------------------------------------------------------------------
(* Data. *)

\* An activity key: "curiosity-<id>", or "goal-", "capability-" and "revisit-"
\* with an event id.  The first two of these work on a goal.
NoKey == <<"none", 0>>
GoalKinds == {"goal", "capability"}
Keys == {NoKey} \cup ({"curiosity"} \X Curiosities) \cup ((GoalKinds \cup {"revisit"}) \X Nat)

Results == {"success", "failure", "unknown"}
Kinds == {"activity_started", "activity_finished", "experience", "outcome",
          "goal_opened", "goal_closed"}

\* `ref' is the number in an experience's activity_id ("<session>-a<n>", 0 when
\* it has none), and the goal a goal_closed or a refined goal_opened refers to.
Event(kind, s, key, res, ref) ==
  [kind |-> kind, session |-> s, key |-> key, result |-> res, ref |-> ref]

CuriosityStatus == {"new", "active", "investigating", "answered", "abandoned", "reopened"}
OpenCuriosity == {"new", "active", "reopened", "investigating"}

CuriosityTransitions == [
  new           |-> {"active", "abandoned"},
  active        |-> {"investigating", "answered", "abandoned"},
  investigating |-> {"answered", "active", "abandoned"},
  answered      |-> {"reopened"},
  abandoned     |-> {"reopened"},
  reopened      |-> {"active", "investigating", "answered", "abandoned"}]

RestStatus == {"idle", "waiting", "paused"}
Terminal == {"completed", "failed", "aborted"}
MidRun == {"assessing", "selecting", "preparing", "executing", "observing",
           "recording", "reflecting", "updating"}
SessionStatus == RestStatus \cup Terminal \cup MidRun

\* AutonomySession; `sigs' is attempt_signatures.  recent_keys, hypothesis,
\* last_selection and pending only feed the selector.
FreshSession == [status |-> "idle", current |-> NoKey, sigs |-> <<>>, avoid |-> {}, counter |-> 0]

-----------------------------------------------------------------------------
(* What the engine reads off the ledger. *)

Opened == {i \in DOMAIN ledger : ledger[i].kind = "goal_opened"}
ClosedGoals == {ledger[i].ref : i \in {j \in DOMAIN ledger : ledger[j].kind = "goal_closed"}}
ActiveGoals == Opened \ ClosedGoals
Failures == {i \in DOMAIN ledger : /\ ledger[i].kind \in {"outcome", "experience"}
                                   /\ ledger[i].result = "failure"}

\* generate_activities, for the sources whose evidence this module keeps.
Candidates ==
       {<<"curiosity", c>> : c \in {d \in Curiosities : curiosity[d] \in OpenCuriosity}}
  \cup (GoalKinds \X ActiveGoals)
  \cup {<<"revisit", i>> : i \in Failures}

\* Mutant: one attempt too many is needed.
StuckLate(sigs) == /\ Len(sigs) > Threshold
                   /\ \A i \in (Len(sigs) - Threshold)..Len(sigs) : sigs[i] = sigs[Len(sigs)]

\* Mutant: the length of the window is not checked.
StuckEarly(sigs) == /\ Len(sigs) > 0
                    /\ \A i \in 1..Len(sigs) :
                         i + Threshold > Len(sigs) => sigs[i] = sigs[Len(sigs)]

\* _stuck_signatures: the last Threshold signatures are one and the same.
Stuck(sigs) == /\ Len(sigs) >= Threshold
               /\ \A i \in (Len(sigs) - Threshold + 1)..Len(sigs) : sigs[i] = sigs[Len(sigs)]

-----------------------------------------------------------------------------
Init ==
  /\ ledger = [i \in 1..InitialGoals |-> Event("goal_opened", NoSession, NoKey, "unknown", 0)]
  /\ curiosity \in [Curiosities -> {"none", "new", "active", "reopened"}]
  /\ row = [s \in Sessions |-> FreshSession]
  /\ mem = row
  /\ pc = [s \in Sessions |-> "off"]
  /\ candidate = [s \in Sessions |-> NoKey]
  /\ result = [s \in Sessions |-> "unknown"]
  /\ hop = [s \in Sessions |-> "none"]
  /\ completed = [s \in Sessions |-> 0]
  /\ op = [s \in Sessions |-> [cmd |-> "none", held |-> FreshSession]]
  /\ skipped = {}
  /\ budget = [runs |-> MaxRuns, crashes |-> MaxCrashes, commands |-> MaxCommands, goals |-> MaxGoals]

Goto(s, from, to) == /\ pc[s] = from
                     /\ pc' = [pc EXCEPT ![s] = to]

Record(e) == ledger' = Append(ledger, e)

\* SessionStore.save: the whole row is overwritten by the copy at hand.
Save(s, copy) == row' = [row EXCEPT ![s] = copy]

\* _set: the engine's copy gets the status and is saved.
SetStatus(s, status) ==
  /\ mem' = [mem EXCEPT ![s].status = status]
  /\ Save(s, [mem[s] EXCEPT !.status = status])

-----------------------------------------------------------------------------
(* run(): the loop. *)

\* The activities of s that have begun and have no experience yet.
Unlived(s) == {i \in DOMAIN ledger : /\ ledger[i].kind = "activity_started"
                                     /\ ledger[i].session = s
                                     /\ \A k \in DOMAIN ledger :
                                          k > i /\ ledger[k].kind = "experience"
                                            => ledger[k].session # s}

\* run() asks nobody to call resume_session first: an interrupted session is
\* stepped as it stands.
BeginRun(s) ==
  /\ Goto(s, "off", "loop")
  /\ Concurrent \/ op[s].cmd = "none"
  /\ skipped' = IF row[s].status \in MidRun THEN skipped \cup Unlived(s) ELSE skipped
  /\ budget.runs > 0
  /\ budget' = [budget EXCEPT !.runs = @ - 1]
  /\ completed' = [completed EXCEPT ![s] = 0]
  /\ UNCHANGED <<stores, mem, candidate, result, hop, op>>

\* Mutant: a paused session is stepped all the same.
ReloadPaused(s) ==
  /\ Goto(s, "loop", "step")
  /\ completed[s] < MaxActivities
  /\ row[s].status \notin Terminal
  /\ mem' = [mem EXCEPT ![s] = row[s]]
  /\ UNCHANGED <<stores, locals, op, budget>>

\* The row is reloaded; a stopped session ends the run, any other starts a step.
Reload(s) ==
  /\ Goto(s, "loop", "step")
  /\ completed[s] < MaxActivities
  /\ row[s].status \notin Terminal \cup {"paused"}
  /\ mem' = [mem EXCEPT ![s] = row[s]]
  /\ UNCHANGED <<stores, locals, op, budget>>

LeaveLoop(s) ==
  /\ Goto(s, "loop", "end")
  /\ completed[s] >= MaxActivities \/ row[s].status \in Terminal \cup {"paused"}
  /\ UNCHANGED <<stores, mem, locals, op, budget>>

EndRun(s) ==
  /\ Goto(s, "end", "last")
  /\ mem' = [mem EXCEPT ![s] = row[s]]
  /\ UNCHANGED <<stores, locals, op, budget>>

\* The copy just read is saved as "waiting" when the run did all it was to do.
LeaveRun(s) ==
  /\ Goto(s, "last", "off")
  /\ IF mem[s].status = "idle" /\ completed[s] >= MaxActivities
       THEN Save(s, [mem[s] EXCEPT !.status = "waiting"]) ELSE UNCHANGED row
  /\ mem' = [mem EXCEPT ![s] = FreshSession]
  /\ candidate' = [candidate EXCEPT ![s] = NoKey]
  /\ result' = [result EXCEPT ![s] = "unknown"]
  /\ completed' = [completed EXCEPT ![s] = 0]
  /\ UNCHANGED <<ledger, curiosity, hop, op, skipped, budget>>

-----------------------------------------------------------------------------
(* _step(): one activity. *)

Assess(s) ==
  /\ Goto(s, "step", "assess")
  /\ SetStatus(s, "assessing")
  /\ UNCHANGED <<ledger, curiosity, locals, op, budget>>

Wait(s) ==
  /\ Goto(s, "assess", "end")
  /\ Candidates = {}
  /\ SetStatus(s, "waiting")
  /\ UNCHANGED <<ledger, curiosity, locals, op, budget>>

\* The row is saved as "generating" and at once again as "selecting"; the
\* selection is fixed by the candidates read here.
Generate(s) ==
  /\ Goto(s, "assess", "select")
  /\ \E key \in Candidates : candidate' = [candidate EXCEPT ![s] = key]
  /\ SetStatus(s, "selecting")
  /\ UNCHANGED <<ledger, curiosity, result, hop, completed, op, skipped, budget>>

StartActivity(s) ==
  /\ Goto(s, "select", IF candidate[s][1] = "curiosity" THEN "investigate" ELSE "prepare")
  /\ mem' = [mem EXCEPT ![s].current = candidate[s]]
  /\ Record(Event("activity_started", s, candidate[s], "unknown", 0))
  /\ UNCHANGED <<curiosity, row, locals, op, budget>>

\* _move_curiosity's table, which knows more moves than the store allows.
Allowed(to) == CASE to = "investigating" -> {"new", "active", "reopened"}
                 [] to = "answered"      -> {"active", "investigating", "reopened"}
                 [] to = "active"        -> {"investigating"}

\* The next status on the way to `to', or "none" when the move is given up:
\* outside the table, or refused by the store (the ValueError is swallowed).
NextHop(status, to) ==
  IF status \in Allowed(to)
    THEN IF to \in CuriosityTransitions[status] THEN to ELSE "none"
    ELSE IF status \in {"new", "reopened"} /\ to \in {"investigating", "answered"}
           THEN "active" ELSE "none"

\* Mutant: the result is not looked at.
MoveTargetAnyResult(s) == IF pc[s] = "investigate" THEN "investigating" ELSE "answered"

MoveTarget(s) == IF pc[s] = "investigate" THEN "investigating"
                 ELSE IF result[s] = "success" THEN "answered" ELSE "active"
AfterMove(s) == IF pc[s] = "investigate" THEN "prepare" ELSE "rest"

\* Mutant: a move that is refused is tried again.
ReadCuriosityAgain(s) ==
  /\ pc[s] \in {"investigate", "conclude"}
  /\ hop[s] = "none"
  /\ hop' = [hop EXCEPT ![s] = NextHop(curiosity[candidate[s][2]], MoveTarget(s))]
  /\ UNCHANGED <<stores, mem, pc, candidate, result, completed, op, skipped, budget>>

\* _move_curiosity reads the status; CuriosityStore.transition reads it again,
\* here in the same step, checks the move and then writes: another session may
\* write in between.
ReadCuriosity(s) ==
  /\ pc[s] \in {"investigate", "conclude"}
  /\ hop[s] = "none"
  /\ LET next == NextHop(curiosity[candidate[s][2]], MoveTarget(s))
     IN  /\ hop' = [hop EXCEPT ![s] = next]
         /\ pc' = IF next = "none" THEN [pc EXCEPT ![s] = AfterMove(s)] ELSE pc
  /\ UNCHANGED <<stores, mem, candidate, result, completed, op, skipped, budget>>

WriteCuriosity(s) ==
  /\ pc[s] \in {"investigate", "conclude"}
  /\ hop[s] # "none"
  /\ curiosity' = [curiosity EXCEPT ![candidate[s][2]] = hop[s]]
  /\ pc' = IF hop[s] = MoveTarget(s) THEN [pc EXCEPT ![s] = AfterMove(s)] ELSE pc
  /\ hop' = [hop EXCEPT ![s] = "none"]
  /\ UNCHANGED <<ledger, row, mem, candidate, result, completed, op, skipped, budget>>

Prepare(s) ==
  /\ Goto(s, "prepare", "execute")
  /\ SetStatus(s, "preparing")
  /\ UNCHANGED <<ledger, curiosity, locals, op, budget>>

BeginExecute(s) ==
  /\ Goto(s, "execute", "run")
  /\ SetStatus(s, "executing")
  /\ UNCHANGED <<ledger, curiosity, locals, op, budget>>

\* _execute_sandbox: a failed experiment leaves an outcome on the ledger, a
\* denied one nothing.
ExecuteSandbox(s) ==
  /\ UseSandbox
  /\ Goto(s, "run", "observe")
  /\ \E res \in {"success", "failure"} :
       /\ result' = [result EXCEPT ![s] = res]
       /\ \/ Record(Event("outcome", NoSession, NoKey, res, 0))
          \/ res = "failure" /\ UNCHANGED ledger
  /\ UNCHANGED <<curiosity, row, mem, candidate, hop, completed, op, skipped, budget>>

\* _execute_cognitive: a turn may open a goal, even one that then fails on
\* the next goal of the same decision.
ExecuteCognitive(s) ==
  /\ ~UseSandbox
  /\ Goto(s, "run", "observe")
  /\ \E res \in {"success", "failure"} : result' = [result EXCEPT ![s] = res]
  /\ \/ UNCHANGED <<ledger, budget>>
     \/ /\ budget.goals > 0
        /\ budget' = [budget EXCEPT !.goals = @ - 1]
        /\ Record(Event("goal_opened", NoSession, NoKey, "unknown", 0))
  /\ UNCHANGED <<curiosity, row, mem, candidate, hop, completed, op, skipped>>

\* The row is saved as "observing" and at once again as "recording".
Observe(s) ==
  /\ Goto(s, "observe", "record")
  /\ SetStatus(s, "recording")
  /\ UNCHANGED <<ledger, curiosity, locals, op, budget>>

\* Mutant: the experience has the number of the activity before.
RecordExperienceLate(s) ==
  /\ Goto(s, "record", "reflect")
  /\ mem' = [mem EXCEPT ![s].sigs = Append(@, <<candidate[s], result[s]>>)]
  /\ Record(Event("experience", s, candidate[s], result[s], mem[s].counter))
  /\ UNCHANGED <<curiosity, row, locals, op, budget>>

\* The signature is appended in memory, the experience to the ledger.
RecordExperience(s) ==
  /\ Goto(s, "record", "reflect")
  /\ mem' = [mem EXCEPT ![s].sigs = Append(@, <<candidate[s], result[s]>>)]
  /\ Record(Event("experience", s, candidate[s], result[s], mem[s].counter + 1))
  /\ UNCHANGED <<curiosity, row, locals, op, budget>>

Reflect(s) ==
  /\ Goto(s, "reflect", "update")
  /\ SetStatus(s, "reflecting")
  /\ UNCHANGED <<ledger, curiosity, locals, op, budget>>

\* _harvest_curiosities opens some of what reflection found; then "updating".
Update(s) ==
  /\ Goto(s, "update", "settle")
  /\ \E new \in SUBSET {c \in Curiosities : curiosity[c] = "none"} :
       curiosity' = [c \in Curiosities |-> IF c \in new THEN "new" ELSE curiosity[c]]
  /\ SetStatus(s, "updating")
  /\ UNCHANGED <<ledger, locals, op, budget>>

\* The activity is counted and the bookmark dropped, in memory.
Count(s) == [mem[s] EXCEPT !.counter = @ + 1, !.current = NoKey]

SettleStuck(s) ==
  /\ Goto(s, "settle", "blocked")
  /\ Stuck(mem[s].sigs)
  /\ mem' = [mem EXCEPT ![s] = [Count(s) EXCEPT !.avoid = @ \cup {candidate[s]}]]
  /\ Record(Event("activity_finished", s, candidate[s], result[s], 0))
  /\ UNCHANGED <<curiosity, row, locals, op, budget>>

SettleNormal(s) ==
  /\ Goto(s, "settle", IF candidate[s][1] = "curiosity" THEN "conclude" ELSE "rest")
  /\ ~Stuck(mem[s].sigs)
  /\ mem' = [mem EXCEPT ![s] = Count(s)]
  /\ UNCHANGED <<stores, locals, op, budget>>

\* _evolve_blocked_goal and close_goal: is the goal still active?
CheckGoal(s) ==
  /\ Goto(s, "blocked", IF candidate[s][1] \in GoalKinds /\ candidate[s][2] \in ActiveGoals
                          THEN "close" ELSE "pause")
  /\ UNCHANGED <<stores, mem, locals, op, budget>>

CloseGoal(s) ==
  /\ Goto(s, "close", "refine")
  /\ Record(Event("goal_closed", NoSession, NoKey, "unknown", candidate[s][2]))
  /\ UNCHANGED <<curiosity, row, mem, locals, op, budget>>

RefineGoal(s) ==
  /\ Goto(s, "refine", "pause")
  /\ Record(Event("goal_opened", NoSession, NoKey, "unknown", candidate[s][2]))
  /\ UNCHANGED <<curiosity, row, mem, locals, op, budget>>

PauseStuck(s) ==
  /\ Goto(s, "pause", "end")
  /\ SetStatus(s, "paused")
  /\ UNCHANGED <<ledger, curiosity, locals, op, budget>>

Rest(s) ==
  /\ Goto(s, "rest", "report")
  /\ SetStatus(s, "idle")
  /\ UNCHANGED <<ledger, curiosity, locals, op, budget>>

Finish(s) ==
  /\ Goto(s, "report", "loop")
  /\ Record(Event("activity_finished", s, candidate[s], result[s], 0))
  /\ completed' = [completed EXCEPT ![s] = @ + 1]
  /\ UNCHANGED <<curiosity, row, mem, candidate, result, hop, op, skipped, budget>>

EngineStep(s) ==
  \/ Reload(s) \/ LeaveLoop(s) \/ EndRun(s) \/ LeaveRun(s) \/ Assess(s) \/ Wait(s)
  \/ Generate(s) \/ StartActivity(s) \/ ReadCuriosity(s) \/ WriteCuriosity(s) \/ Prepare(s) \/ BeginExecute(s)
  \/ ExecuteSandbox(s) \/ ExecuteCognitive(s) \/ Observe(s) \/ RecordExperience(s)
  \/ Reflect(s) \/ Update(s) \/ SettleStuck(s) \/ SettleNormal(s)
  \/ CheckGoal(s) \/ CloseGoal(s) \/ RefineGoal(s) \/ PauseStuck(s) \/ Rest(s) \/ Finish(s)

\* The process dies, or an exception other than ValueError leaves run().
Crash(s) ==
  /\ pc[s] # "off"
  /\ budget.crashes > 0
  /\ budget' = [budget EXCEPT !.crashes = @ - 1]
  /\ pc' = [pc EXCEPT ![s] = "off"]
  /\ mem' = [mem EXCEPT ![s] = FreshSession]
  /\ candidate' = [candidate EXCEPT ![s] = NoKey]
  /\ result' = [result EXCEPT ![s] = "unknown"]
  /\ hop' = [hop EXCEPT ![s] = "none"]
  /\ completed' = [completed EXCEPT ![s] = 0]
  /\ UNCHANGED <<stores, op, skipped>>

-----------------------------------------------------------------------------
(* pause(), stop() and resume_session(): read the row, record, write it back. *)

\* Mutant: only session.py's MID_ACTIVITY counts as interrupted.
CommandMidActivity(s, cmd) ==
  /\ op[s].cmd = "none"
  /\ Concurrent \/ pc[s] = "off"
  /\ budget.commands > 0
  /\ cmd = "resume" => row[s].status \notin Terminal
  /\ budget' = [budget EXCEPT !.commands = @ - 1]
  /\ op' = [op EXCEPT ![s] =
       [cmd  |-> IF cmd = "resume" /\ row[s].status \in {"preparing", "executing", "observing", "recording"}
                   THEN "recover" ELSE cmd,
        held |-> row[s]]]
  /\ UNCHANGED <<stores, mem, pc, locals>>

\* resume_session returns at once for a terminal session.
Command(s, cmd) ==
  /\ op[s].cmd = "none"
  /\ Concurrent \/ pc[s] = "off"
  /\ budget.commands > 0
  /\ cmd = "resume" => row[s].status \notin Terminal
  /\ budget' = [budget EXCEPT !.commands = @ - 1]
  /\ op' = [op EXCEPT ![s] =
       [cmd  |-> IF cmd = "resume" /\ row[s].status \in MidRun THEN "recover" ELSE cmd,
        held |-> row[s]]]
  /\ UNCHANGED <<stores, mem, pc, locals>>

\* Mutant: the interrupted activity is counted as one lived.
RecordInterruptionCounted(s) ==
  /\ op[s].cmd = "recover"
  /\ Record(Event("experience", s, op[s].held.current, "unknown", 0))
  /\ op' = [op EXCEPT ![s] = [cmd  |-> "resume",
       held |-> [op[s].held EXCEPT !.current = NoKey, !.counter = @ + 1]]]
  /\ UNCHANGED <<curiosity, row, mem, pc, locals, budget>>

\* resume_session of an interrupted session: the interruption is recorded.
RecordInterruption(s) ==
  /\ op[s].cmd = "recover"
  /\ Record(Event("experience", s, op[s].held.current, "unknown", 0))
  /\ op' = [op EXCEPT ![s] = [cmd |-> "resume", held |-> [op[s].held EXCEPT !.current = NoKey]]]
  /\ UNCHANGED <<curiosity, row, mem, pc, locals, budget>>

CommandStatus(cmd) == CASE cmd = "pause" -> "paused" [] cmd = "stop" -> "aborted"
                        [] cmd = "resume" -> "idle"

\* pause() and stop() do not look whether the session was interrupted.
SaveCommand(s) ==
  /\ op[s].cmd \in {"pause", "stop", "resume"}
  /\ skipped' = IF op[s].cmd # "resume" /\ op[s].held.status \in MidRun
                  THEN skipped \cup Unlived(s) ELSE skipped
  /\ Save(s, [op[s].held EXCEPT !.status = CommandStatus(op[s].cmd)])
  /\ op' = [op EXCEPT ![s] = [cmd |-> "none", held |-> FreshSession]]
  /\ UNCHANGED <<ledger, curiosity, mem, pc, candidate, result, hop, completed, budget>>

\* The caller's process dies between reading the row and writing it back.
CallerCrash(s) ==
  /\ op[s].cmd # "none"
  /\ budget.crashes > 0
  /\ budget' = [budget EXCEPT !.crashes = @ - 1]
  /\ op' = [op EXCEPT ![s] = [cmd |-> "none", held |-> FreshSession]]
  /\ UNCHANGED <<stores, mem, pc, locals>>

Caller(s) == \/ BeginRun(s)
             \/ \E cmd \in {"pause", "stop", "resume"} : Command(s, cmd)
             \/ RecordInterruption(s) \/ SaveCommand(s) \/ CallerCrash(s)

Next == \E s \in Sessions : EngineStep(s) \/ Crash(s) \/ Caller(s)

Spec == Init /\ [][Next]_vars

\* A run that was begun is executed: the engine is a plain synchronous loop.
FairSpec == Spec /\ \A s \in Sessions : WF_vars(EngineStep(s))

-----------------------------------------------------------------------------
(* Properties. *)

Events == [kind : Kinds, session : Sessions \cup {NoSession}, key : Keys,
           result : Results, ref : Nat]
SessionRecords == [status : SessionStatus, current : Keys, sigs : Seq(Keys \X Results),
                   avoid : SUBSET Keys, counter : Nat]
Labels == {"off", "loop", "end", "last", "step", "assess", "select", "investigate", "prepare", "execute",
           "run", "observe", "record", "reflect", "update", "settle", "conclude",
           "blocked", "close", "refine", "pause", "rest", "report"}

\* Every variable has its type.
TypeOK ==
  /\ ledger \in Seq(Events)
  /\ curiosity \in [Curiosities -> CuriosityStatus \cup {"none"}]
  /\ row \in [Sessions -> SessionRecords]
  /\ mem \in [Sessions -> SessionRecords]
  /\ pc \in [Sessions -> Labels]
  /\ candidate \in [Sessions -> Keys]
  /\ result \in [Sessions -> Results]
  /\ hop \in [Sessions -> {"none", "active", "investigating", "answered"}]
  /\ completed \in [Sessions -> Nat]
  /\ op \in [Sessions -> [cmd : {"none", "pause", "stop", "resume", "recover"},
                           held : SessionRecords]]
  /\ skipped \subseteq Nat
  /\ budget \in [runs : Nat, crashes : Nat, commands : Nat, goals : Nat]

\* The experience that makes activity <s>-a<n> count.
Lived(s, n) == \E i \in DOMAIN ledger : /\ ledger[i].kind = "experience"
                                        /\ ledger[i].session = s
                                        /\ ledger[i].result # "unknown"
                                        /\ ledger[i].ref = n

\* The bookmark never runs ahead of the narrative: every activity a durable
\* session counts has its experience on the ledger, whatever crashed and
\* whichever copy of the row was written last.
CountedActivitiesLived == \A s \in Sessions : \A n \in 1..row[s].counter : Lived(s, n)

\* A curiosity is answered only on the evidence of a successful activity on it.
AnsweredByExperience ==
  \A c \in Curiosities : curiosity[c] = "answered" =>
    \E i \in DOMAIN ledger : /\ ledger[i].kind = "experience"
                             /\ ledger[i].key = <<"curiosity", c>>
                             /\ ledger[i].result = "success"

\* Between two activities a session starts there is an experience of it: what
\* was started is either lived through or recorded as interrupted.  Only a
\* caller that runs, pauses or stops an interrupted session without resuming
\* it first, as main.py does, leaves an activity that is neither.
NoUnaccountedActivity ==
  \A i, j \in DOMAIN ledger :
    /\ i < j
    /\ ledger[i].kind = "activity_started" /\ ledger[j].kind = "activity_started"
    /\ ledger[i].session = ledger[j].session
    /\ i \notin skipped
    => \E k \in (i + 1)..(j - 1) : /\ ledger[k].kind = "experience"
                                  /\ ledger[k].session = ledger[i].session

\* No infinite retry: the attempts at the end of a session's history that are
\* identical are at most Threshold, and one more for each crash or command.
IdenticalAttemptsBounded ==
  \A s \in Sessions : \A n \in 1..Len(row[s].sigs) :
    (\A i \in n..Len(row[s].sigs) : row[s].sigs[i] = row[s].sigs[n])
    => Len(row[s].sigs) - n + 1
         <= Threshold + (MaxCrashes - budget.crashes) + (MaxCommands - budget.commands)

\* Blocked goals evolve: a goal is given up only after Threshold attempts of
\* one kind at it with one result, and is carried forward by exactly one
\* refined goal, lost only by a crash between the two events.
BlockedGoalEvolves ==
  \A g \in ClosedGoals :
    LET refined == {i \in Opened : ledger[i].ref = g}
        Attempts(s, kind, res) == {i \in DOMAIN ledger : /\ ledger[i].kind = "experience"
                                                         /\ ledger[i].session = s
                                                         /\ ledger[i].key = <<kind, g>>
                                                         /\ ledger[i].result = res}
    IN  /\ \E s \in Sessions, kind \in GoalKinds, res \in {"success", "failure"} :
             Cardinality(Attempts(s, kind, res)) >= Threshold
        /\ Cardinality(refined) <= 1
        /\ refined = {} => \/ budget.crashes < MaxCrashes
                           \/ \E s \in Sessions : pc[s] = "refine" /\ candidate[s] \in GoalKinds \X {g}

\* A paused session is left to its caller: no step of the engine unpauses it.
PausedUntilResumed ==
  [][\A s \in Sessions : row[s].status = "paused" /\ row'[s] # row[s] =>
       op[s].cmd \in {"pause", "stop", "resume"}]_row

\* A run that begins comes to an end.
RunEnds == \A s \in Sessions : pc[s] # "off" ~> pc[s] = "off"
=============================================================================
