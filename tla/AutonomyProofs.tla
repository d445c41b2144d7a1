--------------------------- MODULE AutonomyProofs ---------------------------
(* Machine-checked facts about Autonomy, for every value of its constants. *)
EXTENDS Autonomy, Integers, FiniteSetTheorems, TLAPS

-----------------------------------------------------------------------------
(* Types. *)

\* The kind of candidate the engine has in hand where it uses the id in it.
CandidateKinds ==
  \A s \in Sessions :
    /\ pc[s] \in {"investigate", "conclude"} => candidate[s] \in {"curiosity"} \X Curiosities
    /\ pc[s] \in {"close", "refine"} => candidate[s] \in GoalKinds \X Nat

LEMMA KeyTypes ==
  /\ NoKey \in Keys
  /\ \A c \in Curiosities : <<"curiosity", c>> \in Keys
  /\ GoalKinds \X Nat \subseteq Keys
  /\ \A i \in Nat : <<"revisit", i>> \in Keys
BY DEF Keys, NoKey, GoalKinds

LEMMA CandidateTypes == TypeOK => Candidates \subseteq Keys
<1> SUFFICES ASSUME TypeOK, NEW k \in Candidates PROVE k \in Keys
  OBVIOUS
<1>1. ledger \in Seq(Events) /\ DOMAIN ledger \subseteq Nat
  BY DEF TypeOK
<1>2. Opened \subseteq Nat /\ ActiveGoals \subseteq Nat /\ Failures \subseteq Nat
  BY <1>1 DEF Opened, ActiveGoals, Failures
<1> QED
  BY <1>2, KeyTypes DEF Candidates

LEMMA FreshTypes == FreshSession \in SessionRecords
BY KeyTypes DEF FreshSession, SessionRecords, SessionStatus, RestStatus

LEMMA EventTypes ==
  ASSUME NEW kind \in Kinds, NEW s \in Sessions \cup {NoSession}, NEW key \in Keys,
         NEW res \in Results, NEW ref \in Nat
  PROVE  Event(kind, s, key, res, ref) \in Events
BY DEF Event, Events

LEMMA RecordTypes ==
  ASSUME ledger \in Seq(Events), NEW e \in Events, Record(e)
  PROVE  ledger' \in Seq(Events)
BY DEF Record

\* The fields of a session record, one by one: what EXCEPT preserves.
LEMMA SessionFields ==
  \A r \in SessionRecords :
    /\ r.counter \in Nat /\ r.sigs \in Seq(Keys \X Results) /\ r.avoid \in SUBSET Keys
    /\ \A n \in Nat, k \in Keys : [r EXCEPT !.counter = n, !.current = k] \in SessionRecords
    /\ \A sg \in Seq(Keys \X Results) : [r EXCEPT !.sigs = sg] \in SessionRecords
BY DEF SessionRecords

Budgets == [runs : Nat, crashes : Nat, commands : Nat, goals : Nat]

LEMMA BudgetFields ==
  ASSUME NEW b \in Budgets
  PROVE  /\ b.runs > 0 => [b EXCEPT !.runs = @ - 1] \in Budgets
         /\ b.crashes > 0 => [b EXCEPT !.crashes = @ - 1] \in Budgets
         /\ b.commands > 0 => [b EXCEPT !.commands = @ - 1] \in Budgets
         /\ b.goals > 0 => [b EXCEPT !.goals = @ - 1] \in Budgets
<1>1. b.runs \in Nat /\ b.crashes \in Nat /\ b.commands \in Nat /\ b.goals \in Nat
  BY DEF Budgets
<1>2. \A n \in Nat : n > 0 => n - 1 \in Nat
  OBVIOUS
<1> QED
  BY <1>1, <1>2 DEF Budgets

LEMMA CountTypes ==
  ASSUME NEW s \in Sessions, mem[s] \in SessionRecords
  PROVE  Count(s) \in SessionRecords
<1>1. mem[s].counter + 1 \in Nat
  BY DEF SessionRecords
<1> QED
  BY <1>1, SessionFields, KeyTypes DEF Count

LEMMA StatusTypes ==
  ASSUME TypeOK, NEW s \in Sessions, NEW status \in SessionStatus, SetStatus(s, status)
  PROVE  mem' \in [Sessions -> SessionRecords] /\ row' \in [Sessions -> SessionRecords]
<1>. mem \in [Sessions -> SessionRecords] /\ row \in [Sessions -> SessionRecords]
  BY DEF TypeOK
<1>1. [mem[s] EXCEPT !.status = status] \in SessionRecords
  BY DEF SessionRecords
<1>2. mem' = [mem EXCEPT ![s] = [mem[s] EXCEPT !.status = status]]
  BY DEF SetStatus
<1>3. row' = [row EXCEPT ![s] = [mem[s] EXCEPT !.status = status]]
  BY DEF SetStatus, Save
<1> QED
  BY <1>1, <1>2, <1>3

LEMMA InitTypes == Init => TypeOK
<1> SUFFICES ASSUME Init PROVE TypeOK
  OBVIOUS
<1>1. ledger \in Seq(Events)
  <2>1. Event("goal_opened", NoSession, NoKey, "unknown", 0) \in Events
    BY EventTypes, KeyTypes DEF Kinds, Results
  <2> QED
    BY <2>1, GoalsAssumption DEF Init
<1>2. row \in [Sessions -> SessionRecords] /\ mem \in [Sessions -> SessionRecords]
  BY FreshTypes DEF Init
<1>3. op \in [Sessions -> [cmd : {"none", "pause", "stop", "resume", "recover"},
                           held : SessionRecords]]
  BY FreshTypes DEF Init
<1> QED
  BY <1>1, <1>2, <1>3, KeyTypes, BoundsAssumption, GoalsAssumption
  DEF Init, TypeOK, Labels, Results, CuriosityStatus

(* Each action of the engine keeps every variable in its type. *)
LEMMA EngineTypes ==
  TypeOK /\ CandidateKinds /\ (\E s \in Sessions : EngineStep(s)) => TypeOK'
<1> SUFFICES ASSUME TypeOK, CandidateKinds, NEW s \in Sessions, EngineStep(s)
             PROVE  TypeOK'
  OBVIOUS
<1> USE DEF TypeOK, stores, locals, Goto, Labels
<1>a. \A kind \in Kinds, key \in Keys, res \in Results, ref \in Nat, t \in Sessions \cup {NoSession} :
        Record(Event(kind, t, key, res, ref)) => ledger' \in Seq(Events)
  BY EventTypes, RecordTypes
<1>b. \A status \in SessionStatus : SetStatus(s, status) =>
        mem' \in [Sessions -> SessionRecords] /\ row' \in [Sessions -> SessionRecords]
  BY StatusTypes
<1>c. /\ mem[s] \in SessionRecords /\ row[s] \in SessionRecords
      /\ candidate[s] \in Keys /\ result[s] \in Results
  OBVIOUS
<1>d. pc[s] \in {"close", "refine"} => candidate[s][2] \in Nat
  BY DEF CandidateKinds
<1>1. CASE Assess(s)
  BY <1>1, <1>b DEF Assess, SessionStatus, MidRun
<1>2. CASE LeaveLoop(s)
  BY <1>2 DEF LeaveLoop
<1>3. CASE Reload(s) \/ EndRun(s)
  BY <1>3, <1>c DEF Reload, EndRun
<1>25. CASE LeaveRun(s)
  <2>1. [mem[s] EXCEPT !.status = "waiting"] \in SessionRecords
    BY <1>c DEF SessionRecords, SessionStatus, RestStatus
  <2>2. row' \in [Sessions -> SessionRecords]
    BY <1>25, <2>1 DEF LeaveRun, Save
  <2> QED
    BY <1>25, <2>2, FreshTypes, KeyTypes DEF LeaveRun, Results
<1>4. CASE Wait(s)
  BY <1>4, <1>b DEF Wait, SessionStatus, RestStatus
<1>5. CASE Generate(s)
  BY <1>5, <1>b, CandidateTypes DEF Generate, SessionStatus, MidRun
<1>6. CASE StartActivity(s)
  <2>1. [mem[s] EXCEPT !.current = candidate[s]] \in SessionRecords
    BY <1>c DEF SessionRecords
  <2>2. ledger' \in Seq(Events)
    BY <1>6, <1>a, <1>c DEF StartActivity, Kinds, Results
  <2> QED
    BY <1>6, <2>1, <2>2 DEF StartActivity
<1>7. CASE ReadCuriosity(s)
  <2>1. NextHop(curiosity[candidate[s][2]], MoveTarget(s))
          \in {"none", "active", "investigating", "answered"}
    BY DEF NextHop, MoveTarget
  <2> QED
    BY <1>7, <2>1 DEF ReadCuriosity, AfterMove
<1>8. CASE WriteCuriosity(s)
  <2>1. curiosity' \in [Curiosities -> CuriosityStatus \cup {"none"}]
    BY <1>8 DEF WriteCuriosity, CuriosityStatus
  <2> QED
    BY <1>8, <2>1 DEF WriteCuriosity, AfterMove
<1>9. CASE Prepare(s)
  BY <1>9, <1>b DEF Prepare, SessionStatus, MidRun
<1>10. CASE BeginExecute(s)
  BY <1>10, <1>b DEF BeginExecute, SessionStatus, MidRun
<1>11. CASE ExecuteSandbox(s)
  <2>1. ledger' \in Seq(Events)
    BY <1>11, <1>a, KeyTypes DEF ExecuteSandbox, Kinds, Results
  <2> QED
    BY <1>11, <2>1 DEF ExecuteSandbox, Results
<1>12. CASE ExecuteCognitive(s)
  <2>1. ledger' \in Seq(Events)
    BY <1>12, <1>a, KeyTypes DEF ExecuteCognitive, Kinds, Results
  <2>2. budget' \in Budgets
    <3>1. budget \in Budgets
      BY DEF Budgets
    <3> QED
      BY <1>12, <3>1, BudgetFields DEF ExecuteCognitive
  <2> QED
    BY <1>12, <2>1, <2>2 DEF ExecuteCognitive, Results, Budgets
<1>13. CASE Observe(s)
  BY <1>13, <1>b DEF Observe, SessionStatus, MidRun
<1>14. CASE RecordExperience(s)
  <2>1. [mem[s] EXCEPT !.sigs = Append(@, <<candidate[s], result[s]>>)] \in SessionRecords
    <3>1. Append(mem[s].sigs, <<candidate[s], result[s]>>) \in Seq(Keys \X Results)
      <4>1. /\ mem[s].sigs \in Seq(Keys \X Results)
            /\ <<candidate[s], result[s]>> \in Keys \X Results
        BY <1>c, SessionFields
      <4> HIDE DEF TypeOK
      <4> QED
        BY <4>1
    <3> QED
      BY <1>c, <3>1, SessionFields
  <2>2. mem' \in [Sessions -> SessionRecords]
    BY <1>14, <2>1 DEF RecordExperience
  <2>3. mem[s].counter + 1 \in Nat
    BY <1>c DEF SessionRecords
  <2>4. ledger' \in Seq(Events)
    BY <1>14, <1>a, <1>c, <2>3 DEF RecordExperience, Kinds
  <2> QED
    BY <1>14, <2>2, <2>4 DEF RecordExperience
<1>15. CASE Reflect(s)
  BY <1>15, <1>b DEF Reflect, SessionStatus, MidRun
<1>16. CASE Update(s)
  <2>1. curiosity' \in [Curiosities -> CuriosityStatus \cup {"none"}]
    BY <1>16 DEF Update, CuriosityStatus
  <2> QED
    BY <1>16, <1>b, <2>1 DEF Update, SessionStatus, MidRun
<1>17. CASE SettleStuck(s)
  <2>1. Count(s) \in SessionRecords
    BY <1>c, CountTypes
  <2>2. [Count(s) EXCEPT !.avoid = @ \cup {candidate[s]}] \in SessionRecords
    BY <1>c, <2>1 DEF SessionRecords
  <2>3. ledger' \in Seq(Events)
    BY <1>17, <1>a, <1>c DEF SettleStuck, Kinds
  <2> QED
    BY <1>17, <2>2, <2>3 DEF SettleStuck
<1>18. CASE SettleNormal(s)
  <2>1. Count(s) \in SessionRecords
    BY <1>c, CountTypes
  <2> QED
    BY <1>18, <2>1 DEF SettleNormal
<1>19. CASE CheckGoal(s)
  BY <1>19 DEF CheckGoal
<1>20. CASE CloseGoal(s)
  <2>1. ledger' \in Seq(Events)
    BY <1>20, <1>a, <1>d, KeyTypes DEF CloseGoal, Kinds, Results
  <2> QED
    BY <1>20, <2>1 DEF CloseGoal
<1>21. CASE RefineGoal(s)
  <2>1. ledger' \in Seq(Events)
    BY <1>21, <1>a, <1>d, KeyTypes DEF RefineGoal, Kinds, Results
  <2> QED
    BY <1>21, <2>1 DEF RefineGoal
<1>22. CASE PauseStuck(s)
  BY <1>22, <1>b DEF PauseStuck, SessionStatus, RestStatus
<1>23. CASE Rest(s)
  BY <1>23, <1>b DEF Rest, SessionStatus, RestStatus
<1>24. CASE Finish(s)
  <2>1. ledger' \in Seq(Events)
    BY <1>24, <1>a, <1>c DEF Finish, Kinds
  <2> QED
    BY <1>24, <2>1 DEF Finish
<1> QED
  BY <1>1, <1>2, <1>3, <1>4, <1>5, <1>6, <1>7, <1>8, <1>9, <1>10, <1>11, <1>12, <1>13, <1>14, <1>15, <1>16, <1>17, <1>18, <1>19, <1>20, <1>21, <1>22, <1>23, <1>24, <1>25
  DEF EngineStep

(* So do crashes and the caller's commands. *)
LEMMA OtherTypes ==
  TypeOK /\ (\E s \in Sessions : Crash(s) \/ Caller(s)) => TypeOK'
<1> SUFFICES ASSUME TypeOK, NEW s \in Sessions, Crash(s) \/ Caller(s)
             PROVE  TypeOK'
  OBVIOUS
<1> USE DEF TypeOK, stores, locals, Goto, Labels
<1>a. /\ row[s] \in SessionRecords /\ op[s].held \in SessionRecords
      /\ budget \in Budgets /\ FreshSession \in SessionRecords
  BY FreshTypes DEF Budgets
<1>1. CASE Crash(s)
  <2>1. budget' \in Budgets
    BY <1>1, <1>a, BudgetFields DEF Crash
  <2> QED
    BY <1>1, <1>a, <2>1, KeyTypes DEF Crash, Results, Budgets
<1>2. CASE BeginRun(s)
  <2>1. budget' \in Budgets
    BY <1>2, <1>a, BudgetFields DEF BeginRun
  <2>2. skipped' \subseteq Nat
    <3>1. DOMAIN ledger \subseteq Nat
      OBVIOUS
    <3> QED
      BY <1>2, <3>1 DEF BeginRun, Unlived
  <2> QED
    BY <1>2, <2>1, <2>2 DEF BeginRun, Budgets
<1>3. ASSUME NEW cmd \in {"pause", "stop", "resume"}, Command(s, cmd)
      PROVE  TypeOK'
  <2>1. budget' \in Budgets
    BY <1>3, <1>a, BudgetFields DEF Command
  <2> QED
    BY <1>3, <1>a, <2>1 DEF Command, Budgets
<1>4. CASE RecordInterruption(s)
  <2>1. op[s].held.current \in Keys
    BY <1>a DEF SessionRecords
  <2>2. Event("experience", s, op[s].held.current, "unknown", 0) \in Events
    BY <2>1, EventTypes DEF Kinds, Results
  <2>3. ledger' \in Seq(Events)
    BY <1>4, <2>2, RecordTypes DEF RecordInterruption
  <2>4. [op[s].held EXCEPT !.current = NoKey] \in SessionRecords
    BY <1>a, KeyTypes DEF SessionRecords
  <2> QED
    BY <1>4, <2>3, <2>4 DEF RecordInterruption
<1>5. CASE SaveCommand(s)
  <2>1. CommandStatus(op[s].cmd) \in SessionStatus
    BY <1>5 DEF SaveCommand, CommandStatus, SessionStatus, RestStatus, Terminal
  <2>2. [op[s].held EXCEPT !.status = CommandStatus(op[s].cmd)] \in SessionRecords
    BY <1>a, <2>1 DEF SessionRecords
  <2>3. skipped' \subseteq Nat
    <3>1. DOMAIN ledger \subseteq Nat
      OBVIOUS
    <3> QED
      BY <1>5, <3>1 DEF SaveCommand, Unlived
  <2> QED
    BY <1>5, <1>a, <2>2, <2>3 DEF SaveCommand, Save
<1>6. CASE CallerCrash(s)
  <2>1. budget' \in Budgets
    BY <1>6, <1>a, BudgetFields DEF CallerCrash
  <2> QED
    BY <1>6, <1>a, <2>1 DEF CallerCrash, Budgets
<1> QED
  BY <1>1, <1>2, <1>3, <1>4, <1>5, <1>6 DEF Caller

LEMMA KeyKinds ==
  \A k \in Keys : /\ k[1] = "curiosity" => k \in {"curiosity"} \X Curiosities
                  /\ k[1] \in GoalKinds => k \in GoalKinds \X Nat
BY DEF Keys, NoKey, GoalKinds

\* The engine never uses the id of a candidate of the wrong kind.
LEMMA StepKinds == TypeOK /\ CandidateKinds /\ [Next]_vars => CandidateKinds'
<1> SUFFICES ASSUME TypeOK, CandidateKinds, [Next]_vars PROVE CandidateKinds'
  OBVIOUS
<1>t. pc \in [Sessions -> Labels] /\ candidate \in [Sessions -> Keys]
  BY DEF TypeOK
<1>1. CASE UNCHANGED vars
  BY <1>1 DEF vars, CandidateKinds
<1>2. ASSUME NEW s \in Sessions, EngineStep(s)
      PROVE  CandidateKinds'
  <2> USE <1>t DEF CandidateKinds, Goto, stores, locals
  <2>1. CASE Generate(s)
    BY <2>1 DEF Generate
  <2>2. CASE LeaveRun(s)
    BY <2>2 DEF LeaveRun
  <2>3. CASE ReadCuriosity(s) \/ WriteCuriosity(s)
    BY <2>3 DEF ReadCuriosity, WriteCuriosity, AfterMove
  <2>4. CASE StartActivity(s) \/ SettleNormal(s) \/ CheckGoal(s) \/ CloseGoal(s)
    <3>1. /\ candidate[s][1] = "curiosity" => candidate[s] \in {"curiosity"} \X Curiosities
          /\ candidate[s][1] \in GoalKinds => candidate[s] \in GoalKinds \X Nat
      BY KeyKinds
    <3> QED
      BY <2>4, <3>1 DEF StartActivity, SettleNormal, CheckGoal, CloseGoal
  <2>5. CASE \/ Reload(s) \/ EndRun(s) \/ Assess(s) \/ LeaveLoop(s) \/ Wait(s) \/ Prepare(s) \/ BeginExecute(s)
             \/ ExecuteSandbox(s) \/ ExecuteCognitive(s) \/ Observe(s) \/ RecordExperience(s)
             \/ Reflect(s) \/ Update(s) \/ SettleStuck(s) \/ RefineGoal(s) \/ PauseStuck(s)
             \/ Rest(s) \/ Finish(s)
    BY <2>5 DEF Reload, EndRun, Assess, LeaveLoop, Wait, Prepare, BeginExecute, ExecuteSandbox,
       ExecuteCognitive, Observe, RecordExperience, Reflect, Update, SettleStuck, RefineGoal,
       PauseStuck, Rest, Finish
  <2> QED
    BY <1>2, <2>1, <2>2, <2>3, <2>4, <2>5 DEF EngineStep
<1>3. ASSUME NEW s \in Sessions, Crash(s) \/ Caller(s)
      PROVE  CandidateKinds'
  BY <1>t, <1>3 DEF CandidateKinds, Goto, stores, locals, Crash, Caller, BeginRun, Command,
     RecordInterruption, SaveCommand, CallerCrash
<1> QED
  BY <1>1, <1>2, <1>3 DEF Next

\* Every variable has its type in every reachable state.
THEOREM TypeCorrect == Spec => [](TypeOK /\ CandidateKinds)
<1>1. Init => TypeOK /\ CandidateKinds
  BY InitTypes DEF Init, CandidateKinds
<1>2. TypeOK /\ CandidateKinds /\ [Next]_vars => (TypeOK /\ CandidateKinds)'
  <2>1. TypeOK /\ UNCHANGED vars => TypeOK'
    BY DEF TypeOK, vars
  <2> QED
    BY <2>1, EngineTypes, OtherTypes, StepKinds DEF Next
<1> QED
  BY <1>1, <1>2, PTL DEF Spec

-----------------------------------------------------------------------------
(* Counted activities were lived.  The row alone is not inductive: it is   *)
(* overwritten by the engine's copy and by the caller's, so those must be  *)
(* backed too, and so must the activity the engine is about to count.      *)

\* Where the activity's result is known, and where its experience is recorded.
HasResult == {"observe", "record", "reflect", "update", "settle"}
Recorded == {"reflect", "update", "settle"}

\* Lived, over a given ledger; the first n activities have their experiences.
LivedIn(l, s, n) == \E i \in DOMAIN l : /\ l[i].kind = "experience"
                                        /\ l[i].session = s
                                        /\ l[i].result # "unknown"
                                        /\ l[i].ref = n
Backed(l, s, n) == \A m \in 1..n : LivedIn(l, s, m)

CountInv ==
  \A s \in Sessions :
    /\ Backed(ledger, s, row[s].counter)
    /\ Backed(ledger, s, mem[s].counter)
    /\ Backed(ledger, s, op[s].held.counter)
    /\ pc[s] \in HasResult => result[s] # "unknown"
    /\ pc[s] \in Recorded => LivedIn(ledger, s, mem[s].counter + 1)

\* The ledger only grows.
LEMMA LedgerGrows ==
  TypeOK /\ [Next]_vars => /\ DOMAIN ledger \subseteq DOMAIN ledger'
                          /\ \A i \in DOMAIN ledger : ledger'[i] = ledger[i]
<1> SUFFICES ASSUME TypeOK, [Next]_vars
             PROVE  /\ DOMAIN ledger \subseteq DOMAIN ledger'
                    /\ \A i \in DOMAIN ledger : ledger'[i] = ledger[i]
  OBVIOUS
<1>1. \A e : Record(e) => /\ DOMAIN ledger \subseteq DOMAIN ledger'
                          /\ \A i \in DOMAIN ledger : ledger'[i] = ledger[i]
  BY DEF Record, TypeOK
<1>2. CASE UNCHANGED ledger
  BY <1>2
<1>3. ASSUME NEW s \in Sessions, EngineStep(s)
      PROVE  UNCHANGED ledger \/ \E e : Record(e)
  BY <1>3 DEF EngineStep, stores, Reload, LeaveRun, Assess, LeaveLoop, EndRun, Wait, Generate, StartActivity,
     ReadCuriosity, WriteCuriosity, Prepare, BeginExecute, ExecuteSandbox, ExecuteCognitive,
     Observe, RecordExperience, Reflect, Update, SettleStuck, SettleNormal, CheckGoal, CloseGoal,
     RefineGoal, PauseStuck, Rest, Finish
<1>4. ASSUME NEW s \in Sessions, Crash(s) \/ Caller(s)
      PROVE  UNCHANGED ledger \/ \E e : Record(e)
  BY <1>4 DEF stores, Crash, Caller, BeginRun, Command, RecordInterruption, SaveCommand, CallerCrash
<1> QED
  BY <1>1, <1>2, <1>3, <1>4 DEF Next, vars

LEMMA LivedStays ==
  TypeOK /\ [Next]_vars =>
    \A s \in Sessions, n \in Nat : LivedIn(ledger, s, n) => LivedIn(ledger', s, n)
BY LedgerGrows DEF LivedIn

\* The experience just recorded is on the ledger.
LEMMA RecordedLives ==
  ASSUME TypeOK, NEW s \in Sessions,
         RecordExperience(s), result[s] # "unknown"
  PROVE  LivedIn(ledger', s, mem[s].counter + 1)
<1>1. /\ Len(ledger) + 1 \in DOMAIN ledger'
      /\ ledger'[Len(ledger) + 1]
           = Event("experience", s, candidate[s], result[s], mem[s].counter + 1)
  BY DEF RecordExperience, Record, TypeOK
<1> QED
  BY <1>1 DEF LivedIn, Event

LEMMA CountInit == Init => CountInv
<1>1. 1..0 = {}
  OBVIOUS
<1> QED
  BY <1>1 DEF Init, CountInv, Backed, FreshSession, HasResult, Recorded

LEMMA SessionUpdates ==
  \A r \in SessionRecords : \A x :
    /\ [r EXCEPT !.status = x].counter = r.counter
    /\ [r EXCEPT !.current = x].counter = r.counter
    /\ [r EXCEPT !.sigs = x].counter = r.counter
    /\ [r EXCEPT !.avoid = x].counter = r.counter
BY DEF SessionRecords

\* Every count is copied from another copy of the session, or is one more
\* than the engine's when it settles an activity.
LEMMA CountSources ==
  TypeOK /\ [Next]_vars =>
    \A s \in Sessions :
      /\ row'[s].counter \in {row[s].counter, mem[s].counter, op[s].held.counter}
      /\ op'[s].held.counter \in {op[s].held.counter, row[s].counter, 0}
      /\ \/ mem'[s].counter \in {mem[s].counter, row[s].counter, 0}
         \/ pc[s] = "settle" /\ mem'[s].counter = mem[s].counter + 1
<1> SUFFICES ASSUME TypeOK, [Next]_vars, NEW t \in Sessions
             PROVE  /\ row'[t].counter \in {row[t].counter, mem[t].counter, op[t].held.counter}
                    /\ op'[t].held.counter \in {op[t].held.counter, row[t].counter, 0}
                    /\ \/ mem'[t].counter \in {mem[t].counter, row[t].counter, 0}
                       \/ pc[t] = "settle" /\ mem'[t].counter = mem[t].counter + 1
  OBVIOUS
<1>t. /\ row \in [Sessions -> SessionRecords] /\ mem \in [Sessions -> SessionRecords]
      /\ op \in [Sessions -> [cmd : {"none", "pause", "stop", "resume", "recover"},
                              held : SessionRecords]]
  BY DEF TypeOK
<1>u. \A s \in Sessions : /\ mem[s] \in SessionRecords /\ row[s] \in SessionRecords
                         /\ op[s].held \in SessionRecords
  BY <1>t
<1>f. FreshSession.counter = 0
  BY DEF FreshSession
<1> USE <1>t, <1>u, <1>f, SessionUpdates DEF stores, locals, Goto
<1>1. CASE UNCHANGED vars
  BY <1>1 DEF vars
<1>2. ASSUME NEW s \in Sessions, NEW status, SetStatus(s, status)
      PROVE  /\ row'[t].counter \in {row[t].counter, mem[t].counter}
             /\ mem'[t].counter = mem[t].counter
  <2>1. [mem[s] EXCEPT !.status = status].counter = mem[s].counter
    OBVIOUS
  <2>2. CASE t = s
    BY <1>2, <2>1, <2>2 DEF SetStatus, Save
  <2>3. CASE t # s
    BY <1>2, <2>3 DEF SetStatus, Save
  <2> QED
    BY <2>2, <2>3
<1>3. ASSUME NEW s \in Sessions,
             \/ Assess(s) \/ Wait(s) \/ Generate(s) \/ Prepare(s) \/ BeginExecute(s)
             \/ Observe(s) \/ Reflect(s) \/ Update(s) \/ PauseStuck(s) \/ Rest(s)
      PROVE  op' = op /\ \E status : SetStatus(s, status)
  BY <1>3 DEF Assess, Wait, Generate, Prepare, BeginExecute, Observe, Reflect, Update, PauseStuck, Rest
<1>4. ASSUME NEW s \in Sessions, Reload(s) \/ EndRun(s)
      PROVE  op' = op /\ row' = row /\ mem'[t].counter \in {mem[t].counter, row[t].counter}
  BY <1>4 DEF Reload, EndRun
<1>5. ASSUME NEW s \in Sessions, LeaveRun(s)
      PROVE  /\ op' = op /\ row'[t].counter \in {row[t].counter, mem[t].counter}
             /\ mem'[t].counter \in {mem[t].counter, 0}
  <2>1. [mem[s] EXCEPT !.status = "waiting"].counter = mem[s].counter
    OBVIOUS
  <2> QED
    BY <1>5, <2>1 DEF LeaveRun, Save
<1>6. ASSUME NEW s \in Sessions,
             \/ LeaveLoop(s) \/ ReadCuriosity(s) \/ WriteCuriosity(s)
             \/ ExecuteSandbox(s) \/ ExecuteCognitive(s)
             \/ CheckGoal(s) \/ CloseGoal(s) \/ RefineGoal(s) \/ Finish(s)
      PROVE  row' = row /\ op' = op /\ mem' = mem
  BY <1>6 DEF LeaveLoop, ReadCuriosity, WriteCuriosity, ExecuteSandbox,
     ExecuteCognitive, CheckGoal, CloseGoal, RefineGoal, Finish
<1>7. ASSUME NEW s \in Sessions, StartActivity(s) \/ RecordExperience(s)
      PROVE  row' = row /\ op' = op /\ mem'[t].counter = mem[t].counter
  <2>1. \A x : /\ [mem[s] EXCEPT !.current = x].counter = mem[s].counter
               /\ [mem[s] EXCEPT !.sigs = x].counter = mem[s].counter
    OBVIOUS
  <2>2. CASE StartActivity(s)
    BY <2>1, <2>2 DEF StartActivity
  <2>3. CASE RecordExperience(s)
    BY <2>1, <2>3 DEF RecordExperience
  <2> QED
    BY <1>7, <2>2, <2>3
<1>8. ASSUME NEW s \in Sessions, SettleStuck(s) \/ SettleNormal(s)
      PROVE  /\ row' = row /\ op' = op
             /\ \/ mem'[t].counter = mem[t].counter
                \/ pc[t] = "settle" /\ mem'[t].counter = mem[t].counter + 1
  <2>1. Count(s) \in SessionRecords /\ Count(s).counter = mem[s].counter + 1
    BY CountTypes DEF Count, SessionRecords
  <2>2. \A x : [Count(s) EXCEPT !.avoid = x].counter = mem[s].counter + 1
    BY <2>1
  <2>3. CASE SettleStuck(s)
    BY <2>2, <2>3 DEF SettleStuck
  <2>4. CASE SettleNormal(s)
    BY <2>1, <2>4 DEF SettleNormal
  <2> QED
    BY <1>8, <2>3, <2>4
<1>9. ASSUME NEW s \in Sessions, Crash(s) \/ BeginRun(s)
      PROVE  row' = row /\ op' = op /\ mem'[t].counter \in {mem[t].counter, 0}
  BY <1>9 DEF Crash, BeginRun
<1>10. ASSUME NEW s \in Sessions, NEW cmd, Command(s, cmd)
       PROVE  row' = row /\ mem' = mem /\ op'[t].held.counter \in {op[t].held.counter, row[t].counter}
  BY <1>10 DEF Command
<1>11. ASSUME NEW s \in Sessions, RecordInterruption(s)
       PROVE  row' = row /\ mem' = mem /\ op'[t].held.counter = op[t].held.counter
  BY <1>11 DEF RecordInterruption
<1>12. ASSUME NEW s \in Sessions, SaveCommand(s)
       PROVE  /\ mem' = mem /\ row'[t].counter \in {row[t].counter, op[t].held.counter}
              /\ op'[t].held.counter \in {op[t].held.counter, 0}
  <2>1. \A x : [op[s].held EXCEPT !.status = x].counter = op[s].held.counter
    OBVIOUS
  <2> QED
    BY <1>12, <2>1 DEF SaveCommand, Save
<1>13. ASSUME NEW s \in Sessions, CallerCrash(s)
       PROVE  row' = row /\ mem' = mem /\ op'[t].held.counter \in {op[t].held.counter, 0}
  BY <1>13 DEF CallerCrash
<1> QED
  BY <1>1, <1>2, <1>3, <1>4, <1>5, <1>6, <1>7, <1>8, <1>9, <1>10, <1>11, <1>12, <1>13
  DEF Next, EngineStep, Caller

\* How an engine comes to where its result, and its experience, are there.
LEMMA ResultFlow ==
  TypeOK /\ [Next]_vars =>
    \A s \in Sessions :
      /\ pc'[s] \in HasResult => \/ pc[s] \in HasResult /\ result'[s] = result[s]
                                \/ result'[s] # "unknown"
      /\ pc'[s] \in Recorded => \/ pc[s] \in Recorded /\ mem'[s].counter = mem[s].counter
                               \/ RecordExperience(s)
<1> SUFFICES ASSUME TypeOK, [Next]_vars, NEW t \in Sessions
             PROVE  /\ pc'[t] \in HasResult => \/ pc[t] \in HasResult /\ result'[t] = result[t]
                                              \/ result'[t] # "unknown"
                    /\ pc'[t] \in Recorded => \/ pc[t] \in Recorded /\ mem'[t].counter = mem[t].counter
                                             \/ RecordExperience(t)
  OBVIOUS
<1>t. /\ mem \in [Sessions -> SessionRecords] /\ pc \in [Sessions -> Labels]
      /\ result \in [Sessions -> Results]
  BY DEF TypeOK
<1> USE <1>t DEF stores, locals, Goto, HasResult, Recorded
<1>1. CASE UNCHANGED vars
  BY <1>1 DEF vars
<1>2. ASSUME NEW s \in Sessions, NEW status, SetStatus(s, status)
      PROVE  mem'[t].counter = mem[t].counter
  <2>1. mem[s] \in SessionRecords
    OBVIOUS
  <2>2. [mem[s] EXCEPT !.status = status].counter = mem[s].counter
    BY <2>1, SessionUpdates
  <2> QED
    BY <1>2, <2>2 DEF SetStatus
<1>3. ASSUME NEW s \in Sessions,
             \/ Assess(s) \/ Wait(s) \/ Generate(s) \/ Prepare(s) \/ BeginExecute(s)
             \/ Observe(s) \/ Reflect(s) \/ Update(s) \/ PauseStuck(s) \/ Rest(s)
      PROVE  /\ result' = result /\ mem'[t].counter = mem[t].counter
             /\ pc'[t] \in HasResult => pc[t] \in HasResult
             /\ pc'[t] \in Recorded => pc[t] \in Recorded
  <2>1. mem'[t].counter = mem[t].counter
    BY <1>2, <1>3 DEF Assess, Wait, Generate, Prepare, BeginExecute, Observe, Reflect, Update,
       PauseStuck, Rest
  <2> QED
    BY <1>3, <2>1 DEF Assess, Wait, Generate, Prepare, BeginExecute, Observe, Reflect, Update, PauseStuck, Rest
<1>4. ASSUME NEW s \in Sessions,
             \/ LeaveLoop(s) \/ ReadCuriosity(s) \/ WriteCuriosity(s) \/ CheckGoal(s) \/ CloseGoal(s)
             \/ RefineGoal(s) \/ Finish(s) \/ BeginRun(s)
      PROVE  /\ result' = result /\ mem' = mem
             /\ pc'[t] \in HasResult => pc[t] \in HasResult
             /\ pc'[t] \in Recorded => pc[t] \in Recorded
  BY <1>4 DEF LeaveLoop, ReadCuriosity, WriteCuriosity, AfterMove, CheckGoal, CloseGoal, RefineGoal,
     Finish, BeginRun
<1>5. ASSUME NEW s \in Sessions,
             \/ Reload(s) \/ EndRun(s) \/ LeaveRun(s) \/ StartActivity(s)
             \/ SettleStuck(s) \/ SettleNormal(s) \/ Crash(s)
      PROVE  /\ t # s => /\ result'[t] = result[t] /\ mem'[t] = mem[t] /\ pc'[t] = pc[t]
             /\ t = s => pc'[t] \notin HasResult \cup Recorded
  BY <1>5 DEF Reload, EndRun, LeaveRun, StartActivity, SettleStuck, SettleNormal, Crash
<1>6. ASSUME NEW s \in Sessions, ExecuteSandbox(s) \/ ExecuteCognitive(s)
      PROVE  /\ mem' = mem
             /\ (t # s => result'[t] = result[t] /\ pc'[t] = pc[t])
             /\ (t = s => result'[t] # "unknown" /\ pc'[t] \notin Recorded)
  BY <1>6 DEF ExecuteSandbox, ExecuteCognitive
<1>7. ASSUME NEW s \in Sessions, RecordExperience(s)
      PROVE  /\ result' = result
             /\ (t # s => mem'[t] = mem[t] /\ pc'[t] = pc[t])
             /\ (pc'[t] \in HasResult => pc[t] \in HasResult)
  BY <1>7 DEF RecordExperience
<1>8. ASSUME NEW s \in Sessions,
             \/ \E cmd \in {"pause", "stop", "resume"} : Command(s, cmd)
             \/ RecordInterruption(s) \/ SaveCommand(s) \/ CallerCrash(s)
      PROVE  result' = result /\ mem' = mem /\ pc' = pc
  BY <1>8 DEF Command, RecordInterruption, SaveCommand, CallerCrash
<1> DEFINE Goal == /\ pc'[t] \in HasResult => \/ pc[t] \in HasResult /\ result'[t] = result[t]
                                            \/ result'[t] # "unknown"
                   /\ pc'[t] \in Recorded => \/ pc[t] \in Recorded /\ mem'[t].counter = mem[t].counter
                                           \/ RecordExperience(t)
<1> HIDE DEF stores, locals, Goto
<1>9. ASSUME NEW s \in Sessions, EngineStep(s) PROVE Goal
  <2>1. CASE \/ Assess(s) \/ Wait(s) \/ Generate(s) \/ Prepare(s) \/ BeginExecute(s)
             \/ Observe(s) \/ Reflect(s) \/ Update(s) \/ PauseStuck(s) \/ Rest(s)
    BY <1>3, <2>1
  <2>2. CASE \/ LeaveLoop(s) \/ ReadCuriosity(s) \/ WriteCuriosity(s) \/ CheckGoal(s)
             \/ CloseGoal(s) \/ RefineGoal(s) \/ Finish(s)
    BY <1>4, <2>2
  <2>3. CASE \/ Reload(s) \/ EndRun(s) \/ LeaveRun(s) \/ StartActivity(s)
             \/ SettleStuck(s) \/ SettleNormal(s)
    BY <1>5, <2>3
  <2>4. CASE ExecuteSandbox(s) \/ ExecuteCognitive(s)
    <3>1. CASE t = s
      BY <1>6, <2>4, <3>1
    <3>2. CASE t # s
      BY <1>6, <2>4, <3>2
    <3> QED
      BY <3>1, <3>2
  <2>5. CASE RecordExperience(s)
    BY <1>7, <2>5
  <2> QED
    BY <1>9, <2>1, <2>2, <2>3, <2>4, <2>5 DEF EngineStep
<1>10. ASSUME NEW s \in Sessions, Crash(s) \/ Caller(s) PROVE Goal
  BY <1>4, <1>5, <1>8, <1>10 DEF Caller
<1> QED
  BY <1>1, <1>9, <1>10 DEF Next

LEMMA CountStep == TypeOK /\ CountInv /\ [Next]_vars => CountInv'
<1> SUFFICES ASSUME TypeOK, CountInv, [Next]_vars, NEW s \in Sessions
             PROVE  /\ Backed(ledger', s, row'[s].counter)
                    /\ Backed(ledger', s, mem'[s].counter)
                    /\ Backed(ledger', s, op'[s].held.counter)
                    /\ pc'[s] \in HasResult => result'[s] # "unknown"
                    /\ pc'[s] \in Recorded => LivedIn(ledger', s, mem'[s].counter + 1)
  BY DEF CountInv
<1>t. mem[s].counter \in Nat
  BY DEF TypeOK, SessionRecords
<1>1. \A n \in Nat : LivedIn(ledger, s, n) => LivedIn(ledger', s, n)
  BY LivedStays
<1>2. \A n : Backed(ledger, s, n) => Backed(ledger', s, n)
  <2>1. \A n : \A m \in 1..n : m \in Nat
    OBVIOUS
  <2> QED
    BY <1>1, <2>1 DEF Backed
<1>3. Backed(ledger', s, 0)
  BY DEF Backed
<1>4. Backed(ledger', s, row'[s].counter) /\ Backed(ledger', s, op'[s].held.counter)
  BY <1>2, <1>3, CountSources DEF CountInv
<1>5. Backed(ledger', s, mem'[s].counter)
  <2>1. CASE mem'[s].counter \in {mem[s].counter, row[s].counter, 0}
    BY <1>2, <1>3, <2>1 DEF CountInv
  <2>2. CASE pc[s] = "settle" /\ mem'[s].counter = mem[s].counter + 1
    <3>1. LivedIn(ledger', s, mem[s].counter + 1)
      BY <1>t, <1>1, <2>2 DEF CountInv, Recorded
    <3>2. \A m \in 1..(mem[s].counter + 1) : m \in 1..mem[s].counter \/ m = mem[s].counter + 1
      BY <1>t
    <3>3. Backed(ledger', s, mem[s].counter)
      BY <1>2 DEF CountInv
    <3> QED
      BY <2>2, <3>1, <3>2, <3>3 DEF Backed
  <2> QED
    BY <2>1, <2>2, CountSources
<1>6. pc'[s] \in HasResult => result'[s] # "unknown"
  BY ResultFlow DEF CountInv
<1>7. ASSUME pc'[s] \in Recorded
      PROVE  LivedIn(ledger', s, mem'[s].counter + 1)
  <2>1. CASE pc[s] \in Recorded /\ mem'[s].counter = mem[s].counter
    BY <1>t, <1>1, <2>1 DEF CountInv
  <2>2. CASE RecordExperience(s)
    <3>1. result[s] # "unknown"
      BY <2>2 DEF RecordExperience, Goto, HasResult, CountInv
    <3>2. mem'[s].counter = mem[s].counter
      <4>1. mem[s] \in SessionRecords /\ mem \in [Sessions -> SessionRecords]
        BY DEF TypeOK
      <4>2. \A x : [mem[s] EXCEPT !.sigs = x].counter = mem[s].counter
        BY <4>1, SessionUpdates
      <4> QED
        BY <2>2, <4>1, <4>2 DEF RecordExperience
    <3> QED
      BY <2>2, <3>1, <3>2, RecordedLives
  <2> QED
    BY <1>7, <2>1, <2>2, ResultFlow
<1> QED
  BY <1>4, <1>5, <1>6, <1>7

\* Whatever crashes, whoever writes the row last: a session never counts an
\* activity that is not on the ledger.
THEOREM CountedAreLived == Spec => []CountedActivitiesLived
<1>1. Init => CountInv
  BY CountInit
<1>2. TypeOK /\ CountInv /\ [Next]_vars => CountInv'
  BY CountStep
<1>3. CountInv => CountedActivitiesLived
  BY DEF CountInv, CountedActivitiesLived, Backed, Lived, LivedIn
<1> QED
  BY <1>1, <1>2, <1>3, TypeCorrect, PTL DEF Spec

-----------------------------------------------------------------------------
(* Answered curiosities have a successful experience.  The engine decides   *)
(* to answer (hop) one step before it writes, so the decision must carry    *)
(* the evidence, from the recording of the experience on.                   *)

Evidenced == {"reflect", "update", "settle", "conclude"}

\* An experience with this key and result, over a given ledger.
ToldIn(l, key, res) == \E i \in DOMAIN l : /\ l[i].kind = "experience"
                                           /\ l[i].key = key
                                           /\ l[i].result = res

AnswerInv ==
  /\ \A c \in Curiosities :
       curiosity[c] = "answered" => ToldIn(ledger, <<"curiosity", c>>, "success")
  /\ \A s \in Sessions :
       /\ pc[s] \in Evidenced => ToldIn(ledger, candidate[s], result[s])
       /\ hop[s] = "answered" => pc[s] = "conclude" /\ result[s] = "success"

LEMMA ToldStays ==
  TypeOK /\ [Next]_vars => \A key, res : ToldIn(ledger, key, res) => ToldIn(ledger', key, res)
BY LedgerGrows DEF ToldIn

LEMMA RecordedTells ==
  ASSUME TypeOK, NEW s \in Sessions, RecordExperience(s)
  PROVE  ToldIn(ledger', candidate[s], result[s])
<1>1. /\ Len(ledger) + 1 \in DOMAIN ledger'
      /\ ledger'[Len(ledger) + 1]
           = Event("experience", s, candidate[s], result[s], mem[s].counter + 1)
  BY DEF RecordExperience, Record, TypeOK
<1> QED
  BY <1>1 DEF ToldIn, Event

\* Only two steps write to the curiosity table.
LEMMA CuriosityWriters ==
  TypeOK /\ [Next]_vars =>
    \A c \in Curiosities :
      \/ curiosity'[c] = curiosity[c]
      \/ curiosity'[c] = "new"
      \/ \E s \in Sessions : /\ pc[s] \in {"investigate", "conclude"}
                             /\ candidate[s][2] = c /\ curiosity'[c] = hop[s]
<1> SUFFICES ASSUME TypeOK, [Next]_vars, NEW c \in Curiosities
             PROVE  \/ curiosity'[c] = curiosity[c]
                    \/ curiosity'[c] = "new"
                    \/ \E s \in Sessions : /\ pc[s] \in {"investigate", "conclude"}
                                           /\ candidate[s][2] = c /\ curiosity'[c] = hop[s]
  OBVIOUS
<1>t. curiosity \in [Curiosities -> CuriosityStatus \cup {"none"}]
  BY DEF TypeOK
<1>1. CASE UNCHANGED curiosity
  BY <1>1
<1>2. ASSUME NEW s \in Sessions, Update(s)
      PROVE  curiosity'[c] = curiosity[c] \/ curiosity'[c] = "new"
  BY <1>2 DEF Update
<1>3. ASSUME NEW s \in Sessions, WriteCuriosity(s)
      PROVE  \/ curiosity'[c] = curiosity[c]
             \/ /\ pc[s] \in {"investigate", "conclude"}
                /\ candidate[s][2] = c /\ curiosity'[c] = hop[s]
  BY <1>t, <1>3 DEF WriteCuriosity
<1>4. ASSUME NEW s \in Sessions, EngineStep(s)
      PROVE  UNCHANGED curiosity \/ Update(s) \/ WriteCuriosity(s)
  BY <1>4 DEF EngineStep, stores, Reload, LeaveRun, Assess, LeaveLoop, EndRun, Wait, Generate, StartActivity,
     ReadCuriosity, Prepare, BeginExecute, ExecuteSandbox, ExecuteCognitive,
     Observe, RecordExperience, Reflect, SettleStuck, SettleNormal, CheckGoal, CloseGoal,
     RefineGoal, PauseStuck, Rest, Finish
<1>5. ASSUME NEW s \in Sessions, Crash(s) \/ Caller(s)
      PROVE  UNCHANGED curiosity
  BY <1>5 DEF stores, Crash, Caller, BeginRun, Command, RecordInterruption, SaveCommand, CallerCrash
<1> QED
  BY <1>1, <1>2, <1>3, <1>4, <1>5 DEF Next, vars

\* From the recording on, the engine keeps its candidate and its result.
LEMMA EvidenceFlow ==
  TypeOK /\ [Next]_vars =>
    \A s \in Sessions : pc'[s] \in Evidenced =>
      \/ /\ pc[s] \in Evidenced
         /\ candidate'[s] = candidate[s] /\ result'[s] = result[s]
      \/ RecordExperience(s) /\ candidate'[s] = candidate[s] /\ result'[s] = result[s]
<1> SUFFICES ASSUME TypeOK, [Next]_vars, NEW t \in Sessions, pc'[t] \in Evidenced
             PROVE  /\ candidate'[t] = candidate[t] /\ result'[t] = result[t]
                    /\ pc[t] \in Evidenced \/ RecordExperience(t)
  OBVIOUS
<1>t. /\ pc \in [Sessions -> Labels] /\ candidate \in [Sessions -> Keys]
      /\ result \in [Sessions -> Results]
  BY DEF TypeOK
<1> USE <1>t DEF stores, locals, Goto, Evidenced
<1>1. CASE UNCHANGED vars
  BY <1>1 DEF vars
<1>2. ASSUME NEW s \in Sessions,
             \/ Reload(s) \/ Assess(s) \/ LeaveLoop(s) \/ EndRun(s) \/ LeaveRun(s) \/ Wait(s)
             \/ Generate(s)
             \/ StartActivity(s) \/ Prepare(s) \/ BeginExecute(s) \/ ExecuteSandbox(s)
             \/ ExecuteCognitive(s) \/ Observe(s) \/ SettleStuck(s) \/ CheckGoal(s)
             \/ CloseGoal(s) \/ RefineGoal(s) \/ PauseStuck(s) \/ Rest(s) \/ Finish(s)
             \/ Crash(s) \/ BeginRun(s)
      PROVE  s # t /\ pc[t] = pc'[t] /\ candidate'[t] = candidate[t] /\ result'[t] = result[t]
  <2>1. s # t
    BY <1>2 DEF Reload, Assess, LeaveLoop, EndRun, LeaveRun, Wait, Generate, StartActivity, Prepare,
       BeginExecute, ExecuteSandbox, ExecuteCognitive, Observe, SettleStuck, CheckGoal, CloseGoal,
       RefineGoal, PauseStuck, Rest, Finish, Crash, BeginRun
  <2> QED
    BY <1>2, <2>1 DEF Reload, Assess, LeaveLoop, EndRun, LeaveRun, Wait, Generate, StartActivity, Prepare,
       BeginExecute, ExecuteSandbox, ExecuteCognitive, Observe, SettleStuck, CheckGoal, CloseGoal,
       RefineGoal, PauseStuck, Rest, Finish, Crash, BeginRun
<1>3. ASSUME NEW s \in Sessions,
             \/ ReadCuriosity(s) \/ WriteCuriosity(s) \/ Reflect(s) \/ Update(s)
             \/ SettleNormal(s)
      PROVE  /\ candidate' = candidate /\ result' = result
             /\ pc[t] \in Evidenced
  BY <1>3 DEF ReadCuriosity, WriteCuriosity, AfterMove, Reflect, Update, SettleNormal
<1>4. ASSUME NEW s \in Sessions, RecordExperience(s)
      PROVE  /\ candidate' = candidate /\ result' = result
             /\ s = t \/ pc[t] \in Evidenced
  BY <1>4 DEF RecordExperience
<1>5. ASSUME NEW s \in Sessions,
             \/ \E cmd \in {"pause", "stop", "resume"} : Command(s, cmd)
             \/ RecordInterruption(s) \/ SaveCommand(s) \/ CallerCrash(s)
      PROVE  candidate' = candidate /\ result' = result /\ pc' = pc
  BY <1>5 DEF Command, RecordInterruption, SaveCommand, CallerCrash
<1> HIDE DEF stores, locals, Goto
<1> QED
  BY <1>1, <1>2, <1>3, <1>4, <1>5 DEF Next, EngineStep, Caller

\* The engine decides to answer only after a success, and writes it or gives
\* it up before it does anything else.
LEMMA HopFlow ==
  TypeOK /\ AnswerInv /\ [Next]_vars =>
    \A s \in Sessions : hop'[s] = "answered" => pc'[s] = "conclude" /\ result'[s] = "success"
<1> SUFFICES ASSUME TypeOK, AnswerInv, [Next]_vars, NEW t \in Sessions, hop'[t] = "answered"
             PROVE  pc'[t] = "conclude" /\ result'[t] = "success"
  OBVIOUS
<1>t. /\ pc \in [Sessions -> Labels] /\ result \in [Sessions -> Results]
      /\ hop \in [Sessions -> {"none", "active", "investigating", "answered"}]
      /\ hop[t] = "answered" => pc[t] = "conclude" /\ result[t] = "success"
  BY DEF TypeOK, AnswerInv
<1> USE <1>t DEF stores, locals, Goto
<1>1. CASE UNCHANGED vars
  BY <1>1 DEF vars
<1>2. ASSUME NEW s \in Sessions, ReadCuriosity(s)
      PROVE  pc'[t] = "conclude" /\ result'[t] = "success"
  <2>1. CASE s = t
    <3>1. NextHop(curiosity[candidate[t][2]], MoveTarget(t)) = "answered"
      BY <1>2, <2>1 DEF ReadCuriosity
    <3>2. MoveTarget(t) = "answered"
      BY <3>1 DEF NextHop
    <3>3. pc[t] = "conclude" /\ result[t] = "success"
      BY <1>2, <2>1, <3>2 DEF ReadCuriosity, MoveTarget
    <3> QED
      BY <1>2, <2>1, <3>1, <3>3 DEF ReadCuriosity
  <2>2. CASE s # t
    BY <1>2, <2>2 DEF ReadCuriosity
  <2> QED
    BY <2>1, <2>2
<1>3. ASSUME NEW s \in Sessions, WriteCuriosity(s) \/ Crash(s)
      PROVE  pc'[t] = "conclude" /\ result'[t] = "success"
  BY <1>3 DEF WriteCuriosity, Crash
<1>4. ASSUME NEW s \in Sessions,
             \/ Reload(s) \/ Assess(s) \/ LeaveLoop(s) \/ EndRun(s) \/ LeaveRun(s) \/ Wait(s)
             \/ Generate(s)
             \/ StartActivity(s) \/ Prepare(s) \/ BeginExecute(s) \/ ExecuteSandbox(s)
             \/ ExecuteCognitive(s) \/ Observe(s) \/ RecordExperience(s) \/ Reflect(s)
             \/ Update(s) \/ SettleStuck(s) \/ SettleNormal(s) \/ CheckGoal(s)
             \/ CloseGoal(s) \/ RefineGoal(s) \/ PauseStuck(s) \/ Rest(s) \/ Finish(s)
             \/ BeginRun(s)
      PROVE  pc'[t] = "conclude" /\ result'[t] = "success"
  <2>1. hop' = hop /\ (s = t => pc[t] # "conclude")
    BY <1>4 DEF Reload, Assess, LeaveLoop, EndRun, LeaveRun, Wait, Generate, StartActivity, Prepare,
       BeginExecute, ExecuteSandbox, ExecuteCognitive, Observe, RecordExperience, Reflect,
       Update, SettleStuck, SettleNormal, CheckGoal, CloseGoal, RefineGoal, PauseStuck, Rest,
       Finish, BeginRun
  <2>2. s # t
    BY <2>1
  <2>3. pc'[t] = pc[t] /\ result'[t] = result[t]
    BY <1>4, <2>2 DEF Reload, Assess, LeaveLoop, EndRun, LeaveRun, Wait, Generate, StartActivity, Prepare,
       BeginExecute, ExecuteSandbox, ExecuteCognitive, Observe, RecordExperience, Reflect,
       Update, SettleStuck, SettleNormal, CheckGoal, CloseGoal, RefineGoal, PauseStuck, Rest,
       Finish, BeginRun
  <2> QED
    BY <2>1, <2>3
<1>5. ASSUME NEW s \in Sessions,
             \/ \E cmd \in {"pause", "stop", "resume"} : Command(s, cmd)
             \/ RecordInterruption(s) \/ SaveCommand(s) \/ CallerCrash(s)
      PROVE  pc'[t] = "conclude" /\ result'[t] = "success"
  BY <1>5 DEF Command, RecordInterruption, SaveCommand, CallerCrash
<1> HIDE DEF stores, locals, Goto
<1> QED
  BY <1>1, <1>2, <1>3, <1>4, <1>5 DEF Next, EngineStep, Caller

LEMMA AnswerInit == Init => AnswerInv
BY DEF Init, AnswerInv, Evidenced

LEMMA AnswerStep == TypeOK /\ CandidateKinds /\ AnswerInv /\ [Next]_vars => AnswerInv'
<1> SUFFICES ASSUME TypeOK, CandidateKinds, AnswerInv, [Next]_vars PROVE AnswerInv'
  OBVIOUS
<1>1. ASSUME NEW c \in Curiosities, curiosity'[c] = "answered"
      PROVE  ToldIn(ledger', <<"curiosity", c>>, "success")
  <2>1. CASE curiosity[c] = "answered"
    BY <2>1, ToldStays DEF AnswerInv
  <2>2. CASE curiosity[c] # "answered"
    <3>1. PICK s \in Sessions : /\ pc[s] \in {"investigate", "conclude"}
                                /\ candidate[s][2] = c /\ hop[s] = "answered"
      BY <1>1, <2>2, CuriosityWriters
    <3>2. pc[s] = "conclude" /\ result[s] = "success"
      BY <3>1 DEF AnswerInv
    <3>3. candidate[s] = <<"curiosity", c>>
      BY <3>1 DEF CandidateKinds
    <3>4. ToldIn(ledger, <<"curiosity", c>>, "success")
      BY <3>2, <3>3 DEF AnswerInv, Evidenced
    <3> QED
      BY <3>4, ToldStays
  <2> QED
    BY <2>1, <2>2
<1>2. ASSUME NEW s \in Sessions, pc'[s] \in Evidenced
      PROVE  ToldIn(ledger', candidate'[s], result'[s])
  <2>1. candidate'[s] = candidate[s] /\ result'[s] = result[s]
    BY <1>2, EvidenceFlow
  <2>2. CASE pc[s] \in Evidenced
    BY <2>1, <2>2, ToldStays DEF AnswerInv
  <2>3. CASE RecordExperience(s)
    BY <2>1, <2>3, RecordedTells
  <2> QED
    BY <1>2, <2>2, <2>3, EvidenceFlow
<1>3. \A s \in Sessions : hop'[s] = "answered" => pc'[s] = "conclude" /\ result'[s] = "success"
  BY HopFlow
<1> QED
  BY <1>1, <1>2, <1>3 DEF AnswerInv

\* However many engines work on one curiosity and wherever they crash, it is
\* answered only when a successful activity on it is on the ledger.
THEOREM AnsweredHaveExperience == Spec => []AnsweredByExperience
<1>1. Init => AnswerInv
  BY AnswerInit
<1>2. TypeOK /\ CandidateKinds /\ AnswerInv /\ [Next]_vars => AnswerInv'
  BY AnswerStep
<1>3. AnswerInv => AnsweredByExperience
  BY DEF AnswerInv, AnsweredByExperience, ToldIn
<1> QED
  BY <1>1, <1>2, <1>3, TypeCorrect, PTL DEF Spec

-----------------------------------------------------------------------------
(* What a step does to the control, the row and the command of a session.    *)
(* The case of every action is here once, for the invariants that follow.    *)

\* From where to where the engine goes when it saves its copy, and as what.
Writes == {<<"step", "assess", "assessing">>, <<"assess", "end", "waiting">>,
           <<"assess", "select", "selecting">>, <<"prepare", "execute", "preparing">>, <<"execute", "run", "executing">>,
           <<"observe", "record", "recording">>, <<"reflect", "update", "reflecting">>,
           <<"update", "settle", "updating">>, <<"pause", "end", "paused">>,
           <<"rest", "report", "idle">>}

\* From where to where it goes when it leaves both copies alone.
Quiet == {<<"loop", "end">>, <<"investigate", "investigate">>, <<"investigate", "prepare">>,
          <<"conclude", "conclude">>, <<"conclude", "rest">>, <<"run", "observe">>,
          <<"blocked", "close">>, <<"blocked", "pause">>, <<"close", "refine">>,
          <<"refine", "pause">>, <<"report", "loop">>}

\* A session's copy with another status.
WithStatus(r, status) == [r EXCEPT !.status = status]

LEMMA WithStatusFacts ==
  ASSUME NEW r \in SessionRecords, NEW x
  PROVE  /\ WithStatus(r, x).status = x /\ WithStatus(r, x).sigs = r.sigs
         /\ WithStatus(r, x).current = r.current /\ WithStatus(r, x).counter = r.counter
BY DEF WithStatus, SessionRecords

\* The session t is as it was.
Still(t) == pc'[t] = pc[t] /\ row'[t] = row[t] /\ mem'[t] = mem[t] /\ op'[t] = op[t]

LEMMA StepParts ==
  ASSUME TypeOK, NEW s \in Sessions, EngineStep(s) \/ Crash(s) \/ Caller(s)
  PROVE  \A t \in Sessions \ {s} : Still(t) /\ candidate'[t] = candidate[t] /\ result'[t] = result[t]
<1> SUFFICES ASSUME NEW t \in Sessions, t # s
             PROVE  Still(t) /\ candidate'[t] = candidate[t] /\ result'[t] = result[t]
  OBVIOUS
<1> USE DEF Still, stores, locals, Goto, TypeOK
<1>1. CASE \/ Reload(s) \/ LeaveLoop(s) \/ EndRun(s) \/ LeaveRun(s) \/ StartActivity(s)
           \/ ReadCuriosity(s) \/ WriteCuriosity(s)
  BY <1>1 DEF Reload, LeaveLoop, EndRun, LeaveRun, StartActivity, ReadCuriosity, WriteCuriosity, Save
<1>2. CASE \/ Assess(s) \/ Wait(s) \/ Generate(s) \/ Prepare(s) \/ BeginExecute(s)
           \/ Observe(s) \/ Reflect(s) \/ Update(s) \/ PauseStuck(s) \/ Rest(s)
  BY <1>2 DEF Assess, Wait, Generate, Prepare, BeginExecute, Observe, Reflect, Update, PauseStuck,
     Rest, SetStatus, Save
<1>3. CASE \/ ExecuteSandbox(s) \/ ExecuteCognitive(s) \/ RecordExperience(s)
           \/ SettleStuck(s) \/ SettleNormal(s)
  BY <1>3 DEF ExecuteSandbox, ExecuteCognitive, RecordExperience, SettleStuck, SettleNormal
<1>4. CASE CheckGoal(s) \/ CloseGoal(s) \/ RefineGoal(s) \/ Finish(s) \/ Crash(s)
  BY <1>4 DEF CheckGoal, CloseGoal, RefineGoal, Finish, Crash
<1>5. CASE Caller(s)
  BY <1>5 DEF Caller, BeginRun, Command, RecordInterruption, SaveCommand, CallerCrash, Save
<1> QED
  BY <1>1, <1>2, <1>3, <1>4, <1>5 DEF EngineStep


LEMMA SaveMove ==
  ASSUME TypeOK, NEW s \in Sessions,
         \/ Assess(s) \/ Wait(s) \/ Generate(s) \/ Prepare(s) \/ BeginExecute(s)
         \/ Observe(s) \/ Reflect(s) \/ Update(s) \/ PauseStuck(s) \/ Rest(s)
  PROVE  /\ UNCHANGED <<ledger, op, budget>>
         /\ \E w \in Writes : /\ pc[s] = w[1] /\ pc'[s] = w[2]
                             /\ mem'[s] = WithStatus(mem[s], w[3]) /\ row'[s] = mem'[s]
<1>1. ASSUME NEW status, SetStatus(s, status)
      PROVE  mem'[s] = WithStatus(mem[s], status) /\ row'[s] = mem'[s]
  BY <1>1 DEF SetStatus, Save, WithStatus, TypeOK
<1>2. ASSUME NEW from, NEW to, Goto(s, from, to)
      PROVE  pc[s] = from /\ pc'[s] = to
  BY <1>2 DEF Goto, TypeOK
<1>3. UNCHANGED <<ledger, op, budget>>
  BY DEF Assess, Wait, Generate, Prepare, BeginExecute, Observe, Reflect, Update, PauseStuck, Rest
<1>9. CASE Assess(s)
  BY <1>1, <1>2, <1>3, <1>9 DEF Assess, Writes
<1>4. CASE Wait(s) \/ Generate(s)
  BY <1>1, <1>2, <1>3, <1>4 DEF Wait, Generate, Writes
<1>5. CASE Prepare(s) \/ BeginExecute(s)
  BY <1>1, <1>2, <1>3, <1>5 DEF Prepare, BeginExecute, Writes
<1>6. CASE Observe(s) \/ Reflect(s)
  BY <1>1, <1>2, <1>3, <1>6 DEF Observe, Reflect, Writes
<1>7. CASE Update(s)
  BY <1>1, <1>2, <1>3, <1>7 DEF Update, Writes
<1>8. CASE PauseStuck(s) \/ Rest(s)
  BY <1>1, <1>2, <1>3, <1>8 DEF PauseStuck, Rest, Writes
<1> QED
  BY <1>9, <1>4, <1>5, <1>6, <1>7, <1>8

LEMMA QuietMove ==
  ASSUME TypeOK, NEW s \in Sessions,
         \/ LeaveLoop(s) \/ ReadCuriosity(s) \/ WriteCuriosity(s)
         \/ ExecuteSandbox(s) \/ ExecuteCognitive(s)
         \/ CheckGoal(s) \/ CloseGoal(s) \/ RefineGoal(s) \/ Finish(s),
         CandidateKinds
  PROVE  /\ row' = row /\ mem' = mem /\ op' = op /\ <<pc[s], pc'[s]>> \in Quiet
         /\ budget'.crashes = budget.crashes /\ budget'.commands = budget.commands
         /\ \/ UNCHANGED ledger
            \/ \E kind \in Kinds \ {"activity_started", "experience"},
                  u \in Sessions \cup {NoSession}, key \in Keys, res \in Results, ref \in Nat :
                 Record(Event(kind, u, key, res, ref))
<1> USE DEF stores, locals, Goto
<1>t. /\ NoKey \in Keys /\ candidate[s] \in Keys /\ result[s] \in Results
      /\ Results = {"success", "failure", "unknown"} /\ pc \in [Sessions -> Labels]
  BY KeyTypes DEF TypeOK, Results
<1>1. CASE LeaveLoop(s)
  BY <1>t, <1>1 DEF LeaveLoop, Quiet
<1>2. CASE ReadCuriosity(s) \/ WriteCuriosity(s)
  BY <1>t, <1>2 DEF ReadCuriosity, WriteCuriosity, AfterMove, Quiet
<1>3. CASE ExecuteSandbox(s) \/ ExecuteCognitive(s)
  <2>1. <<pc[s], pc'[s]>> \in Quiet /\ row' = row /\ mem' = mem /\ op' = op
    BY <1>t, <1>3 DEF ExecuteSandbox, ExecuteCognitive, Quiet
  <2>2. budget'.crashes = budget.crashes /\ budget'.commands = budget.commands
    BY <1>3 DEF ExecuteSandbox, ExecuteCognitive, TypeOK
  <2> QED
    BY <1>t, <1>3, <2>1, <2>2 DEF ExecuteSandbox, ExecuteCognitive, Kinds
<1>4. CASE CheckGoal(s)
  BY <1>t, <1>4 DEF CheckGoal, Quiet
<1>5. CASE CloseGoal(s) \/ RefineGoal(s)
  <2>1. candidate[s][2] \in Nat
    BY <1>5 DEF CloseGoal, RefineGoal, CandidateKinds
  <2> QED
    BY <1>t, <1>5, <2>1 DEF CloseGoal, RefineGoal, Quiet, Kinds
<1>6. CASE Finish(s)
  BY <1>t, <1>6 DEF Finish, Quiet, Kinds
<1> QED
  BY <1>1, <1>2, <1>3, <1>4, <1>5, <1>6

\* The other steps of the engine, and those of its caller.
LEMMA ReloadMove ==
  ASSUME TypeOK, NEW s \in Sessions, Reload(s)
  PROVE  /\ UNCHANGED <<ledger, row, op, budget>> /\ pc[s] = "loop" /\ pc'[s] = "step"
         /\ row[s].status \notin Terminal \cup {"paused"} /\ mem'[s] = row[s]
BY DEF Reload, Goto, stores, TypeOK

LEMMA EndMove ==
  ASSUME TypeOK, NEW s \in Sessions, EndRun(s)
  PROVE  /\ UNCHANGED <<ledger, row, op, budget>> /\ pc[s] = "end" /\ pc'[s] = "last"
         /\ mem'[s] = row[s]
BY DEF EndRun, Goto, stores, TypeOK

LEMMA LeaveMove ==
  ASSUME TypeOK, NEW s \in Sessions, LeaveRun(s)
  PROVE  /\ UNCHANGED <<ledger, op, budget>> /\ pc[s] = "last" /\ pc'[s] = "off"
         /\ mem'[s] = FreshSession
         /\ \/ row' = row
            \/ mem[s].status = "idle" /\ row'[s] = WithStatus(mem[s], "waiting")
BY DEF LeaveRun, Goto, Save, WithStatus, TypeOK

LEMMA StartMove ==
  ASSUME TypeOK, NEW s \in Sessions, StartActivity(s)
  PROVE  /\ UNCHANGED <<row, op, budget>>
         /\ pc[s] = "select" /\ pc'[s] \in {"investigate", "prepare"}
         /\ mem'[s] \in SessionRecords /\ mem'[s].sigs = mem[s].sigs
         /\ Record(Event("activity_started", s, candidate[s], "unknown", 0))
<1>1. mem[s] \in SessionRecords /\ candidate[s] \in Keys
  BY DEF TypeOK
<1>2. [mem[s] EXCEPT !.current = candidate[s]] \in SessionRecords
  BY <1>1 DEF SessionRecords
<1>3. mem'[s] = [mem[s] EXCEPT !.current = candidate[s]]
  BY DEF StartActivity, TypeOK
<1>4. mem'[s].sigs = mem[s].sigs
  BY <1>1, <1>3 DEF SessionRecords
<1> QED
  BY <1>2, <1>3, <1>4 DEF StartActivity, Goto, locals, TypeOK

LEMMA RecordMove ==
  ASSUME TypeOK, NEW s \in Sessions, RecordExperience(s)
  PROVE  /\ UNCHANGED <<row, op, budget, candidate, result>>
         /\ pc[s] = "record" /\ pc'[s] = "reflect"
         /\ mem'[s].sigs = Append(mem[s].sigs, <<candidate[s], result[s]>>)
         /\ Record(Event("experience", s, candidate[s], result[s], mem[s].counter + 1))
<1>1. mem[s] \in SessionRecords
  BY DEF TypeOK
<1>2. mem'[s] = [mem[s] EXCEPT !.sigs = Append(@, <<candidate[s], result[s]>>)]
  BY DEF RecordExperience, TypeOK
<1>3. mem'[s].sigs = Append(mem[s].sigs, <<candidate[s], result[s]>>)
  BY <1>1, <1>2 DEF SessionRecords
<1> QED
  BY <1>3 DEF RecordExperience, Goto, locals, TypeOK

LEMMA SettleMove ==
  ASSUME TypeOK, NEW s \in Sessions, SettleStuck(s) \/ SettleNormal(s)
  PROVE  /\ UNCHANGED <<row, op, budget, candidate, result>>
         /\ pc[s] = "settle" /\ mem'[s].sigs = mem[s].sigs
         /\ \/ Stuck(mem[s].sigs) /\ pc'[s] = "blocked"
            \/ ~Stuck(mem[s].sigs) /\ pc'[s] \in {"conclude", "rest"}
         /\ UNCHANGED ledger \/ Record(Event("activity_finished", s, candidate[s], result[s], 0))
<1>1. Count(s) \in SessionRecords /\ Count(s).sigs = mem[s].sigs
  BY CountTypes DEF TypeOK, Count, SessionRecords
<1>2. mem'[s].sigs = mem[s].sigs
  <2>1. \A x : [Count(s) EXCEPT !.avoid = x].sigs = mem[s].sigs
    BY <1>1 DEF SessionRecords
  <2>2. CASE SettleNormal(s)
    <3>1. mem'[s] = Count(s)
      BY <2>2 DEF SettleNormal, TypeOK
    <3> QED
      BY <1>1, <3>1
  <2>3. CASE SettleStuck(s)
    <3>1. mem'[s] = [Count(s) EXCEPT !.avoid = Count(s).avoid \cup {candidate[s]}]
      BY <2>3 DEF SettleStuck, TypeOK
    <3> QED
      BY <2>1, <3>1
  <2> QED
    BY <2>2, <2>3
<1>3. CASE SettleStuck(s)
  BY <1>2, <1>3 DEF SettleStuck, Goto, locals, TypeOK
<1>4. CASE SettleNormal(s)
  BY <1>2, <1>4 DEF SettleNormal, Goto, locals, stores, TypeOK
<1> QED
  BY <1>3, <1>4

LEMMA CrashMove ==
  ASSUME TypeOK, NEW s \in Sessions, Crash(s)
  PROVE  /\ UNCHANGED <<ledger, row, op>> /\ pc[s] # "off" /\ pc'[s] = "off"
         /\ mem'[s] = FreshSession
         /\ budget'.crashes = budget.crashes - 1 /\ budget'.commands = budget.commands
BY DEF Crash, stores, TypeOK

LEMMA BeginMove ==
  ASSUME TypeOK, NEW s \in Sessions, BeginRun(s)
  PROVE  /\ UNCHANGED <<ledger, row, mem, op>> /\ pc[s] = "off" /\ pc'[s] = "loop"
         /\ Concurrent \/ op[s].cmd = "none"
         /\ budget'.crashes = budget.crashes /\ budget'.commands = budget.commands
BY DEF BeginRun, Goto, stores, TypeOK

LEMMA CommandMove ==
  ASSUME TypeOK, NEW s \in Sessions, NEW cmd \in {"pause", "stop", "resume"}, Command(s, cmd)
  PROVE  /\ UNCHANGED <<ledger, row, mem, pc>> /\ op[s].cmd = "none"
         /\ Concurrent \/ pc[s] = "off"
         /\ op'[s].held = row[s] /\ op'[s].cmd \in {"pause", "stop", "resume", "recover"}
         /\ op'[s].cmd = "resume" => row[s].status \notin MidRun \cup Terminal
         /\ budget'.crashes = budget.crashes /\ budget'.commands = budget.commands - 1
BY DEF Command, stores, TypeOK

LEMMA InterruptMove ==
  ASSUME TypeOK, NEW s \in Sessions, RecordInterruption(s)
  PROVE  /\ UNCHANGED <<row, mem, pc, budget>> /\ op[s].cmd = "recover" /\ op'[s].cmd = "resume"
         /\ op'[s].held.sigs = op[s].held.sigs /\ op'[s].held.status = op[s].held.status
         /\ op[s].held.current \in Keys
         /\ Record(Event("experience", s, op[s].held.current, "unknown", 0))
<1>1. op[s].held \in SessionRecords
  BY DEF TypeOK
<1>2. op'[s] = [cmd |-> "resume", held |-> [op[s].held EXCEPT !.current = NoKey]]
  BY DEF RecordInterruption, TypeOK
<1> QED
  BY <1>1, <1>2 DEF RecordInterruption, SessionRecords

LEMMA SaveCommandMove ==
  ASSUME TypeOK, NEW s \in Sessions, SaveCommand(s)
  PROVE  /\ UNCHANGED <<ledger, mem, pc, budget>> /\ op[s].cmd \in {"pause", "stop", "resume"}
         /\ row'[s] = WithStatus(op[s].held, CommandStatus(op[s].cmd))
         /\ op'[s].cmd = "none" /\ op'[s].held = FreshSession
BY DEF SaveCommand, Save, WithStatus, TypeOK

LEMMA CallerCrashMove ==
  ASSUME TypeOK, NEW s \in Sessions, CallerCrash(s)
  PROVE  /\ UNCHANGED <<ledger, row, mem, pc>>
         /\ op'[s].cmd = "none" /\ op'[s].held = FreshSession
         /\ budget'.crashes = budget.crashes - 1 /\ budget'.commands = budget.commands
BY DEF CallerCrash, stores, TypeOK

-----------------------------------------------------------------------------
(* A paused session.  When the caller acts only between runs, the row it     *)
(* has read stays the row until it writes; the engine leaves the loop before *)
(* it has a paused row in its hands.                                         *)

\* The engine is between two activities.
Between == {"off", "loop", "end", "last"}
Underway == {"investigate", "prepare", "execute", "run", "observe", "record"}

\* A command is given between runs, and the row it read is the row still.
Commanded(at, r, o) == o.cmd # "none" => at = "off" /\ o.held.status = r.status

\* Only between runs is a row paused; in the middle of an activity it says so,
\* and at the end of a run the engine's copy is the row.
Told(at, r, m) ==
  /\ at \notin Between => r.status # "paused"
  /\ at \in {"select"} \cup Underway => r.status \in MidRun
  /\ at = "last" => m.status = r.status

RowInv ==
  \A s \in Sessions :
    /\ Commanded(pc[s], row[s], op[s])
    /\ Told(pc[s], row[s], mem[s])

LEMMA RowInit == Init => RowInv
BY DEF Init, RowInv, Commanded, Told, Between, Underway, FreshSession, MidRun

LEMMA RowStep ==
  ASSUME ~Concurrent, TypeOK, CandidateKinds, RowInv, [Next]_vars
  PROVE  RowInv'
<1>1. CASE UNCHANGED vars
  BY <1>1 DEF vars, RowInv
<1>2. ASSUME NEW s \in Sessions, EngineStep(s) \/ Crash(s) \/ Caller(s)
      PROVE  RowInv'
  <2>1. \A t \in Sessions \ {s} : Commanded(pc'[t], row'[t], op'[t]) /\ Told(pc'[t], row'[t], mem'[t])
    BY <1>2, StepParts DEF Still, RowInv
  <2>2. Commanded(pc[s], row[s], op[s]) /\ Told(pc[s], row[s], mem[s])
    BY DEF RowInv
  <2>3. \A x : WithStatus(row[s], x).status = x /\ WithStatus(mem[s], x).status = x
               /\ WithStatus(op[s].held, x).status = x
    BY WithStatusFacts DEF TypeOK
  <2> DEFINE Goal == Commanded(pc'[s], row'[s], op'[s]) /\ Told(pc'[s], row'[s], mem'[s])
  <2> USE DEF Commanded, Told, Between, Underway
  <2>4. ASSUME Reload(s) \/ EndRun(s)
        PROVE  Goal
    BY <2>2, <2>4, ReloadMove, EndMove
  <2>5. ASSUME LeaveRun(s)
        PROVE  Goal
    BY <2>2, <2>5, LeaveMove
  <2>6. ASSUME \/ Assess(s) \/ Wait(s) \/ Generate(s) \/ Prepare(s) \/ BeginExecute(s)
             \/ Observe(s) \/ Reflect(s) \/ Update(s) \/ PauseStuck(s) \/ Rest(s)
        PROVE  Goal
    BY <2>2, <2>3, <2>6, SaveMove DEF Writes, MidRun
  <2>7. ASSUME \/ LeaveLoop(s) \/ ReadCuriosity(s) \/ WriteCuriosity(s)
             \/ ExecuteSandbox(s) \/ ExecuteCognitive(s)
             \/ CheckGoal(s) \/ CloseGoal(s) \/ RefineGoal(s) \/ Finish(s)
        PROVE  Goal
    BY <2>2, <2>7, QuietMove DEF Quiet
  <2>8. ASSUME StartActivity(s) \/ RecordExperience(s)
        PROVE  Goal
    BY <2>2, <2>8, StartMove, RecordMove
  <2>9. ASSUME SettleStuck(s) \/ SettleNormal(s)
        PROVE  Goal
    BY <2>2, <2>9, SettleMove
  <2>10. ASSUME Crash(s) \/ BeginRun(s)
        PROVE  Goal
    BY <2>2, <2>10, CrashMove, BeginMove
  <2>11. ASSUME \E cmd \in {"pause", "stop", "resume"} : Command(s, cmd)
        PROVE  Goal
    BY <2>2, <2>11, CommandMove
  <2>12. ASSUME RecordInterruption(s) \/ SaveCommand(s) \/ CallerCrash(s)
        PROVE  Goal
    BY <2>2, <2>3, <2>12, InterruptMove, SaveCommandMove, CallerCrashMove
  <2>13. Goal
    BY <1>2, <2>4, <2>5, <2>6, <2>7, <2>8, <2>9, <2>10, <2>11, <2>12 DEF EngineStep, Caller
  <2> QED
    BY <2>1, <2>13 DEF RowInv
<1> QED
  BY <1>1, <1>2 DEF Next

\* With the caller's commands between runs, no step of the engine touches a
\* paused row: only a command that was given does.
THEOREM PausedIsLeftAlone == ASSUME ~Concurrent PROVE Spec => PausedUntilResumed
<1>1. RowInv /\ TypeOK /\ CandidateKinds /\ [Next]_vars =>
        [\A s \in Sessions : row[s].status = "paused" /\ row'[s] # row[s] =>
           op[s].cmd \in {"pause", "stop", "resume"}]_row
  <2> SUFFICES ASSUME RowInv, TypeOK, CandidateKinds, [Next]_vars, NEW t \in Sessions,
                      row[t].status = "paused", row'[t] # row[t]
               PROVE  op[t].cmd \in {"pause", "stop", "resume"}
    OBVIOUS
  <2>1. CASE UNCHANGED vars
    BY <2>1 DEF vars
  <2>2. ASSUME NEW s \in Sessions, EngineStep(s) \/ Crash(s) \/ Caller(s)
        PROVE  op[t].cmd \in {"pause", "stop", "resume"}
    <3>1. s = t
      BY <2>2, StepParts DEF Still
    <3>2. pc[s] \in Between
      BY <3>1 DEF RowInv, Told
    <3>3. Reload(s) \/ EndRun(s) => row' = row
      BY ReloadMove, EndMove
    <3>4. LeaveRun(s) => row' = row
      <4>1. pc[s] = "last" => mem[s].status = "paused"
        BY <3>1 DEF RowInv, Told
      <4> QED
        BY <4>1, LeaveMove
    <3>5. ~(\/ Assess(s) \/ Wait(s) \/ Generate(s) \/ Prepare(s) \/ BeginExecute(s)
            \/ Observe(s) \/ Reflect(s) \/ Update(s) \/ PauseStuck(s) \/ Rest(s))
      BY <3>2, SaveMove DEF Writes, Between
    <3>6. (\/ LeaveLoop(s) \/ ReadCuriosity(s) \/ WriteCuriosity(s)
           \/ ExecuteSandbox(s) \/ ExecuteCognitive(s)
           \/ CheckGoal(s) \/ CloseGoal(s) \/ RefineGoal(s) \/ Finish(s)) => row' = row
      BY QuietMove
    <3>7. (\/ StartActivity(s) \/ RecordExperience(s) \/ SettleStuck(s) \/ SettleNormal(s)
           \/ Crash(s) \/ BeginRun(s)) => row' = row
      BY StartMove, RecordMove, SettleMove, CrashMove, BeginMove
    <3>8. /\ \A cmd \in {"pause", "stop", "resume"} : Command(s, cmd) => row' = row
          /\ RecordInterruption(s) \/ CallerCrash(s) => row' = row
      BY CommandMove, InterruptMove, CallerCrashMove
    <3>9. SaveCommand(s)
      BY <2>2, <3>1, <3>3, <3>4, <3>5, <3>6, <3>7, <3>8 DEF EngineStep, Caller
    <3> QED
      BY <3>1, <3>9, SaveCommandMove
  <2> QED
    BY <2>1, <2>2 DEF Next
<1> QED
  BY <1>1, RowInit, RowStep, TypeCorrect, PTL DEF Spec, PausedUntilResumed

-----------------------------------------------------------------------------
(* No infinite retry.  Each copy of a session ends in a tail of identical    *)
(* attempts.  A session that is stuck is paused; what lets it try again      *)
(* spends a command or a crash, whoever wrote the row last.                  *)

\* The attempts at the end of a history that are one and the same are at most b.
TailIs(sigs, b) ==
  \A n \in 1..Len(sigs) :
    (\A i \in n..Len(sigs) : sigs[i] = sigs[n]) => Len(sigs) - n + 1 <= b

\* What the crashes and commands so far allow.
Spent(b) == (MaxCrashes - b.crashes) + (MaxCommands - b.commands)
BudgetInv == budget.crashes <= MaxCrashes /\ budget.commands <= MaxCommands

\* The engine has recorded an attempt that it has not judged, or that is stuck.
Attempted == {"reflect", "update", "settle", "blocked", "close", "refine", "pause"}

Patient(at, r, m, o, k) ==
  /\ TailIs(r.sigs, k + 1)
  /\ r.status # "paused" /\ at \notin Attempted \cup {"conclude", "rest"} => TailIs(r.sigs, k)
  /\ at \notin Between => TailIs(m.sigs, k + 1)
  /\ at \notin Between \cup Attempted => TailIs(m.sigs, k)
  /\ at = "last" => TailIs(m.sigs, k + 1) /\ (m.status # "paused" => TailIs(m.sigs, k))
  /\ o.cmd # "none" => TailIs(o.held.sigs, k)

Allowance(b) == Threshold - 1 + Spent(b)
TailInv ==
  /\ BudgetInv
  /\ \A s \in Sessions : Patient(pc[s], row[s], mem[s], op[s], Allowance(budget))

SigSeqs == Seq(Keys \X Results)

LEMMA TailMore ==
  ASSUME NEW sigs \in SigSeqs, NEW a \in Int, NEW b \in Int, a <= b, TailIs(sigs, a)
  PROVE  TailIs(sigs, b)
<1> SUFFICES ASSUME NEW n \in 1..Len(sigs), \A i \in n..Len(sigs) : sigs[i] = sigs[n]
             PROVE  Len(sigs) - n + 1 <= b
  BY DEF TailIs
<1>1. Len(sigs) - n + 1 <= a /\ Len(sigs) \in Nat /\ n \in Int
  BY DEF TailIs, SigSeqs
<1> QED
  BY <1>1

\* One more attempt makes the tail at most one longer.
LEMMA TailAppend ==
  ASSUME NEW sigs \in SigSeqs, NEW e \in Keys \X Results, NEW b \in Nat, TailIs(sigs, b)
  PROVE  TailIs(Append(sigs, e), b + 1)
<1> DEFINE new == Append(sigs, e)
<1>1. /\ Len(new) = Len(sigs) + 1 /\ Len(sigs) \in Nat
      /\ \A i \in 1..Len(sigs) : new[i] = sigs[i]
  BY DEF SigSeqs
<1> HIDE DEF new
<1>2. ASSUME NEW n \in 1..Len(new), \A i \in n..Len(new) : new[i] = new[n]
      PROVE  Len(new) - n + 1 <= b + 1
  <2>1. CASE n = Len(new)
    BY <1>1, <2>1
  <2>2. CASE n # Len(new)
    <3>1. n \in 1..Len(sigs)
      BY <1>1, <2>2
    <3>2. \A i \in n..Len(sigs) : sigs[i] = sigs[n]
      <4> SUFFICES ASSUME NEW i \in n..Len(sigs) PROVE sigs[i] = sigs[n]
        OBVIOUS
      <4>1. i \in n..Len(new) /\ i \in 1..Len(sigs)
        BY <1>1, <3>1
      <4>2. new[i] = new[n]
        BY <1>2, <4>1
      <4> QED
        BY <1>1, <3>1, <4>1, <4>2
    <3>3. Len(sigs) - n + 1 <= b
      BY <3>1, <3>2 DEF TailIs
    <3> QED
      BY <1>1, <3>1, <3>3
  <2> QED
    BY <2>1, <2>2
<1> QED
  BY <1>2 DEF TailIs, new

\* A session that is not stuck has a shorter tail than the threshold.
LEMMA NotStuckTail ==
  ASSUME NEW sigs \in SigSeqs, ~Stuck(sigs)
  PROVE  TailIs(sigs, Threshold - 1)
<1> SUFFICES ASSUME NEW n \in 1..Len(sigs), \A i \in n..Len(sigs) : sigs[i] = sigs[n],
                    ~(Len(sigs) - n + 1 <= Threshold - 1)
             PROVE  FALSE
  BY DEF TailIs
<1>1. Len(sigs) \in Nat /\ Threshold \in Nat /\ Threshold >= 2
  BY ThresholdAssumption DEF SigSeqs
<1>2. Len(sigs) >= Threshold /\ n <= Len(sigs) - Threshold + 1
  BY <1>1
<1>3. Len(sigs) \in n..Len(sigs)
  BY <1>1
<1>4. ASSUME NEW i \in (Len(sigs) - Threshold + 1)..Len(sigs) PROVE sigs[i] = sigs[Len(sigs)]
  <2>1. i \in n..Len(sigs)
    BY <1>1, <1>2
  <2> QED
    BY <1>3, <2>1
<1> QED
  BY <1>2, <1>4 DEF Stuck

LEMMA EmptyTail == \A b : TailIs(<<>>, b)
BY DEF TailIs

LEMMA TailInit == Init => TailInv
<1> SUFFICES ASSUME Init PROVE TailInv
  OBVIOUS
<1>1. BudgetInv
  BY BoundsAssumption DEF Init, BudgetInv
<1>2. \A s \in Sessions : pc[s] = "off" /\ op[s].cmd = "none" /\ row[s].sigs = <<>>
  BY DEF Init, FreshSession
<1> QED
  BY <1>1, <1>2, EmptyTail DEF TailInv, Patient, Between

LEMMA AllowanceFacts ==
  ASSUME TypeOK, BudgetInv
  PROVE  Allowance(budget) \in Nat /\ Allowance(budget) >= Threshold - 1 /\ Threshold \in Nat
<1>1. /\ budget.crashes \in Nat /\ budget.commands \in Nat /\ MaxCrashes \in Nat /\ MaxCommands \in Nat
      /\ Threshold \in Nat /\ Threshold >= 2
  BY ThresholdAssumption, BoundsAssumption DEF TypeOK
<1> QED
  BY <1>1 DEF Allowance, Spent, BudgetInv

\* What is allowed never shrinks, and a crash or a command allows one more.
LEMMA AllowanceGrows ==
  ASSUME TypeOK, BudgetInv
  PROVE  /\ budget'.crashes = budget.crashes /\ budget'.commands = budget.commands =>
              BudgetInv' /\ Allowance(budget') = Allowance(budget)
         /\ \/ budget'.crashes = budget.crashes - 1 /\ budget'.commands = budget.commands
            \/ budget'.crashes = budget.crashes /\ budget'.commands = budget.commands - 1
            => BudgetInv' /\ Allowance(budget') = Allowance(budget) + 1
<1>1. /\ budget.crashes \in Nat /\ budget.commands \in Nat /\ MaxCrashes \in Nat /\ MaxCommands \in Nat
      /\ Threshold \in Nat
  BY ThresholdAssumption, BoundsAssumption DEF TypeOK
<1> QED
  BY <1>1 DEF Allowance, Spent, BudgetInv

LEMMA BudgetSteps ==
  ASSUME TypeOK, CandidateKinds, NEW s \in Sessions, EngineStep(s) \/ Crash(s) \/ Caller(s)
  PROVE  \/ budget'.crashes = budget.crashes /\ budget'.commands = budget.commands
         \/ budget'.crashes = budget.crashes - 1 /\ budget'.commands = budget.commands
         \/ budget'.crashes = budget.crashes /\ budget'.commands = budget.commands - 1
<1> DEFINE Goal == \/ budget'.crashes = budget.crashes /\ budget'.commands = budget.commands
                   \/ budget'.crashes = budget.crashes - 1 /\ budget'.commands = budget.commands
                   \/ budget'.crashes = budget.crashes /\ budget'.commands = budget.commands - 1
<1>1. UNCHANGED budget => Goal
  OBVIOUS
<1>2. ASSUME \/ Reload(s) \/ EndRun(s) \/ LeaveRun(s) \/ StartActivity(s) \/ RecordExperience(s)
             \/ SettleStuck(s) \/ SettleNormal(s)
      PROVE  Goal
  BY <1>1, <1>2, ReloadMove, EndMove, LeaveMove, StartMove, RecordMove, SettleMove
<1>3. ASSUME \/ Assess(s) \/ Wait(s) \/ Generate(s) \/ Prepare(s) \/ BeginExecute(s)
             \/ Observe(s) \/ Reflect(s) \/ Update(s) \/ PauseStuck(s) \/ Rest(s)
      PROVE  Goal
  BY <1>1, <1>3, SaveMove
<1>4. ASSUME \/ LeaveLoop(s) \/ ReadCuriosity(s) \/ WriteCuriosity(s)
             \/ ExecuteSandbox(s) \/ ExecuteCognitive(s)
             \/ CheckGoal(s) \/ CloseGoal(s) \/ RefineGoal(s) \/ Finish(s)
      PROVE  Goal
  BY <1>4, QuietMove
<1>5. ASSUME Crash(s) \/ BeginRun(s) \/ CallerCrash(s)
      PROVE  Goal
  BY <1>5, CrashMove, BeginMove, CallerCrashMove
<1>6. ASSUME \/ \E cmd \in {"pause", "stop", "resume"} : Command(s, cmd)
             \/ RecordInterruption(s) \/ SaveCommand(s)
      PROVE  Goal
  BY <1>1, <1>6, CommandMove, InterruptMove, SaveCommandMove
<1> QED
  BY <1>2, <1>3, <1>4, <1>5, <1>6 DEF EngineStep, Caller

LEMMA TailStep ==
  ASSUME TypeOK, CandidateKinds, TailInv, [Next]_vars
  PROVE  TailInv'
<1>1. CASE UNCHANGED vars
  BY <1>1 DEF vars, TailInv, BudgetInv
<1>2. ASSUME NEW s \in Sessions, EngineStep(s) \/ Crash(s) \/ Caller(s)
      PROVE  TailInv'
  <2> DEFINE k == Allowance(budget)  new == Allowance(budget')
  <2>1. /\ k \in Nat /\ k >= Threshold - 1 /\ BudgetInv' /\ new \in {k, k + 1}
        /\ budget'.crashes = budget.crashes /\ budget'.commands = budget.commands => new = k
        /\ \/ budget'.crashes = budget.crashes - 1 /\ budget'.commands = budget.commands
           \/ budget'.crashes = budget.crashes /\ budget'.commands = budget.commands - 1
           => new = k + 1
    BY <1>2, AllowanceFacts, AllowanceGrows, BudgetSteps DEF TailInv
  <2> HIDE DEF k, new
  <2>2. \A t \in Sessions : Patient(pc[t], row[t], mem[t], op[t], k)
    BY DEF TailInv, k
  <2>3. \A t \in Sessions : /\ row[t].sigs \in SigSeqs /\ mem[t].sigs \in SigSeqs
                            /\ op[t].held.sigs \in SigSeqs
    BY DEF TypeOK, SessionRecords, SigSeqs
  <2>4. \A sigs \in SigSeqs : /\ TailIs(sigs, k) => TailIs(sigs, new) /\ TailIs(sigs, k + 1)
                              /\ TailIs(sigs, k + 1) => TailIs(sigs, new + 1)
    BY <2>1, TailMore
  <2>5. \A t \in Sessions \ {s} : Patient(pc'[t], row'[t], mem'[t], op'[t], new)
    BY <1>2, <2>2, <2>3, <2>4, StepParts DEF Still, Patient
  <2>6. \A x : WithStatus(row[s], x).sigs = row[s].sigs /\ WithStatus(row[s], x).status = x
    BY WithStatusFacts DEF TypeOK
  <2>7. \A x : WithStatus(mem[s], x).sigs = mem[s].sigs /\ WithStatus(mem[s], x).status = x
    BY WithStatusFacts DEF TypeOK
  <2>8. \A x : WithStatus(op[s].held, x).sigs = op[s].held.sigs
    BY WithStatusFacts DEF TypeOK
  <2>9. FreshSession.sigs = <<>> /\ \A b : TailIs(<<>>, b)
    BY EmptyTail DEF FreshSession
  <2>10. Patient(pc[s], row[s], mem[s], op[s], k)
    BY <2>2
  <2>11. \A sigs \in SigSeqs : TailIs(sigs, k) => TailIs(sigs, k + 1)
    BY <2>4
  <2> DEFINE Goal == Patient(pc'[s], row'[s], mem'[s], op'[s], new)
  <2> USE DEF Patient, Between, Attempted
  <2>12. ASSUME Reload(s) \/ EndRun(s)
         PROVE  Goal
    BY <2>1, <2>10, <2>12, ReloadMove, EndMove
  <2>13. ASSUME LeaveRun(s)
         PROVE  Goal
    BY <2>1, <2>7, <2>9, <2>10, <2>13, LeaveMove
  <2>14. ASSUME \/ Assess(s) \/ Wait(s) \/ Generate(s) \/ Prepare(s) \/ BeginExecute(s)
                \/ Observe(s) \/ Reflect(s) \/ Update(s) \/ PauseStuck(s) \/ Rest(s)
         PROVE  Goal
    BY <2>1, <2>3, <2>7, <2>10, <2>11, <2>14, SaveMove DEF Writes
  <2>15. ASSUME \/ LeaveLoop(s) \/ ReadCuriosity(s) \/ WriteCuriosity(s)
                \/ ExecuteSandbox(s) \/ ExecuteCognitive(s)
                \/ CheckGoal(s) \/ CloseGoal(s) \/ RefineGoal(s) \/ Finish(s)
         PROVE  Goal
    BY <2>1, <2>10, <2>15, QuietMove DEF Quiet
  <2>16. ASSUME StartActivity(s)
         PROVE  Goal
    BY <2>1, <2>10, <2>16, StartMove
  <2>17. ASSUME RecordExperience(s)
         PROVE  Goal
    <3>1. TailIs(mem'[s].sigs, k + 1)
      <4>1. <<candidate[s], result[s]>> \in Keys \X Results
        BY DEF TypeOK
      <4>2. TailIs(mem[s].sigs, k)
        BY <2>10, <2>17, RecordMove
      <4> QED
        BY <2>1, <2>3, <2>17, <4>1, <4>2, RecordMove, TailAppend
    <3> QED
      BY <2>1, <2>10, <2>17, <3>1, RecordMove
  <2>18. ASSUME SettleStuck(s) \/ SettleNormal(s)
         PROVE  Goal
    <3>1. ~Stuck(mem[s].sigs) => TailIs(mem[s].sigs, k)
      <4>1. ~Stuck(mem[s].sigs) => TailIs(mem[s].sigs, Threshold - 1)
        BY <2>3, NotStuckTail
      <4> QED
        BY <2>1, <2>3, <4>1, TailMore, ThresholdAssumption
    <3> QED
      BY <2>1, <2>10, <2>18, <3>1, SettleMove
  <2>19. ASSUME Crash(s)
         PROVE  Goal
    <3>1. new = k + 1 /\ row' = row /\ op' = op /\ pc'[s] = "off"
      BY <2>1, <2>19, CrashMove
    <3>2. TailIs(row[s].sigs, new) /\ (op[s].cmd # "none" => TailIs(op[s].held.sigs, new))
      BY <2>3, <2>10, <2>11, <3>1
    <3>3. TailIs(row[s].sigs, new + 1)
      BY <2>3, <2>4, <2>10
    <3> QED
      BY <3>1, <3>2, <3>3
  <2>20. ASSUME BeginRun(s)
         PROVE  Goal
    BY <2>1, <2>10, <2>20, BeginMove
  <2>21. ASSUME \/ \E cmd \in {"pause", "stop", "resume"} : Command(s, cmd)
                \/ CallerCrash(s)
         PROVE  Goal
    <3>1. /\ new = k + 1 /\ row' = row /\ mem' = mem /\ pc' = pc
          /\ op'[s].held = row[s] \/ op'[s].cmd = "none"
      BY <2>1, <2>21, CommandMove, CallerCrashMove
    <3>2. TailIs(row[s].sigs, new)
      BY <2>10, <3>1
    <3> QED
      BY <2>3, <2>4, <2>10, <3>1, <3>2
  <2>22. ASSUME RecordInterruption(s)
         PROVE  Goal
    BY <2>1, <2>10, <2>22, InterruptMove
  <2>23. ASSUME SaveCommand(s)
         PROVE  Goal
    <3>1. TailIs(op[s].held.sigs, k) /\ TailIs(op[s].held.sigs, k + 1)
      BY <2>3, <2>10, <2>11, <2>23, SaveCommandMove
    <3> QED
      BY <2>1, <2>8, <2>10, <2>23, <3>1, SaveCommandMove
  <2>24. Goal
    BY <1>2, <2>12, <2>13, <2>14, <2>15, <2>16, <2>17, <2>18, <2>19, <2>20, <2>21, <2>22, <2>23
    DEF EngineStep, Caller
  <2> QED
    BY <2>1, <2>5, <2>24 DEF TailInv, new
<1> QED
  BY <1>1, <1>2 DEF Next

\* However often a session is resumed, and whichever copy of it is written
\* last: its history never ends in more identical attempts than the threshold,
\* the crashes and the commands account for.
THEOREM RetriesAreBounded == Spec => []IdenticalAttemptsBounded
<1>1. TailInv /\ TypeOK => IdenticalAttemptsBounded
  <2> SUFFICES ASSUME TailInv, TypeOK, NEW s \in Sessions, NEW n \in 1..Len(row[s].sigs),
                      \A i \in n..Len(row[s].sigs) : row[s].sigs[i] = row[s].sigs[n]
               PROVE  Len(row[s].sigs) - n + 1
                        <= Threshold + (MaxCrashes - budget.crashes) + (MaxCommands - budget.commands)
    BY DEF IdenticalAttemptsBounded
  <2>1. Len(row[s].sigs) - n + 1 <= Allowance(budget) + 1
    BY DEF TailInv, Patient, TailIs
  <2>2. /\ budget.crashes \in Nat /\ budget.commands \in Nat /\ MaxCrashes \in Nat
        /\ MaxCommands \in Nat /\ Threshold \in Nat
    BY ThresholdAssumption, BoundsAssumption DEF TypeOK
  <2> DEFINE length == Len(row[s].sigs) - n + 1
  <2>3. length \in Int
    <3>1. row[s].sigs \in SigSeqs
      BY DEF TypeOK, SessionRecords, SigSeqs
    <3>2. Len(row[s].sigs) \in Nat /\ n \in Int
      BY <3>1 DEF SigSeqs
    <3> QED
      BY <3>2
  <2>4. length <= Allowance(budget) + 1
    BY <2>1
  <2> DEFINE crashes == budget.crashes
             commands == budget.commands
  <2>5. /\ crashes \in Nat /\ commands \in Nat
        /\ length <= (Threshold - 1 + ((MaxCrashes - crashes) + (MaxCommands - commands))) + 1
    BY <2>2, <2>4 DEF Allowance, Spent
  <2> HIDE DEF length, crashes, commands
  <2>6. length <= Threshold + (MaxCrashes - crashes) + (MaxCommands - commands)
    BY <2>2, <2>3, <2>5
  <2> QED
    BY <2>6 DEF length, crashes, commands
<1> QED
  BY <1>1, TailInit, TailStep, TypeCorrect, PTL DEF Spec

-----------------------------------------------------------------------------
(* Blocked goals.  A history is no longer than the experiences behind it, so *)
(* a session that is stuck at a goal has tried it often enough; the decision *)
(* to give it up carries that from the judgement to the two events.          *)

\* The experiences of one kind, over a given ledger, and the attempts of one
\* kind in a history.
Attempts(l, s, key, res) == {i \in DOMAIN l : /\ l[i].kind = "experience"
                                              /\ l[i].session = s
                                              /\ l[i].key = key
                                              /\ l[i].result = res}
Occurs(sigs, key, res) == {i \in DOMAIN sigs : sigs[i] = <<key, res>>}

Behind(l, s, sigs) == \A key \in Keys, res \in Results :
  Cardinality(Occurs(sigs, key, res)) <= Cardinality(Attempts(l, s, key, res))

TriedEnough(l, s, key, res) == Cardinality(Attempts(l, s, key, res)) >= Threshold

GivingUp == {"blocked", "close", "refine"}
Judged == Recorded \cup GivingUp

HistoryInv ==
  \A s \in Sessions :
    /\ Behind(ledger, s, row[s].sigs)
    /\ Behind(ledger, s, mem[s].sigs)
    /\ Behind(ledger, s, op[s].held.sigs)
    /\ pc[s] \in Recorded =>
         mem[s].sigs # <<>> /\ mem[s].sigs[Len(mem[s].sigs)] = <<candidate[s], result[s]>>
    /\ pc[s] \in GivingUp => /\ result[s] # "unknown"
                             /\ TriedEnough(ledger, s, candidate[s], result[s])

LEMMA FiniteSets ==
  /\ \A l \in Seq(Events) : \A s, key, res :
       IsFiniteSet(Attempts(l, s, key, res)) /\ Cardinality(Attempts(l, s, key, res)) \in Nat
  /\ \A sigs \in SigSeqs : \A key, res :
       IsFiniteSet(Occurs(sigs, key, res)) /\ Cardinality(Occurs(sigs, key, res)) \in Nat
<1>1. ASSUME NEW n \in Nat, NEW S \in SUBSET (1..n)
      PROVE  IsFiniteSet(S) /\ Cardinality(S) \in Nat
  <2>1. IsFiniteSet(1..n)
    BY FS_Interval
  <2>2. IsFiniteSet(S)
    BY <2>1, FS_Subset
  <2> QED
    BY <2>2, FS_CardinalityType
<1>2. ASSUME NEW l \in Seq(Events), NEW s, NEW key, NEW res
      PROVE  IsFiniteSet(Attempts(l, s, key, res)) /\ Cardinality(Attempts(l, s, key, res)) \in Nat
  <2>1. Len(l) \in Nat /\ DOMAIN l = 1..Len(l)
    OBVIOUS
  <2>2. Attempts(l, s, key, res) \in SUBSET (1..Len(l))
    BY <2>1 DEF Attempts
  <2> QED
    BY <1>1, <2>1, <2>2
<1>3. ASSUME NEW sigs \in SigSeqs, NEW key, NEW res
      PROVE  IsFiniteSet(Occurs(sigs, key, res)) /\ Cardinality(Occurs(sigs, key, res)) \in Nat
  <2>1. Len(sigs) \in Nat /\ DOMAIN sigs = 1..Len(sigs)
    BY DEF SigSeqs
  <2>2. Occurs(sigs, key, res) \in SUBSET (1..Len(sigs))
    BY <2>1 DEF Occurs
  <2> QED
    BY <1>1, <2>1, <2>2
<1> QED
  BY <1>2, <1>3

\* Experiences stay, so what was tried enough, or is behind a history, remains so.
LEMMA AttemptsStay ==
  ASSUME TypeOK, TypeOK', [Next]_vars, NEW s, NEW key, NEW res
  PROVE  Cardinality(Attempts(ledger, s, key, res)) <= Cardinality(Attempts(ledger', s, key, res))
<1>1. Attempts(ledger, s, key, res) \subseteq Attempts(ledger', s, key, res)
  BY LedgerGrows DEF Attempts
<1>2. ledger' \in Seq(Events)
  BY DEF TypeOK
<1>3. IsFiniteSet(Attempts(ledger', s, key, res))
  BY <1>2, FiniteSets
<1> QED
  BY <1>1, <1>3, FS_Subset

LEMMA BehindStays ==
  ASSUME TypeOK, TypeOK', [Next]_vars, NEW s, NEW sigs \in SigSeqs, Behind(ledger, s, sigs)
  PROVE  Behind(ledger', s, sigs)
<1> SUFFICES ASSUME NEW key \in Keys, NEW res \in Results
             PROVE  Cardinality(Occurs(sigs, key, res)) <= Cardinality(Attempts(ledger', s, key, res))
  BY DEF Behind
<1>1. ledger \in Seq(Events) /\ ledger' \in Seq(Events)
  BY DEF TypeOK
<1> DEFINE a == Cardinality(Attempts(ledger, s, key, res))
           b == Cardinality(Attempts(ledger', s, key, res))
           c == Cardinality(Occurs(sigs, key, res))
<1>2. a \in Nat /\ b \in Nat /\ c \in Nat
  BY <1>1, FiniteSets
<1>3. a <= b
  BY AttemptsStay
<1>4. c <= a
  BY DEF Behind
<1> QED
  BY <1>2, <1>3, <1>4

\* The history with one more attempt, the ledger with its experience.
LEMMA BehindAppend ==
  ASSUME TypeOK, NEW s, NEW sigs \in SigSeqs, Behind(ledger, s, sigs),
         NEW key \in Keys, NEW res \in Results, NEW n \in Nat,
         Record(Event("experience", s, key, res, n)), ledger' \in Seq(Events)
  PROVE  Behind(ledger', s, Append(sigs, <<key, res>>))
<1> DEFINE new == Append(sigs, <<key, res>>)
<1>1. /\ Len(new) = Len(sigs) + 1 /\ Len(sigs) \in Nat /\ new[Len(sigs) + 1] = <<key, res>>
      /\ DOMAIN new = 1..(Len(sigs) + 1) /\ DOMAIN sigs = 1..Len(sigs)
      /\ \A i \in DOMAIN sigs : new[i] = sigs[i]
  BY DEF SigSeqs
<1>2. /\ Len(ledger) \in Nat /\ ledger'[Len(ledger) + 1] = Event("experience", s, key, res, n)
      /\ DOMAIN ledger' = 1..(Len(ledger) + 1) /\ DOMAIN ledger = 1..Len(ledger)
      /\ \A i \in DOMAIN ledger : ledger'[i] = ledger[i]
  BY DEF TypeOK, Record
<1>e. ledger \in Seq(Events)
  BY DEF TypeOK
<1> HIDE DEF new
<1> SUFFICES ASSUME NEW k \in Keys, NEW r \in Results
             PROVE  Cardinality(Occurs(new, k, r)) <= Cardinality(Attempts(ledger', s, k, r))
  BY DEF Behind, new
<1> DEFINE a == Attempts(ledger, s, k, r)
           b == Attempts(ledger', s, k, r)
           c == Occurs(sigs, k, r)
           d == Occurs(new, k, r)
<1>3. /\ IsFiniteSet(a) /\ IsFiniteSet(c) /\ Cardinality(a) \in Nat /\ Cardinality(c) \in Nat
      /\ Cardinality(c) <= Cardinality(a)
  BY <1>e, FiniteSets DEF Behind
<1>4. CASE k = key /\ r = res
  <2>1. b = a \cup {Len(ledger) + 1} /\ Len(ledger) + 1 \notin a
    BY <1>2, <1>4 DEF Attempts, Event
  <2>2. d = c \cup {Len(sigs) + 1} /\ Len(sigs) + 1 \notin c
    BY <1>1, <1>4 DEF Occurs
  <2> HIDE DEF a, b, c, d
  <2>3. Cardinality(b) = Cardinality(a) + 1
    BY <1>3, <2>1, FS_AddElement
  <2>4. Cardinality(d) = Cardinality(c) + 1
    BY <1>3, <2>2, FS_AddElement
  <2>5. Cardinality(d) <= Cardinality(b)
    BY <1>3, <2>3, <2>4
  <2> QED
    BY <2>5 DEF b, d
<1>5. CASE ~(k = key /\ r = res)
  <2>1. b = a
    BY <1>2, <1>5 DEF Attempts, Event
  <2>2. d = c
    <3>1. <<key, res>> # <<k, r>>
      BY <1>5
    <3> QED
      BY <1>1, <3>1 DEF Occurs
  <2> QED
    BY <1>3, <2>1, <2>2
<1> QED
  BY <1>4, <1>5

LEMMA LastOfAppend ==
  ASSUME NEW sigs \in SigSeqs, NEW key \in Keys, NEW res \in Results
  PROVE  /\ Append(sigs, <<key, res>>) # <<>>
         /\ Append(sigs, <<key, res>>)[Len(Append(sigs, <<key, res>>))] = <<key, res>>
<1> DEFINE e == <<key, res>>  new == Append(sigs, e)
<1>1. e \in Keys \X Results
  OBVIOUS
<1> HIDE DEF e
<1>2. Len(new) = Len(sigs) + 1 /\ Len(sigs) \in Nat /\ new[Len(sigs) + 1] = e
  BY <1>1 DEF SigSeqs
<1>3. new # <<>>
  <2>1. Len(new) # 0 /\ Len(<<>>) = 0
    BY <1>2
  <2> QED
    BY <2>1
<1>4. new[Len(new)] = e
  BY <1>2
<1> QED
  BY <1>3, <1>4 DEF e

\* A history that is stuck has its last attempt in it Threshold times.
LEMMA StuckOccurs ==
  ASSUME NEW sigs \in SigSeqs, Stuck(sigs), NEW key, NEW res, sigs[Len(sigs)] = <<key, res>>
  PROVE  Cardinality(Occurs(sigs, key, res)) >= Threshold
<1> DEFINE last == (Len(sigs) - Threshold + 1)..Len(sigs)
<1>1. Len(sigs) \in Nat /\ Threshold \in Nat /\ Threshold >= 2 /\ Len(sigs) >= Threshold
  BY ThresholdAssumption DEF SigSeqs, Stuck
<1>2. last \in SUBSET Occurs(sigs, key, res)
  <2>1. \A i \in last : i \in 1..Len(sigs) /\ sigs[i] = <<key, res>>
    BY <1>1 DEF Stuck
  <2>2. DOMAIN sigs = 1..Len(sigs)
    BY DEF SigSeqs
  <2> QED
    BY <2>1, <2>2 DEF Occurs
<1>3. Cardinality(last) = Threshold
  <2>1. Len(sigs) - Threshold + 1 \in Int /\ Len(sigs) \in Int
    BY <1>1
  <2>2. Cardinality(last) = IF Len(sigs) - Threshold + 1 > Len(sigs) THEN 0
                            ELSE Len(sigs) - (Len(sigs) - Threshold + 1) + 1
    BY <2>1, FS_Interval
  <2> QED
    BY <1>1, <2>2
<1>4. IsFiniteSet(Occurs(sigs, key, res)) /\ Cardinality(Occurs(sigs, key, res)) \in Nat
  BY FiniteSets
<1>5. Cardinality(last) <= Cardinality(Occurs(sigs, key, res))
  BY <1>2, <1>4, FS_Subset
<1> QED
  BY <1>1, <1>3, <1>4, <1>5

LEMMA HistoryInit == Init => HistoryInv
<1> SUFFICES ASSUME Init, NEW s \in Sessions
             PROVE  /\ Behind(ledger, s, row[s].sigs) /\ Behind(ledger, s, mem[s].sigs)
                    /\ Behind(ledger, s, op[s].held.sigs) /\ pc[s] = "off"
  BY DEF HistoryInv, Recorded, GivingUp
<1>1. TypeOK
  BY InitTypes
<1>2. ASSUME NEW key \in Keys, NEW res \in Results
      PROVE  Cardinality(Occurs(<<>>, key, res)) <= Cardinality(Attempts(ledger, s, key, res))
  <2>1. Occurs(<<>>, key, res) = {}
    BY DEF Occurs
  <2>2. Cardinality(Attempts(ledger, s, key, res)) \in Nat
    BY <1>1, FiniteSets DEF TypeOK
  <2>3. Cardinality(Occurs(<<>>, key, res)) = 0
    BY <2>1, FS_EmptySet
  <2> QED
    BY <2>2, <2>3
<1>3. Behind(ledger, s, <<>>)
  BY <1>2 DEF Behind
<1> QED
  BY <1>3 DEF Init, FreshSession

\* How an engine comes to have judged an activity: what it judges is what it
\* has in hand, from the recording of the experience on.
LEMMA JudgedFlow ==
  ASSUME TypeOK, CandidateKinds, NEW s \in Sessions, EngineStep(s) \/ Crash(s) \/ Caller(s),
         pc'[s] \in Judged
  PROVE  /\ candidate'[s] = candidate[s] /\ result'[s] = result[s]
         /\ \/ RecordExperience(s) /\ pc'[s] = "reflect"
            \/ SettleStuck(s) /\ pc'[s] = "blocked"
            \/ /\ pc[s] \in Judged /\ mem'[s].sigs = mem[s].sigs
               /\ pc'[s] \in Recorded <=> pc[s] \in Recorded
<1> DEFINE Goal == /\ candidate'[s] = candidate[s] /\ result'[s] = result[s]
                   /\ \/ RecordExperience(s) /\ pc'[s] = "reflect"
                      \/ SettleStuck(s) /\ pc'[s] = "blocked"
                      \/ /\ pc[s] \in Judged /\ mem'[s].sigs = mem[s].sigs
                         /\ pc'[s] \in Recorded <=> pc[s] \in Recorded
<1>m. \A x : WithStatus(mem[s], x).sigs = mem[s].sigs
  BY WithStatusFacts DEF TypeOK
<1> USE DEF Judged, Recorded, GivingUp
<1>1. ASSUME Reload(s) \/ EndRun(s) \/ LeaveRun(s) \/ StartActivity(s) \/ Crash(s) \/ BeginRun(s)
      PROVE  Goal
  BY <1>1, ReloadMove, EndMove, LeaveMove, StartMove, CrashMove, BeginMove
<1>2. ASSUME \/ Assess(s) \/ Wait(s) \/ Generate(s) \/ Prepare(s) \/ BeginExecute(s)
             \/ Observe(s) \/ Reflect(s) \/ Update(s) \/ PauseStuck(s) \/ Rest(s)
      PROVE  Goal
  <2>1. pc[s] \in {"reflect", "update"} /\ pc'[s] \in {"update", "settle"} /\ mem'[s].sigs = mem[s].sigs
    BY <1>2, <1>m, SaveMove DEF Writes
  <2>2. Reflect(s) \/ Update(s)
    BY <1>2, <2>1 DEF Assess, Wait, Generate, Prepare, BeginExecute, Observe, PauseStuck, Rest, Goto
  <2> QED
    BY <2>1, <2>2 DEF Reflect, Update, locals
<1>3. ASSUME \/ LeaveLoop(s) \/ ReadCuriosity(s) \/ WriteCuriosity(s)
             \/ ExecuteSandbox(s) \/ ExecuteCognitive(s)
             \/ CheckGoal(s) \/ CloseGoal(s) \/ RefineGoal(s) \/ Finish(s)
      PROVE  Goal
  <2>1. /\ <<pc[s], pc'[s]>> \in Quiet /\ mem' = mem
    BY <1>3, QuietMove
  <2>2. pc[s] \in {"blocked", "close"} /\ pc'[s] \in {"close", "refine"}
    BY <2>1 DEF Quiet
  <2>3. CheckGoal(s) \/ CloseGoal(s)
    BY <1>3, <2>2 DEF LeaveLoop, ReadCuriosity, WriteCuriosity, ExecuteSandbox, ExecuteCognitive,
       RefineGoal, Finish, Goto
  <2> QED
    BY <2>1, <2>2, <2>3 DEF CheckGoal, CloseGoal, locals
<1>4. ASSUME RecordExperience(s)
      PROVE  Goal
  BY <1>4, RecordMove
<1>5. ASSUME SettleStuck(s) \/ SettleNormal(s)
      PROVE  Goal
  <2>1. pc'[s] = "blocked" /\ candidate' = candidate /\ result' = result
    BY <1>5, SettleMove
  <2>2. SettleStuck(s)
    BY <1>5, <2>1 DEF SettleNormal, Goto, TypeOK
  <2> QED
    BY <2>1, <2>2
<1>6. ASSUME \/ \E cmd \in {"pause", "stop", "resume"} : Command(s, cmd)
             \/ RecordInterruption(s) \/ SaveCommand(s) \/ CallerCrash(s)
      PROVE  Goal
  BY <1>6 DEF Command, RecordInterruption, SaveCommand, CallerCrash, locals
<1> QED
  BY <1>1, <1>2, <1>3, <1>4, <1>5, <1>6 DEF EngineStep, Caller

\* Every history is copied from another copy of the session, or has the
\* attempt just recorded at its end.
LEMMA HistorySources ==
  ASSUME TypeOK, CandidateKinds, NEW s \in Sessions, EngineStep(s) \/ Crash(s) \/ Caller(s)
  PROVE  /\ row'[s].sigs \in {row[s].sigs, mem[s].sigs, op[s].held.sigs}
         /\ op'[s].held.sigs \in {op[s].held.sigs, row[s].sigs, <<>>}
         /\ \/ mem'[s].sigs \in {mem[s].sigs, row[s].sigs, <<>>}
            \/ RecordExperience(s)
<1> DEFINE Goal == /\ row'[s].sigs \in {row[s].sigs, mem[s].sigs, op[s].held.sigs}
                   /\ op'[s].held.sigs \in {op[s].held.sigs, row[s].sigs, <<>>}
                   /\ \/ mem'[s].sigs \in {mem[s].sigs, row[s].sigs, <<>>}
                      \/ RecordExperience(s)
<1>m. /\ \A x : WithStatus(mem[s], x).sigs = mem[s].sigs
      /\ \A x : WithStatus(row[s], x).sigs = row[s].sigs
      /\ \A x : WithStatus(op[s].held, x).sigs = op[s].held.sigs
      /\ FreshSession.sigs = <<>>
  BY WithStatusFacts DEF TypeOK, FreshSession
<1>1. ASSUME Reload(s) \/ EndRun(s) \/ LeaveRun(s) \/ StartActivity(s) \/ Crash(s) \/ BeginRun(s)
      PROVE  Goal
  BY <1>1, <1>m, ReloadMove, EndMove, LeaveMove, StartMove, CrashMove, BeginMove
<1>2. ASSUME \/ Assess(s) \/ Wait(s) \/ Generate(s) \/ Prepare(s) \/ BeginExecute(s)
             \/ Observe(s) \/ Reflect(s) \/ Update(s) \/ PauseStuck(s) \/ Rest(s)
      PROVE  Goal
  BY <1>2, <1>m, SaveMove
<1>3. ASSUME \/ LeaveLoop(s) \/ ReadCuriosity(s) \/ WriteCuriosity(s)
             \/ ExecuteSandbox(s) \/ ExecuteCognitive(s)
             \/ CheckGoal(s) \/ CloseGoal(s) \/ RefineGoal(s) \/ Finish(s)
      PROVE  Goal
  BY <1>3, QuietMove
<1>4. ASSUME RecordExperience(s) \/ SettleStuck(s) \/ SettleNormal(s)
      PROVE  Goal
  BY <1>4, RecordMove, SettleMove
<1>5. ASSUME \E cmd \in {"pause", "stop", "resume"} : Command(s, cmd)
      PROVE  Goal
  BY <1>5, CommandMove
<1>6. ASSUME RecordInterruption(s) \/ SaveCommand(s) \/ CallerCrash(s)
      PROVE  Goal
  BY <1>6, <1>m, InterruptMove, SaveCommandMove, CallerCrashMove
<1> QED
  BY <1>1, <1>2, <1>3, <1>4, <1>5, <1>6 DEF EngineStep, Caller

LEMMA HistoryStep ==
  ASSUME TypeOK, TypeOK', CandidateKinds, CountInv, HistoryInv, [Next]_vars
  PROVE  HistoryInv'
<1>1. CASE UNCHANGED vars
  BY <1>1 DEF vars, HistoryInv
<1>2. ASSUME NEW s \in Sessions, EngineStep(s) \/ Crash(s) \/ Caller(s), NEW t \in Sessions
      PROVE  /\ Behind(ledger', t, row'[t].sigs) /\ Behind(ledger', t, mem'[t].sigs)
             /\ Behind(ledger', t, op'[t].held.sigs)
             /\ pc'[t] \in Recorded =>
                  mem'[t].sigs # <<>> /\ mem'[t].sigs[Len(mem'[t].sigs)] = <<candidate'[t], result'[t]>>
             /\ pc'[t] \in GivingUp => /\ result'[t] # "unknown"
                                       /\ TriedEnough(ledger', t, candidate'[t], result'[t])
  <2>t. /\ row[t].sigs \in SigSeqs /\ mem[t].sigs \in SigSeqs /\ op[t].held.sigs \in SigSeqs
        /\ <<>> \in SigSeqs /\ ledger \in Seq(Events) /\ ledger' \in Seq(Events)
        /\ candidate[t] \in Keys /\ result[t] \in Results /\ mem[t].counter + 1 \in Nat
    <3>1. row[t] \in SessionRecords /\ mem[t] \in SessionRecords /\ op[t].held \in SessionRecords
      BY DEF TypeOK
    <3>2. row[t].sigs \in SigSeqs /\ mem[t].sigs \in SigSeqs /\ op[t].held.sigs \in SigSeqs
      BY <3>1 DEF SessionRecords, SigSeqs
    <3>3. <<>> \in SigSeqs /\ mem[t].counter + 1 \in Nat
      BY <3>1 DEF SessionRecords, SigSeqs
    <3>4. /\ ledger \in Seq(Events) /\ ledger' \in Seq(Events)
          /\ candidate[t] \in Keys /\ result[t] \in Results
      BY DEF TypeOK
    <3> QED
      BY <3>2, <3>3, <3>4
  <2>1. /\ Behind(ledger, t, row[t].sigs) /\ Behind(ledger, t, mem[t].sigs)
        /\ Behind(ledger, t, op[t].held.sigs)
        /\ pc[t] \in Recorded =>
             mem[t].sigs # <<>> /\ mem[t].sigs[Len(mem[t].sigs)] = <<candidate[t], result[t]>>
        /\ pc[t] \in GivingUp => /\ result[t] # "unknown"
                                 /\ TriedEnough(ledger, t, candidate[t], result[t])
    BY DEF HistoryInv
  <2>2. \A sigs \in {row[t].sigs, mem[t].sigs, op[t].held.sigs} : Behind(ledger', t, sigs)
    BY <2>t, <2>1, BehindStays
  <2>3. Behind(ledger', t, <<>>)
    <3>1. \A key, res : Cardinality(Occurs(<<>>, key, res)) = 0
      BY FS_EmptySet DEF Occurs
    <3>2. \A key, res : Cardinality(Attempts(ledger', t, key, res)) \in Nat
      BY <2>t, FiniteSets
    <3> QED
      BY <3>1, <3>2 DEF Behind
  <2>4. TriedEnough(ledger, t, candidate[t], result[t]) => TriedEnough(ledger', t, candidate[t], result[t])
    <3>1. Cardinality(Attempts(ledger, t, candidate[t], result[t]))
            <= Cardinality(Attempts(ledger', t, candidate[t], result[t]))
      BY AttemptsStay
    <3>2. /\ Cardinality(Attempts(ledger, t, candidate[t], result[t])) \in Nat
          /\ Cardinality(Attempts(ledger', t, candidate[t], result[t])) \in Nat /\ Threshold \in Nat
      BY <2>t, FiniteSets, ThresholdAssumption
    <3> QED
      BY <3>1, <3>2 DEF TriedEnough
  <2>5. CASE t # s
    <3>1. Still(t) /\ candidate'[t] = candidate[t] /\ result'[t] = result[t]
      BY <1>2, <2>5, StepParts
    <3> QED
      BY <2>1, <2>2, <2>4, <3>1 DEF Still
  <2>6. CASE t = s
    <3>1. Behind(ledger', t, row'[t].sigs) /\ Behind(ledger', t, op'[t].held.sigs)
      BY <1>2, <2>2, <2>3, <2>6, HistorySources
    <3>2. Behind(ledger', t, mem'[t].sigs)
      <4>1. CASE RecordExperience(t)
        <5>1. /\ mem'[t].sigs = Append(mem[t].sigs, <<candidate[t], result[t]>>)
              /\ Record(Event("experience", t, candidate[t], result[t], mem[t].counter + 1))
          BY <4>1, RecordMove
        <5> QED
          BY <2>t, <2>1, <5>1, BehindAppend
      <4>2. CASE ~RecordExperience(t)
        BY <1>2, <2>2, <2>3, <2>6, <4>2, HistorySources
      <4> QED
        BY <4>1, <4>2
    <3>3. ASSUME pc'[t] \in Judged
          PROVE  /\ candidate'[t] = candidate[t] /\ result'[t] = result[t]
                 /\ pc'[t] \in Recorded =>
                      mem'[t].sigs # <<>> /\ mem'[t].sigs[Len(mem'[t].sigs)] = <<candidate[t], result[t]>>
                 /\ pc'[t] \in GivingUp => /\ result[t] # "unknown"
                                           /\ TriedEnough(ledger', t, candidate[t], result[t])
      <4>1. CASE RecordExperience(t) /\ pc'[t] = "reflect"
        <5>1. mem'[t].sigs = Append(mem[t].sigs, <<candidate[t], result[t]>>)
          BY <4>1, RecordMove
        <5>2. mem'[t].sigs # <<>> /\ mem'[t].sigs[Len(mem'[t].sigs)] = <<candidate[t], result[t]>>
          <6> DEFINE new == Append(mem[t].sigs, <<candidate[t], result[t]>>)
          <6>1. new # <<>> /\ new[Len(new)] = <<candidate[t], result[t]>>
            BY <2>t, LastOfAppend
          <6>2. mem'[t].sigs = new
            BY <5>1
          <6> HIDE DEF new
          <6> QED
            BY <6>1, <6>2
        <5> QED
          BY <4>1, <5>2, RecordMove DEF Recorded, GivingUp
      <4>2. CASE SettleStuck(t) /\ pc'[t] = "blocked"
        <5>1. /\ pc[t] = "settle" /\ Stuck(mem[t].sigs) /\ candidate' = candidate /\ result' = result
          BY <4>2, SettleMove DEF SettleStuck
        <5>2. result[t] # "unknown" /\ mem[t].sigs[Len(mem[t].sigs)] = <<candidate[t], result[t]>>
          BY <2>1, <5>1 DEF CountInv, HasResult, Recorded
        <5>3. Cardinality(Occurs(mem[t].sigs, candidate[t], result[t])) >= Threshold
          BY <2>t, <5>1, <5>2, StuckOccurs
        <5>4. Cardinality(Occurs(mem[t].sigs, candidate[t], result[t]))
                <= Cardinality(Attempts(ledger, t, candidate[t], result[t]))
          BY <2>t, <2>1 DEF Behind
        <5>5. /\ Cardinality(Occurs(mem[t].sigs, candidate[t], result[t])) \in Nat
              /\ Cardinality(Attempts(ledger, t, candidate[t], result[t])) \in Nat /\ Threshold \in Nat
          BY <2>t, FiniteSets, ThresholdAssumption
        <5>6. TriedEnough(ledger', t, candidate[t], result[t])
          BY <2>4, <5>3, <5>4, <5>5 DEF TriedEnough
        <5> QED
          BY <4>2, <5>1, <5>2, <5>6 DEF Recorded
      <4>3. CASE /\ pc[t] \in Judged /\ mem'[t].sigs = mem[t].sigs
                 /\ pc'[t] \in Recorded <=> pc[t] \in Recorded
                 /\ candidate'[t] = candidate[t] /\ result'[t] = result[t]
        BY <2>1, <2>4, <3>3, <4>3 DEF Judged, Recorded, GivingUp
      <4> QED
        BY <1>2, <2>6, <3>3, <4>1, <4>2, <4>3, JudgedFlow
    <3> QED
      BY <3>1, <3>2, <3>3 DEF Judged
  <2> QED
    BY <2>5, <2>6
<1> QED
  BY <1>1, <1>2 DEF Next, HistoryInv

\* The goals a ledger closes, and what refines a goal on it.
OpenedIn(l) == {i \in DOMAIN l : l[i].kind = "goal_opened"}
ClosedIn(l) == {l[i].ref : i \in {j \in DOMAIN l : l[j].kind = "goal_closed"}}

\* What no interleaving of sessions and no crash undoes.
GivenUp(l) == \A g \in ClosedIn(l) : \E s \in Sessions, kind \in GoalKinds, res \in {"success", "failure"} :
                TriedEnough(l, s, <<kind, g>>, res)
CarriedOn(l, at, work, b) ==
  \A g \in ClosedIn(l) : \/ \E i \in OpenedIn(l) : l[i].ref = g
                         \/ b.crashes < MaxCrashes
                         \/ \E s \in Sessions : at[s] = "refine" /\ work[s] \in GoalKinds \X {g}

\* What holds besides when s is the only session: a goal is refined once.
RefinedOnce(l, at, key) ==
  /\ 0 \notin ClosedIn(l)
  /\ \A i \in OpenedIn(l) : l[i].ref = 0 \/ l[i].ref \in ClosedIn(l)
  /\ \A i, j \in OpenedIn(l) : l[i].ref = l[j].ref /\ l[i].ref # 0 => i = j
  /\ at = "close" => key[2] \in OpenedIn(l) \ ClosedIn(l)
  /\ at = "refine" => /\ key[2] \in ClosedIn(l)
                      /\ \A i \in OpenedIn(l) : l[i].ref # key[2]

GoalInv == GivenUp(ledger) /\ CarriedOn(ledger, pc, candidate, budget)

LEMMA GoalInit ==
  ASSUME Init
  PROVE  GoalInv /\ \A s \in Sessions : RefinedOnce(ledger, pc[s], candidate[s])
<1>1. \A i \in DOMAIN ledger : ledger[i].kind = "goal_opened" /\ ledger[i].ref = 0
  BY GoalsAssumption DEF Init, Event
<1>2. ClosedIn(ledger) = {}
  BY <1>1 DEF ClosedIn
<1>3. \A s \in Sessions : pc[s] = "off"
  BY DEF Init
<1> QED
  BY <1>1, <1>2, <1>3 DEF GoalInv, GivenUp, CarriedOn, RefinedOnce, OpenedIn

\* What an event does to the goals of the ledger.
LEMMA RecordGoals ==
  ASSUME TypeOK, NEW e, Record(e)
  PROVE  LET n == Len(ledger) + 1
         IN  /\ n \notin DOMAIN ledger /\ DOMAIN ledger' = DOMAIN ledger \cup {n} /\ ledger'[n] = e
             /\ \A i \in DOMAIN ledger : ledger'[i] = ledger[i]
             /\ OpenedIn(ledger') = OpenedIn(ledger) \cup IF e.kind = "goal_opened" THEN {n} ELSE {}
             /\ ClosedIn(ledger') = ClosedIn(ledger) \cup IF e.kind = "goal_closed" THEN {e.ref} ELSE {}
<1> DEFINE n == Len(ledger) + 1
<1>1. /\ n \notin DOMAIN ledger /\ DOMAIN ledger' = DOMAIN ledger \cup {n} /\ ledger'[n] = e
      /\ \A i \in DOMAIN ledger : ledger'[i] = ledger[i]
  BY DEF TypeOK, Record
<1> HIDE DEF n
<1>2. OpenedIn(ledger') = OpenedIn(ledger) \cup IF e.kind = "goal_opened" THEN {n} ELSE {}
  BY <1>1 DEF OpenedIn
<1>3. ClosedIn(ledger') = ClosedIn(ledger) \cup IF e.kind = "goal_closed" THEN {e.ref} ELSE {}
  <2>1. ASSUME NEW g PROVE g \in ClosedIn(ledger') <=>
                           g \in ClosedIn(ledger) \/ (e.kind = "goal_closed" /\ g = e.ref)
    <3>1. g \in ClosedIn(ledger') <=> \E i \in DOMAIN ledger' : ledger'[i].kind = "goal_closed" /\ ledger'[i].ref = g
      BY DEF ClosedIn
    <3>2. g \in ClosedIn(ledger) <=> \E i \in DOMAIN ledger : ledger[i].kind = "goal_closed" /\ ledger[i].ref = g
      BY DEF ClosedIn
    <3> QED
      BY <1>1, <3>1, <3>2
  <2> QED
    BY <2>1
<1> QED
  BY <1>1, <1>2, <1>3 DEF n

\* Only closing and refining a goal touch the goals there are: any other step
\* leaves them, or opens one of its own.
LEMMA GoalSteps ==
  ASSUME TypeOK, NEW s \in Sessions, EngineStep(s) \/ Crash(s) \/ Caller(s),
         ~CloseGoal(s), ~RefineGoal(s)
  PROVE  \/ UNCHANGED ledger
         \/ \E e : Record(e) /\ e.kind # "goal_closed" /\ (e.kind = "goal_opened" => e.ref = 0)
<1> DEFINE Goal == \/ UNCHANGED ledger
                   \/ \E e : Record(e) /\ e.kind # "goal_closed" /\ (e.kind = "goal_opened" => e.ref = 0)
<1>1. ASSUME NEW kind, NEW u, NEW key, NEW res, NEW ref, Record(Event(kind, u, key, res, ref)),
             kind # "goal_closed", kind = "goal_opened" => ref = 0
      PROVE  Goal
  <2> DEFINE e == Event(kind, u, key, res, ref)
  <2>1. Record(e) /\ e.kind = kind /\ e.ref = ref
    BY <1>1 DEF Event
  <2> HIDE DEF e
  <2> QED
    BY <1>1, <2>1
<1>2. ASSUME \/ Reload(s) \/ EndRun(s) \/ LeaveRun(s) \/ Crash(s) \/ BeginRun(s) \/ SaveCommand(s) \/ CallerCrash(s)
             \/ \E cmd \in {"pause", "stop", "resume"} : Command(s, cmd)
      PROVE  Goal
  BY <1>2, ReloadMove, EndMove, LeaveMove, CrashMove, BeginMove, SaveCommandMove, CallerCrashMove, CommandMove
<1>3. ASSUME \/ Assess(s) \/ Wait(s) \/ Generate(s) \/ Prepare(s) \/ BeginExecute(s)
             \/ Observe(s) \/ Reflect(s) \/ Update(s) \/ PauseStuck(s) \/ Rest(s)
      PROVE  Goal
  BY <1>3, SaveMove
<1>4. ASSUME StartActivity(s) \/ RecordExperience(s) \/ SettleStuck(s) \/ SettleNormal(s)
      PROVE  Goal
  BY <1>1, <1>4, StartMove, RecordMove, SettleMove
<1>5. ASSUME LeaveLoop(s) \/ ReadCuriosity(s) \/ WriteCuriosity(s) \/ CheckGoal(s)
      PROVE  Goal
  BY <1>5 DEF LeaveLoop, ReadCuriosity, WriteCuriosity, CheckGoal, stores
<1>6. ASSUME ExecuteSandbox(s) \/ ExecuteCognitive(s) \/ Finish(s)
      PROVE  Goal
  BY <1>1, <1>6 DEF ExecuteSandbox, ExecuteCognitive, Finish
<1>7. ASSUME RecordInterruption(s)
      PROVE  Goal
  BY <1>1, <1>7, InterruptMove
<1> QED
  BY <1>2, <1>3, <1>4, <1>5, <1>6, <1>7 DEF EngineStep, Caller

\* From where a goal is given up, only the three steps that do it, and a crash.
LEMMA GivingUpSteps ==
  ASSUME TypeOK, CandidateKinds, NEW s \in Sessions, EngineStep(s) \/ Crash(s) \/ Caller(s),
         pc[s] \in GivingUp
  PROVE  CheckGoal(s) \/ CloseGoal(s) \/ RefineGoal(s) \/ Crash(s) \/ UNCHANGED <<pc, candidate>>
<1>1. ~(Reload(s) \/ EndRun(s) \/ LeaveRun(s) \/ StartActivity(s) \/ RecordExperience(s) \/ SettleStuck(s)
        \/ SettleNormal(s) \/ BeginRun(s))
  BY ReloadMove, EndMove, LeaveMove, StartMove, RecordMove, SettleMove, BeginMove DEF GivingUp
<1>2. ~(\/ Assess(s) \/ Wait(s) \/ Generate(s) \/ Prepare(s) \/ BeginExecute(s)
        \/ Observe(s) \/ Reflect(s) \/ Update(s) \/ PauseStuck(s) \/ Rest(s))
  BY SaveMove DEF GivingUp, Writes
<1>3. ~(\/ LeaveLoop(s) \/ ReadCuriosity(s) \/ WriteCuriosity(s)
        \/ ExecuteSandbox(s) \/ ExecuteCognitive(s) \/ Finish(s))
  BY DEF GivingUp, LeaveLoop, ReadCuriosity, WriteCuriosity, ExecuteSandbox, ExecuteCognitive,
     Finish, Goto
<1>4. (\/ \E cmd \in {"pause", "stop", "resume"} : Command(s, cmd)
       \/ RecordInterruption(s) \/ SaveCommand(s) \/ CallerCrash(s)) => UNCHANGED <<pc, candidate>>
  BY DEF Command, RecordInterruption, SaveCommand, CallerCrash, locals
<1> QED
  BY <1>1, <1>2, <1>3, <1>4 DEF EngineStep, Caller

LEMMA CloseFacts ==
  ASSUME TypeOK, CandidateKinds, NEW s \in Sessions, CloseGoal(s)
  PROVE  /\ pc[s] = "close" /\ pc'[s] = "refine" /\ candidate' = candidate /\ UNCHANGED budget
         /\ candidate[s] \in GoalKinds \X Nat
         /\ Len(ledger) + 1 \in Nat
         /\ OpenedIn(ledger') = OpenedIn(ledger)
         /\ ClosedIn(ledger') = ClosedIn(ledger) \cup {candidate[s][2]}
         /\ \A i \in DOMAIN ledger : ledger'[i] = ledger[i]
<1> DEFINE e == Event("goal_closed", NoSession, NoKey, "unknown", candidate[s][2])
<1>1. pc[s] = "close" /\ pc'[s] = "refine" /\ candidate' = candidate /\ UNCHANGED budget
  BY DEF CloseGoal, Goto, locals, TypeOK
<1>2. Record(e) /\ e.kind = "goal_closed" /\ e.ref = candidate[s][2]
  BY DEF CloseGoal, Event
<1> HIDE DEF e
<1>3. /\ OpenedIn(ledger') = OpenedIn(ledger)
      /\ ClosedIn(ledger') = ClosedIn(ledger) \cup {candidate[s][2]}
      /\ \A i \in DOMAIN ledger : ledger'[i] = ledger[i]
  BY <1>2, RecordGoals
<1> QED
  BY <1>1, <1>3 DEF CandidateKinds, TypeOK

LEMMA RefineFacts ==
  ASSUME TypeOK, CandidateKinds, NEW s \in Sessions, RefineGoal(s)
  PROVE  /\ pc[s] = "refine" /\ pc'[s] = "pause" /\ candidate' = candidate /\ UNCHANGED budget
         /\ candidate[s] \in GoalKinds \X Nat
         /\ ClosedIn(ledger') = ClosedIn(ledger)
         /\ \A i \in DOMAIN ledger : ledger'[i] = ledger[i]
         /\ \E n : /\ n \notin DOMAIN ledger /\ ledger'[n].ref = candidate[s][2]
                   /\ OpenedIn(ledger') = OpenedIn(ledger) \cup {n}
<1> DEFINE e == Event("goal_opened", NoSession, NoKey, "unknown", candidate[s][2])
<1>1. pc[s] = "refine" /\ pc'[s] = "pause" /\ candidate' = candidate /\ UNCHANGED budget
  BY DEF RefineGoal, Goto, locals, TypeOK
<1>2. Record(e) /\ e.kind = "goal_opened" /\ e.ref = candidate[s][2]
  BY DEF RefineGoal, Event
<1> HIDE DEF e
<1>3. /\ OpenedIn(ledger') = OpenedIn(ledger) \cup {Len(ledger) + 1}
      /\ Len(ledger) + 1 \notin DOMAIN ledger /\ ledger'[Len(ledger) + 1] = e
      /\ ClosedIn(ledger') = ClosedIn(ledger)
      /\ \A i \in DOMAIN ledger : ledger'[i] = ledger[i]
  BY <1>2, RecordGoals
<1> QED
  BY <1>1, <1>2, <1>3 DEF CandidateKinds

LEMMA OtherGoalSteps ==
  ASSUME TypeOK, NEW s \in Sessions, EngineStep(s) \/ Crash(s) \/ Caller(s),
         ~CloseGoal(s), ~RefineGoal(s)
  PROVE  /\ ClosedIn(ledger') = ClosedIn(ledger)
         /\ \A i \in DOMAIN ledger : ledger'[i] = ledger[i]
         /\ OpenedIn(ledger) \subseteq OpenedIn(ledger')
         /\ \A i \in OpenedIn(ledger') : i \in OpenedIn(ledger) \/ ledger'[i].ref = 0
<1>1. CASE UNCHANGED ledger
  BY <1>1
<1>2. ASSUME NEW e, Record(e), e.kind # "goal_closed", e.kind = "goal_opened" => e.ref = 0
      PROVE  /\ ClosedIn(ledger') = ClosedIn(ledger)
             /\ \A i \in DOMAIN ledger : ledger'[i] = ledger[i]
             /\ OpenedIn(ledger) \subseteq OpenedIn(ledger')
             /\ \A i \in OpenedIn(ledger') : i \in OpenedIn(ledger) \/ ledger'[i].ref = 0
  BY <1>2, RecordGoals
<1> QED
  BY <1>1, <1>2, GoalSteps

LEMMA GivenUpStep ==
  ASSUME TypeOK, TypeOK', CandidateKinds, HistoryInv, GivenUp(ledger), [Next]_vars
  PROVE  GivenUp(ledger')
<1> SUFFICES ASSUME NEW g \in ClosedIn(ledger')
             PROVE  \E t \in Sessions, kind \in GoalKinds, res \in {"success", "failure"} :
                      TriedEnough(ledger', t, <<kind, g>>, res)
  BY DEF GivenUp
<1>1. \A t, key, res : TriedEnough(ledger, t, key, res) => TriedEnough(ledger', t, key, res)
  <2> SUFFICES ASSUME NEW t, NEW key, NEW res, TriedEnough(ledger, t, key, res)
               PROVE  TriedEnough(ledger', t, key, res)
    OBVIOUS
  <2>1. Cardinality(Attempts(ledger, t, key, res)) <= Cardinality(Attempts(ledger', t, key, res))
    BY AttemptsStay
  <2>2. /\ Cardinality(Attempts(ledger, t, key, res)) \in Nat
        /\ Cardinality(Attempts(ledger', t, key, res)) \in Nat /\ Threshold \in Nat
    BY FiniteSets, ThresholdAssumption DEF TypeOK
  <2> QED
    BY <2>1, <2>2 DEF TriedEnough
<1>2. CASE g \in ClosedIn(ledger)
  BY <1>1, <1>2 DEF GivenUp
<1>3. CASE g \notin ClosedIn(ledger)
  <2>1. PICK s \in Sessions : EngineStep(s) \/ Crash(s) \/ Caller(s)
    BY <1>3 DEF Next, vars
  <2>2. CloseGoal(s)
    BY <1>3, <2>1, OtherGoalSteps, RefineFacts
  <2>3. pc[s] = "close" /\ candidate[s] \in GoalKinds \X Nat /\ g = candidate[s][2]
    BY <1>3, <2>2, CloseFacts
  <2>4. TriedEnough(ledger, s, candidate[s], result[s]) /\ result[s] \in {"success", "failure"}
    BY <2>3 DEF HistoryInv, GivingUp, TypeOK, Results
  <2>5. candidate[s] = <<candidate[s][1], g>> /\ candidate[s][1] \in GoalKinds
    BY <2>3
  <2> QED
    BY <1>1, <2>4, <2>5
<1> QED
  BY <1>2, <1>3

LEMMA CarriedOnStep ==
  ASSUME TypeOK, CandidateKinds, BudgetInv, CarriedOn(ledger, pc, candidate, budget), [Next]_vars
  PROVE  CarriedOn(ledger', pc', candidate', budget')
<1>1. CASE UNCHANGED vars
  BY <1>1 DEF vars
<1>2. ASSUME NEW s \in Sessions, EngineStep(s) \/ Crash(s) \/ Caller(s), NEW g \in ClosedIn(ledger')
      PROVE  \/ \E i \in OpenedIn(ledger') : ledger'[i].ref = g
             \/ budget'.crashes < MaxCrashes
             \/ \E t \in Sessions : pc'[t] = "refine" /\ candidate'[t] \in GoalKinds \X {g}
  <2>b. /\ budget.crashes \in Nat /\ MaxCrashes \in Nat /\ budget.crashes <= MaxCrashes
        /\ budget'.crashes \in {budget.crashes, budget.crashes - 1}
    BY <1>2, BudgetSteps, BoundsAssumption DEF TypeOK, BudgetInv
  <2>l. /\ \A i \in DOMAIN ledger : ledger'[i] = ledger[i]
        /\ OpenedIn(ledger) \subseteq OpenedIn(ledger') /\ OpenedIn(ledger) \subseteq DOMAIN ledger
    BY <1>2, OtherGoalSteps, CloseFacts, RefineFacts DEF OpenedIn
  <2>1. CASE g \notin ClosedIn(ledger)
    <3>1. CloseGoal(s)
      BY <1>2, <2>1, OtherGoalSteps, RefineFacts
    <3>2. pc'[s] = "refine" /\ candidate' = candidate /\ candidate[s] \in GoalKinds \X {g}
      BY <1>2, <2>1, <3>1, CloseFacts
    <3> QED
      BY <3>2
  <2>2. CASE \E i \in OpenedIn(ledger) : ledger[i].ref = g
    BY <2>l, <2>2
  <2>3. CASE budget.crashes < MaxCrashes
    BY <2>b, <2>3
  <2>4. ASSUME NEW t \in Sessions, pc[t] = "refine", candidate[t] \in GoalKinds \X {g}
        PROVE  \/ \E i \in OpenedIn(ledger') : ledger'[i].ref = g
               \/ budget'.crashes < MaxCrashes
               \/ \E u \in Sessions : pc'[u] = "refine" /\ candidate'[u] \in GoalKinds \X {g}
    <3>1. CASE t # s
      BY <1>2, <2>4, <3>1, StepParts DEF Still
    <3>2. CASE t = s
      <4>1. RefineGoal(s) \/ Crash(s) \/ UNCHANGED <<pc, candidate>>
        BY <1>2, <2>4, <3>2, GivingUpSteps DEF GivingUp, CheckGoal, CloseGoal, Goto
      <4>2. CASE RefineGoal(s)
        BY <2>4, <3>2, <4>2, RefineFacts
      <4>3. CASE Crash(s)
        <5>1. budget'.crashes = budget.crashes - 1
          BY <4>3, CrashMove
        <5> QED
          BY <2>b, <5>1
      <4>4. CASE UNCHANGED <<pc, candidate>>
        BY <2>4, <4>4
      <4> QED
        BY <4>1, <4>2, <4>3, <4>4
    <3> QED
      BY <3>1, <3>2
  <2> QED
    BY <2>1, <2>2, <2>3, <2>4 DEF CarriedOn
<1> QED
  BY <1>1, <1>2 DEF Next, CarriedOn

\* With one session nobody comes between the check, the closing and the
\* refinement of a goal.
LEMMA RefinedOnceStep ==
  ASSUME NEW s \in Sessions, Sessions = {s}, TypeOK, CandidateKinds,
         RefinedOnce(ledger, pc[s], candidate[s]), [Next]_vars
  PROVE  RefinedOnce(ledger', pc'[s], candidate'[s])
<1>1. CASE UNCHANGED vars
  BY <1>1 DEF vars
<1>2. ASSUME EngineStep(s) \/ Crash(s) \/ Caller(s)
      PROVE  RefinedOnce(ledger', pc'[s], candidate'[s])
  <2>1. OpenedIn(ledger) \subseteq DOMAIN ledger /\ DOMAIN ledger \subseteq Nat \ {0}
    BY DEF OpenedIn, TypeOK
  <2>2. CASE CloseGoal(s)
    <3>1. /\ candidate[s][2] \in OpenedIn(ledger) \ ClosedIn(ledger) /\ candidate[s][2] # 0
      BY <2>1, <2>2, CloseFacts DEF RefinedOnce
    <3>2. \A i \in OpenedIn(ledger) : ledger[i].ref # candidate[s][2]
      BY <3>1 DEF RefinedOnce
    <3> QED
      BY <2>1, <2>2, <3>1, <3>2, CloseFacts DEF RefinedOnce
  <2>3. CASE RefineGoal(s)
    <3>1. PICK n : /\ n \notin DOMAIN ledger /\ ledger'[n].ref = candidate[s][2]
                   /\ OpenedIn(ledger') = OpenedIn(ledger) \cup {n}
      BY <2>3, RefineFacts
    <3>2. /\ pc[s] = "refine" /\ pc'[s] = "pause" /\ ClosedIn(ledger') = ClosedIn(ledger)
          /\ \A i \in DOMAIN ledger : ledger'[i] = ledger[i]
      BY <2>3, RefineFacts
    <3>3. /\ candidate[s][2] \in ClosedIn(ledger)
          /\ \A i \in OpenedIn(ledger) : ledger'[i].ref # candidate[s][2]
      BY <2>1, <3>2 DEF RefinedOnce
    <3> QED
      BY <2>1, <3>1, <3>2, <3>3 DEF RefinedOnce
  <2>4. CASE ~CloseGoal(s) /\ ~RefineGoal(s)
    <3>1. /\ ClosedIn(ledger') = ClosedIn(ledger)
          /\ \A i \in DOMAIN ledger : ledger'[i] = ledger[i]
          /\ OpenedIn(ledger) \subseteq OpenedIn(ledger')
          /\ \A i \in OpenedIn(ledger') : i \in OpenedIn(ledger) \/ ledger'[i].ref = 0
      BY <1>2, <2>4, OtherGoalSteps
    <3>2. ASSUME pc'[s] \in {"close", "refine"}
          PROVE  /\ candidate'[s] = candidate[s]
                 /\ (CheckGoal(s) /\ pc'[s] = "close") \/ pc'[s] = pc[s]
      <4>1. pc[s] \in GivingUp /\ candidate'[s] = candidate[s]
        BY <1>2, <3>2, JudgedFlow DEF Judged, Recorded, GivingUp, RecordExperience, SettleStuck, Goto
      <4>2. CheckGoal(s) \/ Crash(s) \/ UNCHANGED <<pc, candidate>>
        BY <1>2, <2>4, <4>1, GivingUpSteps
      <4>3. ~Crash(s)
        BY <3>2, CrashMove
      <4>4. CheckGoal(s) => pc'[s] = "close"
        BY <3>2 DEF CheckGoal, Goto, TypeOK
      <4> QED
        BY <4>1, <4>2, <4>3, <4>4
    <3>3. CheckGoal(s) /\ pc'[s] = "close" =>
            candidate[s][2] \in OpenedIn(ledger) \ ClosedIn(ledger) /\ ledger' = ledger
      BY DEF CheckGoal, Goto, ActiveGoals, Opened, ClosedGoals, OpenedIn, ClosedIn, stores, TypeOK
    <3>4. pc'[s] = "close" => candidate'[s][2] \in OpenedIn(ledger') \ ClosedIn(ledger')
      BY <3>1, <3>2, <3>3 DEF RefinedOnce
    <3>5. pc'[s] = "refine" => /\ candidate'[s][2] \in ClosedIn(ledger')
                               /\ \A i \in OpenedIn(ledger') : ledger'[i].ref # candidate'[s][2]
      <4>1. ASSUME pc'[s] = "refine"
            PROVE  pc[s] = "refine" /\ candidate'[s] = candidate[s]
        BY <3>2, <4>1
      <4> QED
        BY <2>1, <3>1, <4>1 DEF RefinedOnce
    <3> QED
      BY <2>1, <3>1, <3>4, <3>5 DEF RefinedOnce
  <2> QED
    BY <2>2, <2>3, <2>4
<1> QED
  BY <1>1, <1>2 DEF Next

GoalsInv == TypeOK /\ CandidateKinds /\ CountInv /\ BudgetInv /\ HistoryInv /\ GoalInv

LEMMA GoalsInvariant == Spec => []GoalsInv
<1>1. Init => CountInv /\ BudgetInv /\ HistoryInv /\ GoalInv
  BY CountInit, TailInit, HistoryInit, GoalInit DEF TailInv
<1>2. GoalsInv /\ TypeOK' /\ [Next]_vars => CountInv' /\ HistoryInv' /\ GoalInv'
  BY CountStep, HistoryStep, GivenUpStep, CarriedOnStep DEF GoalsInv, GoalInv
<1>3. GoalsInv /\ [Next]_vars => BudgetInv'
  <2> SUFFICES ASSUME GoalsInv, [Next]_vars PROVE BudgetInv'
    OBVIOUS
  <2>1. CASE UNCHANGED vars
    BY <2>1 DEF vars, GoalsInv, BudgetInv
  <2>2. ASSUME NEW s \in Sessions, EngineStep(s) \/ Crash(s) \/ Caller(s) PROVE BudgetInv'
    <3>1. TypeOK /\ CandidateKinds /\ BudgetInv
      BY DEF GoalsInv
    <3> QED
      BY <2>2, <3>1, BudgetSteps, AllowanceGrows
  <2> QED
    BY <2>1, <2>2 DEF Next
<1> QED
  BY <1>1, <1>2, <1>3, TypeCorrect, PTL DEF Spec, GoalsInv

\* However many sessions there are: a goal is given up only after enough
\* attempts of one session at it, and unless a process crashed it has been
\* carried forward, or is about to be.
THEOREM GoalsCarriedOn ==
  Spec => [](GivenUp(ledger) /\ CarriedOn(ledger, pc, candidate, budget))
<1>1. GoalsInv => GivenUp(ledger) /\ CarriedOn(ledger, pc, candidate, budget)
  BY DEF GoalsInv, GoalInv
<1> QED
  BY <1>1, GoalsInvariant, PTL

\* With one session a goal is, besides, carried forward only once: two sessions
\* can both find it active before either closes it.
THEOREM BlockedGoalsEvolve ==
  ASSUME NEW s, Sessions = {s}
  PROVE  Spec => []BlockedGoalEvolves
<1> DEFINE Once == RefinedOnce(ledger, pc[s], candidate[s])
<1>1. Init => Once
  BY GoalInit
<1>2. GoalsInv /\ Once /\ [Next]_vars => Once'
  BY RefinedOnceStep DEF GoalsInv
<1>3. GoalsInv /\ Once => BlockedGoalEvolves
  <2> SUFFICES ASSUME GoalsInv, Once, NEW g \in ClosedGoals
               PROVE  LET refined == {i \in Opened : ledger[i].ref = g}
                          A(t, kind, res) == {i \in DOMAIN ledger : /\ ledger[i].kind = "experience"
                                                                    /\ ledger[i].session = t
                                                                    /\ ledger[i].key = <<kind, g>>
                                                                    /\ ledger[i].result = res}
                      IN  /\ \E t \in Sessions, kind \in GoalKinds, res \in {"success", "failure"} :
                               Cardinality(A(t, kind, res)) >= Threshold
                          /\ Cardinality(refined) <= 1
                          /\ refined = {} =>
                               \/ budget.crashes < MaxCrashes
                               \/ \E t \in Sessions : pc[t] = "refine" /\ candidate[t] \in GoalKinds \X {g}
    BY DEF BlockedGoalEvolves
  <2> DEFINE refined == {i \in Opened : ledger[i].ref = g}
  <2>1. g \in ClosedIn(ledger) /\ Opened = OpenedIn(ledger) /\ g # 0
    BY DEF ClosedGoals, ClosedIn, Opened, OpenedIn, RefinedOnce
  <2>2. \E t \in Sessions, kind \in GoalKinds, res \in {"success", "failure"} :
          Cardinality(Attempts(ledger, t, <<kind, g>>, res)) >= Threshold
    BY <2>1 DEF GoalsInv, GoalInv, GivenUp, TriedEnough
  <2>3. Cardinality(refined) <= 1
    <3>1. \A i, j \in refined : i = j
      BY <2>1 DEF RefinedOnce
    <3>2. CASE refined = {}
      BY <3>2, FS_EmptySet
    <3>3. CASE refined # {}
      <4>1. PICK i : refined = {i}
        BY <3>1, <3>3
      <4> QED
        BY <4>1, FS_Singleton
    <3> QED
      BY <3>2, <3>3
  <2>4. refined = {} =>
          \/ budget.crashes < MaxCrashes
          \/ \E t \in Sessions : pc[t] = "refine" /\ candidate[t] \in GoalKinds \X {g}
    BY <2>1 DEF GoalsInv, GoalInv, CarriedOn
  <2> QED
    BY <2>2, <2>3, <2>4 DEF Attempts
<1> QED
  BY <1>1, <1>2, <1>3, GoalsInvariant, PTL DEF Spec

-----------------------------------------------------------------------------
(* No unaccounted activity.  The last activity that was started has no       *)
(* experience only while it is under way, or between two runs when the row   *)
(* still says that it was interrupted, or when the caller passed over it.    *)

\* A start that no experience of its session follows yet, over a given ledger
\* and but for the starts `sk' that the caller passed over.
Open(l, s, sk) ==
  \E i \in DOMAIN l :
    /\ i \notin sk
    /\ l[i].kind = "activity_started" /\ l[i].session = s
    /\ \A k \in DOMAIN l : k > i => ~(l[k].kind = "experience" /\ l[k].session = s)

Accounted(l, sk) ==
  \A i, j \in DOMAIN l :
    /\ i < j
    /\ l[i].kind = "activity_started" /\ l[j].kind = "activity_started"
    /\ l[i].session = l[j].session
    /\ i \notin sk
    => \E k \in (i + 1)..(j - 1) : l[k].kind = "experience" /\ l[k].session = l[i].session

Excused(at, r) == at \in Underway \/ (at = "off" /\ r.status \in MidRun)
Accountable(l, s, at, r, o, sk) == Open(l, s, sk) => Excused(at, r) /\ o.cmd # "resume"

AccountInv == \A s \in Sessions : Accountable(ledger, s, pc[s], row[s], op[s], skipped)

\* Passing over more leaves less open, and passing over what is unlived nothing.
LEMMA SkipMore ==
  ASSUME NEW l, NEW sk, NEW more, sk \subseteq more
  PROVE  /\ \A t : Open(l, t, more) => Open(l, t, sk)
         /\ Accounted(l, sk) => Accounted(l, more)
BY DEF Open, Accounted

LEMMA SkipUnlived ==
  ASSUME NEW s, Unlived(s) \subseteq skipped', ledger' = ledger
  PROVE  ~Open(ledger, s, skipped')
BY DEF Open, Unlived

\* Only a run that begins, a pause and a stop pass over anything.
LEMMA SkipStep ==
  ASSUME NEW s \in Sessions, EngineStep(s) \/ Crash(s) \/ Caller(s)
  PROVE  /\ skipped \subseteq skipped'
         /\ BeginRun(s) /\ row[s].status \in MidRun => Unlived(s) \subseteq skipped'
         /\ SaveCommand(s) /\ op[s].cmd # "resume" /\ op[s].held.status \in MidRun
              => Unlived(s) \subseteq skipped'
<1>1. CASE EngineStep(s)
  <2>1. skipped' = skipped
    BY <1>1 DEF EngineStep, locals, Reload, LeaveRun, Assess, LeaveLoop, EndRun, Wait, Generate,
       StartActivity, ReadCuriosity, WriteCuriosity, Prepare, BeginExecute, ExecuteSandbox,
       ExecuteCognitive, Observe, RecordExperience, Reflect, Update, SettleStuck, SettleNormal,
       CheckGoal, CloseGoal, RefineGoal, PauseStuck, Rest, Finish
  <2> QED
    BY <2>1 DEF BeginRun, SaveCommand
<1>2. CASE Crash(s) \/ Caller(s)
  BY <1>2 DEF Caller, locals, Crash, BeginRun, Command, RecordInterruption, SaveCommand, CallerCrash
<1> QED
  BY <1>1, <1>2

\* What an event does to the session's last start.
LEMMA OpenRecord ==
  ASSUME TypeOK, NEW e, Record(e), NEW t, NEW sk
  PROVE  /\ e.kind = "experience" /\ e.session = t => ~Open(ledger', t, sk)
         /\ e.kind \notin {"activity_started", "experience"} \/ e.session # t
              => (Open(ledger', t, sk) <=> Open(ledger, t, sk))
<1> DEFINE n == Len(ledger) + 1
<1>1. /\ n \notin DOMAIN ledger /\ DOMAIN ledger' = DOMAIN ledger \cup {n} /\ ledger'[n] = e
      /\ \A i \in DOMAIN ledger : ledger'[i] = ledger[i]
  BY RecordGoals
<1>2. n \in Nat /\ \A i \in DOMAIN ledger : i \in Nat /\ i < n
  BY DEF TypeOK
<1> HIDE DEF n
<1>3. ASSUME e.kind = "experience", e.session = t
      PROVE  ~Open(ledger', t, sk)
  <2> SUFFICES ASSUME NEW i \in DOMAIN ledger', ledger'[i].kind = "activity_started",
                      \A k \in DOMAIN ledger' :
                        k > i => ~(ledger'[k].kind = "experience" /\ ledger'[k].session = t)
               PROVE  FALSE
    BY DEF Open
  <2>1. i # n
    BY <1>1, <1>3
  <2>2. i \in DOMAIN ledger /\ n > i
    BY <1>1, <1>2, <2>1
  <2> QED
    BY <1>1, <1>3, <2>2
<1>4. ASSUME e.kind \notin {"activity_started", "experience"} \/ e.session # t
      PROVE  Open(ledger', t, sk) <=> Open(ledger, t, sk)
  <2>1. ~(e.kind = "experience" /\ e.session = t) /\ ~(e.kind = "activity_started" /\ e.session = t)
    BY <1>4
  <2> QED
    BY <1>1, <2>1 DEF Open
<1> QED
  BY <1>3, <1>4

\* An activity is started only when the last one is accounted for.
LEMMA AccountedRecord ==
  ASSUME TypeOK, NEW e, Record(e), NEW sk, Accounted(ledger, sk),
         e.kind = "activity_started" => ~Open(ledger, e.session, sk)
  PROVE  Accounted(ledger', sk)
<1> DEFINE n == Len(ledger) + 1
<1>1. /\ n \notin DOMAIN ledger /\ DOMAIN ledger' = DOMAIN ledger \cup {n} /\ ledger'[n] = e
      /\ \A i \in DOMAIN ledger : ledger'[i] = ledger[i]
  BY RecordGoals
<1>2. n \in Nat /\ \A i \in DOMAIN ledger : i \in Nat /\ i < n
  BY DEF TypeOK
<1>d. \A i, j, k \in Nat : j \in DOMAIN ledger /\ k \in (i + 1)..(j - 1) => k \in DOMAIN ledger
  BY DEF TypeOK
<1> HIDE DEF n
<1> SUFFICES ASSUME NEW i \in DOMAIN ledger', NEW j \in DOMAIN ledger', i < j,
                    ledger'[i].kind = "activity_started", ledger'[j].kind = "activity_started",
                    ledger'[i].session = ledger'[j].session, i \notin sk
             PROVE  \E k \in (i + 1)..(j - 1) :
                      ledger'[k].kind = "experience" /\ ledger'[k].session = ledger'[i].session
  BY DEF Accounted
<1>3. i \in DOMAIN ledger
  BY <1>1, <1>2
<1>4. CASE j = n
  <2>1. ~Open(ledger, e.session, sk) /\ ledger[i].kind = "activity_started" /\ ledger[i].session = e.session
    BY <1>1, <1>3, <1>4
  <2>2. PICK k \in DOMAIN ledger : k > i /\ ledger[k].kind = "experience" /\ ledger[k].session = e.session
    BY <1>3, <2>1 DEF Open
  <2>3. k \in (i + 1)..(j - 1)
    BY <1>2, <1>3, <1>4, <2>2
  <2> QED
    BY <1>1, <1>3, <2>1, <2>2, <2>3
<1>5. CASE j # n
  <2>1. j \in DOMAIN ledger /\ i \in Nat /\ j \in Nat
    BY <1>1, <1>2, <1>3, <1>5
  <2>2. PICK k \in (i + 1)..(j - 1) : ledger[k].kind = "experience" /\ ledger[k].session = ledger[i].session
    BY <1>1, <1>3, <2>1 DEF Accounted
  <2>3. k \in DOMAIN ledger
    BY <1>d, <2>1, <2>2
  <2> QED
    BY <1>1, <1>3, <2>2, <2>3
<1> QED
  BY <1>4, <1>5

LEMMA AccountInit == Init => AccountInv /\ Accounted(ledger, skipped)
<1> SUFFICES ASSUME Init PROVE AccountInv /\ Accounted(ledger, skipped)
  OBVIOUS
<1>1. \A i \in DOMAIN ledger : ledger[i].kind = "goal_opened"
  BY GoalsAssumption DEF Init, Event
<1>2. \A s \in Sessions : ~Open(ledger, s, skipped) /\ op[s].cmd = "none"
  BY <1>1 DEF Open, Init
<1> QED
  BY <1>1, <1>2 DEF AccountInv, Accountable, Accounted

LEMMA AccountStep ==
  ASSUME ~Concurrent, TypeOK, CandidateKinds, RowInv, AccountInv, [Next]_vars
  PROVE  AccountInv' /\ (Accounted(ledger, skipped) => Accounted(ledger', skipped'))
<1>1. CASE UNCHANGED vars
  BY <1>1 DEF vars, AccountInv
<1>2. ASSUME NEW s \in Sessions, EngineStep(s) \/ Crash(s) \/ Caller(s)
      PROVE  /\ AccountInv' /\ (Accounted(ledger, skipped) => Accounted(ledger', skipped'))
  <2>1. /\ Commanded(pc[s], row[s], op[s]) /\ Told(pc[s], row[s], mem[s])
        /\ Open(ledger, s, skipped') => Excused(pc[s], row[s]) /\ op[s].cmd # "resume"
    BY <1>2, SkipStep, SkipMore DEF RowInv, AccountInv, Accountable
  <2>2. \A x : WithStatus(row[s], x).status = x /\ WithStatus(mem[s], x).status = x
               /\ WithStatus(op[s].held, x).status = x
    BY WithStatusFacts DEF TypeOK
  <2> DEFINE Goal == Accountable(ledger, s, pc'[s], row'[s], op'[s], skipped')
             Kept == UNCHANGED ledger /\ Goal
             Beside == \E e : /\ Record(e) /\ e.kind \notin {"activity_started", "experience"}
                             /\ Goal
             Started == \E e : /\ Record(e) /\ e.kind = "activity_started" /\ e.session = s
                               /\ ~Open(ledger, s, skipped')
                               /\ Excused(pc'[s], row'[s]) /\ op'[s].cmd = "none"
             Accounts == \E e : Record(e) /\ e.kind = "experience" /\ e.session = s
  <2> USE DEF Commanded, Told, Between, Underway, Accountable, Excused
  <2>3. ASSUME Reload(s) \/ EndRun(s) \/ LeaveRun(s)
        PROVE  Kept
    BY <2>1, <2>3, ReloadMove, EndMove, LeaveMove
  <2>5. ASSUME \/ Assess(s) \/ Wait(s) \/ Generate(s) \/ Prepare(s) \/ BeginExecute(s)
               \/ Observe(s) \/ Reflect(s) \/ Update(s) \/ PauseStuck(s) \/ Rest(s)
        PROVE  Kept
    <3>1. UNCHANGED <<ledger, op>> /\ pc[s] \notin Between /\ (pc[s] \in Underway => pc'[s] \in Underway)
      BY <2>5, SaveMove DEF Writes
    <3>2. op'[s].cmd = "none"
      BY <2>1, <3>1
    <3> QED
      BY <2>1, <3>1, <3>2
  <2>6. ASSUME \/ LeaveLoop(s) \/ ReadCuriosity(s) \/ WriteCuriosity(s)
               \/ ExecuteSandbox(s) \/ ExecuteCognitive(s)
               \/ CheckGoal(s) \/ CloseGoal(s) \/ RefineGoal(s) \/ Finish(s)
        PROVE  Kept \/ Beside
    <3>1. Goal
      BY <2>1, <2>6, QuietMove DEF Quiet
    <3>2. UNCHANGED ledger \/ \E e : Record(e) /\ e.kind \notin {"activity_started", "experience"}
      <4>1. \A kind, u, key, res, ref : Event(kind, u, key, res, ref).kind = kind
        BY DEF Event
      <4>2. CASE UNCHANGED ledger
        BY <4>2
      <4>3. ASSUME NEW kind \in Kinds \ {"activity_started", "experience"}, NEW u, NEW key, NEW res,
                   NEW ref, Record(Event(kind, u, key, res, ref))
            PROVE  \E e : Record(e) /\ e.kind \notin {"activity_started", "experience"}
        BY <4>1, <4>3
      <4> QED
        BY <2>6, <4>2, <4>3, QuietMove
    <3> QED
      BY <3>1, <3>2
  <2>7. ASSUME StartActivity(s)
        PROVE  Started
    <3> DEFINE e == Event("activity_started", s, candidate[s], "unknown", 0)
    <3>1. Record(e) /\ e.kind = "activity_started" /\ e.session = s
      BY <2>7, StartMove DEF Event
    <3>2. ~Open(ledger, s, skipped') /\ Excused(pc'[s], row'[s]) /\ op'[s].cmd = "none"
      <4>1. /\ row' = row /\ op' = op /\ pc[s] = "select" /\ pc'[s] \in {"investigate", "prepare"}
        BY <2>7, StartMove
      <4>2. op'[s].cmd = "none" /\ ~Open(ledger, s, skipped')
        BY <2>1, <4>1
      <4> QED
        BY <4>1, <4>2
    <3> QED
      BY <3>1, <3>2
  <2>8. ASSUME RecordExperience(s)
        PROVE  Accounts
    <3> DEFINE e == Event("experience", s, candidate[s], result[s], mem[s].counter + 1)
    <3>1. Record(e) /\ e.kind = "experience" /\ e.session = s
      BY <2>8, RecordMove DEF Event
    <3> QED
      BY <3>1
  <2>9. ASSUME SettleStuck(s) \/ SettleNormal(s)
        PROVE  Kept \/ Beside
    <3> DEFINE e == Event("activity_finished", s, candidate[s], result[s], 0)
    <3>1. UNCHANGED ledger \/ (Record(e) /\ e.kind = "activity_finished")
      BY <2>9, SettleMove DEF Event
    <3>2. Goal
      BY <2>1, <2>9, SettleMove
    <3> QED
      BY <3>1, <3>2
  <2>10. ASSUME Crash(s)
         PROVE  Kept
    BY <2>1, <2>10, CrashMove
  <2>4. ASSUME BeginRun(s)
        PROVE  Kept
    <3>1. row[s].status \in MidRun => ~Open(ledger, s, skipped')
      BY <1>2, <2>4, SkipStep, SkipUnlived, BeginMove
    <3> QED
      BY <2>1, <2>4, <3>1, BeginMove
  <2>11. ASSUME \E cmd \in {"pause", "stop", "resume"} : Command(s, cmd)
         PROVE  Kept
    BY <2>1, <2>11, CommandMove
  <2>12. ASSUME RecordInterruption(s)
         PROVE  Accounts
    <3> DEFINE e == Event("experience", s, op[s].held.current, "unknown", 0)
    <3>1. Record(e) /\ e.kind = "experience" /\ e.session = s
      BY <2>12, InterruptMove DEF Event
    <3> QED
      BY <3>1
  <2>13. ASSUME SaveCommand(s)
         PROVE  Kept
    <3>1. op[s].cmd # "resume" /\ row[s].status \in MidRun => ~Open(ledger, s, skipped')
      BY <1>2, <2>1, <2>13, SkipStep, SkipUnlived, SaveCommandMove
    <3> QED
      BY <2>1, <2>13, <3>1, SaveCommandMove
  <2>20. ASSUME CallerCrash(s)
         PROVE  Kept
    BY <2>1, <2>20, CallerCrashMove
  <2> HIDE DEF Kept, Beside, Started, Accounts, Goal
  <2>14. Kept \/ Beside \/ Started \/ Accounts
    BY <1>2, <2>3, <2>4, <2>5, <2>6, <2>7, <2>8, <2>9, <2>10, <2>11, <2>12, <2>13,
       <2>20
    DEF EngineStep, Caller
  <2>15. \A t \in Sessions \ {s} : Still(t)
    BY <1>2, StepParts
  <2>16. ASSUME NEW t \in Sessions \ {s}
         PROVE  Open(ledger', t, skipped') => Open(ledger, t, skipped)
    <3>1. Open(ledger', t, skipped') <=> Open(ledger, t, skipped')
      BY <2>14, OpenRecord DEF Kept, Beside, Started, Accounts
    <3> QED
      BY <1>2, <3>1, SkipStep, SkipMore
  <2>17. \A t \in Sessions \ {s} : Accountable(ledger', t, pc'[t], row'[t], op'[t], skipped')
    BY <2>15, <2>16 DEF AccountInv, Still
  <2>18. Accountable(ledger', s, pc'[s], row'[s], op'[s], skipped')
    BY <2>14, OpenRecord DEF Kept, Beside, Started, Accounts, Goal
  <2>19. ASSUME Accounted(ledger, skipped)
         PROVE  Accounted(ledger', skipped')
    <3>1. Accounted(ledger, skipped')
      BY <1>2, <2>19, SkipStep, SkipMore
    <3> QED
      BY <2>14, <3>1, AccountedRecord DEF Kept, Beside, Started, Accounts
  <2> QED
    BY <2>17, <2>18, <2>19 DEF AccountInv
<1> QED
  BY <1>1, <1>2 DEF Next

\* Between two starts of a session there is an experience, whatever crashed and
\* whatever its caller did between the runs; an activity without one was passed
\* over by a caller that ran, paused or stopped the interrupted session first.
THEOREM NoneUnaccounted ==
  ASSUME ~Concurrent
  PROVE  Spec => []NoUnaccountedActivity
<1>1. Init => RowInv /\ AccountInv /\ Accounted(ledger, skipped)
  BY RowInit, AccountInit
<1>2. /\ TypeOK /\ CandidateKinds /\ RowInv /\ AccountInv /\ Accounted(ledger, skipped) /\ [Next]_vars
      => RowInv' /\ AccountInv' /\ Accounted(ledger, skipped)'
  BY RowStep, AccountStep
<1>3. Accounted(ledger, skipped) => NoUnaccountedActivity
  BY DEF Accounted, NoUnaccountedActivity
<1> QED
  BY <1>1, <1>2, <1>3, TypeCorrect, PTL DEF Spec
=============================================================================
