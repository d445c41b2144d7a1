-------------------------- MODULE AcquisitionProofs --------------------------
(* Machine-checked facts about Acquisition, for every value of its constants. *)
EXTENDS Acquisition, TLAPS

-----------------------------------------------------------------------------
(* What a step does to the calls. *)

LEMMA IdleTypes ==
  /\ Idle \in Calls
  /\ \A report \in Reports : [Idle EXCEPT !.report = report] \in Calls
BY DEF Calls, Idle, Places, Reports, NoMachine

\* The assignments to a call.
LEMMA CallTypes ==
  \A r \in Calls :
    /\ \A place \in Places, read \in BOOLEAN : [r EXCEPT !.at = place, !.read = read] \in Calls
    /\ \A place \in Places, outcome \in {"success", "failure", "raised"} :
         /\ [r EXCEPT !.at = place, !.outcome = outcome] \in Calls
         /\ [r EXCEPT !.at = place, !.read = FALSE, !.outcome = outcome] \in Calls
    /\ \A place \in Places, c \in Candidates : [r EXCEPT !.candidate = c, !.at = place] \in Calls
    /\ \A place \in Places, m \in Nat : [r EXCEPT !.at = place, !.machine = m] \in Calls
<1> SUFFICES ASSUME NEW r \in Calls, NEW place \in Places
             PROVE  /\ \A read \in BOOLEAN : [r EXCEPT !.at = place, !.read = read] \in Calls
                    /\ \A outcome \in {"success", "failure", "raised"} :
                         /\ [r EXCEPT !.at = place, !.outcome = outcome] \in Calls
                         /\ [r EXCEPT !.at = place, !.read = FALSE, !.outcome = outcome] \in Calls
                    /\ \A c \in Candidates : [r EXCEPT !.candidate = c, !.at = place] \in Calls
                    /\ \A m \in Nat : [r EXCEPT !.at = place, !.machine = m] \in Calls
  OBVIOUS
<1>1. \A read \in BOOLEAN : [r EXCEPT !.at = place, !.read = read] \in Calls
  BY DEF Calls
<1>2. \A outcome \in {"success", "failure", "raised"} : [r EXCEPT !.at = place, !.outcome = outcome] \in Calls
  BY DEF Calls
<1>3. \A outcome \in {"success", "failure", "raised"} :
        [r EXCEPT !.at = place, !.read = FALSE, !.outcome = outcome] \in Calls
  BY DEF Calls
<1>4. \A c \in Candidates : [r EXCEPT !.candidate = c, !.at = place] \in Calls
  BY DEF Calls
<1>5. \A m \in Nat : [r EXCEPT !.at = place, !.machine = m] \in Calls
  BY DEF Calls
<1> QED
  BY <1>1, <1>2, <1>3, <1>4, <1>5

\* Only p has gone on.
Others(p) == call' \in [Processes -> Calls] /\ \A q \in Processes \ {p} : call'[q] = call[q]

\* p is somewhere else, with what it had in hand.
Moved(p, place, outcome) ==
  /\ call'[p].candidate = call[p].candidate /\ call'[p].machine = call[p].machine
  /\ call'[p].hand = call[p].hand
  /\ call'[p].at = place /\ call'[p].outcome = outcome

\* p has nothing in hand but, perhaps, a candidate.
Free(p, place) ==
  /\ call'[p].at = place /\ call'[p].machine = NoMachine /\ ~call'[p].hand
  /\ call'[p].outcome = "success"

LEMMA GoEffect ==
  ASSUME TypeOK, NEW p \in Processes, NEW place \in Places, Go(p, place)
  PROVE  Others(p) /\ Moved(p, place, call[p].outcome)
<1>1. call \in [Processes -> Calls] /\ call[p] \in Calls
  BY DEF TypeOK
<1>2. [call[p] EXCEPT !.at = place, !.read = FALSE] \in Calls
  BY <1>1, CallTypes
<1>3. call' = [call EXCEPT ![p] = [call[p] EXCEPT !.at = place, !.read = FALSE]]
  BY <1>1 DEF Go
<1>4. Others(p) /\ call'[p] = [call[p] EXCEPT !.at = place, !.read = FALSE]
  BY <1>1, <1>2, <1>3 DEF Others
<1> QED
  BY <1>1, <1>4 DEF Moved, Calls

LEMMA FailEffect ==
  ASSUME TypeOK, NEW p \in Processes, Fail(p)
  PROVE  Others(p) /\ Moved(p, "failed", "failure")
<1>1. call \in [Processes -> Calls] /\ call[p] \in Calls
  BY DEF TypeOK
<1>2. [call[p] EXCEPT !.at = "failed", !.read = FALSE, !.outcome = "failure"] \in Calls
  BY <1>1, CallTypes DEF Places, Statuses
<1>3. call' = [call EXCEPT ![p] = [call[p] EXCEPT !.at = "failed", !.read = FALSE, !.outcome = "failure"]]
  BY <1>1 DEF Fail
<1>4. Others(p) /\ call'[p] = [call[p] EXCEPT !.at = "failed", !.read = FALSE, !.outcome = "failure"]
  BY <1>1, <1>2, <1>3 DEF Others
<1> QED
  BY <1>1, <1>4 DEF Moved, Calls

\* A failure that does not touch the record: Interrupt, and the end of Read.
LEMMA RaiseEffect ==
  ASSUME TypeOK, NEW p \in Processes,
         call' = [call EXCEPT ![p].at = "destroy", ![p].outcome = "raised"]
  PROVE  Others(p) /\ Moved(p, "destroy", "raised")
<1>1. call \in [Processes -> Calls] /\ call[p] \in Calls
  BY DEF TypeOK
<1>2. [call[p] EXCEPT !.at = "destroy", !.outcome = "raised"] \in Calls
  BY <1>1, CallTypes DEF Places
<1>3. call' = [call EXCEPT ![p] = [call[p] EXCEPT !.at = "destroy", !.outcome = "raised"]]
  BY <1>1
<1>4. Others(p) /\ call'[p] = [call[p] EXCEPT !.at = "destroy", !.outcome = "raised"]
  BY <1>1, <1>2, <1>3 DEF Others
<1> QED
  BY <1>1, <1>4 DEF Moved, Calls

LEMMA ReturnEffect ==
  ASSUME TypeOK, NEW p \in Processes, NEW report \in Reports, Return(p, report)
  PROVE  Others(p) /\ Free(p, "idle")
<1>1. call \in [Processes -> Calls]
  BY DEF TypeOK
<1>2. Others(p) /\ call'[p] = [Idle EXCEPT !.report = report]
  BY <1>1, IdleTypes DEF Return, Others
<1> QED
  BY <1>2 DEF Idle, Free

LEMMA BeginEffect ==
  ASSUME TypeOK, NEW p \in Processes, Begin(p)
  PROVE  Others(p) /\ (Free(p, "idle") \/ Free(p, "discover"))
<1>1. call \in [Processes -> Calls]
  BY DEF TypeOK
<1>2. CASE Return(p, "no_gap")
  BY <1>2, ReturnEffect DEF Reports
<1>3. CASE call' = [call EXCEPT ![p] = [Idle EXCEPT !.at = "discover"]]
  <2>1. [Idle EXCEPT !.at = "discover"] \in Calls
    BY DEF Calls, Idle, Places, Reports, NoMachine
  <2>2. Others(p) /\ call'[p] = [Idle EXCEPT !.at = "discover"]
    BY <1>1, <1>3, <2>1 DEF Others
  <2> QED
    BY <2>2 DEF Idle, Free
<1> QED
  BY <1>2, <1>3 DEF Begin

LEMMA DiscoverEffect ==
  ASSUME TypeOK, NEW p \in Processes, Discover(p)
  PROVE  /\ Others(p)
         /\ \/ Free(p, "idle")
            \/ \E place \in {"insert", "download"} :
                 /\ call'[p].candidate \in Candidates
                 /\ call'[p].at = place /\ call'[p].machine = call[p].machine
                 /\ call'[p].hand = call[p].hand /\ call'[p].outcome = call[p].outcome
<1>1. call \in [Processes -> Calls] /\ call[p] \in Calls
  BY DEF TypeOK
<1>2. CASE \E report \in {"failed", "no_candidate"} : Return(p, report)
  BY <1>2, ReturnEffect DEF Reports
<1>3. CASE \E c \in Candidates, place \in {"insert", "download"} :
             call' = [call EXCEPT ![p].candidate = c, ![p].at = place]
  <2>1. PICK c \in Candidates, place \in {"insert", "download"} :
          call' = [call EXCEPT ![p].candidate = c, ![p].at = place]
    BY <1>3
  <2>2. [call[p] EXCEPT !.candidate = c, !.at = place] \in Calls
    BY <1>1, CallTypes DEF Places
  <2>3. call' = [call EXCEPT ![p] = [call[p] EXCEPT !.candidate = c, !.at = place]]
    BY <1>1, <2>1
  <2>4. Others(p) /\ call'[p] = [call[p] EXCEPT !.candidate = c, !.at = place]
    BY <1>1, <2>2, <2>3 DEF Others
  <2> QED
    BY <1>1, <2>4 DEF Calls
<1>4. \A offers \in SUBSET Candidates : Best(offers) \subseteq Candidates
  BY DEF Best
<1> QED
  BY <1>2, <1>3, <1>4 DEF Discover

LEMMA HandEffect ==
  ASSUME TypeOK, NEW p \in Processes, Hand(p)
  PROVE  /\ Others(p)
         /\ \E c \in Candidates, to \in Statuses \ Halfway :
              /\ call'[p].at = to /\ call'[p].candidate = c /\ call'[p].hand /\ ~call'[p].read
              /\ call'[p].machine = NoMachine /\ call'[p].outcome = "success"
<1>1. call \in [Processes -> Calls]
  BY DEF TypeOK
<1>2. PICK c \in Candidates, to \in Statuses :
        /\ <<status[c], to>> \in ByHand
        /\ call' = [call EXCEPT ![p] = [Idle EXCEPT !.at = to, !.candidate = c, !.hand = TRUE]]
  BY DEF Hand
<1>3. [Idle EXCEPT !.at = to, !.candidate = c, !.hand = TRUE] \in Calls
  BY DEF Calls, Idle, Places, Reports, NoMachine
<1>4. Others(p) /\ call'[p] = [Idle EXCEPT !.at = to, !.candidate = c, !.hand = TRUE]
  BY <1>1, <1>2, <1>3 DEF Others
<1>5. to \notin Halfway
  BY <1>2, HandAssumption
<1> QED
  BY <1>4, <1>5 DEF Idle

Legal(p) ==
  status[call[p].candidate] # Unknown /\ call[p].at \in Transitions[status[call[p].candidate]]

\* A person is about to turn off, or on, what acquire() has not brought to its end.
Turning(p) ==
  /\ Legal(p) /\ call[p].hand /\ call[p].at \in {"available", "disabled"}
  /\ status[call[p].candidate] \in Unfinished

LEMMA ReadTurns ==
  ASSUME NEW p \in Processes, Read(p)
  PROVE  turned' = IF Turning(p) THEN turned \cup {<<call[p].candidate, status[call[p].candidate]>>} ELSE turned
BY DEF Read, Turning, Legal

LEMMA ReadEffect ==
  ASSUME TypeOK, NEW p \in Processes, Read(p)
  PROVE  /\ Others(p) /\ call[p].at \in Statuses
         /\ \/ Legal(p) /\ Moved(p, call[p].at, call[p].outcome)
            \/ ~Legal(p) /\ call[p].machine = NoMachine /\ Free(p, "idle")
            \/ ~Legal(p) /\ call[p].machine # NoMachine /\ call[p].at # "failed" /\ Moved(p, "failed", "failure")
            \/ ~Legal(p) /\ call[p].machine # NoMachine /\ call[p].at = "failed" /\ Moved(p, "destroy", "raised")
<1>1. call \in [Processes -> Calls] /\ call[p] \in Calls
  BY DEF TypeOK
<1>2. CASE Legal(p) /\ call' = [call EXCEPT ![p].read = TRUE]
  <2>1. [call[p] EXCEPT !.read = TRUE] \in Calls
    BY <1>1 DEF Calls
  <2>2. Others(p) /\ call'[p] = [call[p] EXCEPT !.read = TRUE]
    BY <1>1, <1>2, <2>1 DEF Others
  <2> QED
    BY <1>1, <1>2, <2>2 DEF Moved, Calls, Read
<1>3. CASE ~Legal(p) /\ call[p].machine = NoMachine /\ Return(p, "raised")
  BY <1>3, ReturnEffect DEF Reports, Read
<1>4. CASE ~Legal(p) /\ call[p].machine # NoMachine /\ call[p].at # "failed" /\ Fail(p)
  BY <1>4, FailEffect DEF Read
<1>5. CASE /\ ~Legal(p) /\ call[p].machine # NoMachine /\ call[p].at = "failed"
           /\ call' = [call EXCEPT ![p].at = "destroy", ![p].outcome = "raised"]
  BY <1>5, RaiseEffect DEF Read
<1> QED
  BY <1>2, <1>3, <1>4, <1>5 DEF Read, Legal

LEMMA WriteEffect ==
  ASSUME TypeOK, NEW p \in Processes, Write(p)
  PROVE  /\ Others(p)
         /\ \/ call[p].hand /\ Free(p, "idle")
            \/ call[p].at = "failed" /\ call[p].machine = NoMachine /\ Free(p, "idle")
            \/ /\ ~call[p].hand /\ (call[p].at = "failed" => call[p].machine # NoMachine)
               /\ Moved(p, After(call[p].at), call[p].outcome)
<1>1. After(call[p].at) \in Places
  BY DEF After, Places, Statuses
<1> QED
  BY <1>1, GoEffect, ReturnEffect DEF Write, Reports

LEMMA CreateEffect ==
  ASSUME TypeOK, NEW p \in Processes, Create(p)
  PROVE  /\ Others(p)
         /\ \/ /\ made' = made + 1 /\ machines' = machines \cup {made + 1} /\ UNCHANGED <<lost, refused>>
               /\ call'[p].at = "install" /\ call'[p].machine = made + 1
               /\ call'[p].candidate = call[p].candidate /\ call'[p].hand = call[p].hand
               /\ call'[p].outcome = call[p].outcome
            \/ /\ Free(p, "idle") /\ refused' = refused \cup {call[p].candidate}
               /\ \/ UNCHANGED <<machines, made, lost>>
                  \/ made' = made + 1 /\ machines' = machines \cup {made + 1} /\ lost' = lost \cup {made + 1}
<1>1. call \in [Processes -> Calls] /\ call[p] \in Calls /\ made + 1 \in Nat
  BY DEF TypeOK
<1>2. CASE /\ made' = made + 1 /\ machines' = machines \cup {made + 1} /\ UNCHANGED <<lost, refused>>
           /\ call' = [call EXCEPT ![p].at = "install", ![p].machine = made + 1]
  <2>1. [call[p] EXCEPT !.at = "install", !.machine = made + 1] \in Calls
    BY <1>1, CallTypes DEF Places
  <2>2. call' = [call EXCEPT ![p] = [call[p] EXCEPT !.at = "install", !.machine = made + 1]]
    BY <1>1, <1>2
  <2>3. Others(p) /\ call'[p] = [call[p] EXCEPT !.at = "install", !.machine = made + 1]
    BY <1>1, <2>1, <2>2 DEF Others
  <2> QED
    BY <1>1, <1>2, <2>3 DEF Calls
<1>3. CASE /\ Return(p, "raised") /\ refused' = refused \cup {call[p].candidate}
           /\ \/ made' = made + 1 /\ machines' = machines \cup {made + 1} /\ lost' = lost \cup {made + 1}
              \/ UNCHANGED <<machines, made, lost>>
  BY <1>3, ReturnEffect DEF Reports
<1> QED
  BY <1>2, <1>3 DEF Create

LEMMA DestroyEffect ==
  ASSUME TypeOK, NEW p \in Processes, Destroy(p)
  PROVE  /\ Others(p)
         /\ \/ call[p].outcome = "success" /\ Moved(p, "experience", "success")
            \/ call[p].outcome # "success" /\ Free(p, "idle")
         /\ \/ machines' = machines \ {call[p].machine} /\ UNCHANGED lost
            \/ lost' = lost \cup {call[p].machine} /\ UNCHANGED machines
<1>1. CASE call[p].outcome = "success" /\ Go(p, "experience")
  BY <1>1, GoEffect DEF Destroy, Places
<1>2. CASE call[p].outcome # "success" /\ \E report \in {"failed", "raised"} : Return(p, report)
  BY <1>2, ReturnEffect DEF Destroy, Reports
<1> QED
  BY <1>1, <1>2 DEF Destroy

LEMMA CrashEffect ==
  ASSUME TypeOK, NEW p \in Processes, Crash(p)
  PROVE  Others(p) /\ Free(p, "idle")
BY IdleTypes DEF TypeOK, Crash, Others, Free, Idle

-----------------------------------------------------------------------------
(* Types. *)

Budgets == [calls : Nat, hand : Nat, uses : Nat, crashes : Nat]

LEMMA BudgetTypes ==
  \A b \in Budgets :
    /\ b.calls > 0 => [b EXCEPT !.calls = @ - 1] \in Budgets
    /\ b.hand > 0 => [b EXCEPT !.hand = @ - 1] \in Budgets
    /\ b.uses > 0 => [b EXCEPT !.uses = @ - 1] \in Budgets
    /\ b.crashes > 0 => [b EXCEPT !.crashes = @ - 1] \in Budgets
<1>1. \A b \in Budgets : b.calls \in Nat /\ b.hand \in Nat /\ b.uses \in Nat /\ b.crashes \in Nat
  BY DEF Budgets
<1>2. \A n \in Nat : n > 0 => n - 1 \in Nat
  OBVIOUS
<1> QED
  BY <1>1, <1>2 DEF Budgets

LEMMA InitTypes == Init => TypeOK
BY IdleTypes, AcquisitionAssumption DEF Init, TypeOK, Idle, NoMachine

\* The part of TypeOK that is about the calls follows from what a step does to
\* the one that moves.
LEMMA CallsKeepTypes ==
  ASSUME TypeOK, NEW p \in Processes, Others(p),
         call'[p].at \notin {"idle", "discover"} => call'[p].candidate \in Candidates
  PROVE  /\ call' \in [Processes -> Calls]
         /\ \A q \in Processes : call'[q].at \notin {"idle", "discover"} => call'[q].candidate \in Candidates
BY DEF TypeOK, Others

LEMMA BudgetKeepsTypes ==
  ASSUME TypeOK, \/ UNCHANGED budget
                 \/ budget.calls > 0 /\ budget' = [budget EXCEPT !.calls = @ - 1]
                 \/ budget.hand > 0 /\ budget' = [budget EXCEPT !.hand = @ - 1]
                 \/ budget.uses > 0 /\ budget' = [budget EXCEPT !.uses = @ - 1]
                 \/ budget.crashes > 0 /\ budget' = [budget EXCEPT !.crashes = @ - 1]
  PROVE  budget' \in [calls : Nat, hand : Nat, uses : Nat, crashes : Nat]
BY BudgetTypes DEF TypeOK, Budgets

LEMMA UsageTypes ==
  ASSUME TypeOK, NEW c \in Candidates, NEW result \in {"success", "failure"}
  PROVE  /\ [usage EXCEPT ![c][result] = @ + 1] \in [Candidates -> [success : Nat, failure : Nat]]
         /\ \A d \in Candidates : [usage EXCEPT ![c][result] = @ + 1][d].success >= usage[d].success
<1>1. usage \in [Candidates -> [success : Nat, failure : Nat]] /\ usage[c] \in [success : Nat, failure : Nat]
  BY DEF TypeOK
<1>2. usage[c][result] + 1 \in Nat
  BY <1>1
<1>3. [usage[c] EXCEPT ![result] = @ + 1] \in [success : Nat, failure : Nat]
      /\ [usage[c] EXCEPT ![result] = @ + 1].success >= usage[c].success
  BY <1>1, <1>2
<1>4. [usage EXCEPT ![c][result] = @ + 1] = [usage EXCEPT ![c] = [usage[c] EXCEPT ![result] = @ + 1]]
  BY <1>1
<1> QED
  BY <1>1, <1>3, <1>4

LEMMA NextTypes == TypeOK /\ [Next]_vars => TypeOK'
<1> SUFFICES ASSUME TypeOK, [Next]_vars PROVE TypeOK'
  OBVIOUS
<1>1. CASE UNCHANGED vars
  BY <1>1 DEF TypeOK, vars
<1>2. CASE Use
  <2>1. Recommended \subseteq Candidates
    BY DEF Recommended, Matches
  <2>2. budget' \in [calls : Nat, hand : Nat, uses : Nat, crashes : Nat]
    BY <1>2, BudgetKeepsTypes DEF Use
  <2>3. usage' \in [Candidates -> [success : Nat, failure : Nat]]
    <3>1. PICK c \in Recommended, result \in {"success", "failure"} :
            usage' = [usage EXCEPT ![c][result] = @ + 1]
      BY <1>2 DEF Use
    <3> QED
      BY <2>1, <3>1, UsageTypes
  <2> QED
    BY <1>2, <2>2, <2>3 DEF TypeOK, Use, history
<1>3. ASSUME NEW p \in Processes PROVE Acquire(p) \/ Transition(p) \/ Hand(p) \/ Crash(p) => TypeOK'
  <2> USE DEF registry, history
  <2>1. CASE Begin(p)
    BY <2>1, BeginEffect, CallsKeepTypes, BudgetKeepsTypes DEF Begin, TypeOK, Free
  <2>2. CASE Discover(p)
    BY <2>2, DiscoverEffect, CallsKeepTypes DEF Discover, TypeOK, Free
  <2>3. CASE Insert(p)
    <3>1. CASE status' = [status EXCEPT ![call[p].candidate] = "discovered"] /\ Go(p, "download")
      BY <2>3, <3>1, GoEffect, CallsKeepTypes DEF Insert, TypeOK, Moved, Places, Statuses
    <3>2. CASE Return(p, "raised") /\ UNCHANGED status
      BY <2>3, <3>2, ReturnEffect, CallsKeepTypes DEF Insert, TypeOK, Free, Reports
    <3> QED
      BY <2>3, <3>1, <3>2 DEF Insert
  <2>4. CASE Download(p)
    BY <2>4, GoEffect, FailEffect, CallsKeepTypes DEF Download, TypeOK, Moved, Places, Statuses
  <2>5. CASE Create(p)
    <3>1. Others(p) /\ (call'[p].at \notin {"idle", "discover"} => call'[p].candidate \in Candidates)
      BY <2>5, CreateEffect DEF Create, TypeOK, Free
    <3>2. machines' \subseteq Nat /\ made' \in Nat /\ lost' \subseteq Nat /\ refused' \subseteq Candidates
      BY <2>5 DEF Create, TypeOK
    <3> QED
      BY <2>5, <3>1, <3>2, CallsKeepTypes DEF Create, TypeOK
  <2>6. CASE Install(p)
    BY <2>6, GoEffect, FailEffect, CallsKeepTypes DEF Install, TypeOK, Moved, Places, Statuses
  <2>7. CASE Interrupt(p)
    <3>1. Others(p) /\ (call'[p].at \notin {"idle", "discover"} => call'[p].candidate \in Candidates)
      BY <2>7, RaiseEffect DEF Interrupt, TypeOK, Moved
    <3>2. abandoned' \subseteq Candidates
      BY <2>7 DEF Interrupt, TypeOK
    <3> QED
      BY <2>7, <3>1, <3>2, CallsKeepTypes DEF Interrupt, TypeOK
  <2>8. CASE Validate(p)
    BY <2>8, GoEffect, FailEffect, CallsKeepTypes DEF Validate, TypeOK, Moved, Places, Calls
  <2>9. CASE Locate(p)
    BY <2>9, GoEffect, CallsKeepTypes DEF Locate, TypeOK, Moved, Places, Statuses, Calls
  <2>10. CASE Destroy(p)
    <3>1. Others(p) /\ (call'[p].at \notin {"idle", "discover"} => call'[p].candidate \in Candidates)
      BY <2>10, DestroyEffect DEF Destroy, TypeOK, Moved, Free
    <3>2. call[p].machine \in Nat
      BY DEF TypeOK, Calls
    <3>3. machines' \subseteq Nat /\ lost' \subseteq Nat
      BY <2>10, <3>2, DestroyEffect DEF TypeOK
    <3> QED
      BY <2>10, <3>1, <3>3, CallsKeepTypes DEF Destroy, TypeOK
  <2>11. CASE RecordExperience(p)
    BY <2>11, GoEffect, CallsKeepTypes DEF RecordExperience, TypeOK, Moved, Places
  <2>12. CASE RecordUsage(p)
    BY <2>12, ReturnEffect, CallsKeepTypes, UsageTypes DEF RecordUsage, TypeOK, Free, Reports
  <2>13. CASE Read(p)
    <3>1. Others(p) /\ (call'[p].at \notin {"idle", "discover"} => call'[p].candidate \in Candidates)
      BY <2>13, ReadEffect DEF TypeOK, Moved, Free, Statuses
    <3>2. turned' \subseteq Candidates \X Unfinished
      <4>1. turned \subseteq Candidates \X Unfinished /\ call[p].candidate \in Candidates
        BY <2>13 DEF TypeOK, Read, Statuses
      <4> QED
        BY <2>13, <4>1, ReadTurns DEF Turning
    <3> QED
      BY <2>13, <3>1, <3>2, CallsKeepTypes DEF Read, TypeOK
  <2>14. CASE Write(p)
    <3>1. Others(p) /\ (call'[p].at \notin {"idle", "discover"} => call'[p].candidate \in Candidates)
      BY <2>14, WriteEffect DEF Write, TypeOK, Moved, Free, Statuses
    <3>2. status' \in [Candidates -> Statuses \cup {Unknown}]
      BY <2>14 DEF Write, TypeOK
    <3> QED
      BY <2>14, <3>1, <3>2, CallsKeepTypes DEF Write, TypeOK
  <2>15. CASE Hand(p)
    <3>1. Others(p) /\ call'[p].candidate \in Candidates
      BY <2>15, HandEffect
    <3>2. budget' \in [calls : Nat, hand : Nat, uses : Nat, crashes : Nat]
      BY <2>15, BudgetKeepsTypes DEF Hand
    <3> QED
      BY <2>15, <3>1, <3>2, CallsKeepTypes DEF Hand, TypeOK
  <2>16. CASE Crash(p)
    <3>1. Others(p) /\ call'[p].at = "idle"
      BY <2>16, CrashEffect DEF Free
    <3>2. budget' \in [calls : Nat, hand : Nat, uses : Nat, crashes : Nat]
      BY <2>16, BudgetKeepsTypes DEF Crash
    <3>3. call[p] \in Calls
      BY DEF TypeOK
    <3>4. lost' \subseteq Nat /\ abandoned' \subseteq Candidates
      BY <2>16, <3>3 DEF Crash, TypeOK, Calls
    <3> QED
      BY <2>16, <3>1, <3>2, <3>4, CallsKeepTypes DEF Crash, TypeOK
  <2> QED
    BY <2>1, <2>2, <2>3, <2>4, <2>5, <2>6, <2>7, <2>8, <2>9, <2>10, <2>11, <2>12, <2>13, <2>14,
       <2>15, <2>16 DEF Acquire, Transition
<1> QED
  BY <1>1, <1>2, <1>3 DEF Next

\* Every variable of the registry and of the calls keeps its type, and a call
\* has a candidate wherever it uses one.
THEOREM TypeCorrect == Spec => []TypeOK
<1> QED
  BY InitTypes, NextTypes, PTL DEF Spec

-----------------------------------------------------------------------------
(* The inductive invariant. *)

\* Where acquire() has a machine, and goes on to the end of the life cycle.
Working == {"install", "installed", "initialized", "validate", "locate", "validated", "available"}

\* Where it is while there is none yet.
Early == {"idle", "discover", "insert", "download", "downloaded", "create"}

\* Where a call is tells what it has in hand.
InPlace(p) ==
  LET here == call[p]
  IN  /\ here.at \in Early => here.machine = NoMachine
      /\ here.at \in Working \cup {"destroy"} /\ ~here.hand => here.machine # NoMachine
      /\ here.machine <= made
      /\ here.hand => here.at \in Statuses \ Halfway /\ here.machine = NoMachine
      /\ here.at \in Statuses /\ ~here.hand => here.at \in Halfway \cup {"available", "failed"}
      /\ here.at \in Early \cup Working => here.outcome = "success"
      /\ here.at = "usage" => experiences[here.candidate] > 0
      /\ here.at \in {"experience", "usage"} => here.machine \notin machines \/ here.machine \in lost

AllInPlace == \A p \in Processes : InPlace(p)

\* What has a location, or a person has turned off when it had failed.
Excused(c) == location[c] # NoMachine \/ <<c, "failed">> \in turned

\* Who is about to write one of the statuses that call for a location.
Placing(p) == call[p].at \in {"validated", "available", "disabled"} /\ (call[p].hand => call[p].read)

Placed(p) == Placing(p) => Excused(call[p].candidate)

\* A location is one a validation passed in, and what has been validated has one.
Located ==
  /\ \A c \in Candidates : location[c] # NoMachine => <<c, location[c]>> \in proved
  /\ \A c \in Candidates : status[c] \in {"validated", "available", "disabled"} => Excused(c)
  /\ \A p \in Processes :
       /\ call[p].at = "locate" => <<call[p].candidate, call[p].machine>> \in proved
       /\ Placed(p)

MachineOwned ==
  /\ \A m \in machines : m # NoMachine /\ m <= made
  /\ NoMachineLeft

\* A call that takes a candidate on, or is about to fail it.
Holding(p) == ~call[p].hand /\ call[p].at \in Working \cup {"failed"}

\* A call that is to have a machine.
Waiting(p) == call[p].at = "create"

\* Who is half-way is in somebody's hand, about to have a machine or refused one.
Followed(c) ==
  \/ \E p \in Processes : call[p].candidate = c /\ Holding(p)
  \/ status[c] = "downloaded" /\ c \in refused
  \/ status[c] = "downloaded" /\ \E p \in Processes : call[p].candidate = c /\ Waiting(p)

InHand == \A c \in Candidates \ abandoned : status[c] \in Halfway => Followed(c)

History(c) == experiences[c] > 0 /\ usage[c].success > 0

\* A call of acquire() that is past the last move, and has but to say so.
Finishing(p) == \/ call[p].at = "destroy" /\ call[p].outcome = "success"
                \/ call[p].at \in {"experience", "usage"}

\* A person has turned it off, or on, before acquire() had brought it to its end.
Turned(c) == \E from \in Unfinished : <<c, from>> \in turned

\* What stands behind an available capability, for good.
Vouched(c) == c \in abandoned \/ History(c) \/ Turned(c) \/ \E p \in Processes : call[p].candidate = c /\ Finishing(p)

Behind ==
  /\ \A c \in Candidates : status[c] \in {"available", "disabled"} => Vouched(c)
  /\ \A p \in Processes, c \in Candidates :
       call[p].candidate = c /\ call[p].hand /\ call[p].read /\ call[p].at \in {"available", "disabled"}
       => Vouched(c)

IInv == TypeOK /\ AllInPlace /\ Located /\ MachineOwned /\ InHand /\ Behind

LEMMA InitIInv == Init => IInv
<1> SUFFICES ASSUME Init PROVE IInv
  OBVIOUS
<1>1. TypeOK
  BY InitTypes
<1>2. AllInPlace /\ Located /\ MachineOwned
  BY DEF Init, Idle, NoMachine, AllInPlace, InPlace, Located, Placed, Placing, MachineOwned, NoMachineLeft,
         Early, Working, Statuses, Halfway, Unknown
<1>3. InHand /\ Behind
  BY DEF Init, Idle, InHand, Behind, Halfway, Unknown
<1> QED
  BY <1>1, <1>2, <1>3 DEF IInv

\* What no step takes back.
Kept ==
  /\ abandoned \subseteq abandoned' /\ proved \subseteq proved' /\ lost \subseteq lost'
  /\ refused \subseteq refused' /\ turned \subseteq turned'
  /\ made' \in Nat /\ made <= made'
  /\ \A m \in machines' : m \in machines \/ (m = made + 1 /\ made' = made + 1)
  /\ \A c \in Candidates : /\ experiences[c] > 0 => experiences'[c] > 0
                           /\ usage[c].success > 0 => usage'[c].success > 0
                           /\ location[c] # NoMachine => location'[c] # NoMachine

LEMMA Monotone ==
  ASSUME TypeOK, AllInPlace, [Next]_vars
  PROVE  Kept
<1> USE DEF registry, history
<1>0. /\ made \in Nat /\ made + 1 \in Nat /\ made <= made /\ made <= made + 1
      /\ location \in [Candidates -> Nat] /\ experiences \in [Candidates -> Nat]
      /\ \A c \in Candidates : experiences[c] \in Nat /\ usage[c].success \in Nat
  BY DEF TypeOK
<1>1. ASSUME UNCHANGED <<location, usage, experiences, machines, made>>,
             abandoned \subseteq abandoned' /\ proved \subseteq proved' /\ lost \subseteq lost',
             refused \subseteq refused' /\ turned \subseteq turned'
      PROVE  Kept
  BY <1>0, <1>1 DEF Kept
<1>2. CASE UNCHANGED vars
  BY <1>1, <1>2 DEF vars
<1>3. ASSUME NEW c \in Candidates, NEW result \in {"success", "failure"},
             usage' = [usage EXCEPT ![c][result] = @ + 1],
             UNCHANGED <<location, experiences, machines, made, history>>
      PROVE  Kept
  <2>1. \A d \in Candidates : usage'[d].success >= usage[d].success /\ usage'[d].success \in Nat
    <3>1. usage' \in [Candidates -> [success : Nat, failure : Nat]]
      BY <1>3, UsageTypes
    <3>2. \A d \in Candidates : usage'[d].success >= usage[d].success
      BY <1>3, UsageTypes
    <3> QED
      BY <3>1, <3>2
  <2>2. \A d \in Candidates : usage[d].success > 0 => usage'[d].success > 0
    BY <1>0, <2>1
  <2> QED
    BY <1>0, <1>3, <2>2 DEF Kept
<1>4. CASE Use
  BY <1>3, <1>4 DEF Use, Recommended, Matches
<1>5. ASSUME NEW p \in Processes, Acquire(p) \/ Transition(p) \/ Hand(p) \/ Crash(p) PROVE Kept
  <2>1. CASE Create(p)
    <3>1. /\ UNCHANGED <<location, usage, experiences, proved, abandoned, turned>>
          /\ lost \subseteq lost' /\ refused \subseteq refused'
      BY <2>1 DEF Create
    <3>2. \/ UNCHANGED <<machines, made>>
          \/ made' = made + 1 /\ machines' = machines \cup {made + 1}
      BY <2>1 DEF Create
    <3> QED
      BY <1>0, <3>1, <3>2 DEF Kept
  <2>2. CASE Locate(p)
    <3>1. call[p].candidate \in Candidates /\ call[p].machine # NoMachine
      BY <2>2 DEF Locate, TypeOK, AllInPlace, InPlace, Working, Statuses, Halfway
    <3>2. \A c \in Candidates : location[c] # NoMachine => location'[c] # NoMachine
      BY <1>0, <2>2, <3>1 DEF Locate
    <3> QED
      BY <1>0, <2>2, <3>2 DEF Locate, Kept
  <2>3. CASE Destroy(p)
    <3>1. machines' \subseteq machines /\ lost \subseteq lost'
      BY <2>3 DEF Destroy
    <3> QED
      BY <1>0, <2>3, <3>1 DEF Destroy, Kept
  <2>4. CASE RecordExperience(p)
    <3>1. \A c \in Candidates : experiences[c] > 0 => experiences'[c] > 0
      BY <1>0, <2>4 DEF RecordExperience
    <3> QED
      BY <1>0, <2>4, <3>1 DEF RecordExperience, Kept
  <2>5. CASE RecordUsage(p)
    BY <1>3, <2>5 DEF RecordUsage, TypeOK
  <2>6. CASE Begin(p) \/ Discover(p) \/ Insert(p) \/ Download(p) \/ Install(p) \/ Write(p) \/ Hand(p)
    BY <1>1, <2>6 DEF Begin, Discover, Insert, Download, Install, Write, Hand
  <2>8. CASE Read(p)
    BY <1>1, <2>8 DEF Read
  <2>7. CASE Interrupt(p) \/ Validate(p) \/ Crash(p)
    BY <1>1, <2>7 DEF Interrupt, Validate, Crash
  <2> QED
    BY <1>5, <2>1, <2>2, <2>3, <2>4, <2>5, <2>6, <2>7, <2>8 DEF Acquire, Transition
<1> QED
  BY <1>2, <1>4, <1>5 DEF Next

\* The calls that do not move stay in place, whatever the one that does.
LEMMA OthersInPlace ==
  ASSUME TypeOK, AllInPlace, Kept, NEW p \in Processes, Others(p), InPlace(p)'
  PROVE  AllInPlace'
<1> SUFFICES ASSUME NEW q \in Processes \ {p} PROVE InPlace(q)'
  BY DEF AllInPlace
<1>1. call'[q] = call[q] /\ call[q] \in Calls /\ InPlace(q)
  BY DEF Others, AllInPlace, TypeOK
<1>2. call[q].machine <= made /\ call[q].machine \in Nat /\ made \in Nat /\ made' \in Nat /\ made <= made'
  BY <1>1 DEF InPlace, Kept, Calls, TypeOK
<1>3. call[q].machine <= made' /\ call[q].machine # made + 1
  BY <1>2
<1>4. call[q].machine \notin machines => call[q].machine \notin machines'
  BY <1>3 DEF Kept
<1>5. lost \subseteq lost'
  BY DEF Kept
<1>6. ASSUME call[q].at = "usage" PROVE experiences'[call[q].candidate] > 0
  BY <1>1, <1>6 DEF InPlace, TypeOK, Kept
<1> QED
  BY <1>1, <1>3, <1>4, <1>5, <1>6 DEF InPlace

\* Who has nothing in hand is in place where nothing is needed.
LEMMA FreeInPlace ==
  ASSUME TypeOK, Kept, NEW p \in Processes, Free(p, "idle") \/ Free(p, "discover")
  PROVE  InPlace(p)'
BY DEF Kept, Free, InPlace, Early, Working, Statuses, Halfway, NoMachine

LEMMA StepInPlace ==
  ASSUME TypeOK, AllInPlace, Kept, NEW p \in Processes, Acquire(p) \/ Transition(p) \/ Hand(p) \/ Crash(p)
  PROVE  Others(p) /\ InPlace(p)'
<1> USE DEF registry, history, Early, Working, Statuses, Halfway
<1>0. InPlace(p) /\ call[p].machine \in Nat /\ made \in Nat /\ made' \in Nat /\ made <= made' /\ call[p].machine <= made'
  BY DEF AllInPlace, InPlace, TypeOK, Calls, Kept
<1>1. CASE Begin(p)
  BY <1>1, BeginEffect, FreeInPlace
<1>2. CASE Discover(p)
  BY <1>0, <1>2, DiscoverEffect, FreeInPlace DEF Discover, InPlace
<1>3. CASE Insert(p)
  <2>1. CASE Go(p, "download")
    BY <1>0, <1>3, <2>1, GoEffect DEF Insert, InPlace, Moved, Places
  <2>2. CASE Return(p, "raised")
    BY <2>2, ReturnEffect, FreeInPlace DEF Reports
  <2> QED
    BY <1>3, <2>1, <2>2 DEF Insert
<1>4. CASE Download(p)
  <2>1. CASE Go(p, "downloaded")
    BY <1>0, <1>4, <2>1, GoEffect DEF Download, InPlace, Moved, Places
  <2>2. CASE Fail(p)
    BY <1>0, <1>4, <2>2, FailEffect DEF Download, InPlace, Moved
  <2> QED
    BY <1>4, <2>1, <2>2 DEF Download
<1>5. CASE Create(p)
  <2>1. CASE Free(p, "idle")
    BY <1>5, <2>1, CreateEffect, FreeInPlace
  <2>2. CASE ~Free(p, "idle")
    <3>1. /\ Others(p) /\ call'[p].at = "install" /\ call'[p].machine = made + 1 /\ made' = made + 1
          /\ call'[p].hand = call[p].hand /\ call'[p].outcome = call[p].outcome
      BY <1>5, <2>2, CreateEffect
    <3> QED
      BY <1>0, <1>5, <3>1 DEF Create, InPlace, NoMachine
  <2> QED
    BY <2>1, <2>2
<1>6. CASE Install(p)
  <2>1. CASE Go(p, "installed")
    BY <1>0, <1>6, <2>1, GoEffect DEF Install, InPlace, Moved, Places
  <2>2. CASE Fail(p)
    BY <1>0, <1>6, <2>2, FailEffect DEF Install, InPlace, Moved
  <2> QED
    BY <1>6, <2>1, <2>2 DEF Install
<1>7. CASE Interrupt(p)
  BY <1>0, <1>7, RaiseEffect DEF Interrupt, InPlace, Moved
<1>8. CASE Validate(p)
  <2>1. CASE Go(p, "locate")
    BY <1>0, <1>8, <2>1, GoEffect DEF Validate, InPlace, Moved, Places
  <2>2. CASE Fail(p)
    BY <1>0, <1>8, <2>2, FailEffect DEF Validate, InPlace, Moved
  <2> QED
    BY <1>8, <2>1, <2>2 DEF Validate
<1>9. CASE Locate(p)
  BY <1>0, <1>9, GoEffect DEF Locate, InPlace, Moved, Places
<1>10. CASE Destroy(p)
  <2>1. CASE Free(p, "idle")
    BY <1>10, <2>1, DestroyEffect, FreeInPlace
  <2>2. CASE ~Free(p, "idle")
    <3>1. Others(p) /\ Moved(p, "experience", "success")
      BY <1>10, <2>2, DestroyEffect
    <3>2. call[p].machine \notin machines' \/ call[p].machine \in lost'
      BY <1>10 DEF Destroy
    <3> QED
      BY <1>0, <1>10, <3>1, <3>2 DEF Destroy, InPlace, Moved
  <2> QED
    BY <2>1, <2>2
<1>11. CASE RecordExperience(p)
  <2>1. Others(p) /\ Moved(p, "usage", call[p].outcome)
    BY <1>11, GoEffect DEF RecordExperience, Places
  <2>2. experiences'[call[p].candidate] > 0
    BY <1>11 DEF RecordExperience, TypeOK
  <2> QED
    BY <1>0, <1>11, <2>1, <2>2 DEF RecordExperience, InPlace, Moved
<1>12. CASE RecordUsage(p)
  BY <1>12, ReturnEffect, FreeInPlace DEF RecordUsage, Reports
<1>13. CASE Read(p)
  <2>1. CASE Free(p, "idle")
    BY <1>13, <2>1, ReadEffect, FreeInPlace
  <2>2. CASE ~Free(p, "idle")
    <3>1. /\ Others(p) /\ call[p].at \in Statuses
          /\ \/ Moved(p, call[p].at, call[p].outcome)
             \/ call[p].machine # NoMachine /\ Moved(p, "failed", "failure")
             \/ call[p].machine # NoMachine /\ Moved(p, "destroy", "raised")
      BY <1>13, <2>2, ReadEffect
    <3>2. UNCHANGED <<machines, made, lost, experiences>>
      BY <1>13 DEF Read
    <3>3. CASE Moved(p, call[p].at, call[p].outcome)
      BY <1>0, <3>1, <3>2, <3>3 DEF InPlace, Moved
    <3>4. CASE call[p].machine # NoMachine /\ Moved(p, "failed", "failure")
      BY <1>0, <3>1, <3>2, <3>4 DEF InPlace, Moved
    <3>5. CASE call[p].machine # NoMachine /\ Moved(p, "destroy", "raised")
      BY <1>0, <3>1, <3>2, <3>5 DEF InPlace, Moved
    <3> QED
      BY <3>1, <3>3, <3>4, <3>5
  <2> QED
    BY <2>1, <2>2
<1>14. CASE Write(p)
  <2>1. CASE Free(p, "idle")
    BY <1>14, <2>1, WriteEffect, FreeInPlace
  <2>2. CASE ~Free(p, "idle")
    <3>1. /\ Others(p) /\ ~call[p].hand /\ call[p].at \in Statuses
          /\ call[p].at = "failed" => call[p].machine # NoMachine
          /\ Moved(p, After(call[p].at), call[p].outcome)
      BY <1>14, <2>2, WriteEffect DEF Write
    <3>2. UNCHANGED <<machines, made, lost, experiences>>
      BY <1>14 DEF Write
    <3>3. call[p].at \in Halfway \cup {"available", "failed"}
      BY <1>0, <3>1 DEF InPlace
    <3> QED
      BY <1>0, <3>1, <3>2, <3>3 DEF InPlace, Moved, After
  <2> QED
    BY <2>1, <2>2
<1>15. CASE Hand(p)
  <2>1. /\ Others(p) /\ call'[p].at \in Statuses \ Halfway
        /\ call'[p].hand /\ call'[p].machine = NoMachine /\ call'[p].outcome = "success"
    BY <1>15, HandEffect
  <2> QED
    BY <1>0, <2>1 DEF InPlace, NoMachine
<1>16. CASE Crash(p)
  BY <1>16, CrashEffect, FreeInPlace
<1> QED
  BY <1>1, <1>2, <1>3, <1>4, <1>5, <1>6, <1>7, <1>8, <1>9, <1>10, <1>11, <1>12, <1>13, <1>14, <1>15, <1>16
     DEF Acquire, Transition

\* Where the registry is left alone, only the call that moves matters.
LEMMA StillLocated ==
  ASSUME TypeOK, Located, Kept, NEW p \in Processes, Others(p), UNCHANGED <<status, location>>,
         call'[p].at = "locate" => <<call'[p].candidate, call'[p].machine>> \in proved',
         Placed(p)'
  PROVE  Located'
<1>1. proved \subseteq proved' /\ turned \subseteq turned'
  BY DEF Kept
<1>2. \A q \in Processes : q = p \/ call'[q] = call[q]
  BY DEF Others
<1>3. (\A c \in Candidates : location[c] # NoMachine => <<c, location[c]>> \in proved)'
  BY <1>1 DEF Located
<1>4. \A q \in Processes : call'[q].at = "locate" => <<call'[q].candidate, call'[q].machine>> \in proved'
  BY <1>1, <1>2 DEF Located
<1>5. ASSUME NEW q \in Processes PROVE Placed(q)'
  <2>1. CASE q = p
    BY <1>5, <2>1
  <2>2. CASE call'[q] = call[q]
    BY <1>1, <1>5, <2>2 DEF Located, Placed, Placing, Excused
  <2> QED
    BY <1>2, <2>1, <2>2
<1>6. \A c \in Candidates : status'[c] \in {"validated", "available", "disabled"} => Excused(c)'
  BY <1>1 DEF Located, Excused
<1> QED
  BY <1>3, <1>4, <1>5, <1>6 DEF Located

\* What may be turned on, or off.
LEMMA LegalFrom ==
  ASSUME TypeOK, NEW p \in Processes, Legal(p), call[p].candidate \in Candidates
  PROVE  call[p].at \in {"available", "disabled"}
         => status[call[p].candidate] \in {"validated", "available", "failed", "disabled"}
<1>1. status[call[p].candidate] # Unknown => status[call[p].candidate] \in Statuses
  BY DEF TypeOK
<1> QED
  BY <1>1 DEF Legal, Transitions, Statuses

LEMMA StepLocated ==
  ASSUME TypeOK, AllInPlace, Located, Kept, NEW p \in Processes, Others(p),
         Acquire(p) \/ Transition(p) \/ Hand(p) \/ Crash(p)
  PROVE  Located'
<1> USE DEF registry, history
<1>1. CASE Begin(p)
  BY <1>1, BeginEffect, StillLocated DEF Placed, Placing, Begin, Free
<1>2. CASE Discover(p)
  BY <1>2, DiscoverEffect, StillLocated DEF Placed, Placing, Discover, Free
<1>3. CASE Insert(p)
  <2>1. CASE Return(p, "raised") /\ UNCHANGED status
    BY <1>3, <2>1, ReturnEffect, StillLocated DEF Placed, Placing, Insert, Free, Reports
  <2>2. CASE status' = [status EXCEPT ![call[p].candidate] = "discovered"] /\ Go(p, "download")
    <3>1. call'[p].at = "download"
      BY <2>2, GoEffect DEF Moved, Places
    <3>2. \A q \in Processes : call'[q].at \in {"locate", "validated", "available", "disabled"} => call'[q] = call[q]
      BY <3>1 DEF Others
    <3>3. \A c \in Candidates : status'[c] \in {"validated", "available", "disabled"} => status'[c] = status[c]
      BY <2>2 DEF TypeOK
    <3>4. UNCHANGED <<location, proved, turned>>
      BY <1>3 DEF Insert
    <3> QED
      BY <3>2, <3>3, <3>4 DEF Located, Placed, Placing, Excused
  <2> QED
    BY <1>3, <2>1, <2>2 DEF Insert
<1>4. CASE Download(p)
  <2>1. call'[p].at \in {"downloaded", "failed"}
    BY <1>4, GoEffect, FailEffect DEF Download, Moved, Places, Statuses
  <2> QED
    BY <1>4, <2>1, StillLocated DEF Placed, Placing, Download
<1>5. CASE Create(p)
  <2>1. call'[p].at \in {"install", "idle"}
    BY <1>5, CreateEffect DEF Free
  <2> QED
    BY <1>5, <2>1, StillLocated DEF Placed, Placing, Create
<1>6. CASE Install(p)
  <2>1. call'[p].at \in {"installed", "failed"}
    BY <1>6, GoEffect, FailEffect DEF Install, Moved, Places, Statuses
  <2> QED
    BY <1>6, <2>1, StillLocated DEF Placed, Placing, Install
<1>7. CASE Interrupt(p)
  BY <1>7, RaiseEffect, StillLocated DEF Placed, Placing, Interrupt, Moved
<1>8. CASE Validate(p)
  <2>1. CASE Go(p, "locate") /\ proved' = proved \cup {<<call[p].candidate, call[p].machine>>}
    <3>1. Moved(p, "locate", call[p].outcome)
      BY <2>1, GoEffect DEF Places
    <3> QED
      BY <1>8, <2>1, <3>1, StillLocated DEF Placed, Placing, Validate, Moved
  <2>2. CASE Fail(p)
    <3>1. call'[p].at = "failed"
      BY <2>2, FailEffect DEF Moved
    <3> QED
      BY <1>8, <3>1, StillLocated DEF Placed, Placing, Validate
  <2> QED
    BY <1>8, <2>1, <2>2 DEF Validate
<1>9. CASE Locate(p)
  <2>1. /\ <<call[p].candidate, call[p].machine>> \in proved /\ call[p].machine # NoMachine
        /\ call[p].candidate \in Candidates
    BY <1>9 DEF Locate, Located, TypeOK, AllInPlace, InPlace, Working, Statuses, Halfway
  <2>2. Moved(p, "validated", call[p].outcome)
    BY <1>9, GoEffect DEF Locate, Places, Statuses
  <2>3. \A c \in Candidates : location'[c] = IF c = call[p].candidate THEN call[p].machine ELSE location[c]
    BY <1>9 DEF Locate, TypeOK
  <2>4. UNCHANGED <<status, proved>>
    BY <1>9 DEF Locate
  <2>5. (\A c \in Candidates : location[c] # NoMachine => <<c, location[c]>> \in proved)'
    BY <2>1, <2>3, <2>4 DEF Located
  <2>6. \A q \in Processes \ {p} : call'[q] = call[q]
    BY DEF Others
  <2>7. \A c \in Candidates : Excused(c) => Excused(c)'
    BY <2>1, <2>3 DEF Excused, Kept
  <2>8. ASSUME NEW q \in Processes, Placing(q)' PROVE Placed(q)'
    <3>1. CASE q = p
      BY <2>1, <2>2, <2>3, <3>1 DEF Moved, Placed, Excused
    <3>2. CASE q # p
      <4>1. Placing(q) /\ call'[q] = call[q]
        BY <2>6, <2>8, <3>2 DEF Placed, Placing
      <4>2. call[q].candidate \in Candidates /\ Excused(call[q].candidate)
        BY <4>1 DEF Placed, Placing, TypeOK, Located
      <4> QED
        BY <2>7, <4>1, <4>2 DEF Excused, Placed
    <3> QED
      BY <3>1, <3>2
  <2>9. \A q \in Processes : call'[q].at = "locate" => <<call'[q].candidate, call'[q].machine>> \in proved'
    BY <2>2, <2>4, <2>6 DEF Located, Moved
  <2>10. (\A c \in Candidates : status[c] \in {"validated", "available", "disabled"} => Excused(c))'
    BY <2>4, <2>7 DEF Located
  <2>11. \A q \in Processes : Placed(q)'
    BY <2>8 DEF Placed
  <2> QED
    BY <2>5, <2>9, <2>10, <2>11 DEF Located
<1>10. CASE Destroy(p)
  <2>1. call'[p].at \in {"experience", "idle"}
    BY <1>10, DestroyEffect DEF Moved, Free
  <2> QED
    BY <1>10, <2>1, StillLocated DEF Placed, Placing, Destroy
<1>11. CASE RecordExperience(p)
  <2>1. call'[p].at = "usage"
    BY <1>11, GoEffect DEF RecordExperience, Moved, Places
  <2> QED
    BY <1>11, <2>1, StillLocated DEF Placed, Placing, RecordExperience
<1>12. CASE RecordUsage(p)
  BY <1>12, ReturnEffect, StillLocated DEF Placed, Placing, RecordUsage, Free, Reports
<1>13. CASE Read(p)
  <2>1. UNCHANGED <<status, location, proved>> /\ call[p].candidate \in Candidates
    BY <1>13 DEF Read, TypeOK, Statuses
  <2>2. CASE Legal(p) /\ Moved(p, call[p].at, call[p].outcome)
    <3>1. call[p].at # "locate"
      BY <1>13 DEF Read, Statuses
    <3>2. ASSUME NEW c \in Candidates, c = call[p].candidate, call[p].at \in {"validated", "available", "disabled"}
          PROVE  Excused(c)'
      <4>1. CASE ~call[p].hand
        BY <2>1, <3>2, <4>1 DEF Located, Placed, Placing, Excused, Kept
      <4>2. CASE call[p].hand
        <5>1. call[p].at \in {"available", "disabled"}
          BY <3>2, <4>2 DEF AllInPlace, InPlace, Halfway
        <5>2. status[c] \in {"validated", "available", "failed", "disabled"}
          BY <2>1, <2>2, <3>2, <5>1, LegalFrom
        <5>3. CASE status[c] = "failed"
          BY <1>13, <2>2, <3>2, <4>2, <5>1, <5>3, ReadTurns DEF Turning, Unfinished, Excused
        <5>4. CASE status[c] # "failed"
          BY <2>1, <5>2, <5>4 DEF Located, Excused, Kept
        <5> QED
          BY <5>3, <5>4
      <4> QED
        BY <4>1, <4>2
    <3> QED
      BY <2>1, <2>2, <3>1, <3>2, StillLocated DEF Moved, Placed, Placing, Excused
  <2>3. CASE call'[p].at \in {"idle", "failed", "destroy"}
    BY <2>1, <2>3, StillLocated DEF Placed, Placing
  <2> QED
    BY <1>13, <2>2, <2>3, ReadEffect DEF Moved, Free
<1>14. CASE Write(p)
  <2>1. /\ call[p].at \in Statuses /\ call[p].read /\ call[p].candidate \in Candidates
        /\ status' = [status EXCEPT ![call[p].candidate] = call[p].at]
        /\ UNCHANGED <<location, proved, turned>>
    BY <1>14 DEF Write, TypeOK, Statuses
  <2>2. ASSUME NEW c \in Candidates, status'[c] \in {"validated", "available", "disabled"}
        PROVE  Excused(c)'
    <3>1. CASE c = call[p].candidate
      BY <2>1, <2>2, <3>1 DEF TypeOK, Located, Placed, Placing, Excused
    <3>2. CASE c # call[p].candidate
      BY <2>1, <2>2, <3>2 DEF TypeOK, Located, Excused
    <3> QED
      BY <3>1, <3>2
  <2>3. ASSUME Placing(p)' PROVE Placed(p)'
    <3>1. CASE Free(p, "idle")
      BY <2>3, <3>1 DEF Free, Placed, Placing
    <3>2. CASE Moved(p, After(call[p].at), call[p].outcome)
      <4>1. call[p].at = "validated"
        BY <2>1, <2>3, <3>2 DEF Moved, After, Placed, Placing
      <4> QED
        BY <2>1, <3>2, <4>1 DEF Moved, Located, Placed, Placing, Excused
    <3> QED
      BY <1>14, <3>1, <3>2, WriteEffect
  <2>4. call'[p].at # "locate"
    BY <1>14, WriteEffect DEF Free, Moved, After
  <2>5. \A q \in Processes : q = p \/ call'[q] = call[q]
    BY DEF Others
  <2>6. ASSUME NEW q \in Processes PROVE Placed(q)'
    <3>1. CASE q = p
      BY <2>3, <3>1 DEF Placed
    <3>2. CASE call'[q] = call[q]
      BY <2>1, <3>2 DEF Located, Placed, Placing, Excused
    <3> QED
      BY <2>5, <3>1, <3>2
  <2>7. \A q \in Processes : call'[q].at = "locate" => <<call'[q].candidate, call'[q].machine>> \in proved'
    BY <2>1, <2>4, <2>5 DEF Located
  <2>8. (\A c \in Candidates : location[c] # NoMachine => <<c, location[c]>> \in proved)'
    BY <2>1 DEF Located
  <2> QED
    BY <2>2, <2>6, <2>7, <2>8 DEF Located
<1>15. CASE Hand(p)
  <2>1. PICK c \in Candidates, to \in Statuses \ Halfway :
          call'[p].at = to /\ call'[p].candidate = c /\ call'[p].hand /\ ~call'[p].read
    BY <1>15, HandEffect
  <2>2. to # "locate"
    BY DEF Statuses
  <2>3. ~Placing(p)'
    BY <2>1 DEF Placing
  <2> QED
    BY <1>15, <2>1, <2>2, <2>3, StillLocated DEF Hand, Placed
<1>16. CASE Crash(p)
  BY <1>16, CrashEffect, StillLocated DEF Placed, Placing, Crash, Free
<1> QED
  BY <1>1, <1>2, <1>3, <1>4, <1>5, <1>6, <1>7, <1>8, <1>9, <1>10, <1>11, <1>12, <1>13, <1>14, <1>15, <1>16
     DEF Acquire, Transition

\* A call gives its machine up only when the machine is gone, or lost.
LEMMA OwnedStays ==
  ASSUME TypeOK, MachineOwned, Kept, NEW p \in Processes, Others(p),
         call[p].machine \in machines' =>
           \/ call[p].machine \in lost' \/ call[p].machine = NoMachine
           \/ call'[p].machine = call[p].machine,
         \A m \in machines' : m \in machines \/ call'[p].machine = m \/ m \in lost'
  PROVE  MachineOwned'
<1>1. \A m \in machines' : m # NoMachine /\ m <= made'
  <2>1. made \in Nat /\ made' \in Nat /\ made <= made' /\ machines \subseteq Nat
    BY DEF Kept, TypeOK
  <2>2. \A m \in machines' : m \in machines \/ (m = made + 1 /\ made' = made + 1)
    BY DEF Kept
  <2>3. \A m \in machines : m \in Nat /\ m # NoMachine /\ m <= made
    BY <2>1 DEF MachineOwned
  <2>4. ASSUME NEW m \in machines' PROVE m # NoMachine /\ m <= made'
    <3>1. CASE m \in machines
      BY <2>1, <2>3, <3>1
    <3>2. CASE m = made + 1 /\ made' = made + 1
      BY <2>1, <3>2 DEF NoMachine
    <3> QED
      BY <2>2, <2>4, <3>1, <3>2
  <2> QED
    BY <2>4
<1>2. ASSUME NEW m \in machines' PROVE m \in lost' \/ \E q \in Processes : call'[q].machine = m
  <2>1. CASE m \in lost
    BY <2>1 DEF Kept
  <2>2. CASE \E q \in Processes \ {p} : call[q].machine = m
    BY <2>2 DEF Others
  <2>3. CASE call[p].machine = m
    BY <1>1, <1>2, <2>3
  <2>4. CASE m \notin machines
    BY <1>2, <2>4
  <2> QED
    BY <2>1, <2>2, <2>3, <2>4 DEF MachineOwned, NoMachineLeft
<1> QED
  BY <1>1, <1>2 DEF MachineOwned, NoMachineLeft

LEMMA StepOwned ==
  ASSUME TypeOK, AllInPlace, MachineOwned, Kept, NEW p \in Processes, Others(p),
         Acquire(p) \/ Transition(p) \/ Hand(p) \/ Crash(p)
  PROVE  MachineOwned'
<1> USE DEF registry, history
<1>0. InPlace(p)
  BY DEF AllInPlace
<1>1. CASE Begin(p) \/ Discover(p) \/ Insert(p) \/ Hand(p)
  <2>1. call[p].machine = NoMachine /\ UNCHANGED machines
    BY <1>0, <1>1 DEF Begin, Discover, Insert, Hand, InPlace, Early
  <2> QED
    BY <2>1, OwnedStays
<1>2. CASE Download(p) \/ Install(p) \/ Validate(p) \/ Locate(p)
  <2>1. UNCHANGED machines /\ call'[p].machine = call[p].machine
    BY <1>2, GoEffect, FailEffect DEF Download, Install, Validate, Locate, Moved, Places, Statuses
  <2> QED
    BY <2>1, OwnedStays
<1>3. CASE Create(p)
  <2>1. call[p].machine = NoMachine
    BY <1>0, <1>3 DEF Create, InPlace, Early
  <2>2. \A m \in machines' : m \in machines \/ call'[p].machine = m \/ m \in lost'
    BY <1>3, CreateEffect
  <2> QED
    BY <2>1, <2>2, OwnedStays
<1>4. CASE Interrupt(p)
  BY <1>4, RaiseEffect, OwnedStays DEF Interrupt, Moved
<1>5. CASE Destroy(p)
  BY <1>5, DestroyEffect, OwnedStays
<1>6. CASE RecordExperience(p)
  BY <1>6, GoEffect, OwnedStays DEF RecordExperience, Moved, Places
<1>7. CASE RecordUsage(p)
  BY <1>0, <1>7, OwnedStays DEF RecordUsage, InPlace
<1>8. CASE Read(p)
  BY <1>8, ReadEffect, OwnedStays DEF Read, Moved
<1>9. CASE Write(p)
  <2>1. UNCHANGED machines
    BY <1>9 DEF Write
  <2>2. call[p].machine = NoMachine \/ call'[p].machine = call[p].machine
    BY <1>0, <1>9, WriteEffect DEF InPlace, Moved
  <2> QED
    BY <2>1, <2>2, OwnedStays
<1>10. CASE Crash(p)
  BY <1>10, OwnedStays DEF Crash
<1> QED
  BY <1>1, <1>2, <1>3, <1>4, <1>5, <1>6, <1>7, <1>8, <1>9, <1>10 DEF Acquire, Transition

\* A candidate that is half-way is let go only when it is abandoned, or no
\* longer half-way, or refused a machine.
LEMMA StillInHand ==
  ASSUME TypeOK, InHand, Kept, NEW p \in Processes, Others(p),
         \A c \in Candidates \ {call[p].candidate} : status'[c] = status[c],
         \/ call[p].candidate \in abandoned'
         \/ status'[call[p].candidate] \notin Halfway
         \/ Holding(p)' /\ call'[p].candidate = call[p].candidate
         \/ Waiting(p)' /\ call'[p].candidate = call[p].candidate /\ status'[call[p].candidate] = "downloaded"
         \/ /\ ~Holding(p) /\ status'[call[p].candidate] = status[call[p].candidate]
            /\ Waiting(p) => call[p].candidate \in refused'
  PROVE  InHand'
<1> SUFFICES ASSUME NEW c \in Candidates, c \notin abandoned', status'[c] \in Halfway
             PROVE  Followed(c)'
  BY DEF InHand
<1>1. c \notin abandoned /\ (c \in refused => c \in refused')
  BY DEF Kept
<1>2. \A q \in Processes \ {p} : call'[q] = call[q]
  BY DEF Others
<1>3. ASSUME status'[c] = status[c], c = call[p].candidate => ~Holding(p) /\ (Waiting(p) => c \in refused')
      PROVE  Followed(c)'
  <2>1. Followed(c)
    BY <1>1, <1>3 DEF InHand
  <2>2. CASE \E q \in Processes : call[q].candidate = c /\ Holding(q)
    BY <1>2, <1>3, <2>2 DEF Followed, Holding
  <2>3. CASE status[c] = "downloaded" /\ c \in refused
    BY <1>1, <1>3, <2>3 DEF Followed
  <2>4. CASE status[c] = "downloaded" /\ \E q \in Processes : call[q].candidate = c /\ Waiting(q)
    BY <1>2, <1>3, <2>4 DEF Followed, Waiting
  <2> QED
    BY <2>1, <2>2, <2>3, <2>4 DEF Followed
<1>4. CASE c = call[p].candidate
  BY <1>3, <1>4 DEF Followed
<1> QED
  BY <1>3, <1>4

LEMMA StepInHand ==
  ASSUME TypeOK, AllInPlace, InHand, Kept, NEW p \in Processes, Others(p),
         Acquire(p) \/ Transition(p) \/ Hand(p) \/ Crash(p)
  PROVE  InHand'
<1> USE DEF registry, history
<1>0. InPlace(p)
  BY DEF AllInPlace
<1>1. CASE Begin(p) \/ Discover(p) \/ Download(p) \/ Hand(p) \/ Destroy(p) \/ RecordExperience(p) \/ RecordUsage(p)
  <2>1. ~Holding(p) /\ ~Waiting(p) /\ UNCHANGED status
    BY <1>1 DEF Begin, Discover, Download, Hand, Destroy, RecordExperience, RecordUsage, Holding, Waiting, Working
  <2> QED
    BY <2>1, StillInHand
<1>2. CASE Insert(p)
  <2>1. \A c \in Candidates \ {call[p].candidate} : status'[c] = status[c]
    BY <1>2 DEF Insert, TypeOK
  <2>2. ~Holding(p) /\ ~Waiting(p)
    BY <1>2 DEF Insert, Holding, Waiting, Working
  <2>3. status'[call[p].candidate] = "discovered" \/ UNCHANGED status
    BY <1>2 DEF Insert, TypeOK
  <2> QED
    BY <2>1, <2>2, <2>3, StillInHand DEF Halfway
<1>3. CASE Create(p)
  <2>1. CASE call[p].candidate \in refused'
    <3>1. ~Holding(p) /\ UNCHANGED status
      BY <1>3 DEF Create, Holding, Working
    <3> QED
      BY <2>1, <3>1, StillInHand
  <2>2. CASE call[p].candidate \notin refused'
    <3>1. /\ call'[p].at = "install" /\ call'[p].hand = call[p].hand
          /\ call'[p].candidate = call[p].candidate
      BY <1>3, <2>2, CreateEffect
    <3>2. ~call[p].hand
      BY <1>0, <1>3 DEF Create, InPlace, Statuses
    <3>3. Holding(p)'
      BY <3>1, <3>2 DEF Holding, Working
    <3> QED
      BY <1>3, <3>1, <3>3, StillInHand DEF Create
  <2> QED
    BY <2>1, <2>2
<1>4. CASE Install(p) \/ Validate(p) \/ Locate(p)
  <2>1. ~call[p].hand
    BY <1>0, <1>4 DEF Install, Validate, Locate, InPlace, Statuses
  <2>2. \E place \in {"installed", "locate", "validated", "failed"}, outcome \in {"failure", call[p].outcome} :
          Moved(p, place, outcome)
    BY <1>4, GoEffect, FailEffect DEF Install, Validate, Locate, Places, Statuses
  <2>3. Holding(p)' /\ call'[p].candidate = call[p].candidate
    BY <2>1, <2>2 DEF Moved, Holding, Working
  <2>4. UNCHANGED status
    BY <1>4 DEF Install, Validate, Locate
  <2> QED
    BY <2>3, <2>4, StillInHand
<1>5. CASE Interrupt(p)
  BY <1>5, StillInHand DEF Interrupt
<1>6. CASE Read(p)
  <2>1. UNCHANGED status
    BY <1>6 DEF Read
  <2>2. CASE Moved(p, call[p].at, call[p].outcome)
    <3>1. (Holding(p) => Holding(p)') /\ ~Waiting(p)
      BY <1>6, <2>2 DEF Moved, Holding, Waiting, Read, Statuses
    <3> QED
      BY <2>1, <2>2, <3>1, StillInHand DEF Moved
  <2>3. CASE call[p].machine # NoMachine /\ Moved(p, "failed", "failure")
    <3>1. ~call[p].hand
      BY <1>0, <2>3 DEF InPlace
    <3> QED
      BY <2>1, <2>3, <3>1, StillInHand DEF Moved, Holding
  <2>4. CASE ~Legal(p) /\ call[p].at = "failed"
    <3>1. status[call[p].candidate] \notin Halfway
      BY <2>4 DEF Legal, Halfway, Transitions, Unknown
    <3> QED
      BY <2>1, <3>1, StillInHand
  <2>5. CASE call[p].machine = NoMachine /\ call[p].at # "failed"
    <3>1. ~Holding(p) /\ ~Waiting(p)
      BY <1>0, <1>6, <2>5 DEF Read, InPlace, Holding, Waiting, Working, Statuses
    <3> QED
      BY <2>1, <3>1, StillInHand
  <2> QED
    BY <1>6, <2>2, <2>3, <2>4, <2>5, ReadEffect
<1>7. CASE Write(p)
  <2>1. call[p].candidate \in Candidates
    BY <1>7 DEF Write, TypeOK, Statuses
  <2>2. status'[call[p].candidate] = call[p].at
    BY <1>7, <2>1 DEF Write, TypeOK
  <2>3. \A c \in Candidates \ {call[p].candidate} : status'[c] = status[c]
    BY <1>7 DEF Write, TypeOK
  <2>4. ASSUME call[p].at \in Halfway
        PROVE  /\ call'[p].candidate = call[p].candidate
               /\ Holding(p)' \/ (Waiting(p)' /\ call[p].at = "downloaded")
    <3>1. ~call[p].hand
      BY <1>0, <2>4 DEF InPlace
    <3>2. Moved(p, After(call[p].at), call[p].outcome)
      BY <1>7, <2>4, <3>1, WriteEffect DEF Halfway
    <3>3. \/ After(call[p].at) \in Working
          \/ After(call[p].at) = "create" /\ call[p].at = "downloaded"
      BY <2>4 DEF After, Halfway, Working
    <3> QED
      BY <3>1, <3>2, <3>3 DEF Moved, Holding, Waiting
  <2> QED
    BY <2>2, <2>3, <2>4, StillInHand
<1>8. CASE Crash(p)
  <2>1. UNCHANGED status
    BY <1>8 DEF Crash
  <2>2. CASE call[p].candidate = NoCandidate
    <3>1. ~Holding(p) /\ ~Waiting(p)
      BY <2>2, AcquisitionAssumption DEF TypeOK, Holding, Waiting, Working
    <3> QED
      BY <2>1, <3>1, StillInHand
  <2>3. CASE call[p].candidate # NoCandidate
    BY <1>8, <2>1, <2>3, StillInHand DEF Crash
  <2> QED
    BY <2>2, <2>3
<1> QED
  BY <1>1, <1>2, <1>3, <1>4, <1>5, <1>6, <1>7, <1>8 DEF Acquire, Transition

\* What stands behind a capability stays.
LEMMA StepVouched ==
  ASSUME TypeOK, AllInPlace, Kept, NEW p \in Processes, Others(p),
         Acquire(p) \/ Transition(p) \/ Hand(p) \/ Crash(p),
         NEW c \in Candidates, Vouched(c)
  PROVE  Vouched(c)'
<1> USE DEF registry, history
<1>1. CASE c \in abandoned \/ History(c) \/ Turned(c)
  BY <1>1 DEF Kept, History, Turned, Vouched
<1>2. CASE \E q \in Processes \ {p} : call[q].candidate = c /\ Finishing(q)
  BY <1>2 DEF Others, Vouched, Finishing
<1>3. CASE call[p].candidate = c /\ Finishing(p)
  <2>1. CASE Destroy(p)
    <3>1. call[p].outcome = "success"
      BY <1>3, <2>1 DEF Destroy, Finishing
    <3>2. Moved(p, "experience", "success")
      BY <2>1, <3>1, DestroyEffect
    <3> QED
      BY <1>3, <3>2 DEF Moved, Finishing, Vouched
  <2>2. CASE RecordExperience(p)
    <3>1. Moved(p, "usage", call[p].outcome)
      BY <2>2, GoEffect DEF RecordExperience, Places
    <3> QED
      BY <1>3, <3>1 DEF Moved, Finishing, Vouched
  <2>3. CASE RecordUsage(p)
    <3>1. experiences'[c] > 0
      BY <1>3, <2>3 DEF RecordUsage, AllInPlace, InPlace
    <3>2. usage[c] \in [success : Nat, failure : Nat]
      BY DEF TypeOK
    <3>3. usage'[c].success = usage[c].success + 1
      BY <1>3, <2>3, <3>2 DEF RecordUsage, TypeOK
    <3> QED
      BY <3>1, <3>2, <3>3 DEF History, Vouched
  <2>4. CASE Crash(p)
    BY <1>3, <2>4, AcquisitionAssumption DEF Crash, Vouched
  <2>5. CASE ~(Destroy(p) \/ RecordExperience(p) \/ RecordUsage(p) \/ Crash(p))
    <3>1. call[p].at \notin {"destroy", "experience", "usage"}
      BY <2>5 DEF Acquire, Transition, Begin, Discover, Insert, Download, Create, Install, Interrupt,
           Validate, Locate, Read, Write, Hand, Statuses
    <3> QED
      BY <1>3, <3>1 DEF Finishing
  <2> QED
    BY <2>1, <2>2, <2>3, <2>4, <2>5
<1> QED
  BY <1>1, <1>2, <1>3 DEF Vouched

LEMMA StillBehind ==
  ASSUME TypeOK, Behind, NEW p \in Processes, Others(p), UNCHANGED status,
         \A c \in Candidates : Vouched(c) => Vouched(c)',
         \A c \in Candidates : /\ call'[p].candidate = c /\ call'[p].hand /\ call'[p].read
                               /\ call'[p].at \in {"available", "disabled"}
                               => Vouched(c)'
  PROVE  Behind'
<1>1. (\A c \in Candidates : status[c] \in {"available", "disabled"} => Vouched(c))'
  BY DEF Behind
<1>2. ASSUME NEW q \in Processes, NEW c \in Candidates, call'[q].candidate = c,
             call'[q].hand, call'[q].read, call'[q].at \in {"available", "disabled"}
      PROVE  Vouched(c)'
  <2>1. CASE q = p
    BY <1>2, <2>1
  <2>2. CASE q # p
    BY <1>2, <2>2 DEF Others, Behind
  <2> QED
    BY <2>1, <2>2
<1> QED
  BY <1>1, <1>2 DEF Behind

LEMMA StepBehind ==
  ASSUME TypeOK, AllInPlace, Behind, Kept, NEW p \in Processes, Others(p),
         Acquire(p) \/ Transition(p) \/ Hand(p) \/ Crash(p)
  PROVE  Behind'
<1> USE DEF registry, history
<1>0. InPlace(p) /\ \A c \in Candidates : Vouched(c) => Vouched(c)'
  BY StepVouched DEF AllInPlace
<1>1. CASE Insert(p)
  <2>1. \A c \in Candidates : status'[c] \in {"available", "disabled"} => status[c] = status'[c]
    BY <1>1 DEF Insert, TypeOK
  <2>2. ~call'[p].hand
    BY <1>0, <1>1, GoEffect, ReturnEffect DEF Insert, InPlace, Moved, Free, Places, Reports, Statuses
  <2> QED
    BY <1>0, <2>1, <2>2 DEF Behind, Others
<1>2. CASE Write(p)
  <2>1. call[p].candidate \in Candidates /\ \A c \in Candidates :
          status'[c] = IF c = call[p].candidate THEN call[p].at ELSE status[c]
    BY <1>2 DEF Write, TypeOK, Statuses
  <2>2. ~call'[p].hand
    BY <1>2, WriteEffect DEF Free, Moved
  <2>3. ASSUME NEW c \in Candidates, status'[c] \in {"available", "disabled"} PROVE Vouched(c)'
    <3>1. CASE c # call[p].candidate
      BY <1>0, <2>1, <2>3, <3>1 DEF Behind
    <3>2. CASE c = call[p].candidate /\ call[p].hand
      BY <1>0, <1>2, <2>1, <2>3, <3>2 DEF Behind, Write
    <3>3. CASE c = call[p].candidate /\ ~call[p].hand
      <4>1. call[p].at = "available" /\ call[p].outcome = "success"
        BY <1>0, <1>2, <2>1, <2>3, <3>3 DEF InPlace, Write, Halfway, Working
      <4>2. Moved(p, "destroy", "success")
        BY <1>2, <3>3, <4>1, WriteEffect DEF After, Free, InPlace
      <4> QED
        BY <3>3, <4>2 DEF Moved, Finishing, Vouched
    <3> QED
      BY <3>1, <3>2, <3>3
  <2> QED
    BY <1>0, <2>2, <2>3 DEF Behind, Others
<1>3. CASE Hand(p)
  <2>1. ~call'[p].read
    BY <1>3, HandEffect
  <2> QED
    BY <1>0, <1>3, <2>1, StillBehind DEF Hand
<1>4. CASE Read(p)
  <2>1. ASSUME NEW c \in Candidates, call'[p].candidate = c, call'[p].hand, call'[p].at \in {"available", "disabled"}
        PROVE  Vouched(c)'
    <3>1. Legal(p) /\ Moved(p, call[p].at, call[p].outcome)
      BY <1>4, <2>1, ReadEffect DEF Moved, Free
    <3>2. call[p].candidate = c /\ call[p].hand /\ call[p].at \in {"available", "disabled"}
      BY <2>1, <3>1 DEF Moved
    <3>3. status[c] \in {"validated", "available", "failed", "disabled"}
      BY <3>1, <3>2, LegalFrom
    <3>4. CASE status[c] \in {"validated", "failed"}
      BY <1>4, <3>1, <3>2, <3>4, ReadTurns DEF Turning, Unfinished, Turned, Vouched
    <3>5. CASE status[c] \in {"available", "disabled"}
      BY <1>0, <3>5 DEF Behind
    <3> QED
      BY <3>3, <3>4, <3>5
  <2> QED
    BY <1>0, <1>4, <2>1, StillBehind DEF Read
<1>5. CASE ~(Insert(p) \/ Write(p) \/ Hand(p) \/ Read(p))
  <2>1. UNCHANGED status
    BY <1>5 DEF Acquire, Transition, Begin, Discover, Download, Create, Install, Interrupt,
         Validate, Locate, Destroy, RecordExperience, RecordUsage, Crash
  <2>2. call'[p].at \notin {"available", "disabled"}
    <3>1. CASE Begin(p) \/ Discover(p) \/ Create(p) \/ Destroy(p) \/ Crash(p)
      BY <3>1, BeginEffect, DiscoverEffect, CreateEffect, DestroyEffect, CrashEffect DEF Free, Moved
    <3>2. CASE Download(p) \/ Install(p) \/ Validate(p) \/ Locate(p)
      BY <3>2, GoEffect, FailEffect DEF Download, Install, Validate, Locate, Moved, Places, Statuses
    <3>3. CASE Interrupt(p) \/ RecordExperience(p) \/ RecordUsage(p)
      BY <3>3, GoEffect, RaiseEffect, ReturnEffect
         DEF Interrupt, RecordExperience, RecordUsage, Free, Moved, Places, Reports
    <3> QED
      BY <1>5, <3>1, <3>2, <3>3 DEF Acquire, Transition
  <2> QED
    BY <1>0, <2>1, <2>2, StillBehind
<1> QED
  BY <1>1, <1>2, <1>3, <1>4, <1>5

LEMMA NextIInv == IInv /\ [Next]_vars => IInv'
<1> SUFFICES ASSUME IInv, [Next]_vars PROVE IInv'
  OBVIOUS
<1>1. TypeOK /\ AllInPlace /\ Located /\ MachineOwned /\ InHand /\ Behind /\ Kept /\ TypeOK'
  BY Monotone, NextTypes DEF IInv
<1>2. CASE \E p \in Processes : Acquire(p) \/ Transition(p) \/ Hand(p) \/ Crash(p)
  <2>1. PICK p \in Processes : Acquire(p) \/ Transition(p) \/ Hand(p) \/ Crash(p)
    BY <1>2
  <2>2. Others(p) /\ AllInPlace'
    BY <1>1, <2>1, StepInPlace, OthersInPlace
  <2>3. Located' /\ MachineOwned' /\ InHand' /\ Behind'
    BY <1>1, <2>1, <2>2, StepLocated, StepOwned, StepInHand, StepBehind
  <2> QED
    BY <1>1, <2>2, <2>3 DEF IInv
<1>3. CASE Use
  <2>1. UNCHANGED <<status, location, experiences, machines, made, call, proved, lost, abandoned, refused, turned>>
    BY <1>3 DEF Use, history
  <2>2. AllInPlace' /\ Located' /\ MachineOwned' /\ InHand'
    BY <1>1, <2>1 DEF AllInPlace, InPlace, Located, Placed, Placing, Excused, MachineOwned, NoMachineLeft,
       InHand, Followed, Holding, Waiting
  <2>3. \A c \in Candidates : Vouched(c) => Vouched(c)'
    BY <1>1, <2>1 DEF Vouched, Turned, Finishing, History, Kept
  <2>4. Behind'
    BY <1>1, <2>1, <2>3 DEF Behind
  <2> QED
    BY <1>1, <2>2, <2>4 DEF IInv
<1>4. CASE UNCHANGED vars
  BY <1>1, <1>4 DEF vars, IInv, AllInPlace, InPlace, Located, Placed, Placing, Excused, MachineOwned,
     NoMachineLeft, InHand, Followed, Holding, Waiting, Behind, Vouched, Turned, Finishing, History
<1> QED
  BY <1>2, <1>3, <1>4 DEF Next

THEOREM Inductive == Spec => []IInv
<1> QED
  BY InitIInv, NextIInv, PTL DEF Spec

-----------------------------------------------------------------------------
(* What it comes to. *)

\* Whatever acquisitions and people do at once, what the registry offers as
\* validated or available passed its validation in the machine it names, unless
\* a person turned it off when it had failed.
THEOREM OfferedWasValidated == Spec => []AvailableWasValidated
<1>1. IInv => AvailableWasValidated
  BY DEF IInv, Located, Excused, AvailableWasValidated
<1> QED
  BY <1>1, Inductive, PTL

\* On every way out of what comes after create() the machine is destroyed: one
\* that is left behind was lost to a crash, to a destruction that failed or to a
\* create() that raised when it had cloned.
THEOREM MachinesAccounted == Spec => []NoMachineLeft
<1>1. IInv => NoMachineLeft
  BY DEF IInv, MachineOwned
<1> QED
  BY <1>1, Inductive, PTL

\* A capability nobody was cut off from and nobody is at is half-way through its
\* life cycle only in `downloaded', when create() raised for it; and when it is
\* available, it has an experience on the ledger and a success to its name, or it
\* is a person who turned it off or on when acquire() had not brought it there.
THEOREM OrderKept == Spec => []LeftInOrder
<1>1. ASSUME IInv PROVE LeftInOrder
  <2> SUFFICES ASSUME NEW c \in Candidates \ abandoned, ~Busy(c)
               PROVE  /\ status[c] \in Halfway => status[c] = "downloaded" /\ c \in refused
                      /\ status[c] = "available" => History(c) \/ Turned(c)
    BY DEF LeftInOrder, History, Turned
  <2>1. status[c] \in Halfway => status[c] = "downloaded" /\ c \in refused
    BY <1>1 DEF IInv, InHand, Followed, Busy
  <2>2. status[c] = "available" => History(c) \/ Turned(c)
    BY <1>1 DEF IInv, Behind, Vouched, Busy
  <2> QED
    BY <2>1, <2>2
<1> QED
  BY <1>1, Inductive, PTL

=============================================================================
