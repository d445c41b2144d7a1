-------------------------- MODULE StandaloneProofs --------------------------
(***************************************************************************)
(* Machine-checked facts about the sandbox controller and the parts that   *)
(* stand alone, for every value of their constants.                        *)
(***************************************************************************)
EXTENDS Sandbox, Standalone, FiniteSetTheorems, SequenceTheorems, WellFoundedInduction, TLAPS

-----------------------------------------------------------------------------
(* The sandbox controller: the parts of its inductive invariant. *)

Steps == {"idle", "approve", "cleanup", "destroy", "record", "record_outcome", "record_lesson",
          "return"} \cup TryBlock

VMStatuses == {"creating", "running", "corrupted", "absent"}

Statuses == {"proposed", "cancelled", "validated", "running", "failed", "corrupted", "timeout",
             "observing", "completed", "rolled_back", "recreated"}

Outcomes == {"unknown", "success", "failure"}

Records ==
  [status : Statuses, outcome : Outcomes, vm : Nat, count : Nat, rolled : BOOLEAN,
   size : Nat, bad : BOOLEAN, late : Nat]

Entries == [kind : {"experiment", "outcome", "learning"}, status : Statuses,
            outcome : Outcomes, honest : BOOLEAN]

Budgets == [experiments : Nat, faults : 0..MaxFaults, cancels : Nat, crashes : 0..MaxCrashes]

TypeOK ==
  /\ setup \in [real : BOOLEAN, approver : BOOLEAN]
  /\ vms \in Seq(VMStatuses) /\ vm \in Nat
  /\ ledger \in Seq(Entries)
  /\ counter \in Nat /\ cancelled \subseteq Nat
  /\ pc \in Steps
  /\ record \in Records
  /\ budget \in Budgets

\* Until the operations are through, nothing has gone wrong with the guest and
\* nothing is called an outcome.
Untouched ==
  pc \in {"approve", "create", "audit_create", "start", "ready", "command", "execute"} =>
    record.outcome = "unknown" /\ ~record.bad

\* What is about to be recorded is as honest as what has been.
HonestRecord == record.outcome = "success" => record.count = record.size /\ ~record.bad

\* The steps at which a VM the call has made is still to be cleaned up.
Holding == {"audit_create", "start", "ready", "command", "execute", "collect", "restore",
            "audit_rollback", "audit_recreate", "discard", "create_again", "start_again",
            "cleanup", "destroy"}

\* The VM this call will still clean up: none once one has been made in its place.
Held == IF pc \in Holding /\ record.status # "recreated" THEN {vm} ELSE {}

\* A VM is being replaced, for which a fault has been spent already.
Replacing == pc \in {"audit_recreate", "discard", "create_again", "start_again"}

Spent == (MaxFaults - budget.faults) + (MaxCrashes - budget.crashes)

-----------------------------------------------------------------------------
(* The sandbox controller: types. *)

LEMMA StatusTypes ==
  ASSUME NEW s \in Seq(VMStatuses), NEW v \in Nat, NEW x \in VMStatuses
  PROVE  /\ [s EXCEPT ![v] = x] \in Seq(VMStatuses)
         /\ Append(s, x) \in Seq(VMStatuses)
         /\ DOMAIN [s EXCEPT ![v] = x] = DOMAIN s
<1>1. s \in [1..Len(s) -> VMStatuses] /\ Len(s) \in Nat
  OBVIOUS
<1>2. [s EXCEPT ![v] = x] \in [1..Len(s) -> VMStatuses]
  BY <1>1
<1>3. \A n \in Nat : \A f \in [1..n -> VMStatuses] : f \in Seq(VMStatuses)
  OBVIOUS
<1> QED
  BY <1>1, <1>2, <1>3

\* What an event of the ledger is made of.
LEMMA EntryTypes ==
  ASSUME TypeOK, NEW kind \in {"experiment", "outcome", "learning"}, AppendEvent(kind)
  PROVE  ledger' \in Seq(Entries)
<1> DEFINE e == [kind |-> kind, status |-> record.status, outcome |-> record.outcome,
                 honest |-> record.count = record.size /\ ~record.bad]
<1>1. record.status \in Statuses /\ record.outcome \in Outcomes
  BY DEF TypeOK, Records
<1>2. (record.count = record.size /\ ~record.bad) \in BOOLEAN
  OBVIOUS
<1>3. e \in Entries
  BY <1>1, <1>2, Zenon DEF Entries
<1>4. ledger' = Append(ledger, e)
  BY DEF AppendEvent
<1> HIDE DEF e
<1> QED
  BY <1>3, <1>4 DEF TypeOK

\* The assignments to the record.
LEMMA RecordTypes ==
  ASSUME NEW r \in Records, NEW st \in Statuses
  PROVE  /\ [r EXCEPT !.status = st] \in Records
         /\ \A o \in Outcomes : [r EXCEPT !.status = st, !.outcome = o] \in Records
         /\ [r EXCEPT !.rolled = TRUE, !.status = st] \in Records
         /\ \A n \in Nat : [r EXCEPT !.count = @ + 1, !.late = n] \in Records
         /\ [r EXCEPT !.bad = TRUE] \in Records
         /\ \A o \in Outcomes : [r EXCEPT !.status = st, !.outcome = o, !.bad = TRUE] \in Records
         /\ \A v \in Nat : [r EXCEPT !.vm = v] \in Records
<1>1. [r EXCEPT !.status = st] \in Records
  BY DEF Records
<1>2. \A o \in Outcomes : [r EXCEPT !.outcome = o] \in Records
  BY DEF Records
<1>3. [r EXCEPT !.rolled = TRUE, !.status = st] \in Records
  BY DEF Records
<1>4. \A n \in Nat : [r EXCEPT !.count = @ + 1, !.late = n] \in Records
  <2>1. r.count + 1 \in Nat
    BY DEF Records
  <2>2. ASSUME NEW m \in Nat, NEW n \in Nat PROVE [r EXCEPT !.count = m, !.late = n] \in Records
    BY DEF Records
  <2> QED
    BY <2>1, <2>2
<1>5. [r EXCEPT !.bad = TRUE] \in Records
  BY DEF Records
<1>6. \A v \in Nat : [r EXCEPT !.vm = v] \in Records
  BY DEF Records
<1>7. \A o \in Outcomes : [r EXCEPT !.status = st, !.outcome = o] \in Records
  BY DEF Records
<1>8. \A o \in Outcomes : [r EXCEPT !.status = st, !.outcome = o, !.bad = TRUE] \in Records
  BY DEF Records
<1> QED
  BY <1>1, <1>3, <1>4, <1>5, <1>6, <1>7, <1>8

LEMMA ExecutedTypes ==
  ASSUME record \in Records
  PROVE  Executed \in Records
<1>1. record.late \in Nat /\ record.late + 1 \in Nat /\ record.status \in Statuses
  BY DEF Records
<1>2. Executed = [record EXCEPT !.count = @ + 1,
                                !.late = IF counter \in cancelled THEN record.late + 1 ELSE record.late]
  BY DEF Executed, Records
<1> QED
  BY <1>1, <1>2, RecordTypes

\* What a call that raises does to the record and the budget.
LEMMA FaultTypes ==
  ASSUME TypeOK, Fault
  PROVE  budget' \in Budgets /\ Failed \in Records /\ Failed.outcome = "failure"
<1>1. budget.faults - 1 \in 0..MaxFaults
  BY SandboxBounds DEF TypeOK, Fault, Budgets
<1>2. budget' \in Budgets
  BY <1>1 DEF TypeOK, Fault, Budgets
<1>3. record \in Records /\ "failure" \in Outcomes /\ "failed" \in Statuses
  BY DEF TypeOK, Outcomes, Statuses
<1>4. Failed \in Records
  BY <1>3, RecordTypes DEF Failed
<1>5. Failed.outcome = "failure"
  BY <1>3 DEF Failed, Records
<1> QED
  BY <1>2, <1>4, <1>5

LEMMA GiveUpTypes ==
  ASSUME TypeOK, NEW from \in Steps, GiveUp(from)
  PROVE  budget' \in Budgets /\ record' \in Records /\ pc' = "cleanup" /\ record'.outcome = "failure"
BY FaultTypes DEF GiveUp, Goto

\* The step that adds a machine, and the one that changes the status of one.
LEMMA MachineTypes ==
  ASSUME TypeOK
  PROVE  /\ Append(vms, "creating") \in Seq(VMStatuses) /\ Len(vms) + 1 \in Nat
         /\ \A x \in VMStatuses : [vms EXCEPT ![vm] = x] \in Seq(VMStatuses)
<1>1. vms \in Seq(VMStatuses) /\ vm \in Nat /\ "creating" \in VMStatuses
  BY DEF TypeOK, VMStatuses
<1> QED
  BY <1>1, StatusTypes

\* Everything that is not a type of its own: the setup, the counter and the
\* cancellations, which only a few steps change.
OutsideOK == /\ setup \in [real : BOOLEAN, approver : BOOLEAN]
             /\ counter \in Nat /\ cancelled \subseteq Nat

LEMMA OutsideStep ==
  ASSUME TypeOK, [Next]_vars
  PROVE  OutsideOK'
<1>1. OutsideOK
  BY DEF TypeOK, OutsideOK
<1>2. CASE BeginExperiment \/ Cancel \/ Interrupt \/ Crash \/ UNCHANGED vars
  BY <1>1, <1>2 DEF OutsideOK, BeginExperiment, Cancel, Interrupt, Crash, vars, outside
<1>3. CASE Controller
  <2>1. UNCHANGED outside
    BY <1>3 DEF Controller, RefuseExperiment, Approve, CreateVM, CreateFails, AuditCreate, StartVM,
                ReadyVM, NextCommand, CommandSucceeds, CommandFails, CommandRaises, FinishCommands,
                Collect, Restore, AuditRollback, AuditRecreate, Discard, CreateAgain, StartAgain,
                Cleanup, Destroy, RecordExperiment, RecordOutcome, RecordLesson, ReturnRecord
  <2> QED
    BY <1>1, <2>1 DEF outside, OutsideOK
<1> QED
  BY <1>2, <1>3 DEF Next

LEMMA PlaceStep ==
  ASSUME TypeOK, [Next]_vars
  PROVE  pc' \in Steps
<1>1. CASE BeginExperiment \/ Cancel \/ Interrupt \/ Crash \/ UNCHANGED vars
  BY <1>1 DEF TypeOK, BeginExperiment, Cancel, Interrupt, Crash, vars, outside, Goto, Steps, TryBlock
<1>2. CASE Controller
  BY <1>2 DEF Controller, RefuseExperiment, Approve, CreateVM, CreateFails, AuditCreate, StartVM,
              ReadyVM, NextCommand, CommandSucceeds, CommandFails, CommandRaises, FinishCommands,
              Collect, Restore, AuditRollback, AuditRecreate, Discard, CreateAgain, StartAgain,
              Cleanup, Destroy, RecordExperiment, RecordOutcome, RecordLesson, ReturnRecord,
              GiveUp, Goto, Aftermath, Steps, TryBlock
<1> QED
  BY <1>1, <1>2 DEF Next

\* Only _record_outcome writes to the ledger.
LEMMA LedgerStep ==
  ASSUME [Next]_vars
  PROVE  \/ UNCHANGED ledger
         \/ pc = "record" /\ pc' = "record_outcome" /\ AppendEvent("experiment") /\ UNCHANGED record
         \/ /\ pc = "record_outcome" /\ pc' \in {"record_lesson", "return"}
            /\ AppendEvent("outcome") /\ UNCHANGED record
         \/ pc = "record_lesson" /\ pc' = "return" /\ AppendEvent("learning") /\ UNCHANGED record
<1>1. CASE BeginExperiment \/ Cancel \/ Interrupt \/ Crash \/ UNCHANGED vars
  BY <1>1 DEF BeginExperiment, Cancel, Interrupt, Crash, vars
<1>2. CASE Controller
  BY <1>2 DEF Controller, RefuseExperiment, Approve, CreateVM, CreateFails, AuditCreate, StartVM,
              ReadyVM, NextCommand, CommandSucceeds, CommandFails, CommandRaises, FinishCommands,
              Collect, Restore, AuditRollback, AuditRecreate, Discard, CreateAgain, StartAgain,
              Cleanup, Destroy, RecordExperiment, RecordOutcome, RecordLesson, ReturnRecord, Goto
<1> QED
  BY <1>1, <1>2 DEF Next

LEMMA MachineStep ==
  ASSUME TypeOK, [Next]_vars
  PROVE  vms' \in Seq(VMStatuses) /\ vm' \in Nat
<1> USE MachineTypes
<1>1. vms \in Seq(VMStatuses) /\ vm \in Nat
  BY DEF TypeOK
<1>2. "running" \in VMStatuses /\ "corrupted" \in VMStatuses /\ "absent" \in VMStatuses
  BY DEF VMStatuses
<1>3. CASE BeginExperiment \/ Cancel \/ Interrupt \/ UNCHANGED vars
  BY <1>1, <1>3 DEF BeginExperiment, Cancel, Interrupt, vars, NoVM
<1>4. CASE Crash
  <2>1. [v \in DOMAIN vms |-> "absent"] \in Seq(VMStatuses)
    BY <1>1, <1>2
  <2> QED
    BY <1>1, <1>4, <2>1 DEF Crash, NoVM
<1>5. CASE Controller
  BY <1>1, <1>2, <1>5
       DEF Controller, RefuseExperiment, Approve, CreateVM, CreateFails, AuditCreate, StartVM,
           ReadyVM, NextCommand, CommandSucceeds, CommandFails, CommandRaises, FinishCommands,
           Collect, Restore, AuditRollback, AuditRecreate, Discard, CreateAgain, StartAgain,
           Cleanup, Destroy, RecordExperiment, RecordOutcome, RecordLesson, ReturnRecord, NewVM
<1> QED
  BY <1>3, <1>4, <1>5 DEF Next

LEMMA BudgetStep ==
  ASSUME TypeOK, [Next]_vars
  PROVE  budget' \in Budgets
<1>1. budget \in Budgets
  BY DEF TypeOK
<1>2. CASE BeginExperiment \/ Cancel \/ UNCHANGED vars
  BY <1>1, <1>2 DEF BeginExperiment, Cancel, vars, Budgets
<1>3. CASE Interrupt \/ Crash
  <2>1. budget.crashes - 1 \in 0..MaxCrashes
    BY <1>1, <1>3, SandboxBounds DEF Interrupt, Crash, Budgets
  <2> QED
    BY <1>1, <1>3, <2>1 DEF Interrupt, Crash, Budgets
<1>4. CASE Controller
  <2>1. Fault \/ UNCHANGED budget
    BY <1>4 DEF Controller, RefuseExperiment, Approve, CreateVM, CreateFails, AuditCreate, StartVM,
                ReadyVM, NextCommand, CommandSucceeds, CommandFails, CommandRaises, FinishCommands,
                Collect, Restore, AuditRollback, AuditRecreate, Discard, CreateAgain, StartAgain,
                Cleanup, Destroy, RecordExperiment, RecordOutcome, RecordLesson, ReturnRecord, GiveUp
  <2> QED
    BY <1>1, <2>1, FaultTypes
<1> QED
  BY <1>2, <1>3, <1>4 DEF Next

\* What is written to the record while the call is at its various places.
LEMMA RecordStep ==
  ASSUME TypeOK, [Next]_vars
  PROVE  record' \in Records
<1>1. record \in Records /\ vm \in Nat /\ Len(vms) + 1 \in Nat
  BY MachineTypes DEF TypeOK
<1>2. /\ \A o \in {"unknown", "success", "failure"} : o \in Outcomes
      /\ \A st \in {"proposed", "cancelled", "validated", "running", "failed", "corrupted", "timeout",
                    "observing", "completed", "rolled_back", "recreated"} : st \in Statuses
  BY DEF Outcomes, Statuses
<1>3. \A size \in 1..MaxOperations : FreshRecord(size) \in Records
  BY <1>2, SandboxBounds DEF FreshRecord, Records, NoVM
<1>4. \A st \in Statuses : /\ [record EXCEPT !.status = st] \in Records
                            /\ [record EXCEPT !.rolled = TRUE, !.status = st] \in Records
  BY <1>1, RecordTypes
<1>5. \A v \in Nat : [record EXCEPT !.vm = v] \in Records
  BY <1>1, <1>2, RecordTypes
<1>6. \A from \in Steps : GiveUp(from) => record' \in Records
  BY GiveUpTypes
<1>7. CASE BeginExperiment \/ Cancel \/ Interrupt \/ UNCHANGED vars
  BY <1>1, <1>3, <1>7 DEF BeginExperiment, Cancel, Interrupt, vars
<1>8. CASE Crash
  BY <1>3, <1>8, SandboxBounds DEF Crash
<1>9. CASE RefuseExperiment \/ Approve \/ CreateVM \/ CreateFails("create") \/ AuditCreate
           \/ StartVM \/ ReadyVM
  <2>1. "create" \in Steps /\ "audit_create" \in Steps /\ "start" \in Steps /\ "ready" \in Steps
    BY DEF Steps, TryBlock
  <2>2. CASE RefuseExperiment \/ Approve
    BY <1>1, <1>2, <1>4, <2>2 DEF RefuseExperiment, Approve
  <2>3. CASE CreateVM \/ CreateFails("create")
    BY <1>1, <1>5, <1>6, <2>1, <2>3 DEF CreateVM, CreateFails
  <2>4. CASE AuditCreate \/ StartVM \/ ReadyVM
    BY <1>1, <1>2, <1>4, <1>6, <2>1, <2>4 DEF AuditCreate, StartVM, ReadyVM
  <2> QED
    BY <1>9, <2>2, <2>3, <2>4
<1>10. CASE NextCommand \/ FinishCommands \/ Collect
  <2>1. \A st \in Statuses, o \in Outcomes : [record EXCEPT !.status = st, !.outcome = o] \in Records
    BY <1>1, RecordTypes
  <2>3. ASSUME NEW st \in {"failed", "cancelled", "timeout"}, Aftermath(st) PROVE record' \in Records
    <3>1. st \in Statuses /\ "failure" \in Outcomes
      BY <1>2
    <3>2. record' = [record EXCEPT !.status = st, !.outcome = "failure"]
      BY <2>3 DEF Aftermath
    <3> QED
      BY <2>1, <3>1, <3>2
  <2>4. CASE NextCommand
    BY <1>1, <2>3, <2>4 DEF NextCommand
  <2>5. CASE FinishCommands
    BY <1>2, <2>1, <2>5 DEF FinishCommands
  <2>6. CASE Collect
    <3>1. Uncollected \in Records
      BY <1>1, <1>2, RecordTypes DEF Uncollected
    <3> QED
      BY <1>2, <1>4, <2>6, <3>1 DEF Collect
  <2> QED
    BY <1>10, <2>4, <2>5, <2>6
<1>11. CASE CommandSucceeds \/ CommandFails \/ CommandRaises
  <2>1. Executed \in Records
    BY <1>1, ExecutedTypes
  <2>2. \A done \in {record, Executed} :
          [done EXCEPT !.status = "failed", !.outcome = "failure"] \in Records
    BY <1>1, <1>2, <2>1, RecordTypes
  <2>3. \A st \in {"failed", "corrupted"} :
          [Executed EXCEPT !.status = st, !.outcome = "failure", !.bad = TRUE] \in Records
    BY <1>2, <2>1 DEF Records
  <2> QED
    BY <1>11, <2>1, <2>2, <2>3 DEF CommandSucceeds, CommandFails, CommandRaises
<1>12. CASE Restore \/ AuditRollback \/ AuditRecreate \/ Discard \/ CreateAgain
           \/ CreateFails("create_again")
  <2>1. "audit_recreate" \in Steps /\ "discard" \in Steps /\ "create_again" \in Steps
    BY DEF Steps, TryBlock
  <2>2. CASE Restore
    BY <1>1, <1>2, <1>4, <2>2 DEF Restore
  <2>3. CASE AuditRollback \/ AuditRecreate \/ Discard \/ CreateAgain \/ CreateFails("create_again")
    BY <1>1, <1>6, <2>1, <2>3 DEF AuditRollback, AuditRecreate, Discard, CreateAgain, CreateFails
  <2> QED
    BY <1>12, <2>2, <2>3
<1>13. CASE StartAgain
  <2>1. [record EXCEPT !.vm = vm, !.status = "recreated", !.rolled = TRUE] \in Records
    BY <1>1, <1>2 DEF Records
  <2> QED
    BY <1>13, <2>1, FaultTypes DEF StartAgain, GiveUp
<1>14. CASE Cleanup \/ Destroy \/ RecordExperiment \/ RecordOutcome \/ RecordLesson \/ ReturnRecord
  BY <1>1, <1>14 DEF Cleanup, Destroy, RecordExperiment, RecordOutcome, RecordLesson, ReturnRecord
<1> QED
  BY <1>7, <1>8, <1>9, <1>10, <1>11, <1>12, <1>13, <1>14 DEF Next, Controller

LEMMA TypeStep ==
  ASSUME TypeOK, [Next]_vars
  PROVE  TypeOK'
<1>1. ledger' \in Seq(Entries)
  BY LedgerStep, EntryTypes DEF TypeOK
<1> QED
  BY <1>1, OutsideStep, PlaceStep, MachineStep, BudgetStep, RecordStep DEF TypeOK, OutsideOK

LEMMA TypeInit ==
  ASSUME Init
  PROVE  TypeOK
<1>1. FreshRecord(1) \in Records
  BY DEF FreshRecord, Records, Outcomes, Statuses, NoVM
<1>2. budget \in Budgets
  BY SandboxBounds DEF Init, Budgets
<1> QED
  BY <1>1, <1>2 DEF Init, TypeOK, NoVM, Steps

\* Every variable has its type.
THEOREM TypeCorrect == Spec => []TypeOK
<1>1. Init => TypeOK
  BY TypeInit
<1>2. TypeOK /\ [Next]_vars => TypeOK'
  BY TypeStep
<1> QED
  BY <1>1, <1>2, PTL DEF Spec

-----------------------------------------------------------------------------
(* The sandbox controller: what is called a success. *)

LEMMA UntouchedStep ==
  ASSUME TypeOK, Untouched, [Next]_vars
  PROVE  Untouched'
<1>1. record \in Records
  BY DEF TypeOK
<1>2. CASE BeginExperiment
  <2>1. record'.outcome = "unknown" /\ record'.bad = FALSE
    BY <1>2 DEF BeginExperiment, FreshRecord
  <2> QED
    BY <2>1 DEF Untouched
<1>3. CASE Approve \/ CreateVM \/ ReadyVM
  <2>1. (record'.outcome = record.outcome /\ record'.bad = record.bad) \/ pc' = "cleanup"
    BY <1>1, <1>3 DEF Approve, CreateVM, ReadyVM, GiveUp, Goto, Records
  <2>2. pc \in {"approve", "create", "ready"}
    BY <1>3 DEF Approve, CreateVM, ReadyVM, GiveUp, Goto
  <2>3. pc' \in {"cleanup", "create", "audit_create", "command"}
    BY <1>3 DEF Approve, CreateVM, ReadyVM, GiveUp, Goto
  <2> QED
    BY <2>1, <2>2, <2>3 DEF Untouched
<1>4. CASE CommandSucceeds
  <2>1. record'.outcome = record.outcome /\ record'.bad = record.bad /\ pc = "execute"
    BY <1>1, <1>4 DEF CommandSucceeds, Executed, Goto, Records
  <2> QED
    BY <2>1 DEF Untouched
<1>5. CASE AuditCreate \/ StartVM \/ NextCommand
  BY <1>5 DEF AuditCreate, StartVM, NextCommand, Aftermath, GiveUp, Goto, Untouched
<1>6. CASE RefuseExperiment \/ CreateFails("create") \/ CommandFails \/ CommandRaises
           \/ FinishCommands \/ Collect \/ Restore \/ AuditRollback \/ AuditRecreate \/ Discard
           \/ CreateAgain \/ CreateFails("create_again") \/ StartAgain \/ Cleanup \/ Destroy
           \/ RecordExperiment \/ RecordOutcome \/ RecordLesson \/ ReturnRecord
  <2>1. pc' \in {"idle", "cleanup", "restore", "collect", "audit_rollback", "audit_recreate",
                 "discard", "create_again", "start_again", "record", "destroy", "record_outcome",
                 "record_lesson", "return"}
    BY <1>6 DEF RefuseExperiment, CreateFails, CommandFails, CommandRaises, FinishCommands, Collect,
                Restore, AuditRollback, AuditRecreate, Discard, CreateAgain, StartAgain, Cleanup,
                Destroy, RecordExperiment, RecordOutcome, RecordLesson, ReturnRecord, GiveUp, Goto,
                Aftermath
  <2> QED
    BY <2>1 DEF Untouched
<1>7. CASE Cancel \/ Interrupt \/ Crash \/ UNCHANGED vars
  BY <1>7 DEF Cancel, Interrupt, Crash, vars, Untouched
<1> QED
  BY <1>2, <1>3, <1>4, <1>5, <1>6, <1>7 DEF Next, Controller

\* Success is called once, when every operation of the proposal has run.
LEMMA HonestRecordStep ==
  ASSUME TypeOK, Untouched, HonestRecord, [Next]_vars
  PROVE  HonestRecord'
<1> USE DEF HonestRecord
<1>1. record \in Records
  BY DEF TypeOK
<1>2. CASE BeginExperiment \/ Crash
  <2>1. record'.outcome = "unknown"
    BY <1>2 DEF BeginExperiment, Crash, FreshRecord
  <2> QED
    BY <2>1
<1>3. CASE FinishCommands
  <2>1. record'.count = record.count /\ record'.size = record.size /\ record'.bad = record.bad
    BY <1>1, <1>3 DEF FinishCommands, Records
  <2>2. record.count = record.size /\ ~record.bad
    BY <1>3 DEF FinishCommands, Goto, Untouched
  <2> QED
    BY <2>1, <2>2
<1>4. CASE CommandSucceeds
  <2>1. record'.outcome = record.outcome /\ pc = "execute"
    BY <1>1, <1>4 DEF CommandSucceeds, Executed, Goto, Records
  <2> QED
    BY <2>1 DEF Untouched
<1>5. CASE CommandFails \/ CommandRaises
  <2>1. record'.outcome = "failure"
    BY <1>1, <1>5 DEF CommandFails, CommandRaises, Executed, Records
  <2> QED
    BY <2>1
<1>6. CASE \E from \in Steps : GiveUp(from)
  BY <1>6, GiveUpTypes
<1>7. CASE \E status : Aftermath(status)
  <2>1. record'.outcome = "failure"
    BY <1>1, <1>7 DEF Aftermath, Records
  <2> QED
    BY <2>1
<1>8. ASSUME record'.outcome = record.outcome, record'.count = record.count,
             record'.size = record.size, record'.bad = record.bad
      PROVE  HonestRecord'
  BY <1>8
<1>9. CASE UNCHANGED record
  BY <1>9
<1>10. CASE RefuseExperiment \/ Approve \/ CreateVM
  BY <1>1, <1>8, <1>10 DEF RefuseExperiment, Approve, CreateVM, Records
<1>11. CASE CreateFails("create") \/ CreateFails("create_again") \/ AuditCreate \/ StartVM
            \/ AuditRecreate \/ Discard
  BY <1>6, <1>9, <1>11 DEF CreateFails, AuditCreate, StartVM, AuditRecreate, Discard, Steps, TryBlock
<1>12. CASE ReadyVM
  <2>1. CASE GiveUp("ready")
    BY <1>6, <2>1 DEF Steps, TryBlock
  <2>2. CASE record' = [record EXCEPT !.status = "running"]
    BY <1>1, <1>8, <2>2 DEF Records
  <2> QED
    BY <1>12, <2>1, <2>2 DEF ReadyVM
<1>13. CASE NextCommand
  BY <1>7, <1>9, <1>13 DEF NextCommand
<1>14. CASE Collect
  <2>1. CASE record' = Uncollected
    <3>1. record'.outcome = "failure"
      BY <1>1, <2>1 DEF Uncollected, Records
    <3> QED
      BY <3>1
  <2>2. CASE record' = [record EXCEPT !.status = "completed"]
    BY <1>1, <1>8, <2>2 DEF Records
  <2> QED
    BY <1>7, <1>14, <2>1, <2>2 DEF Collect
<1>15. CASE Restore
  <2>1. CASE record' = [record EXCEPT !.rolled = TRUE, !.status = "rolled_back"]
    BY <1>1, <1>8, <2>1 DEF Records
  <2> QED
    BY <1>9, <1>15, <2>1 DEF Restore
<1>16. CASE StartAgain
  <2>1. CASE GiveUp("start_again")
    BY <1>6, <2>1 DEF Steps, TryBlock
  <2>2. CASE record' = [record EXCEPT !.vm = vm, !.status = "recreated", !.rolled = TRUE]
    BY <1>1, <1>8, <2>2 DEF Records
  <2> QED
    BY <1>16, <2>1, <2>2 DEF StartAgain
<1>17. CASE AuditRollback \/ CreateAgain \/ Cleanup \/ Destroy \/ RecordExperiment \/ RecordOutcome
            \/ RecordLesson \/ ReturnRecord \/ Cancel \/ Interrupt \/ UNCHANGED vars
  BY <1>9, <1>17 DEF AuditRollback, CreateAgain, Cleanup, Destroy, RecordExperiment, RecordOutcome,
                     RecordLesson, ReturnRecord, Cancel, Interrupt, vars
<1> QED
  BY <1>2, <1>3, <1>4, <1>5, <1>10, <1>11, <1>12, <1>13, <1>14, <1>15, <1>16, <1>17 DEF Next, Controller

\* What is written to the ledger is as honest as the record.
LEMMA HonestLedgerStep ==
  ASSUME TypeOK, HonestRecord, HonestSuccess, [Next]_vars
  PROVE  HonestSuccess'
<1>1. ledger \in Seq(Entries)
  BY DEF TypeOK
<1>2. CASE UNCHANGED ledger
  BY <1>2 DEF HonestSuccess
<1>3. ASSUME NEW kind \in {"experiment", "outcome", "learning"}, AppendEvent(kind)
      PROVE  HonestSuccess'
  <2> DEFINE e == [kind |-> kind, status |-> record.status, outcome |-> record.outcome,
                   honest |-> record.count = record.size /\ ~record.bad]
  <2>1. ledger' = Append(ledger, e)
    BY <1>3 DEF AppendEvent
  <2>2. e.outcome = "success" => e.honest
    BY DEF HonestRecord
  <2> HIDE DEF e
  <2>3. \A i \in DOMAIN ledger' : ledger'[i] = e \/ (i \in DOMAIN ledger /\ ledger'[i] = ledger[i])
    BY <1>1, <2>1
  <2> QED
    BY <2>2, <2>3 DEF HonestSuccess
<1> QED
  BY <1>2, <1>3, LedgerStep

\* For every number of experiments, operations, faults, cancellations and
\* deaths: what the ledger calls a success ran the whole proposal, nothing in it
\* failed or corrupted the guest, and its artifacts were not refused.
THEOREM SuccessIsHonest == Spec => []HonestSuccess
<1> DEFINE Inv == TypeOK /\ Untouched /\ HonestRecord /\ HonestSuccess
<1>1. Init => Inv
  BY TypeInit DEF Init, Untouched, HonestRecord, HonestSuccess, FreshRecord
<1>2. Inv /\ [Next]_vars => Inv'
  BY TypeStep, UntouchedStep, HonestRecordStep, HonestLedgerStep
<1>3. Inv => HonestSuccess
  OBVIOUS
<1> QED
  BY <1>1, <1>2, <1>3, PTL DEF Spec

\* What has been executed late was under way when the cancellation came.
Heeded == record.late # 0 => record.late = 1 /\ counter \in cancelled /\ pc # "execute"

LEMMA HeededStep ==
  ASSUME TypeOK, Heeded, [Next]_vars
  PROVE  Heeded'
<1> USE DEF Heeded
<1>1. record \in Records
  BY DEF TypeOK
<1>2. CASE BeginExperiment \/ Crash
  <2>1. record'.late = 0
    BY <1>2 DEF BeginExperiment, Crash, FreshRecord
  <2> QED
    BY <2>1
<1>3. CASE CommandSucceeds \/ CommandFails \/ CommandRaises
  <2>1. pc = "execute" /\ record.late = 0 /\ UNCHANGED <<counter, cancelled>> /\ pc' # "execute"
    BY <1>3 DEF CommandSucceeds, CommandFails, CommandRaises, Goto, outside
  <2>2. Executed.late = IF counter \in cancelled THEN 1 ELSE 0
    BY <1>1, <2>1 DEF Executed, Records
  <2>3. Executed \in Records
    BY <1>1, ExecutedTypes
  <2>4. ASSUME NEW done \in Records, NEW st, NEW out, NEW bad
        PROVE  /\ [done EXCEPT !.status = st, !.outcome = out].late = done.late
               /\ [done EXCEPT !.status = st, !.outcome = out, !.bad = bad].late = done.late
    BY DEF Records
  <2>5. CommandFails => record'.late = Executed.late
    <3>1. SUFFICES ASSUME CommandFails PROVE record'.late = Executed.late
      OBVIOUS
    <3>2. PICK st \in {"failed", "corrupted"} :
            record' = [Executed EXCEPT !.status = st, !.outcome = "failure", !.bad = TRUE]
      BY <3>1 DEF CommandFails
    <3>3. [Executed EXCEPT !.status = st, !.outcome = "failure", !.bad = TRUE].late = Executed.late
      BY <2>3, <2>4
    <3> QED
      BY <3>2, <3>3
  <2>6. CommandRaises => record'.late \in {record.late, Executed.late}
    <3>1. SUFFICES ASSUME CommandRaises PROVE record'.late \in {record.late, Executed.late}
      OBVIOUS
    <3>2. PICK done \in {record, Executed} :
            record' = [done EXCEPT !.status = "failed", !.outcome = "failure"]
      BY <3>1 DEF CommandRaises
    <3>3. [done EXCEPT !.status = "failed", !.outcome = "failure"].late = done.late
      BY <1>1, <2>3, <2>4
    <3> QED
      BY <3>2, <3>3
  <2>7. record'.late \in {record.late, Executed.late}
    BY <1>3, <2>5, <2>6 DEF CommandSucceeds
  <2> QED
    BY <2>1, <2>2, <2>7
<1>4. CASE NextCommand
  <2>1. record'.late = record.late /\ UNCHANGED <<counter, cancelled>>
    BY <1>1, <1>4 DEF NextCommand, Aftermath, Records, outside
  <2>2. pc' = "execute" => counter \notin cancelled
    BY <1>4 DEF NextCommand, Aftermath
  <2> QED
    BY <2>1, <2>2
<1>5. CASE Cancel \/ Interrupt \/ UNCHANGED vars
  BY <1>5 DEF Cancel, Interrupt, vars, outside
<1>6. CASE \/ RefuseExperiment \/ Approve \/ CreateVM \/ CreateFails("create")
           \/ AuditCreate \/ StartVM \/ ReadyVM \/ FinishCommands \/ Collect
           \/ Restore \/ AuditRollback \/ AuditRecreate \/ Discard
           \/ CreateAgain \/ CreateFails("create_again") \/ StartAgain
           \/ Cleanup \/ Destroy \/ RecordExperiment \/ RecordOutcome \/ RecordLesson \/ ReturnRecord
  <2>1. UNCHANGED <<counter, cancelled>> /\ pc' # "execute"
    BY <1>6 DEF RefuseExperiment, Approve, CreateVM, CreateFails, AuditCreate, StartVM, ReadyVM,
                FinishCommands, Collect, Restore, AuditRollback, AuditRecreate, Discard,
                CreateAgain, StartAgain, Cleanup, Destroy, RecordExperiment, RecordOutcome,
                RecordLesson, ReturnRecord, GiveUp, Goto, outside
  <2>2. record'.late = record.late
    BY <1>1, <1>6 DEF RefuseExperiment, Approve, CreateVM, CreateFails, AuditCreate, StartVM, ReadyVM,
                FinishCommands, Collect, Restore, AuditRollback, AuditRecreate, Discard,
                CreateAgain, StartAgain, Cleanup, Destroy, RecordExperiment, RecordOutcome,
                RecordLesson, ReturnRecord, GiveUp, Failed, Uncollected, Records
  <2> QED
    BY <2>1, <2>2
<1> QED
  BY <1>2, <1>3, <1>4, <1>5, <1>6 DEF Next, Controller

\* For every number of experiments, operations, cancellations and faults: one
\* command at most is executed of an experiment after its cancellation.
THEOREM CancelIsHeeded == Spec => []CancelHeeded
<1> DEFINE Inv == TypeOK /\ Heeded
<1>1. Init => Inv
  BY TypeInit DEF Init, Heeded, FreshRecord
<1>2. Inv /\ [Next]_vars => Inv'
  BY TypeStep, HeededStep
<1>3. Inv => CancelHeeded
  BY DEF Heeded, CancelHeeded
<1> QED
  BY <1>1, <1>2, <1>3, PTL DEF Spec

\* Who is about to destroy a machine has said so.
Announced ==
  /\ pc = "destroy" => <<"destroy", vm>> \in audit
  /\ pc = "discard" => <<"recreate", vm>> \in audit

LEMMA AnnouncedStep ==
  ASSUME Announced, [Next]_vars
  PROVE  Announced' /\ audit \subseteq audit'
<1> USE DEF Announced
<1>1. CASE Cleanup \/ AuditRecreate
  BY <1>1 DEF Cleanup, AuditRecreate, Audit, GiveUp, Goto
<1>2. CASE \/ BeginExperiment \/ RefuseExperiment \/ Approve \/ CreateVM \/ CreateFails("create")
           \/ AuditCreate \/ StartVM \/ ReadyVM \/ NextCommand
           \/ CommandSucceeds \/ CommandFails \/ CommandRaises \/ FinishCommands \/ Collect
           \/ Restore \/ AuditRollback \/ Discard
           \/ CreateAgain \/ CreateFails("create_again") \/ StartAgain
           \/ Destroy \/ RecordExperiment \/ RecordOutcome \/ RecordLesson \/ ReturnRecord
           \/ Interrupt \/ Crash
  <2>1. pc' \notin {"destroy", "discard"}
    BY <1>2 DEF BeginExperiment, RefuseExperiment, Approve, CreateVM, CreateFails, AuditCreate, StartVM,
                ReadyVM, NextCommand, CommandSucceeds, CommandFails, CommandRaises, FinishCommands,
                Collect, Restore, AuditRollback, Discard, CreateAgain, StartAgain, Destroy,
                RecordExperiment, RecordOutcome, RecordLesson, ReturnRecord, Interrupt, Crash,
                Aftermath, GiveUp, Goto
  <2>2. audit \subseteq audit'
    BY <1>2 DEF BeginExperiment, RefuseExperiment, Approve, CreateVM, CreateFails, AuditCreate, StartVM,
                ReadyVM, NextCommand, CommandSucceeds, CommandFails, CommandRaises, FinishCommands,
                Collect, Restore, AuditRollback, Discard, CreateAgain, StartAgain, Destroy,
                RecordExperiment, RecordOutcome, RecordLesson, ReturnRecord, Interrupt, Crash, Audit
  <2> QED
    BY <2>1, <2>2
<1>3. CASE Cancel \/ UNCHANGED vars
  BY <1>3 DEF Cancel, vars
<1> QED
  BY <1>1, <1>2, <1>3 DEF Next, Controller

\* A machine goes in the steps that announced it, or with a mock's process.
LEMMA GoneStep ==
  ASSUME TypeOK, Announced, [Next]_vars, NEW v \in DOMAIN vms', vms'[v] = "absent"
  PROVE  \/ v \in DOMAIN vms /\ vms[v] = "absent"
         \/ {<<"destroy", v>>, <<"recreate", v>>} \cap audit # {}
         \/ ~setup.real /\ budget'.crashes < MaxCrashes
<1>1. vms \in Seq(VMStatuses)
  BY DEF TypeOK
<1>2. ASSUME NEW status, vms' = [vms EXCEPT ![vm] = status] \/ UNCHANGED vms, status # "absent"
      PROVE  v \in DOMAIN vms /\ vms[v] = "absent"
  BY <1>1, <1>2
<1>3. CASE Discard \/ Destroy
  BY <1>1, <1>3 DEF Discard, Destroy, Goto, Announced
<1>4. CASE Crash
  <2>1. budget.crashes > 0 /\ budget'.crashes = budget.crashes - 1 /\ budget.crashes \in 0..MaxCrashes
    BY <1>4 DEF Crash, TypeOK, Budgets
  <2>2. vms' = vms \/ ~setup.real
    BY <1>4 DEF Crash
  <2> QED
    BY <2>1, <2>2, SandboxBounds
<1>5. ASSUME vms' = Append(vms, "creating")
      PROVE  v \in DOMAIN vms /\ vms[v] = "absent"
  BY <1>1, <1>5
<1>6. CASE CreateVM \/ CreateAgain
  BY <1>5, <1>6 DEF CreateVM, CreateAgain, NewVM
<1>7. CASE CreateFails("create") \/ CreateFails("create_again")
  BY <1>5, <1>7 DEF CreateFails
<1>8. CASE StartVM \/ Restore \/ StartAgain \/ CommandFails
  <2>1. \E status \in {"running", "corrupted"} : vms' = [vms EXCEPT ![vm] = status] \/ UNCHANGED vms
    BY <1>8 DEF StartVM, Restore, StartAgain, CommandFails
  <2> QED
    BY <1>2, <2>1
<1>9. CASE \/ BeginExperiment \/ RefuseExperiment \/ Approve \/ AuditCreate \/ ReadyVM \/ NextCommand
           \/ CommandSucceeds \/ CommandRaises \/ FinishCommands \/ Collect \/ AuditRollback
           \/ AuditRecreate \/ Cleanup \/ RecordExperiment \/ RecordOutcome \/ RecordLesson
           \/ ReturnRecord \/ Cancel \/ Interrupt \/ UNCHANGED vars
  BY <1>9 DEF BeginExperiment, RefuseExperiment, Approve, AuditCreate, ReadyVM, NextCommand,
              CommandSucceeds, CommandRaises, FinishCommands, Collect, AuditRollback, AuditRecreate,
              Cleanup, RecordExperiment, RecordOutcome, RecordLesson, ReturnRecord, Cancel, Interrupt,
              vars
<1> QED
  BY <1>3, <1>4, <1>6, <1>7, <1>8, <1>9 DEF Next, Controller

LEMMA CrashesSpent ==
  ASSUME TypeOK, [Next]_vars
  PROVE  setup' = setup /\ (budget.crashes < MaxCrashes => budget'.crashes < MaxCrashes)
<1>1. budget \in Budgets
  BY DEF TypeOK
<1>2. setup' = setup /\ (UNCHANGED budget \/ BeginExperiment \/ Fault \/ Cancel \/ Interrupt \/ Crash)
  BY DEF Next, Controller, BeginExperiment, RefuseExperiment, Approve, CreateVM, CreateFails, AuditCreate,
         StartVM, ReadyVM, NextCommand, CommandSucceeds, CommandFails, CommandRaises, FinishCommands,
         Collect, Restore, AuditRollback, AuditRecreate, Discard, CreateAgain, StartAgain, Cleanup,
         Destroy, RecordExperiment, RecordOutcome, RecordLesson, ReturnRecord, GiveUp, Cancel,
         Interrupt, Crash, vars, outside
<1>3. CASE UNCHANGED budget \/ BeginExperiment \/ Fault \/ Cancel
  BY <1>1, <1>2, <1>3 DEF BeginExperiment, Fault, Cancel, Budgets
<1>4. CASE Interrupt \/ Crash
  BY <1>1, <1>2, <1>4, SandboxBounds DEF Interrupt, Crash, Budgets
<1> QED
  BY <1>2, <1>3, <1>4

\* For every number of experiments and failures of any call: no machine is
\* destroyed that the audit trail does not say is to be destroyed or replaced.
THEOREM AuditIsAhead == Spec => []AuditAhead
<1> DEFINE Inv == TypeOK /\ Announced /\ AuditAhead
<1>1. Init => Inv
  BY TypeInit DEF Init, Announced, AuditAhead
<1>2. Inv /\ [Next]_vars => Inv'
  <2> SUFFICES ASSUME Inv, [Next]_vars PROVE Inv'
    OBVIOUS
  <2>1. TypeOK' /\ Announced' /\ audit \subseteq audit'
    BY TypeStep, AnnouncedStep
  <2>2. setup' = setup /\ (budget.crashes < MaxCrashes => budget'.crashes < MaxCrashes)
    BY CrashesSpent
  <2>3. ASSUME NEW v \in DOMAIN vms', vms'[v] = "absent"
        PROVE  \/ {<<"destroy", v>>, <<"recreate", v>>} \cap audit' # {}
               \/ ~setup'.real /\ budget'.crashes < MaxCrashes
    BY <2>1, <2>2, <2>3, GoneStep DEF AuditAhead
  <2> QED
    BY <2>1, <2>3 DEF AuditAhead
<1>3. Inv => AuditAhead
  OBVIOUS
<1> QED
  BY <1>1, <1>2, <1>3, PTL DEF Spec

-----------------------------------------------------------------------------
(* The sandbox controller: the promise to whoever asks. *)

\* No outcome is written: the ledger grows by nothing or by something else.
LEMMA SameOutcomes ==
  ASSUME TypeOK, [Next]_vars, pc # "record_outcome"
  PROVE  OutcomesOn(ledger)' = OutcomesOn(ledger)
<1>1. ledger \in Seq(Entries)
  BY DEF TypeOK
<1>2. CASE UNCHANGED ledger
  BY <1>2 DEF OutcomesOn
<1>3. ASSUME NEW kind \in {"experiment", "learning"}, AppendEvent(kind)
      PROVE  OutcomesOn(ledger)' = OutcomesOn(ledger)
  <2> DEFINE e == [kind |-> kind, status |-> record.status, outcome |-> record.outcome,
                   honest |-> record.count = record.size /\ ~record.bad]
  <2>1. ledger' = Append(ledger, e)
    BY <1>3 DEF AppendEvent
  <2>2. e.kind # "outcome"
    OBVIOUS
  <2> HIDE DEF e
  <2>3. {i \in DOMAIN ledger' : ledger'[i].kind = "outcome"} = {i \in DOMAIN ledger : ledger[i].kind = "outcome"}
    BY <1>1, <2>1, <2>2
  <2>4. \A i \in DOMAIN ledger : ledger'[i] = ledger[i]
    BY <1>1, <2>1
  <2> QED
    BY <2>3, <2>4 DEF OutcomesOn
<1> QED
  BY <1>2, <1>3, LedgerStep

\* The step that concludes the call is the one that writes its outcome.
LEMMA ConcludeStep ==
  ASSUME TypeOK, pc = "record_outcome", RecordOutcome
  PROVE  Log!Conclude
<1> DEFINE e == [kind |-> "outcome", status |-> record.status, outcome |-> record.outcome,
                 honest |-> record.count = record.size /\ ~record.bad]
           id == Len(ledger) + 1
           before == {i \in DOMAIN ledger : ledger[i].kind = "outcome"}
<1>1. ledger \in Seq(Entries) /\ record.outcome \in {"success", "failure", "unknown"}
  BY DEF TypeOK, Records, Outcomes
<1>2. ledger' = Append(ledger, e) /\ e.kind = "outcome" /\ e.outcome = record.outcome
  BY DEF RecordOutcome, AppendEvent
<1> HIDE DEF e
<1>3. {i \in DOMAIN ledger' : ledger'[i].kind = "outcome"} = before \cup {id}
  BY <1>1, <1>2
<1>4. id \notin before /\ \A i \in before : i < id /\ ledger'[i] = ledger[i]
  BY <1>1, <1>2
<1>5. ledger'[id] = e
  BY <1>1, <1>2
<1> HIDE DEF id
<1>6. DOMAIN OutcomesOn(ledger) = before /\ DOMAIN (OutcomesOn(ledger)') = before \cup {id}
  BY <1>3 DEF OutcomesOn
<1>7. OutcomesOn(ledger)' = [i \in DOMAIN OutcomesOn(ledger) \cup {id} |->
                               IF i = id THEN record.outcome ELSE OutcomesOn(ledger)[i]]
  BY <1>2, <1>3, <1>4, <1>5, <1>6 DEF OutcomesOn
<1>8. Phase = "admitted" /\ Phase' = "concluded"
  BY DEF Phase, RecordOutcome, Goto
<1> QED
  BY <1>1, <1>4, <1>6, <1>7, <1>8 DEF Log!Conclude

\* run_experiment keeps the promise of ExperimentLog: what is refused leaves no
\* trace, what is admitted leaves exactly one outcome before the call returns,
\* unless the process dies.
THEOREM KeepsThePromise == Spec => LogSpec
<1>1. Init => Log!Init
  BY DEF Init, Log!Init, Phase, OutcomesOn
<1>2. ASSUME TypeOK, [Next]_vars
      PROVE  [Log!Next]_Log!logVars
  <2> DEFINE Same == OutcomesOn(ledger)' = OutcomesOn(ledger)
  <2>1. CASE RecordOutcome
    BY <1>2, <2>1, ConcludeStep DEF RecordOutcome, Goto, Log!Next
  <2>2. CASE BeginExperiment
    <3>1. pc = "idle" /\ pc' = "approve"
      BY <2>2 DEF BeginExperiment, Goto
    <3> QED
      BY <1>2, <3>1, SameOutcomes DEF Log!Next, Log!Ask, Phase
  <2>3. CASE RefuseExperiment \/ Approve
    <3>1. pc = "approve" /\ pc' \in {"idle", "create"}
      BY <2>3 DEF RefuseExperiment, Approve, Goto
    <3> QED
      BY <1>2, <3>1, SameOutcomes DEF Log!Next, Log!Refuse, Log!Admit, Phase
  <2>4. CASE ReturnRecord
    <3>1. pc = "return" /\ pc' = "idle"
      BY <2>4 DEF ReturnRecord, Goto
    <3> QED
      BY <1>2, <3>1, SameOutcomes DEF Log!Next, Log!Return, Phase
  <2>5. CASE Crash
    <3>1. pc # "idle" /\ pc' = "idle" /\ UNCHANGED ledger
      BY <2>5 DEF Crash
    <3>2. Same
      BY <3>1 DEF OutcomesOn
    <3> QED
      BY <1>2, <3>1, <3>2 DEF Log!Next, Log!Lose, Phase, TypeOK, Steps, TryBlock
  <2>6. CASE Cancel \/ UNCHANGED vars
    <3>1. pc' = pc /\ UNCHANGED ledger
      BY <2>6 DEF Cancel, vars
    <3> QED
      BY <3>1 DEF Log!logVars, Phase, OutcomesOn
  <2>7. CASE RecordLesson
    <3>1. pc = "record_lesson" /\ pc' = "return"
      BY <2>7 DEF RecordLesson, Goto
    <3> QED
      BY <1>2, <3>1, SameOutcomes DEF Log!logVars, Phase
  <2>8. CASE \/ CreateVM \/ CreateFails("create") \/ AuditCreate \/ StartVM \/ ReadyVM \/ NextCommand
             \/ CommandSucceeds \/ CommandFails \/ CommandRaises \/ FinishCommands \/ Collect
             \/ Restore \/ AuditRollback \/ AuditRecreate \/ Discard \/ CreateAgain
             \/ CreateFails("create_again") \/ StartAgain \/ Cleanup \/ Destroy \/ RecordExperiment
             \/ Interrupt
    <3>1. /\ pc \in TryBlock \cup {"cleanup", "destroy", "record"}
          /\ pc' \in TryBlock \cup {"cleanup", "destroy", "record", "record_outcome"}
      BY <2>8 DEF CreateVM, CreateFails, AuditCreate, StartVM, ReadyVM, NextCommand, CommandSucceeds,
                  CommandFails, CommandRaises, FinishCommands, Collect, Restore, AuditRollback,
                  AuditRecreate, Discard, CreateAgain, StartAgain, Cleanup, Destroy,
                  RecordExperiment, Interrupt, GiveUp, Goto, Aftermath, TryBlock
    <3> QED
      BY <1>2, <3>1, SameOutcomes DEF Log!logVars, Phase, TryBlock
  <2> QED
    BY <1>2, <2>1, <2>2, <2>3, <2>4, <2>5, <2>6, <2>7, <2>8 DEF Next, Controller
<1> QED
  BY <1>1, <1>2, TypeCorrect, PTL DEF Spec, LogSpec, Log!Spec

-----------------------------------------------------------------------------
(* The sandbox controller: what is left behind. *)

LEMMA AliveFinite ==
  ASSUME TypeOK
  PROVE  IsFiniteSet(Alive \ Held) /\ IsFiniteSet(Alive) /\ Alive \subseteq 1..Len(vms)
<1>1. Len(vms) \in Nat /\ DOMAIN vms = 1..Len(vms)
  BY DEF TypeOK
<1>2. Alive \subseteq 1..Len(vms)
  BY <1>1 DEF Alive
<1>3. IsFiniteSet(1..Len(vms))
  BY <1>1, FS_Interval
<1> QED
  BY <1>2, <1>3, FS_Subset

\* One more machine counts for one more.
LEMMA OneMore ==
  ASSUME NEW S, IsFiniteSet(S), NEW T, NEW x, T \subseteq S \cup {x}
  PROVE  IsFiniteSet(T) /\ Cardinality(T) <= Cardinality(S) + 1
<1>1. /\ IsFiniteSet(S \cup {x})
      /\ Cardinality(S \cup {x}) = IF x \in S THEN Cardinality(S) ELSE Cardinality(S) + 1
  BY FS_AddElement
<1>2. Cardinality(S) \in Nat
  BY FS_CardinalityType
<1>3. IsFiniteSet(T) /\ Cardinality(T) <= Cardinality(S \cup {x})
  BY <1>1, FS_Subset
<1>4. Cardinality(T) \in Nat
  BY <1>3, FS_CardinalityType
<1> QED
  BY <1>1, <1>2, <1>3, <1>4

\* What a step may do to the account: nobody is left who was not before, or one
\* is and a failure pays for it, or the one whose replacement was paid for is.
Settled ==
  \/ /\ Alive' \ Held' \subseteq Alive \ Held
     /\ Spent' >= Spent
     /\ Replacing' => Replacing \/ Spent' = Spent + 1
  \/ /\ \E v : Alive' \ Held' \subseteq (Alive \ Held) \cup {v}
     /\ ~Replacing'
     /\ Spent' = Spent + 1 \/ (Replacing /\ Spent' = Spent)

\* The account: as many machines without an owner as failures have been spent.
Balance == IF Replacing THEN Cardinality(Alive \ Held) + 1 <= Spent
                        ELSE Cardinality(Alive \ Held) <= Spent

LEMMA SettledBalances ==
  ASSUME TypeOK, TypeOK', Balance, Settled
  PROVE  Balance'
<1>1. /\ IsFiniteSet(Alive \ Held) /\ Cardinality(Alive \ Held) \in Nat
      /\ Spent \in Int /\ Spent' \in Int
  <2>1. budget \in Budgets /\ budget' \in Budgets
    BY DEF TypeOK
  <2>2. Spent \in Int /\ Spent' \in Int
    BY <2>1, SandboxBounds DEF Spent, Budgets
  <2> QED
    BY <2>2, AliveFinite, FS_CardinalityType
<1>2. CASE /\ Alive' \ Held' \subseteq Alive \ Held
           /\ Spent' >= Spent
           /\ Replacing' => Replacing \/ Spent' = Spent + 1
  <2>1. IsFiniteSet(Alive' \ Held') /\ Cardinality(Alive' \ Held') <= Cardinality(Alive \ Held)
    BY <1>1, <1>2, FS_Subset
  <2>2. Cardinality(Alive' \ Held') \in Nat
    BY <2>1, FS_CardinalityType
  <2> QED
    BY <1>1, <1>2, <2>1, <2>2 DEF Balance
<1>3. CASE /\ \E v : Alive' \ Held' \subseteq (Alive \ Held) \cup {v}
           /\ ~Replacing'
           /\ Spent' = Spent + 1 \/ (Replacing /\ Spent' = Spent)
  <2>1. IsFiniteSet(Alive' \ Held') /\ Cardinality(Alive' \ Held') <= Cardinality(Alive \ Held) + 1
    BY <1>1, <1>3, OneMore
  <2>2. Cardinality(Alive' \ Held') \in Nat
    BY <2>1, FS_CardinalityType
  <2> QED
    BY <1>1, <1>3, <2>1, <2>2 DEF Balance
<1> QED
  BY <1>2, <1>3 DEF Settled

\* A VM that stays was made in place of one that is gone.
Replacement == /\ record.status = "recreated" => pc \notin TryBlock \cup {"destroy"}
               /\ pc = "create_again" => vm \notin Alive

LEMMA ReplacementStep ==
  ASSUME TypeOK, Replacement, [Next]_vars
  PROVE  Replacement'
<1>1. record \in Records /\ vms \in Seq(VMStatuses) /\ vm \in Nat
  BY DEF TypeOK
<1>2. record'.status = "recreated" => pc' \notin TryBlock \cup {"destroy"}
  <2>1. CASE BeginExperiment \/ Crash
    <3>1. record'.status # "recreated"
      BY <2>1 DEF BeginExperiment, Crash, FreshRecord
    <3> QED
      BY <3>1
  <2>2. ASSUME pc \in TryBlock \cup {"destroy"} \/ pc' \notin TryBlock \cup {"destroy"}, UNCHANGED record
        PROVE  record'.status = "recreated" => pc' \notin TryBlock \cup {"destroy"}
    BY <2>2 DEF Replacement
  <2>3. ASSUME record'.status # "recreated"
        PROVE  record'.status = "recreated" => pc' \notin TryBlock \cup {"destroy"}
    BY <2>3
  <2>4. ASSUME NEW from, GiveUp(from)
        PROVE  record'.status # "recreated"
    BY <1>1, <2>4 DEF GiveUp, Failed, Records
  <2>5. ASSUME NEW status, status # "recreated", Aftermath(status)
        PROVE  record'.status # "recreated"
    BY <1>1, <2>5 DEF Aftermath, Records
  <2>6. CASE RefuseExperiment \/ StartAgain \/ RecordExperiment \/ RecordOutcome \/ RecordLesson
             \/ ReturnRecord
    <3>1. pc' \notin TryBlock \cup {"destroy"}
      BY <2>6 DEF RefuseExperiment, StartAgain, RecordExperiment, RecordOutcome, RecordLesson,
                  ReturnRecord, GiveUp, Goto, TryBlock
    <3> QED
      BY <3>1
  <2>7. CASE Approve \/ CommandFails \/ CommandRaises \/ FinishCommands
    <3>1. record'.status # "recreated"
      BY <1>1, <2>7 DEF Approve, CommandFails, CommandRaises, FinishCommands, Executed, Records
    <3> QED
      BY <2>3, <3>1
  <2>8. CASE CommandSucceeds \/ CreateVM
    <3>1. record'.status = record.status /\ pc \in TryBlock
      BY <1>1, <2>8 DEF CommandSucceeds, CreateVM, Executed, Records, Goto, TryBlock
    <3> QED
      BY <3>1 DEF Replacement
  <2>9. CASE CreateFails("create") \/ CreateFails("create_again")
    BY <2>3, <2>4, <2>9 DEF CreateFails
  <2>10. CASE AuditCreate \/ StartVM \/ AuditRollback \/ AuditRecreate \/ Discard \/ CreateAgain
              \/ Destroy \/ Interrupt \/ NextCommand
    <3>1. pc \in TryBlock \cup {"destroy"}
      BY <2>10 DEF AuditCreate, StartVM, AuditRollback, AuditRecreate, Discard, CreateAgain, Destroy,
                   Interrupt, NextCommand, GiveUp, Goto, TryBlock
    <3>2. UNCHANGED record \/ record'.status # "recreated"
      BY <2>4, <2>5, <2>10 DEF AuditCreate, StartVM, AuditRollback, AuditRecreate, Discard, CreateAgain,
                               Destroy, Interrupt, NextCommand
    <3> QED
      BY <2>2, <2>3, <3>1, <3>2
  <2>11. CASE ReadyVM \/ Collect \/ Restore
    <3>1. UNCHANGED record \/ record'.status # "recreated"
      BY <1>1, <2>4, <2>5, <2>11 DEF ReadyVM, Collect, Uncollected, Restore, Records
    <3>2. pc \in TryBlock
      BY <2>11 DEF ReadyVM, Collect, Restore, GiveUp, Goto, TryBlock
    <3> QED
      BY <2>2, <2>3, <3>1, <3>2
  <2>12. CASE Cleanup
    <3>1. UNCHANGED record /\ (pc' = "record" \/ (pc' = "destroy" /\ ~KeepsVM))
      BY <2>12 DEF Cleanup, Goto
    <3> QED
      BY <3>1 DEF KeepsVM, TryBlock
  <2>13. CASE Cancel \/ UNCHANGED vars
    BY <2>13 DEF Cancel, vars, Replacement
  <2> QED
    BY <2>1, <2>6, <2>7, <2>8, <2>9, <2>10, <2>11, <2>12, <2>13 DEF Next, Controller
<1>3. pc' = "create_again" => vm' \notin Alive'
  <2>1. ASSUME pc' = "create_again", pc # "create_again"
        PROVE  vm' \notin Alive'
    <3>1. Discard
      BY <2>1 DEF Next, Controller, BeginExperiment, RefuseExperiment, Approve, CreateVM, CreateFails,
                  AuditCreate, StartVM, ReadyVM, NextCommand, CommandSucceeds, CommandFails,
                  CommandRaises, FinishCommands, Collect, Restore, AuditRollback, AuditRecreate,
                  CreateAgain, StartAgain, Cleanup, Destroy, RecordExperiment, RecordOutcome,
                  RecordLesson, ReturnRecord, GiveUp, Goto, Aftermath, Cancel, Interrupt, Crash, vars
    <3>2. vms' = [vms EXCEPT ![vm] = "absent"] /\ vm' = vm
      BY <2>1, <3>1 DEF Discard, GiveUp, Goto
    <3> QED
      BY <1>1, <3>2 DEF Alive
  <2>2. ASSUME pc' = "create_again", pc = "create_again"
        PROVE  vm' \notin Alive'
    <3>1. UNCHANGED <<vm, vms>>
      BY <2>2 DEF Next, Controller, BeginExperiment, RefuseExperiment, Approve, CreateVM, CreateFails,
                  AuditCreate, StartVM, ReadyVM, NextCommand, CommandSucceeds, CommandFails,
                  CommandRaises, FinishCommands, Collect, Restore, AuditRollback, AuditRecreate,
                  Discard, CreateAgain, StartAgain, Cleanup, Destroy, RecordExperiment, RecordOutcome,
                  RecordLesson, ReturnRecord, GiveUp, Goto, Aftermath, Cancel, Interrupt, Crash, vars
    <3> QED
      BY <2>2, <3>1 DEF Replacement, Alive
  <2> QED
    BY <2>1, <2>2
<1> QED
  BY <1>2, <1>3 DEF Replacement

\* What the steps on the machines do to those that are alive.
LEMMA AliveAfter ==
  ASSUME TypeOK
  PROVE  /\ UNCHANGED vms => Alive' = Alive
         /\ \A x : vms' = [vms EXCEPT ![vm] = x] => Alive' \subseteq Alive \cup {vm}
         /\ \A x : vms' = [vms EXCEPT ![vm] = x] => Alive \subseteq Alive' \cup {vm}
         /\ vms' = [vms EXCEPT ![vm] = "absent"] => Alive' = Alive \ {vm}
         /\ vms' = Append(vms, "creating") => Alive' = Alive \cup {Len(vms) + 1}
<1>1. vms \in Seq(VMStatuses) /\ vm \in Nat
  BY DEF TypeOK
<1>2. UNCHANGED vms => Alive' = Alive
  BY DEF Alive
<1>3. \A x : vms' = [vms EXCEPT ![vm] = x] => Alive' \subseteq Alive \cup {vm}
  BY <1>1 DEF Alive
<1>4. \A x : vms' = [vms EXCEPT ![vm] = x] => Alive \subseteq Alive' \cup {vm}
  BY <1>1 DEF Alive
<1>5. vms' = [vms EXCEPT ![vm] = "absent"] => Alive' = Alive \ {vm}
  BY <1>1 DEF Alive
<1>6. vms' = Append(vms, "creating") => Alive' = Alive \cup {Len(vms) + 1}
  BY <1>1 DEF Alive
<1> QED
  BY <1>2, <1>3, <1>4, <1>5, <1>6

\* What the steps cost.
LEMMA Costs ==
  ASSUME TypeOK
  PROVE  /\ Spent \in Int
         /\ Fault => Spent' = Spent + 1
         /\ UNCHANGED budget => Spent' = Spent
         /\ BeginExperiment \/ Cancel => Spent' = Spent
         /\ Interrupt \/ Crash => Spent' = Spent + 1
<1>1. budget \in Budgets
  BY DEF TypeOK
<1>2. Spent \in Int
  BY <1>1, SandboxBounds DEF Spent, Budgets
<1>3. Fault => Spent' = Spent + 1
  BY <1>1, SandboxBounds DEF Spent, Budgets, Fault
<1>4. UNCHANGED budget => Spent' = Spent
  BY DEF Spent
<1>5. BeginExperiment \/ Cancel => Spent' = Spent
  BY <1>1, SandboxBounds DEF Spent, Budgets, BeginExperiment, Cancel
<1>6. Interrupt \/ Crash => Spent' = Spent + 1
  BY <1>1, SandboxBounds DEF Spent, Budgets, Interrupt, Crash
<1> QED
  BY <1>2, <1>3, <1>4, <1>5, <1>6

\* Every step settles its account.
LEMMA SettledStep ==
  ASSUME TypeOK, Replacement, Replacement', [Next]_vars
  PROVE  Settled
<1>1. record \in Records /\ 0 \notin Alive /\ vm \in Nat /\ Len(vms) + 1 \notin Alive
  BY AliveFinite DEF TypeOK
<1>2. /\ pc \in TryBlock \ {"create"} => Held = {vm}
      /\ pc' \in TryBlock \ {"create"} => Held' = {vm'}
      /\ pc \in {"idle", "approve", "create", "record", "record_outcome", "record_lesson", "return"} =>
           Held = {} /\ ~Replacing
      /\ pc' \in {"idle", "approve", "create", "record", "record_outcome", "record_lesson", "return"} =>
           Held' = {} /\ ~Replacing'
      /\ pc \in {"cleanup", "destroy"} => ~Replacing
      /\ pc' \in {"cleanup", "destroy"} => ~Replacing'
  BY DEF Held, Holding, TryBlock, Replacement, Replacing
<1>3. /\ pc \in {"cleanup", "destroy"} => Held = IF record.status = "recreated" THEN {} ELSE {vm}
      /\ pc' \in {"cleanup", "destroy"} => Held' = IF record'.status = "recreated" THEN {} ELSE {vm'}
  BY DEF Held, Holding
\* A step that changes neither the machines nor the budget, nor which one is held.
<1>4. ASSUME UNCHANGED <<vms, budget>>, Held \cap Alive \subseteq Held', Replacing' => Replacing
      PROVE  Settled
  BY <1>4, AliveAfter, Costs DEF Settled
\* The VM in hand changes its status.
<1>5. ASSUME NEW x, vms' = [vms EXCEPT ![vm] = x] \/ UNCHANGED vms, UNCHANGED budget,
             vm \in Held', Replacing' => Replacing, Held \subseteq {vm}
      PROVE  Settled
  BY <1>5, AliveAfter, Costs DEF Settled
\* A call that raises, with the VM still in hand.
<1>6. ASSUME UNCHANGED vms, Fault, Held \subseteq Held'
      PROVE  Settled
  BY <1>6, AliveAfter, Costs DEF Settled
\* A call that raises, after which one VM more is left.
<1>7. ASSUME NEW v, Alive' \ Held' \subseteq (Alive \ Held) \cup {v}, Spent' = Spent + 1, ~Replacing'
      PROVE  Settled
  BY <1>7 DEF Settled
<1>8. ASSUME NEW from \in TryBlock, GiveUp(from), UNCHANGED <<vms, vm>>
      PROVE  Settled
  <2>1. pc = from /\ pc' = "cleanup" /\ record'.status = "failed" /\ Fault
    BY <1>1, <1>8 DEF GiveUp, Goto, Failed, Records
  <2>2. Held' = {vm}
    BY <1>3, <1>8, <2>1
  <2>3. Held \subseteq {vm}
    BY <1>2, <1>8, <2>1
  <2> QED
    BY <1>6, <1>8, <2>1, <2>2, <2>3
<1>9. CASE BeginExperiment \/ RefuseExperiment \/ Approve \/ RecordExperiment \/ RecordOutcome
           \/ RecordLesson \/ ReturnRecord
  <2>1. /\ pc \in {"idle", "approve", "record", "record_outcome", "record_lesson", "return"}
        /\ pc' \in {"idle", "approve", "create", "record_outcome", "record_lesson", "return"}
        /\ UNCHANGED vms
        /\ BeginExperiment \/ UNCHANGED budget
    BY <1>9 DEF BeginExperiment, RefuseExperiment, Approve, RecordExperiment, RecordOutcome,
                RecordLesson, ReturnRecord, Goto
  <2> QED
    BY <1>2, <2>1, AliveAfter, Costs DEF Settled
<1>10. CASE CreateVM \/ CreateAgain
  <2>1. /\ pc \in {"create", "create_again"} /\ pc' \in {"audit_create", "start_again"}
        /\ vms' = Append(vms, "creating") /\ vm' = Len(vms) + 1 /\ UNCHANGED budget
        /\ pc = "create" => pc' = "audit_create"
    BY <1>10 DEF CreateVM, CreateAgain, NewVM, Goto
  <2>2. Alive' \ Held' \subseteq Alive \ Held
    BY <1>2, <2>1, AliveAfter DEF TryBlock, Replacement
  <2>3. Replacing' => Replacing
    BY <2>1 DEF Replacing
  <2> QED
    BY <2>1, <2>2, <2>3, Costs DEF Settled
<1>11. CASE CreateFails("create") \/ CreateFails("create_again")
  <2>1. /\ pc \in {"create", "create_again"} /\ pc' = "cleanup" /\ UNCHANGED vm
        /\ record'.status = "failed" /\ Fault
        /\ UNCHANGED vms \/ vms' = Append(vms, "creating")
    BY <1>1, <1>11 DEF CreateFails, GiveUp, Goto, Failed, Records
  <2>2. Held' = {vm} /\ Held \subseteq {vm}
    BY <1>2, <1>3, <2>1 DEF TryBlock
  <2>3. Alive' \ Held' \subseteq (Alive \ Held) \cup {Len(vms) + 1}
    BY <2>1, <2>2, AliveAfter
  <2> QED
    BY <1>2, <1>7, <2>1, <2>3, Costs
<1>12. CASE AuditCreate \/ StartVM \/ ReadyVM \/ AuditRecreate \/ Discard
  <2>1. CASE \E from \in {"audit_create", "start", "ready", "audit_recreate", "discard"} : GiveUp(from)
    <3>1. UNCHANGED <<vms, vm>>
      BY <1>12, <2>1 DEF AuditCreate, StartVM, ReadyVM, AuditRecreate, Discard, GiveUp, Goto
    <3> QED
      BY <1>8, <2>1, <3>1 DEF TryBlock
  <2>2. CASE ~\E from \in {"audit_create", "start", "ready", "audit_recreate", "discard"} : GiveUp(from)
    <3>1. /\ UNCHANGED <<vm, budget>>
          /\ pc \in {"audit_create", "start", "ready", "audit_recreate", "discard"}
          /\ pc' \in {"start", "ready", "command", "discard", "create_again"}
          /\ pc' \in {"discard", "create_again"} => pc \in {"audit_recreate", "discard"}
          /\ UNCHANGED vms \/ \E x : vms' = [vms EXCEPT ![vm] = x]
      BY <1>12, <2>2 DEF AuditCreate, StartVM, ReadyVM, AuditRecreate, Discard, Goto
    <3>2. Held = {vm} /\ Held' = {vm} /\ (Replacing' => Replacing)
      BY <1>2, <3>1 DEF TryBlock, Replacing
    <3> QED
      BY <1>5, <3>1, <3>2
  <2> QED
    BY <2>1, <2>2
<1>13. CASE NextCommand \/ CommandSucceeds \/ CommandFails \/ FinishCommands
  <2>1. /\ UNCHANGED <<vm, budget>>
        /\ pc \in {"command", "execute"}
        /\ pc' \in {"command", "execute", "collect", "restore", "cleanup"}
        /\ pc' = "cleanup" => record'.status # "recreated"
        /\ UNCHANGED vms \/ \E x : vms' = [vms EXCEPT ![vm] = x]
    BY <1>1, <1>13 DEF NextCommand, CommandSucceeds, CommandFails, FinishCommands, Aftermath, Goto, Records
  <2>2. Held = {vm} /\ Held' = {vm} /\ ~Replacing'
    BY <1>2, <1>3, <2>1 DEF TryBlock, Replacing
  <2> QED
    BY <1>5, <2>1, <2>2
<1>14. CASE CommandRaises
  <2>1. /\ pc = "execute" /\ pc' = "cleanup" /\ UNCHANGED <<vms, vm>> /\ Fault
        /\ record'.status = "failed"
    BY <1>1, <1>14 DEF CommandRaises, Executed, Goto, Records
  <2> QED
    BY <1>2, <1>3, <1>6, <2>1 DEF TryBlock
<1>15. CASE Collect
  <2>1. CASE Fault
    <3>1. pc = "collect" /\ UNCHANGED <<vms, vm>> /\ pc' \in {"cleanup", "restore"}
      BY <1>15 DEF Collect
    <3>2. record'.status # "recreated"
      BY <1>1, <1>15 DEF Collect, Uncollected, Records
    <3>3. Held = {vm} /\ Held' = {vm}
      BY <1>2, <1>3, <3>1, <3>2 DEF TryBlock
    <3> QED
      BY <1>6, <2>1, <3>1, <3>3
  <2>2. CASE ~Fault
    <3>1. /\ UNCHANGED <<vms, vm, budget>> /\ pc = "collect" /\ pc' \in {"cleanup", "restore"}
          /\ record'.status # "recreated"
      BY <1>1, <1>15, <2>2 DEF Collect, Uncollected, Records
    <3>2. Held = {vm} /\ Held' = {vm} /\ ~Replacing'
      BY <1>2, <1>3, <3>1 DEF TryBlock, Replacing
    <3> QED
      BY <1>4, <3>1, <3>2
  <2> QED
    BY <2>1, <2>2
<1>16. CASE Restore \/ AuditRollback
  <2>1. /\ pc \in {"restore", "audit_rollback"} /\ UNCHANGED vm
        /\ \/ /\ pc' = "audit_rollback" /\ vms' = [vms EXCEPT ![vm] = "running"] /\ UNCHANGED budget
           \/ pc' = "cleanup" /\ UNCHANGED <<vms, budget, record>>
           \/ pc' = "audit_recreate" /\ UNCHANGED vms /\ Fault
    BY <1>16 DEF Restore, AuditRollback, Goto
  <2>2. Held = {vm} /\ record.status # "recreated"
    BY <1>2, <2>1 DEF TryBlock, Replacement
  <2>3. Held' = {vm}
    BY <1>2, <1>3, <2>1, <2>2 DEF TryBlock
  <2>4. CASE pc' # "audit_recreate"
    BY <1>5, <2>1, <2>2, <2>3, <2>4 DEF Replacing
  <2>5. CASE pc' = "audit_recreate"
    BY <1>6, <2>1, <2>2, <2>3, <2>5
  <2> QED
    BY <2>4, <2>5
<1>17. CASE StartAgain
  <2>1. CASE GiveUp("start_again") /\ UNCHANGED vms
    BY <1>8, <1>17, <2>1 DEF StartAgain, TryBlock
  <2>2. CASE ~(GiveUp("start_again") /\ UNCHANGED vms)
    <3>1. /\ pc = "start_again" /\ pc' = "cleanup" /\ UNCHANGED <<vm, budget>>
          /\ vms' = [vms EXCEPT ![vm] = "running"] /\ record'.status = "recreated"
      BY <1>1, <1>17, <2>2 DEF StartAgain, Goto, Records
    <3>2. Held = {vm} /\ Replacing /\ ~Replacing'
      BY <1>2, <3>1 DEF TryBlock, Replacing
    <3>3. Alive' \ Held' \subseteq (Alive \ Held) \cup {vm}
      BY <3>1, <3>2, AliveAfter
    <3> QED
      BY <3>1, <3>2, <3>3, Costs DEF Settled
  <2> QED
    BY <2>1, <2>2
<1>18. CASE Cleanup
  <2>1. pc = "cleanup" /\ UNCHANGED <<vms, vm, record>>
    BY <1>18 DEF Cleanup, Goto
  <2>2. CASE KeepsVM
    <3>1. pc' = "record" /\ UNCHANGED budget
      BY <1>18, <2>2 DEF Cleanup, Goto
    <3>2. Held \cap Alive = {}
      BY <1>1, <1>3, <2>1, <2>2 DEF KeepsVM, NoVM
    <3> QED
      BY <1>2, <1>4, <2>1, <3>1, <3>2
  <2>3. CASE ~KeepsVM
    <3>1. Held = {vm} /\ record.status # "recreated"
      BY <1>3, <2>1, <2>3 DEF KeepsVM
    <3>2. CASE pc' = "destroy" /\ UNCHANGED budget
      BY <1>2, <1>3, <1>4, <2>1, <3>1, <3>2
    <3>3. CASE pc' = "record" /\ Fault
      <4>1. Alive' \ Held' \subseteq (Alive \ Held) \cup {vm}
        BY <2>1, <3>1, AliveAfter
      <4> QED
        BY <1>2, <1>7, <3>3, <4>1, Costs
    <3> QED
      BY <1>18, <2>3, <3>2, <3>3 DEF Cleanup, Goto
  <2> QED
    BY <2>2, <2>3
<1>19. CASE Destroy
  <2>1. pc = "destroy" /\ pc' = "record" /\ UNCHANGED <<vm, record>>
    BY <1>19 DEF Destroy, Goto
  <2>2. Held = {vm} /\ Held' = {} /\ ~Replacing'
    BY <1>2, <1>3, <2>1 DEF Replacement
  <2>3. CASE vms' = [vms EXCEPT ![vm] = "absent"] /\ UNCHANGED budget
    BY <2>2, <2>3, AliveAfter, Costs DEF Settled
  <2>4. CASE Fault /\ UNCHANGED vms
    <3>1. Alive' \ Held' \subseteq (Alive \ Held) \cup {vm}
      BY <2>2, <2>4, AliveAfter
    <3> QED
      BY <1>7, <2>2, <2>4, <3>1, Costs
  <2> QED
    BY <1>19, <2>3, <2>4 DEF Destroy
<1>20. CASE Interrupt
  <2>1. pc \in TryBlock /\ pc' = "cleanup" /\ UNCHANGED <<vms, vm, record>>
    BY <1>20 DEF Interrupt
  <2>2. Held \subseteq {vm} /\ Held' = {vm}
    BY <1>2, <1>3, <2>1 DEF Replacement
  <2>3. Alive' \ Held' \subseteq Alive \ Held
    BY <2>1, <2>2, AliveAfter
  <2>4. Spent' = Spent + 1 /\ Spent \in Int
    BY <1>20, Costs
  <2> QED
    BY <2>3, <2>4 DEF Settled
<1>21. CASE Crash
  <2>1. pc' = "idle" /\ Spent' = Spent + 1
    BY <1>21, Costs DEF Crash
  <2>2. Held \subseteq {vm}
    BY DEF Held
  <2>3. Alive' \subseteq Alive
    BY <1>21 DEF Crash, Alive
  <2>4. Alive' \ Held' \subseteq (Alive \ Held) \cup {vm}
    BY <2>2, <2>3
  <2> QED
    BY <1>2, <1>7, <2>1, <2>4
<1>22. CASE Cancel \/ UNCHANGED vars
  <2>1. UNCHANGED <<vms, vm, pc, record>> /\ Spent' = Spent
    BY <1>22, Costs DEF Cancel, vars
  <2>2. Alive' = Alive /\ Held' = Held /\ Replacing' = Replacing
    BY <2>1, AliveAfter DEF Held, Replacing
  <2> QED
    BY <2>1, <2>2, Costs DEF Settled
<1> QED
  BY <1>9, <1>10, <1>11, <1>12, <1>13, <1>14, <1>15, <1>16, <1>17, <1>18, <1>19, <1>20, <1>21, <1>22
     DEF Next, Controller

\* For every bound: between experiments, every machine still alive was left by
\* a call that raised, an interrupt or a death of the process, one for one.
THEOREM OneLeftoverPerFailure == Spec => []LeftoverPerFailure
<1> DEFINE Inv == TypeOK /\ Replacement /\ Balance
<1>1. Init => Inv
  <2> SUFFICES ASSUME Init PROVE Replacement /\ Balance
    BY TypeInit
  <2>1. Replacement
    BY DEF Init, Replacement, FreshRecord, TryBlock
  <2>2. Alive \ Held = {} /\ Spent = 0 /\ ~Replacing
    BY SandboxBounds DEF Init, Alive, Spent, Replacing
  <2> QED
    BY <2>1, <2>2, FS_EmptySet DEF Balance
<1>2. Inv /\ [Next]_vars => Inv'
  BY TypeStep, ReplacementStep, SettledStep, SettledBalances
<1>3. Inv => LeftoverPerFailure
  <2> SUFFICES ASSUME Inv, pc = "idle" PROVE Cardinality(Alive) <= Spent
    BY DEF LeftoverPerFailure, Spent
  <2>1. Alive \ Held = Alive /\ ~Replacing
    BY DEF Held, Holding, Replacing
  <2> QED
    BY <2>1 DEF Balance
<1> QED
  BY <1>1, <1>2, <1>3, PTL DEF Spec

-----------------------------------------------------------------------------
(* Lemmas about sets of numbers. *)

LEMMA LeastOf ==
  ASSUME NEW S \in SUBSET Nat, S # {}
  PROVE  \E m \in S : \A n \in S : m <= n
<1> DEFINE Less == OpToRel(<, Nat)
<1>1. IsWellFoundedOn(Less, Nat)
  BY NatLessThanWellFounded
<1>2. \A x, y \in Nat : x < y => <<x, y>> \in Less
  BY DEF OpToRel
<1> HIDE DEF Less
<1>3. PICK m \in S : \A y \in S : ~(<<y, m>> \in Less)
  BY <1>1, WFMin
<1>4. \A n \in S : m \in Nat /\ n \in Nat /\ ~(n < m)
  BY <1>2, <1>3
<1> QED
  BY <1>4

\* A bounded set of naturals that is not empty has a greatest element.
LEMMA GreatestOf ==
  ASSUME NEW ids \in SUBSET Nat, ids # {}, NEW bound \in Nat, \A i \in ids : i <= bound
  PROVE  \E i \in ids : \A j \in ids : j <= i
<1> DEFINE Above == {n \in Nat : \A j \in ids : j <= n}
<1>1. Above \in SUBSET Nat /\ Above # {}
  OBVIOUS
<1>2. PICK n \in Above : \A y \in Above : n <= y
  BY <1>1, LeastOf
<1>3. CASE n \in ids
  BY <1>3
<1>4. CASE n \notin ids
  <2>1. PICK i \in ids : TRUE
    OBVIOUS
  <2>2. i < n /\ n \in Nat
    BY <1>4, <2>1
  <2>3. n - 1 \in Above
    BY <1>4, <2>2
  <2> QED
    BY <1>2, <2>2, <2>3
<1> QED
  BY <1>3, <1>4

-----------------------------------------------------------------------------
(* The sensor hub. *)

SensorEvent == [kind : {"sensor"}, rule : Rules \cup {NoRule}, at : Nat, hub : Hubs \X Nat, polled : Nat]
WakeEvent   == [kind : {"wake"}, sensor : BOOLEAN, at : Nat, cause : Nat, seen : Nat]
Hub         == [at : {"idle", "poll", "evaluate", "wake"}, polled : Nat, fired : [Keys -> Nat \cup {Never}],
                life : Nat, cause : Nat, seen : Nat]

SensorTypeOK ==
  /\ clock \in Nat
  /\ events \in Seq(SensorEvent \cup WakeEvent)
  /\ hub \in [Hubs -> Hub]

\* What a hub remembers of a key is no older than any event of its own under
\* it, and nothing is on the ledger of a hub that is still to come.
Remembering ==
  \A h \in Hubs : \A i \in SensorEvents :
    events[i].hub[1] = h =>
      /\ events[i].hub[2] <= hub[h].life
      /\ (events[i].hub[2] = hub[h].life /\ events[i].rule \in Rules) =>
           LET last == hub[h].fired[Key[events[i].rule]]
           IN  last # Never /\ events[i].polled <= last

\* Of the sensor's wakes a decision had before it, those the window shows are
\* a cooldown before its cause.
Grounded(log, cause, seen) ==
  /\ cause \in DOMAIN log /\ seen \in 0..Len(log)
  /\ \A i \in IdsOfKind(log, "wake") :
       (log[i].sensor /\ i <= seen /\ Cardinality({k \in IdsOfKind(log, "wake") : i < k /\ k <= seen}) < Limit)
         => log[cause].at - log[i].at >= WakeCooldown /\ cause > i

InOrder ==
  /\ \A i \in DOMAIN events : events[i].at <= clock
  /\ \A i, j \in DOMAIN events : i < j => events[i].at <= events[j].at

WakesGrounded ==
  /\ \A h \in Hubs : hub[h].at = "wake" => Grounded(events, hub[h].cause, hub[h].seen)
  /\ \A j \in Wakes : events[j].sensor => events[j].cause < j /\ Grounded(events, events[j].cause, events[j].seen)

SensorInv == SensorTypeOK /\ Remembering /\ FiredApart /\ InOrder /\ WakesGrounded

\* What the ids of the two kinds are once an event has been recorded.
LEMMA RecordedIds ==
  ASSUME SensorTypeOK, NEW e \in SensorEvent \cup WakeEvent, Record(e)
  PROVE  /\ events' \in Seq(SensorEvent \cup WakeEvent) /\ Len(events') = Len(events) + 1
         /\ DOMAIN events = 1..Len(events) /\ DOMAIN events' = 1..(Len(events) + 1)
         /\ (\A i \in DOMAIN events : events'[i] = events[i]) /\ events'[Len(events) + 1] = e
         /\ SensorEvents' = IF e.kind = "sensor" THEN SensorEvents \cup {Len(events) + 1} ELSE SensorEvents
         /\ Wakes' = IF e.kind = "wake" THEN Wakes \cup {Len(events) + 1} ELSE Wakes
<1>1. events \in Seq(SensorEvent \cup WakeEvent) /\ events' = Append(events, e)
  BY DEF SensorTypeOK, Record
<1>2. /\ events' \in Seq(SensorEvent \cup WakeEvent) /\ Len(events') = Len(events) + 1
      /\ DOMAIN events = 1..Len(events) /\ DOMAIN events' = 1..(Len(events) + 1)
      /\ (\A i \in DOMAIN events : events'[i] = events[i]) /\ events'[Len(events) + 1] = e
  BY <1>1
<1>3. SensorEvents' = IF e.kind = "sensor" THEN SensorEvents \cup {Len(events) + 1} ELSE SensorEvents
  BY <1>2 DEF SensorEvents, IdsOfKind
<1>4. Wakes' = IF e.kind = "wake" THEN Wakes \cup {Len(events) + 1} ELSE Wakes
  BY <1>2 DEF Wakes, IdsOfKind
<1> QED
  BY <1>2, <1>3, <1>4

LEMMA SensorIds ==
  ASSUME SensorTypeOK
  PROVE  /\ DOMAIN events = 1..Len(events) /\ Len(events) \in Nat
         /\ SensorEvents \subseteq DOMAIN events /\ Wakes \subseteq DOMAIN events
         /\ \A i \in SensorEvents : events[i] \in SensorEvent
         /\ \A i \in Wakes : events[i] \in WakeEvent
         /\ \A i \in DOMAIN events : events[i].at \in Nat
<1>1. events \in Seq(SensorEvent \cup WakeEvent)
  BY DEF SensorTypeOK
<1>2. DOMAIN events = 1..Len(events) /\ Len(events) \in Nat /\ \A i \in DOMAIN events : events[i] \in SensorEvent \cup WakeEvent
  BY <1>1
<1> QED
  BY <1>2 DEF SensorEvents, Wakes, IdsOfKind, SensorEvent, WakeEvent

LEMMA StartedFacts ==
  ASSUME NEW life \in Nat
  PROVE  /\ Started(life) \in Hub /\ Started(life).at = "idle" /\ Started(life).life = life
         /\ Started(life).fired = [key \in Keys |-> Never]
BY DEF Started, Hub

\* The decisions there were stand when an event is recorded.
LEMMA StillGrounded ==
  ASSUME SensorTypeOK, NEW e \in SensorEvent \cup WakeEvent, Record(e),
         NEW cause, NEW seen, Grounded(events, cause, seen)
  PROVE  Grounded(events', cause, seen)
<1>1. cause \in DOMAIN events' /\ seen \in 0..Len(events')
  BY RecordedIds DEF Grounded
<1>2. ASSUME NEW i \in Wakes', events'[i].sensor, i <= seen, Cardinality({k \in Wakes' : i < k /\ k <= seen}) < Limit
      PROVE  events'[cause].at - events'[i].at >= WakeCooldown /\ cause > i
  <2>1. i \in Wakes /\ events'[i] = events[i] /\ events'[cause] = events[cause]
    BY <1>2, RecordedIds, SensorIds DEF Grounded
  <2>2. {k \in Wakes' : i < k /\ k <= seen} = {k \in Wakes : i < k /\ k <= seen}
    BY RecordedIds DEF Grounded
  <2> QED
    BY <1>2, <2>1, <2>2 DEF Grounded, Wakes
<1> QED
  BY <1>1, <1>2 DEF Grounded, Wakes

\* A decision to wake is grounded in what it read.
LEMMA DecisionGrounded ==
  ASSUME SensorTypeOK, InOrder, Warranted
  PROVE  Grounded(events, Latest(Candidates), Len(events))
<1> DEFINE cause == Latest(Candidates)
           last  == Latest(SensorWakes)
<1>1. Candidates \subseteq SensorEvents /\ SensorWakes \subseteq Wakes
  BY DEF Candidates, SensorWakes, EventsOfKind, Newest, SensorEvents, Wakes
<1>2. cause \in Candidates
  <2>1. \E i \in Candidates : \A j \in Candidates : j <= i
    <3>1. Candidates \in SUBSET Nat /\ \A i \in Candidates : i <= Len(events)
      BY <1>1, SensorIds
    <3> QED
      BY <3>1, GreatestOf, SensorIds DEF Warranted
  <2> QED
    BY <2>1 DEF Latest
<1>3. cause \in DOMAIN events /\ cause \in Nat /\ events[cause].at \in Nat
  BY <1>1, <1>2, SensorIds DEF SensorEvent
<1>4. ASSUME NEW i \in Wakes, events[i].sensor, Cardinality({k \in Wakes : i < k /\ k <= Len(events)}) < Limit
      PROVE  events[cause].at - events[i].at >= WakeCooldown /\ cause > i
  <2>1. {k \in Wakes : i < k /\ k <= Len(events)} = {k \in Wakes : k > i}
    BY SensorIds
  <2>2. i \in SensorWakes
    BY <1>4, <2>1 DEF SensorWakes, EventsOfKind, Newest, Wakes
  <2>3. last \in SensorWakes /\ i <= last
    <3>1. SensorWakes \in SUBSET Nat /\ \A j \in SensorWakes : j <= Len(events)
      BY <1>1, SensorIds
    <3>2. \E j \in SensorWakes : \A k \in SensorWakes : k <= j
      BY <2>2, <3>1, GreatestOf, SensorIds
    <3> QED
      BY <2>2, <3>2 DEF Latest
  <2>4. events[cause].at - events[last].at >= WakeCooldown
    BY <2>2 DEF Warranted
  <2>5. i \in DOMAIN events /\ last \in DOMAIN events /\ events[i].at \in Nat /\ events[last].at \in Nat /\ i \in Nat /\ last \in Nat
    BY <1>1, <2>3, SensorIds DEF WakeEvent
  <2>6. events[i].at <= events[last].at
    BY <2>3, <2>5 DEF InOrder
  <2>7. WakeCooldown \in Nat \ {0}
    BY SensorAssumption
  <2>8. events[cause].at - events[i].at >= WakeCooldown
    BY <1>3, <2>4, <2>5, <2>6, <2>7
  <2>9. ~(cause <= last)
    BY <1>3, <2>4, <2>5, <2>7 DEF InOrder
  <2> QED
    BY <1>3, <2>3, <2>5, <2>8, <2>9
<1> HIDE DEF cause
<1>5. Len(events) \in 0..Len(events)
  BY SensorIds
<1>6. Grounded(events, cause, Len(events))
  BY <1>3, <1>4, <1>5 DEF Grounded, Wakes
<1> QED
  BY <1>6 DEF cause

LEMMA SensorStart ==
  ASSUME SensorInit
  PROVE  SensorInv
<1>1. Len(events) = 0 /\ DOMAIN events = {} /\ events \in Seq(SensorEvent \cup WakeEvent)
  BY DEF SensorInit
<1>2. SensorTypeOK
  BY <1>1, StartedFacts DEF SensorInit, SensorTypeOK
<1>3. SensorEvents = {} /\ Wakes = {}
  BY <1>1 DEF SensorEvents, Wakes, IdsOfKind
<1>4. \A h \in Hubs : hub[h].at = "idle"
  BY StartedFacts DEF SensorInit
<1> QED
  BY <1>1, <1>2, <1>3, <1>4 DEF SensorInv, Remembering, FiredApart, InOrder, WakesGrounded

\* An event of a poll, by itself or with what the hub remembers of its rule.
LEMMA SensedKept ==
  ASSUME SensorInv, NEW h \in Hubs, hub[h].at = "poll", NEW rule \in Rules \cup {NoRule},
         Record([kind |-> "sensor", rule |-> rule, at |-> clock, hub |-> <<h, hub[h].life>>,
                 polled |-> hub[h].polled]),
         clock' = clock,
         \/ rule = NoRule /\ hub' = hub
         \/ rule \in Rules /\ Cooled(h, rule) /\ hub' = [hub EXCEPT ![h].fired[Key[rule]] = hub[h].polled]
  PROVE  SensorInv'
<1> DEFINE e == [kind |-> "sensor", rule |-> rule, at |-> clock, hub |-> <<h, hub[h].life>>,
                 polled |-> hub[h].polled]
           new == Len(events) + 1
<1>1. SensorTypeOK /\ hub[h] \in Hub /\ clock \in Nat
  BY DEF SensorInv, SensorTypeOK
<1>2. e \in SensorEvent /\ e.kind = "sensor" /\ e.at = clock /\ e.rule = rule /\ e.hub = <<h, hub[h].life>> /\ e.polled = hub[h].polled
  BY <1>1 DEF SensorEvent, Hub
<1> HIDE DEF e
<1>3. Record(e)
  BY DEF e
<1>4. /\ events' \in Seq(SensorEvent \cup WakeEvent) /\ Len(events') = new
      /\ DOMAIN events' = 1..new /\ DOMAIN events = 1..Len(events)
      /\ (\A i \in DOMAIN events : events'[i] = events[i]) /\ events'[new] = e
      /\ SensorEvents' = SensorEvents \cup {new} /\ Wakes' = Wakes
  BY <1>1, <1>2, <1>3, RecordedIds
<1>5. rule \in Rules => Key[rule] \in Keys /\ rule # NoRule
  BY SensorAssumption DEF Keys
<1>6. /\ hub' \in [Hubs -> Hub]
      /\ \A g \in Hubs : hub'[g].at = hub[g].at /\ hub'[g].life = hub[g].life /\ hub'[g].cause = hub[g].cause /\ hub'[g].seen = hub[g].seen
      /\ \A g \in Hubs \ {h} : hub'[g].fired = hub[g].fired
      /\ rule \in Rules => hub'[h].fired = [hub[h].fired EXCEPT ![Key[rule]] = hub[h].polled]
      /\ rule = NoRule => hub'[h].fired = hub[h].fired
  <2>1. CASE rule = NoRule /\ hub' = hub
    BY <1>1, <2>1, SensorAssumption DEF SensorTypeOK
  <2>2. CASE rule \in Rules /\ hub' = [hub EXCEPT ![h].fired[Key[rule]] = hub[h].polled]
    <3>1. hub[h].fired \in [Keys -> Nat \cup {Never}] /\ hub[h].polled \in Nat
      BY <1>1 DEF Hub
    <3>2. [hub[h].fired EXCEPT ![Key[rule]] = hub[h].polled] \in [Keys -> Nat \cup {Never}]
      BY <1>5, <2>2, <3>1
    <3>3. hub' = [hub EXCEPT ![h] = [hub[h] EXCEPT !.fired = [hub[h].fired EXCEPT ![Key[rule]] = hub[h].polled]]]
      BY <1>1, <2>2
    <3> DEFINE f == [hub[h].fired EXCEPT ![Key[rule]] = hub[h].polled]
    <3> HIDE DEF f
    <3>4. [hub[h] EXCEPT !.fired = f] \in Hub
      BY <1>1, <3>2 DEF Hub, f
    <3>5. hub' \in [Hubs -> Hub] /\ hub'[h] = [hub[h] EXCEPT !.fired = f] /\ \A g \in Hubs \ {h} : hub'[g] = hub[g]
      BY <1>1, <3>3, <3>4 DEF SensorTypeOK, f
    <3>6. rule # NoRule
      BY <1>5, <2>2
    <3>7. [hub[h] EXCEPT !.fired = f].fired = f
      BY <1>1 DEF Hub
    <3> QED
      BY <1>1, <3>5, <3>6, <3>7 DEF Hub, f
  <2> QED
    BY <2>1, <2>2
<1>7. SensorTypeOK'
  BY <1>1, <1>4, <1>6 DEF SensorTypeOK
<1>8. rule \in Rules =>
        LET last == hub[h].fired[Key[rule]]
        IN  last # Never => hub[h].polled - last >= Cooldown[rule] /\ last \in Nat /\ last <= hub[h].polled
  <2>1. CASE rule \in Rules
    <3>1. Cooled(h, rule)
      BY <1>5, <2>1
    <3>2. Cooldown[rule] \in Nat /\ hub[h].fired[Key[rule]] \in Nat \cup {Never} /\ hub[h].polled \in Nat
      BY <1>1, <1>5, <2>1, SensorAssumption DEF Hub
    <3> QED
      BY <3>1, <3>2 DEF Cooled
  <2> QED
    BY <2>1
<1>9. Remembering'
  <2> SUFFICES ASSUME NEW g \in Hubs, NEW i \in SensorEvents', events'[i].hub[1] = g
               PROVE  /\ events'[i].hub[2] <= hub'[g].life
                      /\ (events'[i].hub[2] = hub'[g].life /\ events'[i].rule \in Rules) =>
                           /\ hub'[g].fired[Key[events'[i].rule]] # Never
                           /\ events'[i].polled <= hub'[g].fired[Key[events'[i].rule]]
    BY DEF Remembering
  <2>1. CASE i = new
    <3>1. g = h /\ events'[i].hub[2] = hub[h].life /\ events'[i].rule = rule /\ events'[i].polled = hub[h].polled
      BY <1>2, <1>4, <2>1
    <3>2. rule \in Rules => hub'[h].fired[Key[rule]] = hub[h].polled
      BY <1>1, <1>5, <1>6 DEF Hub
    <3>3. hub[h].polled \in Nat /\ hub[h].life \in Nat
      BY <1>1 DEF Hub
    <3> QED
      BY <1>6, <3>1, <3>2, <3>3 DEF Never
  <2>2. CASE i # new
    <3>1. i \in SensorEvents /\ events'[i] = events[i] /\ events[i] \in SensorEvent
      BY <1>1, <1>4, <2>2, SensorIds
    <3>2. events[i].hub[2] <= hub[g].life
      BY <3>1 DEF SensorInv, Remembering
    <3>3. ASSUME events[i].hub[2] = hub[g].life, events[i].rule \in Rules
          PROVE  /\ hub'[g].fired[Key[events[i].rule]] # Never
                 /\ events[i].polled <= hub'[g].fired[Key[events[i].rule]]
      <4> DEFINE key == Key[events[i].rule]
      <4>1. hub[g].fired[key] # Never /\ events[i].polled <= hub[g].fired[key] /\ key \in Keys
        BY <3>1, <3>3 DEF SensorInv, Remembering, Keys
      <4> HIDE DEF key
      <4>2. hub[g].fired \in [Keys -> Nat \cup {Never}] /\ events[i].polled \in Nat /\ hub[h].polled \in Nat
        BY <1>1, <3>1 DEF SensorTypeOK, Hub, SensorEvent
      <4>3. CASE g = h /\ rule \in Rules /\ key = Key[rule]
        <5>1. hub'[g].fired[key] = hub[h].polled
          BY <1>6, <4>1, <4>2, <4>3
        <5>2. hub[h].fired[key] <= hub[h].polled /\ hub[h].fired[key] \in Nat
          BY <1>8, <4>1, <4>3
        <5> QED
          BY <4>1, <4>2, <4>3, <5>1, <5>2 DEF Never, key
      <4>4. CASE ~(g = h /\ rule \in Rules /\ key = Key[rule])
        <5>1. hub'[g].fired[key] = hub[g].fired[key]
          BY <1>6, <4>1, <4>2, <4>4
        <5> QED
          BY <4>1, <5>1 DEF key
      <4> QED
        BY <4>3, <4>4
    <3> QED
      BY <1>6, <3>1, <3>2, <3>3
  <2> QED
    BY <2>1, <2>2
<1>10. FiredApart'
  <2> SUFFICES ASSUME NEW i \in SensorEvents', NEW j \in SensorEvents', i < j, events'[i].hub = events'[j].hub,
                      events'[i].rule \in Rules, events'[j].rule \in Rules,
                      Key[events'[i].rule] = Key[events'[j].rule]
               PROVE  events'[j].polled - events'[i].polled >= Cooldown[events'[j].rule]
    BY DEF FiredApart
  <2>1. i # new /\ i \in SensorEvents /\ events'[i] = events[i]
    BY <1>1, <1>4, SensorIds
  <2>2. CASE j = new
    <3>1. /\ events'[j].rule = rule /\ events[i].hub[1] = h /\ events[i].hub[2] = hub[h].life
          /\ events'[j].polled = hub[h].polled
      BY <1>2, <1>4, <2>1, <2>2
    <3>2. hub[h].fired[Key[rule]] # Never /\ events[i].polled <= hub[h].fired[Key[rule]]
      BY <2>1, <3>1 DEF SensorInv, Remembering
    <3>3. events[i].polled \in Nat /\ hub[h].polled \in Nat /\ Cooldown[rule] \in Nat
      BY <1>1, <2>1, <3>1, SensorIds, SensorAssumption DEF SensorEvent, Hub
    <3> QED
      BY <1>8, <2>1, <3>1, <3>2, <3>3
  <2>3. CASE j # new
    <3>1. j \in SensorEvents /\ events'[j] = events[j]
      BY <1>1, <1>4, <2>3, SensorIds
    <3> QED
      BY <2>1, <3>1 DEF SensorInv, FiredApart
  <2> QED
    BY <2>2, <2>3
<1>11. InOrder'
  BY <1>1, <1>2, <1>4 DEF SensorInv, InOrder
<1>12. WakesGrounded'
  <2>1. ASSUME NEW g \in Hubs, hub'[g].at = "wake"
        PROVE  Grounded(events', hub'[g].cause, hub'[g].seen)
    <3>1. Grounded(events, hub[g].cause, hub[g].seen)
      BY <1>6, <2>1 DEF SensorInv, WakesGrounded
    <3> QED
      BY <1>1, <1>2, <1>3, <1>6, <3>1, StillGrounded
  <2>2. ASSUME NEW j \in Wakes, events[j].sensor
        PROVE  events[j].cause < j /\ Grounded(events', events[j].cause, events[j].seen) /\ events'[j] = events[j]
    <3>1. events[j].cause < j /\ Grounded(events, events[j].cause, events[j].seen)
      BY <2>2 DEF SensorInv, WakesGrounded
    <3>2. events'[j] = events[j]
      BY <1>1, <1>4, SensorIds
    <3> QED
      BY <1>1, <1>2, <1>3, <3>1, <3>2, StillGrounded
  <2>3. \A j \in Wakes : events'[j] = events[j]
    BY <1>1, <1>4, SensorIds
  <2> QED
    BY <1>4, <2>1, <2>2, <2>3 DEF WakesGrounded
<1> QED
  BY <1>7, <1>9, <1>10, <1>11, <1>12 DEF SensorInv

\* A wake, of the sensor or another.
LEMMA WakeKept ==
  ASSUME SensorInv, NEW w \in WakeEvent, w.at = clock, Record(w), clock' = clock,
         w.sensor => w.cause <= Len(events) /\ Grounded(events, w.cause, w.seen),
         hub' \in [Hubs -> Hub],
         \A g \in Hubs : /\ hub'[g].life = hub[g].life /\ hub'[g].fired = hub[g].fired
                         /\ hub'[g].at = "wake" => hub'[g] = hub[g]
  PROVE  SensorInv'
<1> DEFINE new == Len(events) + 1
<1>1. SensorTypeOK /\ w \in SensorEvent \cup WakeEvent /\ w.kind = "wake"
  BY DEF SensorInv, WakeEvent
<1>2. /\ events' \in Seq(SensorEvent \cup WakeEvent) /\ Len(events') = new
      /\ DOMAIN events' = 1..new /\ DOMAIN events = 1..Len(events)
      /\ (\A i \in DOMAIN events : events'[i] = events[i]) /\ events'[new] = w
      /\ SensorEvents' = SensorEvents /\ Wakes' = Wakes \cup {new}
  BY <1>1, RecordedIds
<1>4. SensorTypeOK'
  BY <1>1, <1>2 DEF SensorTypeOK
<1>5. \A i \in SensorEvents : events'[i] = events[i]
  BY <1>1, <1>2, SensorIds
<1>6. Remembering'
  <2>1. Remembering
    BY DEF SensorInv
  <2> QED
    BY <1>2, <1>5, <2>1 DEF Remembering
<1>7. FiredApart'
  <2>1. FiredApart
    BY DEF SensorInv
  <2> QED
    BY <1>2, <1>5, <2>1 DEF FiredApart
<1>8. InOrder'
  <2>1. InOrder /\ clock \in Nat
    BY DEF SensorInv, SensorTypeOK
  <2>2. Len(events) \in Nat
    BY <1>1, SensorIds
  <2> QED
    BY <1>2, <2>1, <2>2 DEF InOrder
<1>9. WakesGrounded'
  <2>1. ASSUME NEW g \in Hubs, hub'[g].at = "wake"
        PROVE  Grounded(events', hub'[g].cause, hub'[g].seen)
    <3>1. Grounded(events, hub[g].cause, hub[g].seen) /\ hub'[g] = hub[g]
      BY <2>1 DEF SensorInv, WakesGrounded
    <3> QED
      BY <1>1, <3>1, StillGrounded
  <2>2. ASSUME NEW j \in Wakes, events[j].sensor
        PROVE  events[j].cause < j /\ Grounded(events', events[j].cause, events[j].seen)
    <3>1. events[j].cause < j /\ Grounded(events, events[j].cause, events[j].seen)
      BY <2>2 DEF SensorInv, WakesGrounded
    <3> QED
      BY <1>1, <3>1, StillGrounded
  <2>3. \A j \in Wakes : events'[j] = events[j]
    BY <1>1, <1>2, SensorIds
  <2>4. w.sensor => w.cause < new /\ Grounded(events', w.cause, w.seen)
    <3>1. w.cause \in Nat /\ Len(events) \in Nat
      BY <1>1, SensorIds DEF WakeEvent
    <3>2. CASE w.sensor
      <4>1. Grounded(events, w.cause, w.seen)
        BY <3>2
      <4>2. Grounded(events', w.cause, w.seen)
        BY <1>1, <4>1, StillGrounded
      <4> QED
        BY <3>1, <3>2, <4>2
    <3> QED
      BY <3>2
  <2> QED
    BY <1>2, <2>1, <2>2, <2>3, <2>4 DEF WakesGrounded
<1> QED
  BY <1>4, <1>6, <1>7, <1>8, <1>9 DEF SensorInv

\* A step of a hub that records nothing.
LEMMA HubKept ==
  ASSUME SensorInv, NEW h \in Hubs, NEW s \in Hub, hub' = [hub EXCEPT ![h] = s],
         UNCHANGED <<clock, events>>,
         s.life >= hub[h].life, s.life = hub[h].life => s.fired = hub[h].fired,
         s.at = "wake" => Grounded(events, s.cause, s.seen)
  PROVE  SensorInv'
<1>1. /\ hub \in [Hubs -> Hub] /\ hub' \in [Hubs -> Hub] /\ hub'[h] = s /\ \A g \in Hubs \ {h} : hub'[g] = hub[g]
      /\ hub[h].life \in Nat /\ s.life \in Nat
  BY DEF SensorInv, SensorTypeOK, Hub
<1>2. SensorTypeOK'
  BY <1>1 DEF SensorInv, SensorTypeOK
<1>3. SensorEvents' = SensorEvents /\ Wakes' = Wakes
  BY DEF SensorEvents, Wakes
<1>4. Remembering'
  <2>1. \A i \in SensorEvents : events[i].hub[2] \in Nat
    BY SensorIds DEF SensorInv, SensorEvent
  <2> QED
    BY <1>1, <1>3, <2>1 DEF SensorInv, Remembering
<1>5. FiredApart' /\ InOrder'
  BY <1>3 DEF SensorInv, FiredApart, InOrder
<1>6. WakesGrounded'
  BY <1>1, <1>3 DEF SensorInv, WakesGrounded
<1> QED
  BY <1>2, <1>4, <1>5, <1>6 DEF SensorInv

LEMMA SensorInvKept ==
  ASSUME SensorInv, [SensorNext]_sensorVars
  PROVE  SensorInv'
<1>10. clock \in Nat /\ hub \in [Hubs -> Hub] /\ Len(events) \in Nat
  BY SensorIds DEF SensorInv, SensorTypeOK
<1>1. CASE Tick
  <2>1. clock' \in Nat /\ clock <= clock' /\ events' = events /\ hub' = hub
    BY <1>10, <1>1 DEF Tick
  <2>2. SensorEvents' = SensorEvents /\ Wakes' = Wakes
    BY <2>1 DEF SensorEvents, Wakes
  <2>3. InOrder'
    <3>1. \A i \in DOMAIN events : events[i].at \in Nat
      BY SensorIds DEF SensorInv
    <3> QED
      BY <1>10, <2>1, <3>1 DEF SensorInv, InOrder
  <2> QED
    BY <2>1, <2>2, <2>3 DEF SensorInv, SensorTypeOK, Remembering, FiredApart, WakesGrounded
<1>2. CASE OtherWake
  <2> DEFINE w == [kind |-> "wake", sensor |-> FALSE, at |-> clock, cause |-> 0, seen |-> 0]
  <2>1. w \in WakeEvent /\ w.at = clock /\ ~w.sensor /\ Record(w) /\ hub' = hub /\ clock' = clock
    BY <1>10, <1>2 DEF OtherWake, WakeEvent
  <2> HIDE DEF w
  <2>2. w.sensor => w.cause <= Len(events) /\ Grounded(events, w.cause, w.seen)
    BY <2>1
  <2> QED
    BY <1>10, <2>1, <2>2, WakeKept
<1>3. ASSUME NEW h \in Hubs, StartPoll(h) \/ EndPoll(h) \/ Restart(h)
      PROVE  SensorInv'
  <2>1. UNCHANGED <<clock, events>>
    BY <1>3 DEF StartPoll, EndPoll, Restart
  <2>2. CASE StartPoll(h)
    <3> DEFINE s == [hub[h] EXCEPT !.at = "poll", !.polled = clock]
    <3>1. hub' = [hub EXCEPT ![h] = s]
      BY <2>2 DEF StartPoll
    <3>2. s \in Hub /\ s.at # "wake" /\ s.life = hub[h].life /\ s.fired = hub[h].fired /\ s.life \in Nat
      BY <1>10 DEF Hub
    <3> HIDE DEF s
    <3>3. s.life >= hub[h].life
      BY <3>2
    <3> QED
      BY <2>1, <3>1, <3>2, <3>3, HubKept
  <2>3. CASE EndPoll(h)
    <3> DEFINE s == [hub[h] EXCEPT !.at = "evaluate", !.polled = 0]
    <3>1. hub' = [hub EXCEPT ![h] = s]
      BY <2>3 DEF EndPoll
    <3>2. s \in Hub /\ s.at # "wake" /\ s.life = hub[h].life /\ s.fired = hub[h].fired /\ s.life \in Nat
      BY <1>10 DEF Hub
    <3> HIDE DEF s
    <3>3. s.life >= hub[h].life
      BY <3>2
    <3> QED
      BY <2>1, <3>1, <3>2, <3>3, HubKept
  <2>4. CASE Restart(h)
    <3> DEFINE s == Started(hub[h].life + 1)
    <3>1. hub[h].life + 1 \in Nat /\ hub[h].life \in Nat
      BY <1>10 DEF Hub
    <3>2. s \in Hub /\ s.at # "wake" /\ s.life = hub[h].life + 1
      BY <3>1, StartedFacts
    <3>3. hub' = [hub EXCEPT ![h] = s]
      BY <1>10, <2>4 DEF Restart
    <3> HIDE DEF s
    <3>4. s.life >= hub[h].life /\ s.life # hub[h].life
      BY <3>1, <3>2
    <3> QED
      BY <2>1, <3>2, <3>3, <3>4, HubKept
  <2> QED
    BY <1>3, <2>2, <2>3, <2>4
<1>4. ASSUME NEW h \in Hubs, ReadFails(h) PROVE SensorInv'
  BY <1>4, SensedKept DEF ReadFails
<1>5. ASSUME NEW h \in Hubs, Crosses(h) PROVE SensorInv'
  <2>1. PICK rule \in Rules :
          /\ Cooled(h, rule)
          /\ Record([kind |-> "sensor", rule |-> rule, at |-> clock, hub |-> <<h, hub[h].life>>, polled |-> hub[h].polled])
          /\ hub' = [hub EXCEPT ![h].fired[Key[rule]] = hub[h].polled]
    BY <1>5 DEF Crosses
  <2>2. hub[h].at = "poll" /\ clock' = clock
    BY <1>5 DEF Crosses
  <2> QED
    BY <2>1, <2>2, SensedKept
<1>6. ASSUME NEW h \in Hubs, Evaluate(h) PROVE SensorInv'
  <2> DEFINE s == [hub[h] EXCEPT !.at = IF Warranted THEN "wake" ELSE "idle",
                                 !.cause = IF Warranted THEN Latest(Candidates) ELSE 0,
                                 !.seen = IF Warranted THEN Len(events) ELSE 0]
  <2>1. hub' = [hub EXCEPT ![h] = s] /\ UNCHANGED <<clock, events>>
    BY <1>6 DEF Evaluate
  <2>2. Warranted => Grounded(events, Latest(Candidates), Len(events)) /\ Latest(Candidates) \in Nat
    <3>1. Warranted => Grounded(events, Latest(Candidates), Len(events))
      BY DecisionGrounded DEF SensorInv
    <3> QED
      BY <3>1, SensorIds DEF Grounded, SensorInv
  <2>3. s \in Hub
    BY <1>10, <2>2 DEF Hub
  <2>4. s.life = hub[h].life /\ s.fired = hub[h].fired /\ s.life \in Nat
    BY <1>10 DEF Hub
  <2>5. s.at = "wake" => Grounded(events, s.cause, s.seen)
    BY <1>10, <2>2 DEF Hub
  <2> HIDE DEF s
  <2>6. s.life >= hub[h].life
    BY <2>4
  <2> QED
    BY <2>1, <2>3, <2>4, <2>5, <2>6, HubKept
<1>7. ASSUME NEW h \in Hubs, RecordWake(h) PROVE SensorInv'
  <2> DEFINE w == [kind |-> "wake", sensor |-> TRUE, at |-> clock, cause |-> hub[h].cause, seen |-> hub[h].seen]
  <2>1. w \in WakeEvent /\ w.at = clock /\ w.sensor /\ w.cause = hub[h].cause /\ w.seen = hub[h].seen
    BY <1>10 DEF WakeEvent, Hub
  <2>2. Record(w) /\ clock' = clock /\ hub' = [hub EXCEPT ![h].at = "idle", ![h].cause = 0, ![h].seen = 0]
    BY <1>7 DEF RecordWake
  <2>3. Grounded(events, hub[h].cause, hub[h].seen)
    BY <1>7 DEF RecordWake, SensorInv, WakesGrounded
  <2>4. hub[h].cause <= Len(events)
    BY <2>3, SensorIds DEF Grounded, SensorInv
  <2> DEFINE s == [hub[h] EXCEPT !.at = "idle", !.cause = 0, !.seen = 0]
  <2>5. s \in Hub /\ s.life = hub[h].life /\ s.fired = hub[h].fired /\ s.at = "idle"
    BY <1>10 DEF Hub
  <2>6. hub' = [hub EXCEPT ![h] = s]
    BY <1>10, <2>2
  <2> HIDE DEF s, w
  <2>7. hub'[h] = s /\ (\A g \in Hubs \ {h} : hub'[g] = hub[g]) /\ hub' \in [Hubs -> Hub]
    BY <1>10, <2>5, <2>6
  <2>8. \A g \in Hubs : /\ hub'[g].life = hub[g].life /\ hub'[g].fired = hub[g].fired
                        /\ hub'[g].at = "wake" => hub'[g] = hub[g]
    BY <2>5, <2>7
  <2>9. w.sensor => w.cause <= Len(events) /\ Grounded(events, w.cause, w.seen)
    BY <2>1, <2>3, <2>4
  <2>10. Record(w) /\ clock' = clock
    BY <2>2 DEF w
  <2> QED
    BY <2>1, <2>7, <2>8, <2>9, <2>10, WakeKept
<1>8. CASE UNCHANGED sensorVars
  BY <1>8 DEF sensorVars, SensorInv, SensorTypeOK, Remembering, FiredApart, InOrder, WakesGrounded, Grounded, SensorEvents, Wakes
<1>9. CASE SensorNext
  BY <1>1, <1>2, <1>3, <1>4, <1>5, <1>6, <1>7, <1>9 DEF SensorNext
<1> QED
  BY <1>8, <1>9

\* The wakes that are on the ledger are apart.
LEMMA WakesAreApart ==
  ASSUME SensorInv
  PROVE  WakesApart
<1> SUFFICES ASSUME NEW i \in Wakes, NEW j \in Wakes, i < j, events[i].sensor, events[j].sensor, i <= events[j].seen,
                    Cardinality({k \in Wakes : i < k /\ k <= events[j].seen}) < Limit
             PROVE  events[j].at - events[i].at >= WakeCooldown /\ events[j].cause > i
  BY DEF WakesApart
<1> DEFINE cause == events[j].cause
<1>1. cause < j /\ Grounded(events, cause, events[j].seen)
  BY DEF SensorInv, WakesGrounded
<1>2. events[cause].at - events[i].at >= WakeCooldown /\ cause > i /\ cause \in DOMAIN events
  BY <1>1 DEF Grounded, Wakes
<1>3. i \in DOMAIN events /\ j \in DOMAIN events
  BY SensorIds DEF SensorInv
<1>4. events[cause].at <= events[j].at
  BY <1>1, <1>2, <1>3 DEF SensorInv, InOrder
<1>5. events[cause].at \in Nat /\ events[i].at \in Nat /\ events[j].at \in Nat /\ WakeCooldown \in Nat
  BY <1>2, <1>3, SensorIds, SensorAssumption DEF SensorInv
<1> QED
  BY <1>2, <1>4, <1>5

-----------------------------------------------------------------------------
(* What a fold over a finite set computes.  MapThenFoldSet takes the elements *)
(* one by one and is defined by recursion over the subsets. *)

Picks(pick, S) == \A s \in SUBSET S : s # {} => pick[s] \in s
Closed(step, S, V) == \A s \in SUBSET S : \A v \in V : step[s][v] \in V
Folds(g, S, base, pick, step) ==
  \A s \in SUBSET S : g[s] = IF s = {} THEN base ELSE step[s][g[s \ {pick[s]}]]
Alike(g, h, S, pick) ==
  \A s \in SUBSET S : (s = {} \/ g[s \ {pick[s]}] = h[s \ {pick[s]}]) => g[s] = h[s]

\* There is a function that satisfies the equation of a fold, whose values are
\* where each step leaves them.
LEMMA FoldExists ==
  ASSUME NEW S, IsFiniteSet(S), NEW V, NEW base, base \in V,
         NEW pick, Picks(pick, S), NEW step, Closed(step, S, V)
  PROVE  \E g \in [SUBSET S -> V] : Folds(g, S, base, pick, step)
<1> USE DEF Picks, Closed, Folds
<1> DEFINE Small(n) == {s \in SUBSET S : Cardinality(s) <= n}
           Meets(g, s) == g[s] = IF s = {} THEN base ELSE step[s][g[s \ {pick[s]}]]
           Fine(n) == \E g \in [Small(n) -> V] : \A s \in Small(n) : Meets(g, s)
<1>1. \A s \in SUBSET S : IsFiniteSet(s) /\ Cardinality(s) \in Nat /\ Cardinality(s) <= Cardinality(S)
  BY FS_Subset, FS_CardinalityType
<1>2. \A s \in SUBSET S : s # {} => /\ pick[s] \in S /\ s \ {pick[s]} \in SUBSET S
                                    /\ Cardinality(s \ {pick[s]}) = Cardinality(s) - 1
  <2> TAKE s \in SUBSET S
  <2> HAVE s # {}
  <2>1. pick[s] \in s
    OBVIOUS
  <2>2. Cardinality(s \ {pick[s]}) = Cardinality(s) - 1
    BY <1>1, <2>1, FS_RemoveElement
  <2> QED
    BY <2>1, <2>2
<1>3. \A s \in SUBSET S : Cardinality(s) = 0 <=> s = {}
  BY <1>1, FS_EmptySet
<1>4. Fine(0)
  <2>1. Small(0) = {{}}
    BY <1>1, <1>3
  <2> DEFINE g == [s \in Small(0) |-> base]
  <2> HIDE DEF Small
  <2>2. g \in [Small(0) -> V] /\ g[{}] = base
    BY <2>1
  <2> HIDE DEF g
  <2>3. \A s \in Small(0) : Meets(g, s)
    BY <2>1, <2>2
  <2> QED
    BY <2>2, <2>3
<1>5. ASSUME NEW n \in Nat, Fine(n)
      PROVE  Fine(n + 1)
  <2>1. PICK g \in [Small(n) -> V] : \A s \in Small(n) : Meets(g, s)
    BY <1>5
  <2> DEFINE value(s) == IF s \in Small(n) THEN g[s] ELSE step[s][g[s \ {pick[s]}]]
             h == [s \in Small(n + 1) |-> value(s)]
  <2>2. \A s \in SUBSET S : s \in Small(n + 1) /\ s # {} => s \ {pick[s]} \in Small(n) /\ pick[s] \in S
    BY <1>1, <1>2
  <2>3. \A s \in SUBSET S : s \in Small(n + 1) /\ s \notin Small(n) => s # {}
    BY <1>1, <1>3
  <2>4. Small(n) \subseteq Small(n + 1) /\ Small(n + 1) \subseteq SUBSET S
    BY <1>1
  <2> HIDE DEF Small
  <2>5. h \in [Small(n + 1) -> V] /\ \A s \in Small(n + 1) : h[s] = value(s)
    <3>1. ASSUME NEW s \in Small(n + 1) PROVE value(s) \in V
      <4>1. CASE s \in Small(n)
        BY <2>1, <4>1
      <4>2. CASE s \notin Small(n)
        <5>1. s \in SUBSET S /\ s \ {pick[s]} \in Small(n)
          BY <2>2, <2>3, <2>4, <4>2
        <5>2. g[s \ {pick[s]}] \in V
          BY <2>1, <5>1
        <5> QED
          BY <4>2, <5>1, <5>2
      <4> QED
        BY <4>1, <4>2
    <3> HIDE DEF value
    <3> QED
      BY <3>1
  <2>6. ASSUME NEW s \in Small(n + 1) PROVE Meets(h, s)
    <3>0. s \in SUBSET S
      BY <2>4
    <3>1. CASE s = {}
      <4>1. s \in Small(n)
        BY <2>3, <3>0, <3>1
      <4> QED
        BY <2>1, <2>5, <3>1, <4>1
    <3>2. CASE s # {}
      <4>1. s \ {pick[s]} \in Small(n) /\ s \ {pick[s]} \in Small(n + 1)
        BY <2>2, <2>4, <3>0, <3>2
      <4>2. h[s \ {pick[s]}] = g[s \ {pick[s]}]
        BY <2>5, <4>1
      <4>3. value(s) = step[s][g[s \ {pick[s]}]]
        BY <2>1, <3>2
      <4>4. h[s] = value(s)
        BY <2>5
      <4> HIDE DEF h, value
      <4> QED
        BY <3>2, <4>2, <4>3, <4>4
    <3> QED
      BY <3>1, <3>2
  <2> HIDE DEF Meets, h
  <2> QED
    BY <2>5, <2>6
<1> HIDE DEF Fine
<1>6. \A n \in Nat : Fine(n)
  <2> DEFINE Bad == {n \in Nat : ~Fine(n)}
  <2> SUFFICES ASSUME Bad # {} PROVE FALSE
    OBVIOUS
  <2>1. Bad \in SUBSET Nat
    OBVIOUS
  <2>2. PICK m \in Bad : \A n \in Bad : m <= n
    BY <2>1, LeastOf
  <2>3. m # 0 /\ m \in Nat /\ ~Fine(m)
    BY <1>4
  <2>4. m - 1 \in Nat /\ m - 1 \notin Bad
    BY <2>2, <2>3
  <2>5. Fine((m - 1) + 1)
    BY <1>5, <2>4
  <2>6. (m - 1) + 1 = m
    BY <2>3
  <2> QED
    BY <2>3, <2>5, <2>6
<1>7. Fine(Cardinality(S)) /\ Small(Cardinality(S)) = SUBSET S
  BY <1>1, <1>6
<1> HIDE DEF Small
<1> QED
  BY <1>7 DEF Fine

\* Two functions that take a set the same way whenever they agree on what is
\* left of it agree: there is only one fold.
LEMMA FoldUnique ==
  ASSUME NEW S, IsFiniteSet(S),
         NEW pick, Picks(pick, S), NEW g, NEW h, Alike(g, h, S, pick)
  PROVE  g[S] = h[S]
<1> USE DEF Picks, Alike
<1> DEFINE Differ == {n \in Nat : \E s \in SUBSET S : Cardinality(s) = n /\ g[s] # h[s]}
<1>1. \A s \in SUBSET S : IsFiniteSet(s) /\ Cardinality(s) \in Nat
  BY FS_Subset, FS_CardinalityType
<1>2. ASSUME Differ # {} PROVE FALSE
  <2>0. Differ \in SUBSET Nat
    OBVIOUS
  <2>1. PICK n \in Differ : \A m \in Differ : n <= m
    BY <1>2, <2>0, LeastOf
  <2>2. PICK s \in SUBSET S : Cardinality(s) = n /\ g[s] # h[s]
    BY <2>1
  <2>3. s # {}
    BY <2>2
  <2>4. pick[s] \in s /\ s \ {pick[s]} \in SUBSET S /\ Cardinality(s \ {pick[s]}) = n - 1 /\ n - 1 \in Nat
    <3>1. pick[s] \in s
      BY <2>3
    <3>2. Cardinality(s \ {pick[s]}) = Cardinality(s) - 1
      BY <1>1, <3>1, FS_RemoveElement
    <3>3. Cardinality(s \ {pick[s]}) \in Nat
      BY <1>1
    <3> QED
      BY <2>2, <3>1, <3>2, <3>3
  <2>5. g[s \ {pick[s]}] = h[s \ {pick[s]}]
    <3>1. n - 1 \notin Differ
      BY <2>1, <2>4
    <3> QED
      BY <2>4, <3>1
  <2> QED
    BY <2>2, <2>5
<1>3. S \in SUBSET S /\ Cardinality(S) \in Nat
  BY <1>1
<1> QED
  BY <1>2, <1>3

-----------------------------------------------------------------------------
(* Sums over a finite set. *)

SumOf(f, S) == MapThenSumSet(LAMBDA x : f[x], S)
Counts(f, S) == \A x \in S : f[x] \in Nat
Sums(g, f, S) ==
  /\ \A T \in SUBSET S : g[T] = SumOf(f, T)
  /\ \A T \in SUBSET S : g[T] = IF T = {} THEN 0
                                ELSE f[CHOOSE x \in T : TRUE] + g[T \ {CHOOSE x \in T : TRUE}]

\* A sum takes its terms one by one.
LEMMA SumIsFold ==
  ASSUME NEW S, IsFiniteSet(S), NEW f, Counts(f, S)
  PROVE  \E g \in [SUBSET S -> Nat] : Sums(g, f, S)
<1> USE DEF Counts
<1> DEFINE pick == [s \in SUBSET S |-> CHOOSE x \in s : TRUE]
           step == [s \in SUBSET S |-> [v \in Nat |-> IF s = {} THEN 0 ELSE f[pick[s]] + v]]
<1>1. \A s \in SUBSET S : pick[s] = CHOOSE x \in s : TRUE
  OBVIOUS
<1>2. \A s \in SUBSET S : s # {} => pick[s] \in s
  OBVIOUS
<1>3. /\ \A s \in SUBSET S : \A v \in Nat : step[s][v] \in Nat
      /\ \A s \in SUBSET S : \A v \in Nat : s # {} => step[s][v] = f[pick[s]] + v
  BY <1>2
<1> HIDE DEF pick, step
<1>4. \E g \in [SUBSET S -> Nat] :
        \A s \in SUBSET S : g[s] = IF s = {} THEN 0 ELSE step[s][g[s \ {pick[s]}]]
  <2>1. Picks(pick, S) /\ Closed(step, S, Nat)
    BY <1>2, <1>3 DEF Picks, Closed
  <2>2. PICK g \in [SUBSET S -> Nat] : Folds(g, S, 0, pick, step)
    BY <2>1, FoldExists
  <2> QED
    BY <2>2 DEF Folds
<1>5. PICK g \in [SUBSET S -> Nat] :
        \A s \in SUBSET S : g[s] = IF s = {} THEN 0 ELSE step[s][g[s \ {pick[s]}]]
  BY <1>4
<1>6. \A s \in SUBSET S : g[s] = IF s = {} THEN 0 ELSE f[pick[s]] + g[s \ {pick[s]}]
  <2> TAKE s \in SUBSET S
  <2>1. CASE s = {}
    BY <1>5, <2>1
  <2>2. CASE s # {}
    <3>1. g[s \ {pick[s]}] \in Nat
      BY <1>5
    <3> QED
      BY <1>3, <1>5, <2>2, <3>1
  <2> QED
    BY <2>1, <2>2
<1>7. ASSUME NEW T \in SUBSET S PROVE g[T] = SumOf(f, T)
  <2> DEFINE Iter(h) == h = [s \in SUBSET T |-> IF s = {} THEN 0
                                               ELSE f[CHOOSE x \in s : TRUE] + h[s \ {CHOOSE x \in s : TRUE}]]
             mine == [s \in SUBSET T |-> g[s]]
             iter == CHOOSE h : Iter(h)
  <2>1. Iter(mine)
    <3>1. \A s \in SUBSET T : mine[s] = g[s] /\ s \in SUBSET S
      OBVIOUS
    <3>2. \A s \in SUBSET T : mine[s] = IF s = {} THEN 0
                                        ELSE f[CHOOSE x \in s : TRUE] + mine[s \ {CHOOSE x \in s : TRUE}]
      BY <1>1, <1>6, <3>1
    <3> QED
      BY <3>2
  <2>2. Iter(iter)
    BY <2>1
  <2>3. SumOf(f, T) = iter[T]
    BY DEF SumOf, MapThenSumSet, MapThenFoldSet
  <2>4. \A s \in SUBSET T : iter[s] = IF s = {} THEN 0
                                        ELSE f[CHOOSE x \in s : TRUE] + iter[s \ {CHOOSE x \in s : TRUE}]
    <3> HIDE DEF iter
    <3> QED
      BY <2>2
  <2> HIDE DEF iter
  <2>5. IsFiniteSet(T) /\ \A s \in SUBSET T : s # {} => pick[s] \in s
    BY <1>2, FS_Subset
  <2>6. \A s \in SUBSET T : iter[s] = IF s = {} THEN 0 ELSE f[pick[s]] + iter[s \ {pick[s]}]
    <3> TAKE s \in SUBSET T
    <3>1. pick[s] = CHOOSE x \in s : TRUE
      BY <1>1
    <3> QED
      BY <2>4, <3>1
  <2>7. \A s \in SUBSET T : (s = {} \/ g[s \ {pick[s]}] = iter[s \ {pick[s]}]) => g[s] = iter[s]
    BY <1>6, <2>6
  <2>8. g[T] = iter[T]
    <3>1. Picks(pick, T) /\ Alike(g, iter, T, pick)
      BY <2>5, <2>7 DEF Picks, Alike
    <3> QED
      BY <2>5, <3>1, FoldUnique
  <2> QED
    BY <2>3, <2>8
<1> QED
  BY <1>1, <1>6, <1>7 DEF Sums

LEMMA SumStep ==
  ASSUME NEW S, IsFiniteSet(S), NEW f, Counts(f, S)
  PROVE  /\ SumOf(f, S) \in Nat
         /\ S = {} => SumOf(f, S) = 0
         /\ S # {} => \E x \in S : SumOf(f, S) = f[x] + SumOf(f, S \ {x})
<1>0. PICK g \in [SUBSET S -> Nat] : Sums(g, f, S)
  BY SumIsFold
<1>1. /\ \A T \in SUBSET S : g[T] = SumOf(f, T)
      /\ \A T \in SUBSET S : g[T] = IF T = {} THEN 0
                                    ELSE f[CHOOSE x \in T : TRUE] + g[T \ {CHOOSE x \in T : TRUE}]
  BY <1>0 DEF Sums
<1>2. S \in SUBSET S /\ g[S] = SumOf(f, S) /\ g[S] \in Nat
  BY <1>1
<1>3. CASE S = {}
  BY <1>1, <1>2, <1>3
<1>4. CASE S # {}
  <2>1. PICK x \in S : x = CHOOSE y \in S : TRUE
    BY <1>4
  <2>2. g[S] = f[x] + g[S \ {x}]
    BY <1>1, <1>2, <1>4, <2>1
  <2>3. g[S \ {x}] = SumOf(f, S \ {x})
    BY <1>1
  <2> QED
    BY <1>2, <1>4, <2>2, <2>3
<1> QED
  BY <1>2, <1>3, <1>4

\* Any of the terms may be taken first.
LEMMA SumSplit ==
  ASSUME NEW U, IsFiniteSet(U), NEW f, Counts(f, U)
  PROVE  \A S \in SUBSET U : \A x \in S : SumOf(f, S) = f[x] + SumOf(f, S \ {x})
<1> DEFINE Splits(S) == \A x \in S : SumOf(f, S) = f[x] + SumOf(f, S \ {x})
           Bad == {n \in Nat : \E S \in SUBSET U : Cardinality(S) = n /\ ~Splits(S)}
<1>1. \A S \in SUBSET U : IsFiniteSet(S) /\ Cardinality(S) \in Nat /\ Counts(f, S)
  BY FS_Subset, FS_CardinalityType DEF Counts
<1>2. \A S \in SUBSET U : \A x \in S : S \ {x} \in SUBSET U /\ Cardinality(S \ {x}) = Cardinality(S) - 1 /\ f[x] \in Nat
  <2> TAKE S \in SUBSET U
  <2> TAKE x \in S
  <2>1. IsFiniteSet(S)
    BY <1>1
  <2>2. Cardinality(S \ {x}) = Cardinality(S) - 1
    BY <2>1, FS_RemoveElement
  <2> QED
    BY <2>2 DEF Counts
<1>3. \A S \in SUBSET U : SumOf(f, S) \in Nat
  BY <1>1, SumStep
<1>4. SUFFICES ASSUME Bad # {} PROVE FALSE
  <2> SUFFICES ASSUME NEW S \in SUBSET U PROVE Splits(S)
    OBVIOUS
  <2> QED
    BY <1>1
<1>5. Bad \in SUBSET Nat
  OBVIOUS
<1>6. PICK n \in Bad : \A m \in Bad : n <= m
  BY <1>4, <1>5, LeastOf
<1>7. PICK S \in SUBSET U : Cardinality(S) = n /\ ~Splits(S)
  BY <1>6
<1>8. \A T \in SUBSET U : Cardinality(T) < n => Splits(T)
  BY <1>1, <1>6
<1> HIDE DEF Bad
<1>9. PICK x \in S : SumOf(f, S) # f[x] + SumOf(f, S \ {x})
  BY <1>7
<1>10. PICK y \in S : SumOf(f, S) = f[y] + SumOf(f, S \ {y})
  BY <1>1, <1>9, SumStep
<1>11. x # y /\ x \in S \ {y} /\ y \in S \ {x} /\ (S \ {y}) \ {x} = (S \ {x}) \ {y}
  BY <1>9, <1>10
<1>12. S \ {y} \in SUBSET U /\ S \ {x} \in SUBSET U /\ (S \ {x}) \ {y} \in SUBSET U
  OBVIOUS
<1>13. SumOf(f, S \ {y}) = f[x] + SumOf(f, (S \ {x}) \ {y})
  <2>1. Cardinality(S \ {y}) < n
    BY <1>1, <1>2, <1>7, <1>10
  <2> QED
    BY <1>8, <1>11, <1>12, <2>1
<1>14. SumOf(f, S \ {x}) = f[y] + SumOf(f, (S \ {x}) \ {y})
  <2>1. Cardinality(S \ {x}) < n
    BY <1>1, <1>2, <1>7
  <2> QED
    BY <1>8, <1>11, <1>12, <2>1
<1>15. f[x] \in Nat /\ f[y] \in Nat /\ SumOf(f, (S \ {x}) \ {y}) \in Nat
  BY <1>2, <1>3, <1>12
<1> QED
  BY <1>9, <1>10, <1>13, <1>14, <1>15

\* The sum of fewer terms is no larger, and depends on them only.
LEMMA SumMonotone ==
  ASSUME NEW U, IsFiniteSet(U), NEW f, Counts(f, U), NEW h, NEW T \in SUBSET U, \A x \in T : h[x] = f[x]
  PROVE  SumOf(h, T) <= SumOf(f, U)
<1> DEFINE Above(S) == S \in SUBSET U => \A R \in SUBSET S : R \subseteq T => SumOf(h, R) <= SumOf(f, S)
           Bad == {n \in Nat : \E S \in SUBSET U : Cardinality(S) = n /\ ~Above(S)}
<1>1. \A S \in SUBSET U : IsFiniteSet(S) /\ Cardinality(S) \in Nat /\ Counts(f, S) /\ SumOf(f, S) \in Nat
  BY FS_Subset, FS_CardinalityType, SumStep DEF Counts
<1>2. \A R \in SUBSET T : IsFiniteSet(R) /\ Counts(h, R) /\ SumOf(h, R) \in Nat
  BY FS_Subset, SumStep DEF Counts
<1>3. SUFFICES ASSUME Bad # {} PROVE FALSE
  <2>1. U \in SUBSET U /\ Cardinality(U) \in Nat
    BY <1>1
  <2> SUFFICES ASSUME Above(U) PROVE SumOf(h, T) <= SumOf(f, U)
    BY <2>1
  <2> QED
    BY <2>1
<1>4. Bad \in SUBSET Nat
  OBVIOUS
<1>5. PICK n \in Bad : \A m \in Bad : n <= m
  BY <1>3, <1>4, LeastOf
<1>6. PICK S \in SUBSET U : Cardinality(S) = n /\ ~Above(S)
  BY <1>5
<1>7. \A R \in SUBSET U : Cardinality(R) < n => Above(R)
  BY <1>1, <1>5
<1> HIDE DEF Bad
<1>8. PICK R \in SUBSET S : R \subseteq T /\ ~(SumOf(h, R) <= SumOf(f, S))
  BY <1>6
<1>9. S # {}
  <2>1. S = {} => R = {} /\ SumOf(h, R) = 0
    BY <1>2, <1>8, SumStep
  <2> QED
    BY <1>1, <1>8, <2>1
<1>10. PICK x \in S : TRUE
  BY <1>9
<1>11. /\ S \ {x} \in SUBSET U /\ SumOf(f, S) = f[x] + SumOf(f, S \ {x}) /\ f[x] \in Nat
       /\ SumOf(f, S \ {x}) \in Nat
  BY <1>1, <1>10, SumSplit DEF Counts
<1>12. Above(S \ {x})
  <2>1. Cardinality(S \ {x}) = Cardinality(S) - 1
    BY <1>1, <1>10, FS_RemoveElement
  <2> QED
    BY <1>1, <1>6, <1>7, <1>11, <2>1
<1>13. CASE x \in R
  <2>1. SumOf(h, R) = h[x] + SumOf(h, R \ {x}) /\ h[x] = f[x] /\ SumOf(h, R \ {x}) \in Nat
    <3>1. IsFiniteSet(R) /\ Counts(h, R) /\ R \in SUBSET R
      BY <1>2, <1>8
    <3> QED
      BY <1>2, <1>8, <1>13, <3>1, SumSplit
  <2>2. SumOf(h, R \ {x}) <= SumOf(f, S \ {x})
    BY <1>8, <1>11, <1>12
  <2> QED
    BY <1>8, <1>11, <2>1, <2>2
<1>14. CASE x \notin R
  <2>1. SumOf(h, R) <= SumOf(f, S \ {x}) /\ SumOf(h, R) \in Nat
    BY <1>2, <1>8, <1>11, <1>12, <1>14
  <2> QED
    BY <1>8, <1>11, <2>1
<1> QED
  BY <1>13, <1>14

-----------------------------------------------------------------------------
(* The broker. *)

LookedAt == {path \in Present \ missed : \A c \in Looking : caller[c].path # path}

Call == [at : {"idle", "check"}, path : {Idle.path} \cup Paths, report : {"none", "done", "refused", "failed"}]

BrokerTypeOK ==
  /\ files \in [Paths -> Nat \cup {None}]
  /\ IsFiniteSet(Present)
  /\ caller \in [Callers -> Call]
  /\ \A c \in Looking : caller[c].path \in Paths

\* What nobody is about to look at is within the quota.
BrokerInv == BrokerTypeOK /\ SumOf(files, LookedAt) <= MaxTotal

LEMMA IdleFacts ==
  /\ Idle.at = "idle" /\ Idle \in Call
  /\ \A r \in {"done", "refused", "failed"} : /\ [Idle EXCEPT !.report = r].at = "idle"
                                    /\ [Idle EXCEPT !.report = r] \in Call
  /\ \A path \in Paths :
       LET w == [Idle EXCEPT !.at = "check", !.path = path]
       IN  w.at = "check" /\ w.path = path
           /\ w \in Call
BY DEF Idle, Call

\* The sizes of files that are there are numbers.
LEMMA PresentCounts ==
  ASSUME BrokerTypeOK, NEW S \in SUBSET Present
  PROVE  Counts(files, S) /\ IsFiniteSet(S) /\ SumOf(files, S) \in Nat
<1>1. IsFiniteSet(S)
  BY FS_Subset DEF BrokerTypeOK
<1>2. Counts(files, S)
  BY DEF BrokerTypeOK, Counts, Present, None
<1> QED
  BY <1>1, <1>2, SumStep

\* A step after which nothing more has been looked at.
LEMMA NoMoreLookedAt ==
  ASSUME BrokerInv, BrokerTypeOK',
         \A path \in LookedAt' : path \in LookedAt /\ files'[path] = files[path]
  PROVE  BrokerInv'
<1>1. LookedAt \in SUBSET Present /\ LookedAt' \in SUBSET LookedAt
  BY DEF LookedAt
<1>2. Counts(files, LookedAt) /\ IsFiniteSet(LookedAt) /\ SumOf(files, LookedAt) \in Nat
  BY <1>1, PresentCounts DEF BrokerInv
<1>3. SumOf(files', LookedAt') <= SumOf(files, LookedAt)
  BY <1>1, <1>2, SumMonotone
<1>4. LookedAt' \in SUBSET Present' /\ BrokerTypeOK'
  BY DEF LookedAt
<1>5. SumOf(files', LookedAt') \in Nat
  <2>1. IsFiniteSet(LookedAt')
    BY <1>1, <1>2, FS_Subset
  <2>2. Counts(files', LookedAt')
    BY <1>1, <1>2 DEF Counts
  <2> QED
    BY <2>1, <2>2, SumStep
<1> QED
  BY <1>2, <1>3, <1>5, BrokerAssumption DEF BrokerInv

LEMMA BrokerStart ==
  ASSUME BrokerInit
  PROVE  BrokerInv
<1>1. Present = {} /\ Looking = {} /\ LookedAt = {}
  BY IdleFacts DEF BrokerInit, Present, Looking, LookedAt
<1>2. BrokerTypeOK
  BY <1>1, IdleFacts, FS_EmptySet DEF BrokerInit, BrokerTypeOK
<1>3. SumOf(files, LookedAt) = 0
  BY <1>1, <1>2, PresentCounts, SumStep
<1> QED
  BY <1>2, <1>3, BrokerAssumption DEF BrokerInv

\* A caller that answers, or one that writes a file that is there afterwards.
LEMMA AnswerKept ==
  ASSUME BrokerTypeOK, NEW c \in Callers, NEW r \in {"done", "refused", "failed"}, Answer(c, r), UNCHANGED files
  PROVE  BrokerTypeOK' /\ Looking' = Looking \ {c} /\ \A d \in Callers \ {c} : caller'[d] = caller[d]
<1> DEFINE s == [Idle EXCEPT !.report = r]
<1>1. s.at = "idle" /\ s \in Call
  BY IdleFacts
<1>2. caller' = [caller EXCEPT ![c] = s]
  BY DEF Answer
<1> HIDE DEF s
<1>3. /\ caller'[c] = s /\ \A d \in Callers \ {c} : caller'[d] = caller[d]
      /\ caller' \in [Callers -> Call]
  BY <1>1, <1>2, IdleFacts DEF BrokerTypeOK
<1>4. Looking' = Looking \ {c}
  BY <1>1, <1>3 DEF Looking
<1>5. Present' = Present
  BY DEF Present
<1> QED
  BY <1>3, <1>4, <1>5 DEF BrokerTypeOK, Looking

LEMMA WrittenKept ==
  ASSUME BrokerInv, NEW c \in Callers, NEW path \in Paths, NEW size \in Sizes, caller[c].at = "idle", Written(c, path, size)
  PROVE  BrokerInv'
<1> DEFINE s == [Idle EXCEPT !.at = "check", !.path = path]
<1>1. s.at = "check" /\ s.path = path /\ s \in Call
  BY IdleFacts
<1>2. caller' = [caller EXCEPT ![c] = s] /\ files' = [files EXCEPT ![path] = size]
  BY DEF Written
<1> HIDE DEF s
<1>3. BrokerTypeOK /\ size \in Nat
  BY BrokerAssumption DEF BrokerInv
<1>4. caller'[c] = s /\ (\A d \in Callers \ {c} : caller'[d] = caller[d]) /\ caller' \in [Callers -> Call]
  BY <1>1, <1>2, <1>3 DEF BrokerTypeOK
<1>5. /\ files' \in [Paths -> Nat \cup {None}] /\ Present' = Present \cup {path}
      /\ \A other \in Paths \ {path} : files'[other] = files[other]
  BY <1>2, <1>3 DEF BrokerTypeOK, Present, None
<1>6. IsFiniteSet(Present')
  BY <1>3, <1>5, FS_AddElement DEF BrokerTypeOK
<1>7. Looking \ {c} \subseteq Looking' /\ c \in Looking' /\ Looking' \subseteq Looking \cup {c}
  BY <1>1, <1>4 DEF Looking
<1>8. BrokerTypeOK'
  <2>1. \A d \in Looking' : caller'[d].path \in Paths
    <3> TAKE d \in Looking'
    <3>1. CASE d = c
      BY <1>1, <1>4, <3>1
    <3>2. CASE d # c
      BY <1>3, <1>4, <1>7, <3>2 DEF BrokerTypeOK, Looking
    <3> QED
      BY <3>1, <3>2
  <2> QED
    BY <1>4, <1>5, <1>6, <2>1 DEF BrokerTypeOK
<1>9. c \notin Looking
  BY DEF Looking
<1>10. \A other \in LookedAt' : other \in LookedAt /\ files'[other] = files[other]
  <2> TAKE other \in LookedAt'
  <2>1. other \in Present' /\ other \notin missed' /\ other \in Paths /\ \A d \in Looking' : caller'[d].path # other
    BY DEF LookedAt, Present
  <2>2. other # path
    BY <1>1, <1>4, <1>7, <2>1
  <2>3. other \in Present \ missed /\ files'[other] = files[other]
    <3>1. missed' = missed \ {path}
      BY DEF Written
    <3> QED
      BY <1>5, <2>1, <2>2, <3>1
  <2>4. ASSUME NEW d \in Looking PROVE caller[d].path # other
    <3>1. CASE d = c
      BY <1>9, <3>1
    <3>2. CASE d # c
      BY <1>4, <1>7, <2>1, <3>2 DEF Looking
    <3> QED
      BY <3>1, <3>2
  <2> QED
    BY <2>3, <2>4 DEF LookedAt
<1> QED
  BY <1>8, <1>10, NoMoreLookedAt

LEMMA BrokerInvKept ==
  ASSUME BrokerInv, [BrokerNext]_brokerVars
  PROVE  BrokerInv'
<1>0. BrokerTypeOK
  BY DEF BrokerInv
<1>1. ASSUME NEW c \in Callers, NEW r \in {"done", "refused", "failed"}, caller[c].at = "idle", Answer(c, r), UNCHANGED <<files, missed>>
      PROVE  BrokerInv'
  <2>1. BrokerTypeOK' /\ Looking' = Looking /\ \A d \in Looking : caller'[d] = caller[d]
    BY <1>0, <1>1, AnswerKept DEF Looking
  <2>2. \A path \in LookedAt' : path \in LookedAt /\ files'[path] = files[path]
    BY <1>1, <2>1 DEF LookedAt, Present
  <2> QED
    BY <1>1, <2>1, <2>2, NoMoreLookedAt
<1>2. ASSUME NEW c \in Callers, CreateWorkspace(c) PROVE BrokerInv'
  BY <1>1, <1>2 DEF CreateWorkspace, Calling
<1>3. ASSUME NEW c \in Callers, DestroyWorkspace(c) PROVE BrokerInv'
  <2> DEFINE s == [Idle EXCEPT !.report = "done"]
  <2>1. s.at = "idle" /\ s \in Call
    BY IdleFacts
  <2>2. caller' = [caller EXCEPT ![c] = s] /\ files' = [path \in Paths |-> None]
    BY <1>3 DEF DestroyWorkspace, Answer
  <2> HIDE DEF s
  <2>3. caller'[c] = s /\ (\A d \in Callers \ {c} : caller'[d] = caller[d]) /\ caller' \in [Callers -> Call]
    BY <1>0, <2>1, <2>2 DEF BrokerTypeOK
  <2>4. Present' = {} /\ files' \in [Paths -> Nat \cup {None}]
    BY <2>2 DEF Present
  <2>5. Looking' \subseteq Looking \ {c}
    BY <2>1, <2>3 DEF Looking
  <2>6. BrokerTypeOK'
    <3>1. \A d \in Looking' : caller'[d].path \in Paths
      BY <1>0, <2>3, <2>5 DEF BrokerTypeOK, Looking
    <3>2. IsFiniteSet(Present')
      BY <2>4, FS_EmptySet
    <3> QED
      BY <2>3, <2>4, <3>1, <3>2 DEF BrokerTypeOK
  <2>7. LookedAt' = {}
    BY <2>4 DEF LookedAt
  <2> QED
    BY <2>2, <2>6, <2>7, NoMoreLookedAt
<1>4. ASSUME NEW c \in Callers, WriteText(c) PROVE BrokerInv'
  <2>1. PICK path \in Paths, size \in Sizes : Refuse(c) \/ Written(c, path, size)
    BY <1>4 DEF WriteText
  <2>2. caller[c].at = "idle"
    BY <1>4 DEF WriteText, Calling
  <2>3. CASE Refuse(c)
    BY <1>1, <2>2, <2>3 DEF Refuse
  <2>4. CASE Written(c, path, size)
    BY <2>2, <2>4, WrittenKept
  <2> QED
    BY <2>1, <2>3, <2>4
<1>5. ASSUME NEW c \in Callers, FetchToFile(c) PROVE BrokerInv'
  <2>1. PICK path \in Paths, size \in Sizes : Refuse(c) \/ Written(c, path, size)
    BY <1>5 DEF FetchToFile
  <2>2. caller[c].at = "idle"
    BY <1>5 DEF FetchToFile, Calling
  <2>3. CASE Refuse(c)
    BY <1>1, <2>2, <2>3 DEF Refuse
  <2>4. CASE Written(c, path, size)
    BY <2>2, <2>4, WrittenKept
  <2> QED
    BY <2>1, <2>3, <2>4
<1>6. ASSUME NEW c \in Callers, Check(c) PROVE BrokerInv'
  <2>1. CASE DiskUsage > MaxTotal
    <3> DEFINE s == [Idle EXCEPT !.report = "refused"]
    <3>1. s.at = "idle" /\ s \in Call
      BY IdleFacts
    <3> DEFINE path == caller[c].path
    <3>2. path \in Paths /\ c \in Looking
      BY <1>0, <1>6 DEF Check, BrokerTypeOK, Looking
    <3>3. caller' = [caller EXCEPT ![c] = s] /\ files' = [files EXCEPT ![path] = None] /\ missed' = missed
      BY <1>6, <2>1 DEF Check, Answer
    <3> HIDE DEF s
    <3>4. caller'[c] = s /\ (\A d \in Callers \ {c} : caller'[d] = caller[d]) /\ caller' \in [Callers -> Call]
      BY <1>0, <3>1, <3>3 DEF BrokerTypeOK
    <3>5. /\ files' \in [Paths -> Nat \cup {None}] /\ Present' = Present \ {path}
          /\ \A other \in Paths \ {path} : files'[other] = files[other]
      BY <1>0, <3>2, <3>3 DEF BrokerTypeOK, Present, None
    <3>6. Looking' = Looking \ {c}
      BY <3>1, <3>4 DEF Looking
    <3>7. IsFiniteSet(Present')
      BY <1>0, <3>5, FS_RemoveElement DEF BrokerTypeOK
    <3>8. BrokerTypeOK'
      BY <1>0, <3>4, <3>5, <3>6, <3>7 DEF BrokerTypeOK, Looking
    <3>9. \A other \in LookedAt' : other \in LookedAt /\ files'[other] = files[other]
      <4> SUFFICES ASSUME NEW other \in LookedAt' PROVE other \in LookedAt /\ files'[other] = files[other]
        OBVIOUS
      <4>1. other \in Present \ missed /\ other # path /\ other \in Paths
        BY <3>3, <3>5 DEF LookedAt, Present
      <4>2. \A d \in Looking : caller[d].path # other
        BY <3>4, <3>6, <4>1 DEF LookedAt, Looking
      <4> QED
        BY <3>5, <4>1, <4>2 DEF LookedAt
    <3> QED
      BY <3>3, <3>8, <3>9, NoMoreLookedAt
  <2>2. CASE ~(DiskUsage > MaxTotal)
    <3>1. Answer(c, "done") /\ UNCHANGED <<files, missed>>
      BY <1>6, <2>2 DEF Check
    <3>2. BrokerTypeOK' /\ Present' = Present
      BY <1>0, <3>1, AnswerKept DEF Present
    <3>3. SumOf(files, Present) <= MaxTotal
      <4>1. SumOf(files, Present) = DiskUsage
        BY DEF SumOf, DiskUsage
      <4>2. SumOf(files, Present) \in Nat
        BY <1>0, PresentCounts
      <4> QED
        BY <2>2, <4>1, <4>2, BrokerAssumption
    <3>4. LookedAt' \in SUBSET Present /\ files' = files
      BY <3>1, <3>2 DEF LookedAt
    <3>5. SumOf(files, LookedAt') <= SumOf(files, Present) /\ SumOf(files, Present) \in Nat /\ SumOf(files, LookedAt') \in Nat
      BY <1>0, <3>4, PresentCounts, SumMonotone DEF BrokerTypeOK
    <3> QED
      BY <3>2, <3>3, <3>4, <3>5, BrokerAssumption DEF BrokerInv
  <2> QED
    BY <2>1, <2>2
<1>7. ASSUME NEW c \in Callers, LookFails(c) \/ Die(c) PROVE BrokerInv'
  <2>1. c \in Looking /\ missed' = missed \cup {caller[c].path} /\ files' = files
    BY <1>7 DEF LookFails, Die, Unchecked, Looking
  <2>2. PICK s \in Call : s.at = "idle" /\ caller' = [caller EXCEPT ![c] = s]
    BY <1>7, IdleFacts DEF LookFails, Die, Answer
  <2>3. (\A d \in Callers \ {c} : caller'[d] = caller[d]) /\ caller'[c] = s /\ caller' \in [Callers -> Call]
    BY <1>0, <2>2 DEF BrokerTypeOK
  <2>4. Present' = Present /\ Looking' = Looking \ {c}
    BY <2>1, <2>2, <2>3 DEF Present, Looking
  <2>5. BrokerTypeOK'
    BY <1>0, <2>1, <2>3, <2>4 DEF BrokerTypeOK, Looking
  <2>6. \A path \in LookedAt' : path \in LookedAt /\ files'[path] = files[path]
    <3> SUFFICES ASSUME NEW path \in LookedAt' PROVE path \in LookedAt
      BY <2>1
    <3>1. path \in Present \ missed /\ path # caller[c].path
      BY <2>1, <2>4 DEF LookedAt
    <3>2. \A d \in Looking : caller[d].path # path
      BY <2>3, <2>4, <3>1 DEF LookedAt, Looking
    <3> QED
      BY <3>1, <3>2 DEF LookedAt
  <2> QED
    BY <2>5, <2>6, NoMoreLookedAt
<1>8. CASE UNCHANGED brokerVars
  BY <1>8 DEF brokerVars, BrokerInv, BrokerTypeOK, Looking, LookedAt, Present
<1> QED
  BY <1>2, <1>3, <1>4, <1>5, <1>6, <1>7, <1>8 DEF BrokerNext

LEMMA QuotaHolds ==
  ASSUME BrokerInv
  PROVE  WithinQuota
<1>1. LookedAt = Present \ (missed \cup {caller[c].path : c \in Looking})
  BY DEF LookedAt
<1> QED
  BY <1>1 DEF BrokerInv, WithinQuota, SumOf

-----------------------------------------------------------------------------
(* The newest of a set of ids, and their places. *)

\* How many of the ids are newer than one.
Newer(ids, i) == Cardinality({j \in ids : j > i})

LEMMA NewerFacts ==
  ASSUME NEW ids \in SUBSET Nat, IsFiniteSet(ids)
  PROVE  /\ \A i \in Nat : IsFiniteSet({j \in ids : j > i}) /\ Newer(ids, i) \in Nat /\ Newer(ids, i) <= Cardinality(ids)
         /\ \A i \in ids : Newer(ids, i) < Cardinality(ids)
         /\ \A i \in Nat : \A j \in ids : i < j => Newer(ids, j) < Newer(ids, i)
<1>1. \A i \in Nat : IsFiniteSet({j \in ids : j > i}) /\ Newer(ids, i) \in Nat /\ Newer(ids, i) <= Cardinality(ids)
  <2> TAKE i \in Nat
  <2>1. {j \in ids : j > i} \in SUBSET ids
    OBVIOUS
  <2>2. IsFiniteSet({j \in ids : j > i}) /\ Cardinality({j \in ids : j > i}) <= Cardinality(ids)
    BY <2>1, FS_Subset
  <2> QED
    BY <2>2, FS_CardinalityType DEF Newer
<1>2. ASSUME NEW i \in ids PROVE Newer(ids, i) < Cardinality(ids)
  <2>1. {j \in ids : j > i} \in SUBSET (ids \ {i})
    OBVIOUS
  <2>2. IsFiniteSet(ids \ {i}) /\ Cardinality(ids \ {i}) = Cardinality(ids) - 1
    BY FS_RemoveElement
  <2>3. Cardinality({j \in ids : j > i}) <= Cardinality(ids \ {i})
    BY <2>1, <2>2, FS_Subset
  <2>4. Cardinality(ids) \in Nat
    BY FS_CardinalityType
  <2> QED
    BY <1>1, <2>2, <2>3, <2>4 DEF Newer
<1>3. ASSUME NEW i \in Nat, NEW j \in ids, i < j PROVE Newer(ids, j) < Newer(ids, i)
  <2> DEFINE A == {k \in ids : k > j}
             B == {k \in ids : k > i}
  <2>1. A \in SUBSET (B \ {j}) /\ j \in B
    <3>1. \A k \in ids : k \in Nat /\ (k > j => k > i /\ k # j)
      BY <1>3
    <3> QED
      BY <1>3, <3>1
  <2>2. IsFiniteSet(B) /\ Cardinality(B) \in Nat /\ Cardinality(A) \in Nat
    BY <1>1 DEF Newer
  <2>3. IsFiniteSet(B \ {j}) /\ Cardinality(B \ {j}) = Cardinality(B) - 1
    BY <2>1, <2>2, FS_RemoveElement
  <2>4. Cardinality(A) <= Cardinality(B \ {j})
    BY <2>1, <2>3, FS_Subset
  <2> QED
    BY <2>2, <2>3, <2>4 DEF Newer
<1> QED
  BY <1>1, <1>2, <1>3

\* A finite set that is not empty has a newest id.
LEMMA NewestOf ==
  ASSUME NEW ids \in SUBSET Nat, IsFiniteSet(ids), ids # {}
  PROVE  \E i \in ids : \A j \in ids : j <= i
<1> DEFINE Places == {Newer(ids, i) : i \in ids}
<1>1. Places \in SUBSET Nat /\ Places # {}
  BY NewerFacts
<1>2. PICK c \in Places : \A d \in Places : c <= d
  BY <1>1, LeastOf
<1>3. PICK i \in ids : c = Newer(ids, i)
  BY <1>2
<1>4. \A j \in ids : ~(i < j)
  <2> SUFFICES ASSUME NEW j \in ids, i < j PROVE FALSE
    OBVIOUS
  <2>1. Newer(ids, j) < c /\ Newer(ids, j) \in Places
    BY <1>3, NewerFacts
  <2> QED
    BY <1>1, <1>2, <2>1
<1> QED
  BY <1>4

\* Every place is somebody's.
LEMMA PlaceTaken ==
  ASSUME NEW ids \in SUBSET Nat, IsFiniteSet(ids), NEW c \in Nat, c < Cardinality(ids)
  PROVE  \E i \in ids : Newer(ids, i) = c
<1> DEFINE Old == {i \in ids : Newer(ids, i) >= c}
<1>1. Cardinality(ids) \in Nat /\ ids # {}
  BY FS_CardinalityType, FS_EmptySet
<1>2. Old # {} /\ Old \in SUBSET Nat /\ IsFiniteSet(Old)
  <2>1. PICK i \in ids : \A j \in ids : i <= j
    BY <1>1, LeastOf
  <2>2. {j \in ids : j > i} = ids \ {i}
    <3>1. \A j \in ids : j > i <=> j # i
      BY <2>1
    <3> QED
      BY <3>1
  <2>3. Newer(ids, i) = Cardinality(ids) - 1
    BY <2>2, FS_RemoveElement DEF Newer
  <2>4. i \in Old
    BY <1>1, <2>3
  <2>5. Old \in SUBSET ids
    OBVIOUS
  <2> QED
    BY <2>4, <2>5, FS_Subset
<1>3. PICK i \in Old : \A j \in Old : j <= i
  BY <1>2, NewestOf
<1>4. Newer(ids, i) \in Nat /\ Newer(ids, i) >= c
  BY NewerFacts
<1>5. ASSUME Newer(ids, i) > c PROVE FALSE
  <2> DEFINE Above == {j \in ids : j > i}
  <2>1. Above # {} /\ Above \in SUBSET Nat /\ IsFiniteSet(Above) /\ Newer(ids, i) = Cardinality(Above)
    <3>1. IsFiniteSet(Above) /\ Newer(ids, i) = Cardinality(Above)
      BY NewerFacts DEF Newer
    <3>2. Cardinality(Above) # 0
      BY <1>4, <1>5, <3>1
    <3>3. Above # {}
      BY <3>2, FS_EmptySet
    <3> QED
      BY <3>1, <3>3
  <2>2. PICK j \in Above : \A k \in Above : j <= k
    BY <2>1, LeastOf
  <2>3. {k \in ids : k > j} = Above \ {j}
    <3>1. \A k \in ids : k > j <=> k > i /\ k # j
      BY <2>1, <2>2
    <3> QED
      BY <3>1
  <2>4. Newer(ids, j) = Newer(ids, i) - 1
    BY <2>1, <2>3, FS_RemoveElement DEF Newer
  <2>5. j \in Old
    BY <1>4, <1>5, <2>4
  <2> QED
    BY <1>3, <2>5
<1> QED
  BY <1>4, <1>5

\* As many are among the newest as there is room for, and none of the others is
\* newer.
LEMMA NewestFacts ==
  ASSUME NEW ids \in SUBSET Nat, IsFiniteSet(ids), NEW n \in Nat
  PROVE  /\ Newest(ids, n) \in SUBSET ids /\ IsFiniteSet(Newest(ids, n)) /\ Cardinality(Newest(ids, n)) <= n
         /\ \A i \in ids : i \in Newest(ids, n) <=> Newer(ids, i) < n
         /\ \A i \in ids, j \in Newest(ids, n) : j < i => i \in Newest(ids, n)
         /\ Cardinality(ids) <= n => Newest(ids, n) = ids
<1> DEFINE shown == Newest(ids, n)
<1>1. \A i \in ids : i \in shown <=> Newer(ids, i) < n
  BY DEF Newest, Newer
<1>2. shown \in SUBSET ids /\ IsFiniteSet(shown) /\ Cardinality(shown) \in Nat
  <2>1. shown \in SUBSET ids
    BY DEF Newest
  <2> QED
    BY <2>1, FS_Subset, FS_CardinalityType
<1> HIDE DEF shown
<1>3. Cardinality(shown) <= n
  <2> SUFFICES ASSUME Cardinality(shown) > n PROVE FALSE
    BY <1>2
  <2>1. PICK i \in shown : \A j \in shown : i <= j
    <3>1. shown # {}
      BY FS_EmptySet
    <3> QED
      BY <1>2, <3>1, LeastOf
  <2>2. Cardinality(shown \ {i}) = Cardinality(shown) - 1
    BY <1>2, FS_RemoveElement
  <2>3. shown \ {i} \in SUBSET {j \in ids : j > i}
    BY <1>2, <2>1
  <2>4. Cardinality(shown \ {i}) <= Newer(ids, i)
    BY <1>2, <2>3, NewerFacts, FS_Subset DEF Newer
  <2>5. Newer(ids, i) < n /\ Newer(ids, i) \in Nat
    BY <1>1, <1>2, NewerFacts
  <2> QED
    BY <1>2, <2>2, <2>4, <2>5
<1>4. ASSUME NEW i \in ids, NEW j \in shown, j < i PROVE i \in shown
  <2>1. Newer(ids, i) < Newer(ids, j) /\ Newer(ids, j) < n /\ Newer(ids, i) \in Nat /\ Newer(ids, j) \in Nat
    BY <1>1, <1>2, <1>4, NewerFacts
  <2> QED
    BY <1>1, <2>1
<1>5. ASSUME Cardinality(ids) <= n PROVE shown = ids
  <2>1. \A i \in ids : Newer(ids, i) < n
    <3> TAKE i \in ids
    <3>1. Newer(ids, i) < Cardinality(ids) /\ Newer(ids, i) \in Nat /\ Cardinality(ids) \in Nat
      BY NewerFacts, FS_CardinalityType
    <3> QED
      BY <1>5, <3>1
  <2> QED
    BY <1>1, <1>2, <2>1
<1> QED
  BY <1>1, <1>2, <1>3, <1>4, <1>5 DEF shown

\* Those that have one of some keys are at least so many times the keys as each
\* of the keys has.
OneOf(ids, keyOf, keys) == {i \in ids : keyOf[i] \in keys}
EachHas(ids, keyOf, keys, c) == \A key \in keys : Cardinality(OneOf(ids, keyOf, {key})) >= c

LEMMA EachHasItsOwn ==
  ASSUME NEW ids, IsFiniteSet(ids), NEW keyOf, NEW D, IsFiniteSet(D), NEW c \in Nat, EachHas(ids, keyOf, D, c)
  PROVE  Cardinality(OneOf(ids, keyOf, D)) >= c * Cardinality(D)
<1> DEFINE With(E) == {i \in ids : keyOf[i] \in E}
           Enough(E) == Cardinality(With(E)) >= c * Cardinality(E)
           Bad == {n \in Nat : \E E \in SUBSET D : Cardinality(E) = n /\ ~Enough(E)}
<1>1. \A E \in SUBSET D : /\ IsFiniteSet(E) /\ Cardinality(E) \in Nat
                          /\ IsFiniteSet(With(E)) /\ Cardinality(With(E)) \in Nat
  <2> TAKE E \in SUBSET D
  <2>1. With(E) \in SUBSET ids
    OBVIOUS
  <2> QED
    BY <2>1, FS_Subset, FS_CardinalityType
<1>2. SUFFICES ASSUME Bad # {} PROVE FALSE
  <2>1. D \in SUBSET D /\ Cardinality(D) \in Nat
    BY <1>1
  <2>2. With(D) = OneOf(ids, keyOf, D)
    BY DEF OneOf
  <2> HIDE DEF With
  <2> QED
    BY <2>1, <2>2
<1>3. Bad \in SUBSET Nat
  OBVIOUS
<1>4. PICK n \in Bad : \A m \in Bad : n <= m
  BY <1>2, <1>3, LeastOf
<1>5. PICK E \in SUBSET D : Cardinality(E) = n /\ ~Enough(E)
  BY <1>4
<1>6. \A R \in SUBSET D : Cardinality(R) < n => Enough(R)
  <2> SUFFICES ASSUME NEW R \in SUBSET D, Cardinality(R) < n, ~Enough(R) PROVE FALSE
    OBVIOUS
  <2> HIDE DEF Enough
  <2>1. Cardinality(R) \in Bad /\ Cardinality(R) \in Nat /\ n \in Nat
    BY <1>1
  <2> QED
    BY <1>4, <2>1
<1> HIDE DEF Bad
<1>7. E # {}
  <2>1. E = {} => Cardinality(E) = 0 /\ c * Cardinality(E) = 0
    BY FS_EmptySet
  <2> QED
    BY <1>1, <1>5, <2>1
<1>8. PICK key \in E : TRUE
  BY <1>7
<1> DEFINE rest == E \ {key}
           own == {i \in ids : keyOf[i] = key}
<1>9. rest \in SUBSET D /\ Cardinality(rest) = n - 1
  BY <1>1, <1>5, <1>8, FS_RemoveElement
<1>10. Enough(rest)
  <2>1. n - 1 < n
    <3>1. n \in Nat
      BY <1>3, <1>4
    <3> QED
      BY <3>1
  <2> HIDE DEF Enough, rest
  <2> QED
    BY <1>6, <1>9, <2>1
<1>11. With(E) = With(rest) \cup own /\ With(rest) \cap own = {}
  BY <1>8
<1>12. IsFiniteSet(own) /\ Cardinality(own) \in Nat /\ Cardinality(own) >= c
  <2>1. own \in SUBSET ids /\ own = OneOf(ids, keyOf, {key})
    BY DEF OneOf
  <2>2. Cardinality(OneOf(ids, keyOf, {key})) >= c
    BY <1>8 DEF EachHas
  <2> HIDE DEF own
  <2> QED
    BY <2>1, <2>2, FS_Subset, FS_CardinalityType
<1>13. Cardinality(With(E)) = Cardinality(With(rest)) + Cardinality(own)
  <2>1. IsFiniteSet(With(rest))
    BY <1>1, <1>9
  <2> HIDE DEF With, own, rest
  <2>2. Cardinality(With(E)) = Cardinality(With(rest)) + Cardinality(own) - Cardinality(With(rest) \cap own)
    BY <1>11, <1>12, <2>1, FS_Union
  <2>3. Cardinality(With(rest) \cap own) = 0
    BY <1>11, FS_EmptySet
  <2>4. Cardinality(With(rest)) \in Nat
    BY <2>1, FS_CardinalityType
  <2> QED
    BY <1>12, <2>2, <2>3, <2>4
<1>14. c * n = c * (n - 1) + c
  <2>1. n \in Nat
    BY <1>1, <1>5
  <2> QED
    BY <2>1
<1>15. Cardinality(With(rest)) >= c * (n - 1) /\ Cardinality(With(rest)) \in Nat /\ n \in Nat /\ Cardinality(With(E)) \in Nat
  BY <1>1, <1>5, <1>9, <1>10
<1>16. ~(Cardinality(With(E)) >= c * n)
  BY <1>5
<1> QED
  <2> HIDE DEF With, own, rest
  <2>1. c * (n - 1) \in Int /\ c * n \in Int
    BY <1>15
  <2> QED
    BY <1>12, <1>13, <1>14, <1>15, <1>16, <2>1

-----------------------------------------------------------------------------
(* The candidates and their standing. *)

\* What two sequences make together.
LEMMA Joined ==
  ASSUME NEW S, NEW g \in Seq(S), NEW d \in Seq(S)
  PROVE  /\ g \o d \in Seq(S) /\ Len(g \o d) = Len(g) + Len(d) /\ DOMAIN (g \o d) = 1..(Len(g) + Len(d))
         /\ \A k \in 1..(Len(g) + Len(d)) : (g \o d)[k] = IF k <= Len(g) THEN g[k] ELSE d[k - Len(g)]
<1>1. \A k \in 1..(Len(g) + Len(d)) : (g \o d)[k] = IF k <= Len(g) THEN g[k] ELSE d[k - Len(g)]
  BY ConcatProperties
<1>2. g \o d \in Seq(S) /\ Len(g \o d) = Len(g) + Len(d)
  BY ConcatProperties
<1>3. DOMAIN (g \o d) = 1..Len(g \o d)
  BY <1>2
<1> QED
  BY <1>1, <1>2, <1>3

\* The sources one by one.
LEMMA SourcesListed ==
  /\ DOMAIN Sources = 1..11
  /\ Sources[1] = Source("curiosity", "INVESTIGATE", 5, 5550, 50, 2)
  /\ Sources[2] = Source("goal", "BUILD", 4, 6115, 30, 3)
  /\ Sources[3] = Source("revisit", "REVISIT", 4, 6390, 40, 8)
  /\ Sources[4] = Source("reflection", "LEARN", 5, 5225, 50, 7)
  /\ Sources[5] = Source("question", "RESEARCH", 40, 5770, 60, 6)
  /\ Sources[6] = Source("interest", "EXPLORE", 3, 5070, 60, 4)
  /\ Sources[7] = Source("uncertain", "INVESTIGATE", 3, 5890, 45, 10)
  /\ Sources[8] = Source("knowledge", "RESEARCH", 5, 5375, 50, 5)
  /\ Sources[9] = Source("understand", "RESEARCH", 10, 5550, 50, 11)
  /\ Sources[10] = Source("capability", "ACQUIRE", 4, 6850, 50, 1)
  /\ Sources[11] = Source("sensor", "INVESTIGATE", 3, 5700, 50, 9)
<1> DEFINE r1 == Source("curiosity", "INVESTIGATE", 5, 5550, 50, 2)
           r2 == Source("goal", "BUILD", 4, 6115, 30, 3)
           r3 == Source("revisit", "REVISIT", 4, 6390, 40, 8)
           r4 == Source("reflection", "LEARN", 5, 5225, 50, 7)
           r5 == Source("question", "RESEARCH", 40, 5770, 60, 6)
           r6 == Source("interest", "EXPLORE", 3, 5070, 60, 4)
           r7 == Source("uncertain", "INVESTIGATE", 3, 5890, 45, 10)
           r8 == Source("knowledge", "RESEARCH", 5, 5375, 50, 5)
           r9 == Source("understand", "RESEARCH", 10, 5550, 50, 11)
           r10 == Source("capability", "ACQUIRE", 4, 6850, 50, 1)
           r11 == Source("sensor", "INVESTIGATE", 3, 5700, 50, 9)
           Rows == {r1, r2, r3, r4, r5, r6, r7, r8, r9, r10, r11}
<1>1. Gathered = <<r1, r2, r3, r4>> /\ Derived = <<r5, r6, r7, r8, r9>> /\ Needed = <<r10, r11>>
  BY DEF Gathered, Derived, Needed
<1>2. {r1, r2, r3, r4, r5, r6, r7, r8, r9, r10, r11} \subseteq Rows
  OBVIOUS
<1> HIDE DEF r1, r2, r3, r4, r5, r6, r7, r8, r9, r10, r11, Rows
<1>3. Gathered \in Seq(Rows) /\ Len(Gathered) = 4
  BY <1>1, <1>2
<1>4. Derived \in Seq(Rows) /\ Len(Derived) = 5
  BY <1>1, <1>2
<1>5. Needed \in Seq(Rows) /\ Len(Needed) = 2
  BY <1>1, <1>2
<1> DEFINE both == Gathered \o Derived
<1>6. both \in Seq(Rows) /\ Len(both) = 9 /\ \A k \in 1..9 : both[k] = IF k <= 4 THEN Gathered[k] ELSE Derived[k - 4]
  <2>1. Len(Gathered) + Len(Derived) = 9
    BY <1>3, <1>4
  <2>2. both \in Seq(Rows) /\ Len(both) = 9
    BY <1>3, <1>4, <2>1, Joined
  <2>3. \A k \in 1..9 : both[k] = IF k <= Len(Gathered) THEN Gathered[k] ELSE Derived[k - Len(Gathered)]
    <3>1. \A k \in 1..(Len(Gathered) + Len(Derived)) : both[k] = IF k <= Len(Gathered) THEN Gathered[k] ELSE Derived[k - Len(Gathered)]
      BY <1>3, <1>4, Joined
    <3> QED
      BY <2>1, <3>1
  <2> QED
    BY <1>3, <2>2, <2>3
<1>7. Sources = both \o Needed
  BY DEF Sources
<1> HIDE DEF both
<1>8. DOMAIN Sources = 1..11 /\ \A k \in 1..11 : Sources[k] = IF k <= 9 THEN both[k] ELSE Needed[k - 9]
  <2>1. Len(both) + Len(Needed) = 11
    BY <1>5, <1>6
  <2>2. DOMAIN (both \o Needed) = 1..11
    BY <1>5, <1>6, <2>1, Joined
  <2>3. \A k \in 1..11 : (both \o Needed)[k] = IF k <= Len(both) THEN both[k] ELSE Needed[k - Len(both)]
    <3>1. \A k \in 1..(Len(both) + Len(Needed)) : (both \o Needed)[k] = IF k <= Len(both) THEN both[k] ELSE Needed[k - Len(both)]
      BY <1>5, <1>6, Joined
    <3> QED
      BY <2>1, <3>1
  <2> QED
    BY <1>6, <1>7, <2>2, <2>3
<1>9. /\ Sources[1] = Gathered[1] /\ Sources[2] = Gathered[2] /\ Sources[3] = Gathered[3] /\ Sources[4] = Gathered[4]
      /\ Sources[5] = Derived[1] /\ Sources[6] = Derived[2] /\ Sources[7] = Derived[3] /\ Sources[8] = Derived[4]
      /\ Sources[9] = Derived[5] /\ Sources[10] = Needed[1] /\ Sources[11] = Needed[2]
  BY <1>6, <1>8
<1>10. /\ Gathered[1] = r1 /\ Gathered[2] = r2 /\ Gathered[3] = r3 /\ Gathered[4] = r4
       /\ Derived[1] = r5 /\ Derived[2] = r6 /\ Derived[3] = r7 /\ Derived[4] = r8 /\ Derived[5] = r9
       /\ Needed[1] = r10 /\ Needed[2] = r11
  BY <1>1
<1>11. /\ Sources[1] = r1
       /\ Sources[2] = r2
       /\ Sources[3] = r3
       /\ Sources[4] = r4
       /\ Sources[5] = r5
       /\ Sources[6] = r6
       /\ Sources[7] = r7
       /\ Sources[8] = r8
       /\ Sources[9] = r9
       /\ Sources[10] = r10
       /\ Sources[11] = r11
  BY <1>9, <1>10
<1> QED
  BY <1>8, <1>11 DEF r1, r2, r3, r4, r5, r6, r7, r8, r9, r10, r11

LEMMA SourceRow ==
  ASSUME NEW name, NEW category, NEW quota, NEW score, NEW novelty, NEW rank
  PROVE  LET row == Source(name, category, quota, score, novelty, rank)
         IN  row.name = name /\ row.score = score /\ row.novelty = novelty /\ row.rank = rank
BY DEF Source

Scored(source) ==
  /\ source.score \in Nat /\ source.score >= 5070 /\ source.score <= 6850
  /\ source.novelty \in Nat /\ source.rank \in Nat

\* The rows of Sources: a name is one row's, and so is a rank.
LEMMA SourceRows ==
  /\ DOMAIN Sources = 1..11
  /\ Names = {"curiosity", "goal", "revisit", "reflection", "question", "interest", "uncertain", "knowledge",
              "understand", "capability", "sensor"}
  /\ \A j, k \in 1..11 : j # k => Sources[j].name # Sources[k].name /\ Sources[j].rank # Sources[k].rank
  /\ \A k \in 1..11 : Scored(Sources[k])
<1>1. DOMAIN Sources = 1..11
  BY SourcesListed
<1>2. \A k \in 1..11 : k = 1 \/ k = 2 \/ k = 3 \/ k = 4 \/ k = 5 \/ k = 6 \/ k = 7 \/ k = 8 \/ k = 9 \/ k = 10 \/ k = 11
  OBVIOUS
<1>12. /\ Sources[1].name = "curiosity" /\ Sources[1].score = 5550 /\ Sources[1].novelty = 50 /\ Sources[1].rank = 2
       /\ Sources[2].name = "goal" /\ Sources[2].score = 6115 /\ Sources[2].novelty = 30 /\ Sources[2].rank = 3
       /\ Sources[3].name = "revisit" /\ Sources[3].score = 6390 /\ Sources[3].novelty = 40 /\ Sources[3].rank = 8
       /\ Sources[4].name = "reflection" /\ Sources[4].score = 5225 /\ Sources[4].novelty = 50 /\ Sources[4].rank = 7
       /\ Sources[5].name = "question" /\ Sources[5].score = 5770 /\ Sources[5].novelty = 60 /\ Sources[5].rank = 6
       /\ Sources[6].name = "interest" /\ Sources[6].score = 5070 /\ Sources[6].novelty = 60 /\ Sources[6].rank = 4
       /\ Sources[7].name = "uncertain" /\ Sources[7].score = 5890 /\ Sources[7].novelty = 45 /\ Sources[7].rank = 10
       /\ Sources[8].name = "knowledge" /\ Sources[8].score = 5375 /\ Sources[8].novelty = 50 /\ Sources[8].rank = 5
       /\ Sources[9].name = "understand" /\ Sources[9].score = 5550 /\ Sources[9].novelty = 50 /\ Sources[9].rank = 11
       /\ Sources[10].name = "capability" /\ Sources[10].score = 6850 /\ Sources[10].novelty = 50 /\ Sources[10].rank = 1
       /\ Sources[11].name = "sensor" /\ Sources[11].score = 5700 /\ Sources[11].novelty = 50 /\ Sources[11].rank = 9
  BY SourcesListed, SourceRow
<1>3. Names = {"curiosity", "goal", "revisit", "reflection", "question", "interest", "uncertain", "knowledge",
              "understand", "capability", "sensor"}
  <2>1. Names = {Sources[1].name, Sources[2].name, Sources[3].name, Sources[4].name, Sources[5].name, Sources[6].name,
                 Sources[7].name, Sources[8].name, Sources[9].name, Sources[10].name, Sources[11].name}
    BY <1>1, <1>2 DEF Names
  <2> QED
    BY <2>1, <1>12
<1>4. \A j, k \in 1..11 : j # k => Sources[j].name # Sources[k].name /\ Sources[j].rank # Sources[k].rank
  BY <1>2, <1>12
<1>5. \A k \in 1..11 : Scored(Sources[k])
  BY <1>2, <1>12 DEF Scored
<1> QED
  BY <1>1, <1>3, <1>4, <1>5

\* A candidate's source is a row of its name.
LEMMA SourceRowOf ==
  ASSUME NEW name \in Names, NEW id
  PROVE  \E k \in 1..11 : SourceOf(<<name, id>>) = Sources[k] /\ Sources[k].name = name /\ Scored(Sources[k])
<1>0. DOMAIN Sources = 1..11 /\ \A k \in 1..11 : Scored(Sources[k])
  BY SourceRows
<1>1. PICK k \in 1..11 : Sources[k].name = name
  BY <1>0 DEF Names
<1>2. ToSet(Sources) = {Sources[j] : j \in 1..11}
  BY <1>0 DEF ToSet
<1>3. \E source \in ToSet(Sources) : source.name = <<name, id>>[1]
  BY <1>1, <1>2
<1>4. SourceOf(<<name, id>>) \in ToSet(Sources) /\ SourceOf(<<name, id>>).name = name
  BY <1>3 DEF SourceOf
<1> QED
  BY <1>0, <1>2, <1>4

\* A candidate's source is the row of its name.
LEMMA SourceFacts ==
  /\ DOMAIN Sources = 1..11
  /\ Names = {"curiosity", "goal", "revisit", "reflection", "question", "interest", "uncertain", "knowledge",
              "understand", "capability", "sensor"}
  /\ \A name \in Names : \A id : SourceOf(<<name, id>>).name = name /\ Scored(SourceOf(<<name, id>>))
<1>1. ASSUME NEW name \in Names, NEW id
      PROVE  SourceOf(<<name, id>>).name = name /\ Scored(SourceOf(<<name, id>>))
  BY SourceRowOf
<1> QED
  BY <1>1, SourceRows

\* Candidates of different sources have different ranks.
LEMMA RanksApart ==
  ASSUME NEW name \in Names, NEW id, NEW other \in Names \ {name}, NEW id2
  PROVE  SourceOf(<<other, id2>>).rank # SourceOf(<<name, id>>).rank
<1>1. PICK k \in 1..11 : SourceOf(<<name, id>>) = Sources[k] /\ Sources[k].name = name
  BY SourceRowOf
<1>2. PICK j \in 1..11 : SourceOf(<<other, id2>>) = Sources[j] /\ Sources[j].name = other
  BY SourceRowOf
<1>3. Sources[j].rank # Sources[k].rank
  <2>1. j # k
    BY <1>1, <1>2
  <2>2. \A m, n \in 1..11 : m # n => Sources[m].rank # Sources[n].rank
    BY SourceRows
  <2> QED
    BY <2>1, <2>2
<1> QED
  BY <1>1, <1>2, <1>3

-----------------------------------------------------------------------------

\* The fixpoint that DoubledOften names exists.
LEMMA DoubledOftenFacts ==
  /\ DoubledOften \in [Nat -> Nat \ {0}]
  /\ DoubledOften[0] = 1
  /\ \A n \in Nat : DoubledOften[n + 1] = 2 * DoubledOften[n]
<1> DEFINE Doubles(g, m) == g[0] = 1 /\ \A k \in 0..m : k # 0 => g[k] = 2 * g[k - 1]
           Upto(m) == {g \in [0..m -> Nat \ {0}] : Doubles(g, m)}
           Missing == {m \in Nat : Upto(m) = {}}
<1>1. Missing = {}
  <2> SUFFICES ASSUME Missing # {} PROVE FALSE
    OBVIOUS
  <2>1. PICK m \in Missing : \A n \in Missing : m <= n
    <3>1. Missing \in SUBSET Nat
      OBVIOUS
    <3> QED
      BY <3>1, LeastOf
  <2>2. CASE m = 0
    <3> DEFINE g == [k \in 0..0 |-> 1]
    <3>1. 0..0 = {0}
      OBVIOUS
    <3>2. g \in [0..0 -> Nat \ {0}] /\ g[0] = 1
      BY <3>1
    <3> HIDE DEF g
    <3>3. g \in Upto(0)
      BY <3>1, <3>2
    <3> QED
      BY <2>1, <2>2, <3>3
  <2>3. CASE m # 0
    <3>1. m - 1 \in Nat /\ m - 1 \notin Missing /\ m \in Nat
      <4>1. m \in Nat
        OBVIOUS
      <4>2. m - 1 \in Nat /\ ~(m <= m - 1)
        BY <2>3, <4>1
      <4> HIDE DEF Missing
      <4> QED
        BY <2>1, <4>1, <4>2
    <3>2. PICK g \in [0..(m - 1) -> Nat \ {0}] : Doubles(g, m - 1)
      BY <3>1
    <3> DEFINE h == [k \in 0..m |-> IF k = m THEN 2 * g[m - 1] ELSE g[k]]
    <3>3. h \in [0..m -> Nat \ {0}]
      BY <3>1, <3>2
    <3>4. h[0] = 1
      BY <2>3, <3>1, <3>2
    <3>5. ASSUME NEW k \in 0..m, k # 0 PROVE h[k] = 2 * h[k - 1]
      <4>1. k - 1 \in 0..m /\ k - 1 # m /\ k \in 0..m /\ m - 1 # m
        BY <3>1, <3>5
      <4>2. h[k - 1] = g[k - 1]
        BY <4>1
      <4>3. CASE k = m
        BY <4>2, <4>3
      <4>4. CASE k # m
        <5>1. k \in 0..(m - 1)
          BY <3>1, <3>5, <4>4
        <5>2. h[k] = g[k]
          BY <4>4
        <5> HIDE DEF h
        <5> QED
          BY <3>2, <3>5, <4>2, <5>1, <5>2
      <4> QED
        BY <4>3, <4>4
    <3>6. Doubles(h, m)
      BY <3>4, <3>5
    <3>7. Upto(m) = {}
      BY <2>1
    <3> HIDE DEF h
    <3> QED
      BY <3>3, <3>6, <3>7
  <2> QED
    BY <2>2, <2>3
<1>2. \A m, n \in Nat : \A g \in Upto(m), h \in Upto(n) : \A k \in Nat : k <= m /\ k <= n => g[k] = h[k]
  <2> TAKE m, n \in Nat
  <2> TAKE g \in Upto(m), h \in Upto(n)
  <2> DEFINE Differ == {k \in Nat : k <= m /\ k <= n /\ g[k] # h[k]}
  <2> SUFFICES ASSUME Differ # {} PROVE FALSE
    OBVIOUS
  <2>1. PICK k \in Differ : \A j \in Differ : k <= j
    <3>1. Differ \in SUBSET Nat
      OBVIOUS
    <3> QED
      BY <3>1, LeastOf
  <2>2. k # 0 /\ k \in Nat /\ k <= m /\ k <= n /\ g[k] # h[k]
    BY <2>1
  <2>3. k - 1 \in Nat /\ k - 1 \notin Differ
    BY <2>1, <2>2
  <2>4. g[k - 1] = h[k - 1]
    BY <2>2, <2>3
  <2>5. g[k] = 2 * g[k - 1] /\ h[k] = 2 * h[k - 1]
    BY <2>2
  <2> QED
    BY <2>2, <2>4, <2>5
<1> DEFINE g(n) == CHOOSE g \in Upto(n) : TRUE
           f == [n \in Nat |-> g(n)[n]]
           Fix(h) == h = [n \in Nat |-> IF n = 0 THEN 1 ELSE 2 * h[n - 1]]
<1>3. \A n \in Nat : g(n) \in Upto(n)
  BY <1>1
<1>4. f \in [Nat -> Nat \ {0}] /\ f[0] = 1 /\ \A n \in Nat : n # 0 => f[n] = 2 * f[n - 1]
  <2>1. \A n \in Nat : g(n) \in [0..n -> Nat \ {0}] /\ Doubles(g(n), n)
    BY <1>3
  <2>2. \A n \in Nat : g(n)[n] \in Nat \ {0} /\ g(n)[0] = 1
    BY <2>1
  <2>3. ASSUME NEW n \in Nat, n # 0 PROVE f[n] = 2 * f[n - 1]
    <3>1. g(n)[n] = 2 * g(n)[n - 1]
      <4>1. Doubles(g(n), n)
        BY <2>1
      <4>2. n \in 0..n
        OBVIOUS
      <4> HIDE DEF g
      <4> QED
        BY <2>3, <4>1, <4>2
    <3>2. n - 1 \in Nat /\ n - 1 <= n
      BY <2>3
    <3>3. g(n)[n - 1] = g(n - 1)[n - 1]
      <4> HIDE DEF Upto, g
      <4> QED
        BY <1>2, <1>3, <3>2
    <3> HIDE DEF g
    <3> QED
      BY <3>1, <3>2, <3>3
  <2> HIDE DEF g
  <2> QED
    BY <2>2, <2>3
<1>5. Fix(f)
  <2> HIDE DEF f
  <2> QED
    BY <1>4
<1>6. DoubledOften = CHOOSE h : Fix(h)
  BY DEF DoubledOften
<1>7. Fix(DoubledOften)
  BY <1>5, <1>6
<1>8. DoubledOften = f
  <2> DEFINE Differ == {n \in Nat : DoubledOften[n] # f[n]}
  <2>1. \A n \in Nat : DoubledOften[n] = IF n = 0 THEN 1 ELSE 2 * DoubledOften[n - 1]
    BY <1>7
  <2>2. ASSUME Differ # {} PROVE FALSE
    <3>1. PICK n \in Differ : \A m \in Differ : n <= m
      <4>1. Differ \in SUBSET Nat
        OBVIOUS
      <4> QED
        BY <2>2, <4>1, LeastOf
    <3> HIDE DEF f
    <3>2. n # 0 /\ n \in Nat
      BY <1>4, <2>1
    <3>3. n - 1 \in Nat /\ n - 1 \notin Differ
      BY <3>1, <3>2
    <3> QED
      BY <1>4, <2>1, <3>2, <3>3
  <2>3. DoubledOften = [n \in Nat |-> DoubledOften[n]]
    BY <1>7
  <2> HIDE DEF f
  <2>4. f = [n \in Nat |-> f[n]]
    BY <1>4
  <2> QED
    BY <2>2, <2>3, <2>4
<1> HIDE DEF f
<1>9. \A n \in Nat : n + 1 \in Nat /\ n + 1 # 0 /\ (n + 1) - 1 = n
  OBVIOUS
<1> QED
  BY <1>4, <1>8, <1>9

\* In a total order a finite set has a best element.
LEMMA BestOf ==
  ASSUME NEW S, IsFiniteSet(S), S # {}, NEW over,
         \A x \in S : <<x, x>> \notin over,
         \A x, y, z \in S : <<x, y>> \in over /\ <<y, z>> \in over => <<x, z>> \in over,
         \A x, y \in S : x # y => <<x, y>> \in over \/ <<y, x>> \in over
  PROVE  \E x \in S : \A y \in S \ {x} : <<x, y>> \in over
<1> DEFINE Better(x) == {y \in S : <<y, x>> \in over}
           Ranks == {Cardinality(Better(x)) : x \in S}
<1>1. \A x \in S : IsFiniteSet(Better(x)) /\ Cardinality(Better(x)) \in Nat
  <2> TAKE x \in S
  <2>1. Better(x) \in SUBSET S
    OBVIOUS
  <2> QED
    BY <2>1, FS_Subset, FS_CardinalityType
<1>2. Ranks \in SUBSET Nat /\ Ranks # {}
  <2> HIDE DEF Better
  <2> QED
    BY <1>1
<1>3. PICK c \in Ranks : \A d \in Ranks : c <= d
  BY <1>2, LeastOf
<1>4. PICK x \in S : c = Cardinality(Better(x))
  BY <1>3
<1>5. ASSUME NEW y \in S \ {x} PROVE <<x, y>> \in over
  <2> SUFFICES ASSUME <<y, x>> \in over PROVE FALSE
    OBVIOUS
  <2>1. Better(y) \in SUBSET (Better(x) \ {y}) /\ y \in Better(x)
    OBVIOUS
  <2>2. IsFiniteSet(Better(x)) /\ Cardinality(Better(x) \ {y}) = Cardinality(Better(x)) - 1 /\ IsFiniteSet(Better(x) \ {y})
    BY <1>1, <2>1, FS_RemoveElement
  <2>3. Cardinality(Better(y)) <= Cardinality(Better(x) \ {y})
    BY <2>1, <2>2, FS_Subset
  <2>4. Cardinality(Better(y)) \in Ranks /\ Cardinality(Better(y)) \in Nat /\ Cardinality(Better(x)) \in Nat
    <3> HIDE DEF Better
    <3> QED
      BY <1>1
  <2> HIDE DEF Better, Ranks
  <2>5. c <= Cardinality(Better(y))
    BY <1>3, <2>4
  <2> QED
    BY <1>4, <2>2, <2>3, <2>4, <2>5
<1> QED
  BY <1>5

LEMMA DoubledMore ==
  ASSUME NEW m \in Nat, NEW n \in Nat, m <= n
  PROVE  DoubledOften[m] <= DoubledOften[n]
<1> DEFINE Bad == {k \in Nat : m <= k /\ ~(DoubledOften[m] <= DoubledOften[k])}
<1>1. \A k \in Nat : DoubledOften[k] \in Nat
  BY DoubledOftenFacts
<1>2. SUFFICES ASSUME Bad # {} PROVE FALSE
  OBVIOUS
<1>3. PICK k \in Bad : \A j \in Bad : k <= j
  <2>1. Bad \in SUBSET Nat
    OBVIOUS
  <2> QED
    BY <1>2, <2>1, LeastOf
<1>4. k # m /\ k \in Nat /\ m <= k /\ ~(DoubledOften[m] <= DoubledOften[k])
  BY <1>1
<1>5. k - 1 \in Nat /\ m <= k - 1 /\ ~(k <= k - 1) /\ (k - 1) + 1 = k
  BY <1>4
<1>6. k - 1 \notin Bad
  BY <1>3, <1>5
<1>7. DoubledOften[m] <= DoubledOften[k - 1]
  BY <1>5, <1>6
<1>8. DoubledOften[(k - 1) + 1] = 2 * DoubledOften[k - 1]
  BY <1>5, DoubledOftenFacts
<1>9. DoubledOften[k] = 2 * DoubledOften[k - 1]
  BY <1>5, <1>8
<1> QED
  BY <1>1, <1>4, <1>5, <1>7, <1>9

-----------------------------------------------------------------------------
Keyed == Names \X Nat
OfActivity ==
  [kind : {"activity_started", "experience", "activity_finished", "goal_opened"}, session : Engines, key : Keyed,
   result : {"unknown", "success", "failure"}, stuck : BOOLEAN, start : Nat, offered : SUBSET Keyed]
FromElsewhere ==
  [kind : {"experience"}, session : {"elsewhere"}, key : {<<"none", 0>>},
   result : {"unknown", "success"}, stuck : {FALSE}, start : {0}, offered : {{}}]
Entry == OfActivity \cup FromElsewhere
PastEntry == [kind : {"goal_opened", "reflection", "sensor"}]
Session ==
  [at : {"idle", "run", "finish"}, key : Keyed \cup {<<"none", 0>>}, start : Nat,
   result : {"unknown", "success", "failure"}, recent : Seq(Keyed), tried : Seq(Keyed \X {"success", "failure"}),
   avoid : SUBSET Keyed]
Everything == UNION {evidence[name] : name \in Names}

SelectionTypeOK ==
  /\ diary \in Seq(Entry \cup PastEntry)
  /\ evidence \in [Names -> SUBSET Nat] /\ IsFiniteSet(Everything)
  /\ engine \in [Engines -> Session]
  /\ \A s \in Engines : (engine[s].at # "idle" => engine[s].key \in Keyed) /\ Len(engine[s].recent) <= RecentWindow

LEMMA GeneratedFacts ==
  ASSUME SelectionTypeOK
  PROVE  Generated \in SUBSET Keyed /\ IsFiniteSet(Generated)
<1>1. IsFiniteSet(Names)
  <2> DEFINE nameOf == [k \in 1..11 |-> Sources[k].name]
  <2>1. Names = {Sources[k].name : k \in 1..11}
    BY SourceFacts DEF Names
  <2>2. nameOf \in Surjection(1..11, Names)
    BY <2>1 DEF Surjection
  <2>3. IsFiniteSet(1..11)
    <3>1. 1 \in Int /\ 11 \in Int
      OBVIOUS
    <3> QED
      BY <3>1, FS_Interval
  <2> QED
    BY <2>2, <2>3, FS_Surjection
<1>2. Everything \in SUBSET Nat /\ \A name \in Names : evidence[name] \subseteq Everything
  BY DEF Everything, SelectionTypeOK
<1>3. \A x \in Gatherings : \E k \in 1..11 : x[1] = k /\ x[2] \in Everything
  <2> TAKE x \in Gatherings
  <2>1. PICK k \in DOMAIN Sources : \E id \in Newest(evidence[Sources[k].name], Sources[k].quota) : x = <<k, id>>
    BY DEF Gatherings
  <2>2. k \in 1..11 /\ Sources[k].name \in Names
    BY SourceFacts DEF Names
  <2>3. PICK id \in evidence[Sources[k].name] : x = <<k, id>>
    BY <2>1 DEF Newest
  <2> QED
    BY <1>2, <2>2, <2>3
<1>4. Generated \in SUBSET (Names \X Everything)
  <2> SUFFICES ASSUME NEW x \in Gatherings PROVE <<Sources[x[1]].name, x[2]>> \in Names \X Everything
    BY DEF Generated
  <2>1. PICK k \in 1..11 : x[1] = k /\ x[2] \in Everything
    BY <1>3
  <2>2. Sources[k].name \in Names
    BY SourceFacts DEF Names
  <2> QED
    BY <2>1, <2>2
<1>5. IsFiniteSet(Names \X Everything)
  BY <1>1, FS_Product DEF SelectionTypeOK
<1> QED
  BY <1>2, <1>4, <1>5, FS_Subset DEF Keyed

LEMMA RepeatsFacts ==
  ASSUME SelectionTypeOK, NEW s \in Engines, NEW key
  PROVE  Repeats(s, key) \in 0..RecentWindow /\ RecentWindow - Repeats(s, key) \in Nat
<1>1. engine[s].recent \in Seq(Keyed) /\ Len(engine[s].recent) <= RecentWindow /\ Len(engine[s].recent) \in Nat
  BY DEF SelectionTypeOK, Session
<1>2. DOMAIN engine[s].recent = 1..Len(engine[s].recent)
  BY <1>1
<1>3. IsFiniteSet(1..Len(engine[s].recent)) /\ Cardinality(1..Len(engine[s].recent)) = Len(engine[s].recent)
  BY <1>1, FS_Interval
<1>4. {i \in DOMAIN engine[s].recent : engine[s].recent[i] = key} \in SUBSET (1..Len(engine[s].recent))
  BY <1>2
<1>5. Repeats(s, key) \in Nat /\ Repeats(s, key) <= Len(engine[s].recent)
  BY <1>3, <1>4, FS_Subset, FS_CardinalityType DEF Repeats
<1> QED
  BY <1>1, <1>5, SelectionAssumption

LEMMA BonusFacts ==
  ASSUME NEW key
  PROVE  Bonus(key) \in {7, 10, 11, 12}
BY DEF Bonus

\* The factors of a score, without the recent repeats.
LEMMA WeightFacts ==
  ASSUME NEW key \in Keyed
  PROVE  /\ SourceOf(key).score * Bonus(key) \in Nat
         /\ 35490 <= SourceOf(key).score * Bonus(key) /\ SourceOf(key).score * Bonus(key) <= 82200
<1>1. key = <<key[1], key[2]>> /\ key[1] \in Names
  BY DEF Keyed
<1>2. SourceOf(key).score \in Nat /\ SourceOf(key).score >= 5070 /\ SourceOf(key).score <= 6850
  BY <1>1, SourceFacts DEF Scored
<1>3. \A score \in Nat : \A bonus \in {7, 10, 11, 12} : score >= 5070 /\ score <= 6850 =>
        score * bonus \in Nat /\ 35490 <= score * bonus /\ score * bonus <= 82200
  OBVIOUS
<1> QED
  BY <1>2, <1>3, BonusFacts

LEMMA ScoreFacts ==
  ASSUME SelectionTypeOK, NEW s \in Engines, NEW key \in Keyed
  PROVE  /\ Score(s, key) \in Nat
         /\ LET rest == DoubledOften[RecentWindow - Repeats(s, key)]
            IN  /\ rest \in Nat \ {0} /\ Score(s, key) <= 82200 * rest
                /\ key \notin engine[s].avoid => 35490 * rest <= Score(s, key)
<1> DEFINE rest == DoubledOften[RecentWindow - Repeats(s, key)]
           weight == SourceOf(key).score * Bonus(key)
<1>1. rest \in Nat \ {0}
  BY RepeatsFacts, DoubledOftenFacts
<1>2. weight \in Nat /\ 35490 <= weight /\ weight <= 82200
  BY WeightFacts
<1>3. Score(s, key) = IF key \in engine[s].avoid THEN 0 ELSE weight * rest
  BY DEF Score
<1> HIDE DEF rest, weight
<1>4. weight * rest \in Nat /\ 35490 * rest <= weight * rest /\ weight * rest <= 82200 * rest /\ 0 <= 82200 * rest
  BY <1>1, <1>2
<1>5. Score(s, key) \in Nat /\ Score(s, key) <= 82200 * rest /\ (key \notin engine[s].avoid => 35490 * rest <= Score(s, key))
  BY <1>3, <1>4
<1> QED
  BY <1>1, <1>5 DEF rest

LEMMA BeatsIs ==
  ASSUME NEW a, NEW b, NEW c, NEW d, NEW e, NEW f, NEW g, NEW h
  PROVE  Beats(<<a, b, c, d>>, <<e, f, g, h>>)
           <=> a > e \/ (a = e /\ (b > f \/ (b = f /\ (c > g \/ (c = g /\ d > h)))))
<1> DEFINE x == <<a, b, c, d>>
           y == <<e, f, g, h>>
<1>1. DOMAIN x = {1, 2, 3, 4} /\ x[1] = a /\ x[2] = b /\ x[3] = c /\ x[4] = d /\ y[1] = e /\ y[2] = f /\ y[3] = g /\ y[4] = h
  OBVIOUS
<1>2. 1..(1 - 1) = {} /\ 1..(2 - 1) = {1} /\ 1..(3 - 1) = {1, 2} /\ 1..(4 - 1) = {1, 2, 3}
  OBVIOUS
<1> HIDE DEF x, y
<1>3. Beats(x, y) <=> x[1] > y[1] \/ (x[2] > y[2] /\ x[1] = y[1]) \/ (x[3] > y[3] /\ x[1] = y[1] /\ x[2] = y[2])
                      \/ (x[4] > y[4] /\ x[1] = y[1] /\ x[2] = y[2] /\ x[3] = y[3])
  <2>1. (\A j \in 1..(1 - 1) : x[j] = y[j]) <=> TRUE
    BY <1>2
  <2>2. (\A j \in 1..(2 - 1) : x[j] = y[j]) <=> x[1] = y[1]
    BY <1>2
  <2>3. (\A j \in 1..(3 - 1) : x[j] = y[j]) <=> x[1] = y[1] /\ x[2] = y[2]
    BY <1>2
  <2>4. (\A j \in 1..(4 - 1) : x[j] = y[j]) <=> x[1] = y[1] /\ x[2] = y[2] /\ x[3] = y[3]
    BY <1>2
  <2> DEFINE P(i) == x[i] > y[i] /\ \A j \in 1..(i - 1) : x[j] = y[j]
  <2>5. Beats(x, y) <=> P(1) \/ P(2) \/ P(3) \/ P(4)
    <3>1. Beats(x, y) <=> \E i \in {1, 2, 3, 4} : P(i)
      BY <1>1 DEF Beats
    <3> HIDE DEF P
    <3> QED
      BY <3>1
  <2> QED
    BY <2>1, <2>2, <2>3, <2>4, <2>5
<1>4. Beats(x, y) <=> a > e \/ (b > f /\ a = e) \/ (c > g /\ a = e /\ b = f) \/ (d > h /\ a = e /\ b = f /\ c = g)
  BY <1>1, <1>3
<1>5. Beats(x, y) <=> a > e \/ (a = e /\ (b > f \/ (b = f /\ (c > g \/ (c = g /\ d > h)))))
  BY <1>4
<1> QED
  BY <1>5 DEF x, y

\* No two candidates have the same standing.
LEMMA StandingFacts ==
  ASSUME SelectionTypeOK, NEW s \in Engines
  PROVE  /\ \A key \in Keyed : /\ Score(s, key) \in Int /\ SourceOf(key).novelty \in Int /\ SourceOf(key).rank \in Int
                               /\ StringOrder(key[2]) \in Int
         /\ \A key, other \in Keyed : key # other =>
              SourceOf(key).rank # SourceOf(other).rank \/ StringOrder(key[2]) # StringOrder(other[2])
<1>1. \A key \in Keyed : key = <<key[1], key[2]>> /\ key[1] \in Names /\ key[2] \in Nat
  BY DEF Keyed
<1>2. \A i \in Nat : StringOrder(i) \in Int
  BY DEF StringOrder
<1>3. \A i, j \in Nat : i # j => StringOrder(i) # StringOrder(j)
  BY DEF StringOrder
<1>4. ASSUME NEW key \in Keyed
      PROVE  /\ Score(s, key) \in Int /\ SourceOf(key).novelty \in Int /\ SourceOf(key).rank \in Int
             /\ StringOrder(key[2]) \in Int
  <2>1. Score(s, key) \in Nat
    BY ScoreFacts
  <2>2. Scored(SourceOf(key))
    BY <1>1, SourceFacts
  <2> QED
    BY <1>1, <1>2, <2>1, <2>2 DEF Scored
<1>5. ASSUME NEW key \in Keyed, NEW other \in Keyed, key # other
      PROVE  SourceOf(key).rank # SourceOf(other).rank \/ StringOrder(key[2]) # StringOrder(other[2])
  <2>1. CASE key[1] # other[1]
    <3>1. PICK name, id : name \in Names /\ key = <<name, id>> /\ name = key[1]
      BY <1>1
    <3>2. PICK name2, id2 : name2 \in Names /\ other = <<name2, id2>> /\ name2 = other[1]
      BY <1>1
    <3>3. name2 \in Names \ {name}
      BY <2>1, <3>1, <3>2
    <3>4. SourceOf(<<name2, id2>>).rank # SourceOf(<<name, id>>).rank
      BY <3>1, <3>3, RanksApart
    <3> QED
      BY <3>1, <3>2, <3>4
  <2>2. CASE key[1] = other[1]
    BY <1>1, <1>3, <1>5, <2>2
  <2> QED
    BY <2>1, <2>2
<1> QED
  BY <1>4, <1>5

\* There is a candidate that beats the others, so select_activity selects it.
LEMMA SelectedFacts ==
  ASSUME SelectionTypeOK, NEW s \in Engines, Generated # {}
  PROVE  /\ Selected(s) \in Generated /\ Selected(s) \in Keyed
         /\ \A other \in Generated \ {Selected(s)} : Score(s, other) <= Score(s, Selected(s))
<1> DEFINE over == {p \in Keyed \X Keyed : Beats(Standing(s, p[1]), Standing(s, p[2]))}
           A(k) == Score(s, k)
           B(k) == SourceOf(k).novelty
           C(k) == SourceOf(k).rank
           D(k) == StringOrder(k[2])
<1>1. \A x, y \in Keyed : Beats(Standing(s, x), Standing(s, y))
        <=> A(x) > A(y) \/ (A(x) = A(y) /\ (B(x) > B(y) \/ (B(x) = B(y) /\ (C(x) > C(y) \/ (C(x) = C(y) /\ D(x) > D(y))))))
  BY BeatsIs DEF Standing
<1>2. \A x \in Keyed : A(x) \in Int /\ B(x) \in Int /\ C(x) \in Int /\ D(x) \in Int
  BY StandingFacts
<1>3. \A x, y \in Keyed : x # y => C(x) # C(y) \/ D(x) # D(y)
  BY StandingFacts
<1>4. \A x, y \in Keyed : <<x, y>> \in over <=> Beats(Standing(s, x), Standing(s, y))
  OBVIOUS
<1> HIDE DEF over, A, B, C, D
<1>5. /\ \A x \in Generated : <<x, x>> \notin over
      /\ \A x, y, z \in Generated : <<x, y>> \in over /\ <<y, z>> \in over => <<x, z>> \in over
      /\ \A x, y \in Generated : x # y => <<x, y>> \in over \/ <<y, x>> \in over
  <2>1. Generated \subseteq Keyed
    BY GeneratedFacts
  <2>2. ASSUME NEW x \in Keyed PROVE <<x, x>> \notin over
    BY <1>1, <1>2, <1>4
  <2>3. ASSUME NEW x \in Keyed, NEW y \in Keyed, NEW z \in Keyed, <<x, y>> \in over, <<y, z>> \in over PROVE <<x, z>> \in over
    BY <1>1, <1>2, <1>4, <2>3
  <2>4. ASSUME NEW x \in Keyed, NEW y \in Keyed, x # y PROVE <<x, y>> \in over \/ <<y, x>> \in over
    BY <1>1, <1>2, <1>3, <1>4, <2>4
  <2> QED
    BY <2>1, <2>2, <2>3, <2>4
<1>6. \E x \in Generated : \A y \in Generated \ {x} : <<x, y>> \in over
  BY <1>5, GeneratedFacts, BestOf
<1>7. \E x \in Generated : \A y \in Generated \ {x} : Beats(Standing(s, x), Standing(s, y))
  BY <1>4, <1>6, GeneratedFacts
<1>8. Selected(s) \in Generated /\ \A y \in Generated \ {Selected(s)} : Beats(Standing(s, Selected(s)), Standing(s, y))
  BY <1>7 DEF Selected
<1>9. \A y \in Generated \ {Selected(s)} : A(y) <= A(Selected(s))
  BY <1>1, <1>2, <1>8, GeneratedFacts
<1> QED
  BY <1>8, <1>9, GeneratedFacts DEF A

\* The selection is no candidate that was repeated two times more often than
\* another one.
LEMMA FairlySelected ==
  ASSUME SelectionTypeOK, NEW s \in Engines, Generated # {}, NEW other \in Generated \ engine[s].avoid
  PROVE  Repeats(s, Selected(s)) <= Repeats(s, other) + 1
<1> DEFINE key == Selected(s)
           W == RecentWindow
           p == W - Repeats(s, key)
           q == W - Repeats(s, other)
<1>1. key \in Keyed /\ other \in Keyed
  BY SelectedFacts, GeneratedFacts
<1>2. /\ Repeats(s, key) \in Nat /\ Repeats(s, other) \in Nat /\ p \in Nat /\ q \in Nat /\ W \in Nat
  BY RepeatsFacts, SelectionAssumption
<1>3. Score(s, key) <= 82200 * DoubledOften[p] /\ 35490 * DoubledOften[q] <= Score(s, other)
      /\ Score(s, key) \in Nat /\ Score(s, other) \in Nat
  BY <1>1, ScoreFacts
<1>4. SUFFICES ASSUME Repeats(s, key) > Repeats(s, other) + 1 PROVE FALSE
  BY <1>2
<1>5. p + 2 <= q
  BY <1>2, <1>4
<1> HIDE DEF key, p, q, W
<1>6. key # other
  BY <1>2, <1>4
<1>7. Score(s, other) <= Score(s, key)
  BY <1>6, SelectedFacts DEF key
<1>8. DoubledOften[p + 2] <= DoubledOften[q] /\ DoubledOften[p + 2] = 4 * DoubledOften[p]
  <2>1. p + 2 \in Nat /\ p + 1 \in Nat /\ (p + 1) + 1 = p + 2
    BY <1>2
  <2>2. DoubledOften[p + 2] <= DoubledOften[q]
    BY <1>2, <1>5, <2>1, DoubledMore
  <2>3. DoubledOften[p + 1] = 2 * DoubledOften[p] /\ DoubledOften[(p + 1) + 1] = 2 * DoubledOften[p + 1] /\ DoubledOften[p] \in Nat
    BY <1>2, <2>1, DoubledOftenFacts
  <2> QED
    BY <2>1, <2>2, <2>3
<1>9. DoubledOften[p] \in Nat \ {0} /\ DoubledOften[q] \in Nat
  BY <1>2, DoubledOftenFacts
<1> QED
  BY <1>3, <1>7, <1>8, <1>9

-----------------------------------------------------------------------------
(* The steps of a session, and what they leave typed. *)

Diaries == Seq(Entry \cup PastEntry)

\* What one event more, or two, do to the ids of a kind.
LEMMA Appended ==
  ASSUME NEW log \in Diaries, NEW e \in Entry
  PROVE  /\ Append(log, e) \in Diaries /\ Len(Append(log, e)) = Len(log) + 1 /\ Len(log) \in Nat
         /\ DOMAIN log = 1..Len(log) /\ DOMAIN Append(log, e) = 1..(Len(log) + 1)
         /\ (\A i \in 1..Len(log) : Append(log, e)[i] = log[i]) /\ Append(log, e)[Len(log) + 1] = e
         /\ \A kind : IdsOfKind(Append(log, e), kind)
                        = IF e.kind = kind THEN IdsOfKind(log, kind) \cup {Len(log) + 1} ELSE IdsOfKind(log, kind)
<1>1. /\ Append(log, e) \in Diaries /\ Len(Append(log, e)) = Len(log) + 1 /\ Len(log) \in Nat
      /\ DOMAIN log = 1..Len(log) /\ DOMAIN Append(log, e) = 1..(Len(log) + 1)
      /\ (\A i \in 1..Len(log) : Append(log, e)[i] = log[i]) /\ Append(log, e)[Len(log) + 1] = e
  BY DEF Diaries
<1> DEFINE new == Append(log, e)
<1> HIDE DEF new
<1>2. ASSUME NEW kind PROVE IdsOfKind(new, kind) = IF e.kind = kind THEN IdsOfKind(log, kind) \cup {Len(log) + 1} ELSE IdsOfKind(log, kind)
  <2>1. DOMAIN new = (DOMAIN log) \cup {Len(log) + 1} /\ (\A i \in DOMAIN log : new[i] = log[i]) /\ new[Len(log) + 1] = e
    BY <1>1 DEF new
  <2> QED
    BY <2>1 DEF IdsOfKind
<1> QED
  BY <1>1, <1>2 DEF new

\* Ids of the kinds that only the engine records are of entries.
LEMMA EntriesOfKind ==
  ASSUME NEW log \in Diaries, NEW kind \in {"activity_started", "experience", "activity_finished"}
  PROVE  /\ IdsOfKind(log, kind) \in SUBSET Nat /\ IsFiniteSet(IdsOfKind(log, kind))
         /\ \A i \in IdsOfKind(log, kind) : i \in DOMAIN log /\ i \in 1..Len(log) /\ log[i] \in Entry /\ log[i].kind = kind
<1>1. DOMAIN log = 1..Len(log) /\ Len(log) \in Nat
  BY DEF Diaries
<1>2. IdsOfKind(log, kind) \in SUBSET (1..Len(log))
  BY <1>1 DEF IdsOfKind
<1>3. IsFiniteSet(1..Len(log))
  <2>1. 1 \in Int /\ Len(log) \in Int
    BY <1>1
  <2> QED
    BY <2>1, FS_Interval
<1>4. ASSUME NEW i \in IdsOfKind(log, kind) PROVE i \in DOMAIN log /\ i \in 1..Len(log) /\ log[i] \in Entry /\ log[i].kind = kind
  <2>1. i \in DOMAIN log /\ log[i].kind = kind /\ log[i] \in Entry \cup PastEntry
    BY <1>1 DEF IdsOfKind, Diaries
  <2> QED
    BY <1>1, <2>1 DEF PastEntry
<1> QED
  BY <1>1, <1>2, <1>3, <1>4, FS_Subset

LEMMA NowFacts ==
  ASSUME SelectionTypeOK, NEW s \in Engines, NEW state \in Session, Now(s, state),
         state.at # "idle" => state.key \in Keyed, Len(state.recent) <= RecentWindow
  PROVE  /\ engine' \in [Engines -> Session] /\ engine'[s] = state /\ \A t \in Engines \ {s} : engine'[t] = engine[t]
         /\ \A t \in Engines : (engine'[t].at # "idle" => engine'[t].key \in Keyed) /\ Len(engine'[t].recent) <= RecentWindow
<1>1. engine' = [engine EXCEPT ![s] = state]
  BY DEF Now
<1>2. engine' \in [Engines -> Session] /\ engine'[s] = state /\ \A t \in Engines \ {s} : engine'[t] = engine[t]
  BY <1>1 DEF SelectionTypeOK
<1> QED
  BY <1>2 DEF SelectionTypeOK

LEMMA OfferedEntry ==
  ASSUME NEW s \in Engines, NEW key \in Keyed, NEW keys \in SUBSET Keyed
  PROVE  LET e == [Happening("activity_started", s, key) EXCEPT !.offered = keys]
         IN  e \in Entry /\ e.kind = "activity_started" /\ e.session = s /\ e.key = key /\ e.offered = keys
BY DEF Happening, Entry, OfActivity

LEMMA OtherEntries ==
  ASSUME NEW s \in Engines, engine[s].key \in Keyed, engine[s].result \in {"unknown", "success", "failure"}, NEW stuck \in BOOLEAN
  PROVE  /\ Ended(s, stuck) \in Entry /\ Ended(s, stuck).kind = "activity_finished"
         /\ Happening("goal_opened", s, engine[s].key) \in Entry /\ Happening("goal_opened", s, engine[s].key).kind = "goal_opened"
BY DEF Ended, Happening, Entry, OfActivity

\* What Choose does to the diary and to its session.
LEMMA ChooseDoes ==
  ASSUME SelectionTypeOK, NEW s \in Engines, Choose(s)
  PROVE  /\ SelectionTypeOK' /\ UNCHANGED lessons /\ engine[s].at = "idle" /\ Generated # {}
         /\ \E e \in Entry :
              /\ diary' = Append(diary, e) /\ e.kind = "activity_started" /\ e.session = s
              /\ e.key = Selected(s) /\ e.offered = Generated \ engine[s].avoid
         /\ engine'[s].at = "run" /\ engine'[s].start = Len(diary) + 1 /\ engine'[s].key = Selected(s)
         /\ engine'[s].recent = engine[s].recent
         /\ \A t \in Engines \ {s} : engine'[t] = engine[t]
<1>1. engine[s].at = "idle" /\ Generated # {} /\ UNCHANGED <<evidence, lessons>>
  BY DEF Choose
<1>2. Selected(s) \in Keyed /\ Generated \subseteq Keyed
  BY <1>1, SelectedFacts, GeneratedFacts
<1> DEFINE e == [Happening("activity_started", s, Selected(s)) EXCEPT !.offered = Generated \ engine[s].avoid]
           state == [engine[s] EXCEPT !.at = "run", !.key = Selected(s), !.start = Len(diary')]
<1>3. e \in Entry /\ e.kind = "activity_started" /\ e.session = s /\ e.key = Selected(s) /\ e.offered = Generated \ engine[s].avoid
  <2>1. Generated \ engine[s].avoid \in SUBSET Keyed
    BY <1>2
  <2> QED
    BY <1>2, <2>1, OfferedEntry
<1>4. diary' = Append(diary, e)
  BY DEF Choose, Noticed
<1>5. Now(s, state)
  BY DEF Choose
<1> HIDE DEF e
<1>6. diary \in Diaries /\ diary' \in Diaries /\ Len(diary') = Len(diary) + 1 /\ Len(diary') \in Nat
  <2>1. diary \in Diaries
    BY DEF SelectionTypeOK, Diaries
  <2> QED
    BY <1>3, <1>4, <2>1, Appended
<1>7. engine[s] \in Session /\ Len(engine[s].recent) <= RecentWindow
  BY DEF SelectionTypeOK
<1>8. /\ state \in Session /\ state.at = "run" /\ state.key = Selected(s) /\ state.start = Len(diary) + 1
      /\ state.recent = engine[s].recent
  BY <1>2, <1>6, <1>7 DEF Session
<1> HIDE DEF state
<1>9. /\ engine' \in [Engines -> Session] /\ engine'[s] = state /\ \A t \in Engines \ {s} : engine'[t] = engine[t]
      /\ \A t \in Engines : (engine'[t].at # "idle" => engine'[t].key \in Keyed) /\ Len(engine'[t].recent) <= RecentWindow
  BY <1>2, <1>5, <1>7, <1>8, NowFacts
<1>10. SelectionTypeOK'
  BY <1>1, <1>6, <1>9 DEF SelectionTypeOK, Everything, Diaries
<1> QED
  BY <1>1, <1>3, <1>4, <1>8, <1>9, <1>10

\* What is remembered of the keys: one more, and no more than the window holds.
LEMMA RememberedFacts ==
  ASSUME NEW keys \in Seq(Keyed), NEW key \in Keyed, Len(keys) <= RecentWindow
  PROVE  LET kept == Remembered(Append(keys, key))
             dropped == IF Len(keys) < RecentWindow THEN 0 ELSE 1
         IN  /\ kept \in Seq(Keyed) /\ Len(kept) = Len(keys) + 1 - dropped /\ Len(kept) <= RecentWindow
             /\ kept[Len(kept)] = key
             /\ \A k \in 1..Len(kept) : k + dropped <= Len(keys) => kept[k] = keys[k + dropped]
<1> DEFINE dropped == IF Len(keys) < RecentWindow THEN 0 ELSE 1
           more == Append(keys, key)
           kept == Remembered(more)
<1>1. RecentWindow \in Nat \ {0} /\ Len(keys) \in Nat
  BY SelectionAssumption
<1>2. more \in Seq(Keyed) /\ Len(more) = Len(keys) + 1 /\ more[Len(keys) + 1] = key /\ \A k \in 1..Len(keys) : more[k] = keys[k]
  OBVIOUS
<1> HIDE DEF more
<1>3. \A a \in Int : Max({1, a}) = IF a > 1 THEN a ELSE 1
  <2> TAKE a \in Int
  <2>1. CASE a > 1
    <3>1. a \in {1, a} /\ \A y \in {1, a} : a >= y
      BY <2>1
    <3>2. \A x \in {1, a} : (\A y \in {1, a} : x >= y) => x = a
      BY <2>1
    <3> QED
      BY <2>1, <3>1, <3>2 DEF Max
  <2>2. CASE ~(a > 1)
    <3>1. 1 \in {1, a} /\ \A y \in {1, a} : 1 >= y
      BY <2>2
    <3>2. \A x \in {1, a} : (\A y \in {1, a} : x >= y) => x = 1
      BY <2>2
    <3> QED
      BY <2>2, <3>1, <3>2 DEF Max
  <2> QED
    BY <2>1, <2>2
<1>4. Max({1, Len(more) - RecentWindow + 1}) = 1 + dropped
  <2>1. Len(more) - RecentWindow + 1 \in Int
    BY <1>1, <1>2
  <2>2. Len(more) - RecentWindow + 1 = Len(keys) + 2 - RecentWindow
    BY <1>1, <1>2
  <2> QED
    BY <1>1, <1>3, <2>1, <2>2
<1>5. dropped \in {0, 1} /\ dropped <= Len(keys)
  BY <1>1
<1>6. kept = SubSeq(more, 1 + dropped, Len(keys) + 1)
  BY <1>2, <1>4 DEF Remembered
<1>7. kept \in Seq(Keyed) /\ Len(kept) = Len(keys) + 1 - dropped
      /\ \A k \in 1..(Len(keys) + 1 - dropped) : kept[k] = more[k + dropped]
  <2>1. 1 + dropped \in 1..(Len(more) + 1) /\ Len(keys) + 1 \in dropped..Len(more)
    BY <1>1, <1>2, <1>5
  <2> HIDE DEF kept, dropped
  <2>2. SubSeq(more, 1 + dropped, Len(keys) + 1) \in Seq(Keyed)
    BY <1>1, <1>2, <1>5, SubSeqProperties
  <2>3. Len(SubSeq(more, 1 + dropped, Len(keys) + 1)) = Len(keys) + 1 - dropped
    BY <1>1, <1>2, <1>5, SubSeqProperties
  <2>4. \A k \in 1..(Len(keys) + 1 - dropped) : SubSeq(more, 1 + dropped, Len(keys) + 1)[k] = more[k + dropped]
    BY <1>1, <1>2, <1>5, SubSeqProperties
  <2> QED
    BY <1>6, <2>2, <2>3, <2>4
<1>8. kept[Len(kept)] = key
  <2>1. Len(kept) \in 1..(Len(keys) + 1 - dropped) /\ Len(kept) + dropped = Len(keys) + 1
    BY <1>1, <1>5, <1>7
  <2> HIDE DEF kept, dropped
  <2> QED
    BY <1>2, <1>7, <2>1
<1>9. \A k \in 1..Len(kept) : k + dropped <= Len(keys) => kept[k] = keys[k + dropped]
  <2> HIDE DEF kept
  <2> QED
    BY <1>1, <1>2, <1>5, <1>7
<1>10. Len(kept) <= RecentWindow
  BY <1>1, <1>7
<1> QED
  BY <1>7, <1>8, <1>9, <1>10 DEF more

\* The evidence stays finite.
LEMMA EvidenceKept ==
  ASSUME SelectionTypeOK, NEW new, \A name \in Names : evidence'[name] \subseteq evidence[name] \cup {new}
  PROVE  IsFiniteSet(Everything')
<1>1. IsFiniteSet(Everything \cup {new})
  BY FS_AddElement DEF SelectionTypeOK
<1>2. Everything' \in SUBSET (Everything \cup {new})
  BY DEF Everything
<1> QED
  BY <1>1, <1>2, FS_Subset

\* What Live does.
LEMMA LiveDoes ==
  ASSUME SelectionTypeOK, NEW s \in Engines, Live(s)
  PROVE  /\ SelectionTypeOK' /\ UNCHANGED lessons /\ engine[s].at = "run"
         /\ \E e \in Entry :
              /\ diary' = Append(diary, e) /\ e.kind = "experience" /\ e.session = s /\ e.start = engine[s].start
              /\ e.key = engine[s].key
         /\ engine'[s].at = "finish" /\ engine'[s].recent = Remembered(Append(engine[s].recent, engine[s].key))
         /\ \A t \in Engines \ {s} : engine'[t] = engine[t]
<1>1. engine[s].at = "run" /\ UNCHANGED lessons
  BY DEF Live
<1>2. PICK result \in {"success", "failure"} :
        /\ Noticed([Happening("experience", s, engine[s].key) EXCEPT !.result = result, !.start = engine[s].start])
        /\ Now(s, [engine[s] EXCEPT !.at = "finish", !.result = result,
                                    !.recent = Remembered(Append(@, engine[s].key)),
                                    !.tried = Append(@, <<engine[s].key, result>>)])
        /\ evidence' = IF result = "failure" THEN [evidence EXCEPT !.revisit = @ \cup {Len(diary')}] ELSE evidence
  BY DEF Live
<1>3. engine[s] \in Session /\ engine[s].key \in Keyed /\ Len(engine[s].recent) <= RecentWindow
  BY <1>1 DEF SelectionTypeOK
<1> DEFINE key == engine[s].key
           kept == Remembered(Append(engine[s].recent, key))
           e == [Happening("experience", s, key) EXCEPT !.result = result, !.start = engine[s].start]
           state == [engine[s] EXCEPT !.at = "finish", !.result = result, !.recent = kept,
                                      !.tried = Append(engine[s].tried, <<key, result>>)]
<1>4. e \in Entry /\ e.kind = "experience" /\ e.session = s /\ e.start = engine[s].start /\ e.key = key
  <2>1. engine[s].start \in Nat /\ result \in {"unknown", "success", "failure"} /\ key \in Keyed
    BY <1>3 DEF Session
  <2> QED
    BY <2>1 DEF Happening, Entry, OfActivity
<1>5. diary' = Append(diary, e)
  BY <1>2 DEF Noticed
<1>6. Now(s, state)
  BY <1>2
<1> HIDE DEF e
<1>7. diary \in Diaries /\ diary' \in Diaries /\ Len(diary') \in Nat
  <2>1. diary \in Diaries
    BY DEF SelectionTypeOK, Diaries
  <2> QED
    BY <1>4, <1>5, <2>1, Appended
<1>8. kept \in Seq(Keyed) /\ Len(kept) <= RecentWindow
  <2>1. engine[s].recent \in Seq(Keyed)
    BY <1>3 DEF Session
  <2> QED
    BY <1>3, <2>1, RememberedFacts
<1> HIDE DEF kept
<1>9. state \in Session /\ state.at = "finish" /\ state.recent = kept /\ state.key = key
  <2>1. /\ engine[s].start \in Nat /\ engine[s].tried \in Seq(Keyed \X {"success", "failure"}) /\ engine[s].avoid \in SUBSET Keyed
        /\ key \in Keyed /\ result \in {"unknown", "success", "failure"}
    BY <1>3 DEF Session
  <2>2. Append(engine[s].tried, <<key, result>>) \in Seq(Keyed \X {"success", "failure"})
    BY <2>1
  <2> QED
    BY <1>3, <1>8, <2>1, <2>2 DEF Session
<1> HIDE DEF state
<1>10. /\ engine' \in [Engines -> Session] /\ engine'[s] = state /\ \A t \in Engines \ {s} : engine'[t] = engine[t]
       /\ \A t \in Engines : (engine'[t].at # "idle" => engine'[t].key \in Keyed) /\ Len(engine'[t].recent) <= RecentWindow
  BY <1>3, <1>6, <1>8, <1>9, NowFacts
<1>11. evidence' \in [Names -> SUBSET Nat] /\ \A name \in Names : evidence'[name] \subseteq evidence[name] \cup {Len(diary')}
  <2>1. evidence \in [Names -> SUBSET Nat]
    BY DEF SelectionTypeOK
  <2>2. CASE result = "failure"
    BY <1>2, <1>7, <2>1, <2>2
  <2>3. CASE result # "failure"
    BY <1>2, <2>1, <2>3
  <2> QED
    BY <2>2, <2>3
<1>12. SelectionTypeOK'
  BY <1>7, <1>10, <1>11, EvidenceKept DEF SelectionTypeOK, Diaries
<1> QED
  BY <1>1, <1>4, <1>5, <1>9, <1>10, <1>12 DEF kept

\* What is left as it is when an activity is finished.
LEMMA FinishDoes ==
  ASSUME SelectionTypeOK, NEW s \in Engines, FinishNormal(s) \/ FinishStuck(s)
  PROVE  /\ SelectionTypeOK' /\ UNCHANGED lessons /\ engine[s].at = "finish"
         /\ \/ \E e \in Entry : diary' = Append(diary, e) /\ e.kind = "activity_finished"
            \/ \E e, f \in Entry : diary' = Append(Append(diary, e), f) /\ e.kind = "activity_finished" /\ f.kind = "goal_opened"
         /\ engine'[s].at = "idle" /\ engine'[s].recent = engine[s].recent
         /\ \A t \in Engines \ {s} : engine'[t] = engine[t]
<1>1. engine[s].at = "finish" /\ UNCHANGED lessons
  BY DEF FinishNormal, FinishStuck
<1>2. engine[s] \in Session /\ engine[s].key \in Keyed /\ Len(engine[s].recent) <= RecentWindow
  BY <1>1 DEF SelectionTypeOK
<1>3. diary \in Diaries /\ evidence \in [Names -> SUBSET Nat] /\ Len(diary) \in Nat
  BY DEF SelectionTypeOK, Diaries
<1> DEFINE f == Happening("goal_opened", s, engine[s].key)
<1>4. /\ \A stuck \in BOOLEAN : Ended(s, stuck) \in Entry /\ Ended(s, stuck).kind = "activity_finished"
      /\ f \in Entry /\ f.kind = "goal_opened"
  <2>1. engine[s].result \in {"unknown", "success", "failure"}
    BY <1>2 DEF Session
  <2> QED
    BY <1>2, <2>1, OtherEntries
<1>5. \E new : evidence' \in [Names -> SUBSET Nat] /\ \A name \in Names : evidence'[name] \subseteq evidence[name] \cup {new}
  <2>1. CASE FinishNormal(s)
    <3>1. evidence' = evidence \/ evidence' = [evidence EXCEPT !.curiosity = @ \ {engine[s].key[2]}]
      BY <2>1 DEF FinishNormal
    <3>2. evidence' \in [Names -> SUBSET Nat] /\ \A name \in Names : evidence'[name] \subseteq evidence[name] \cup {0}
      BY <1>3, <3>1
    <3> QED
      BY <3>2
  <2>2. CASE FinishStuck(s)
    <3> DEFINE goal == Context(engine[s].key)
               refined == Len(diary) + 2
               refine(ids) == IF goal \in ids THEN (ids \ {goal}) \cup {refined} ELSE ids
    <3>1. evidence' = evidence \/ evidence' = [evidence EXCEPT !.goal = refine(@), !.capability = refine(@)]
      BY <2>2 DEF FinishStuck
    <3>2. \A ids \in SUBSET Nat : refine(ids) \in SUBSET Nat /\ refine(ids) \subseteq ids \cup {refined}
      <4> TAKE ids \in SUBSET Nat
      <4>1. refined \in Nat
        BY <1>3
      <4>2. refine(ids) \subseteq ids \cup {refined}
        OBVIOUS
      <4> HIDE DEF refined, refine
      <4> QED
        BY <4>1, <4>2
    <3> HIDE DEF refine, refined
    <3>3. evidence' \in [Names -> SUBSET Nat] /\ \A name \in Names : evidence'[name] \subseteq evidence[name] \cup {refined}
      <4>1. CASE evidence' = evidence
        BY <1>3, <4>1
      <4>2. CASE evidence' = [evidence EXCEPT !.goal = refine(@), !.capability = refine(@)]
        <5>1. \A name \in Names : evidence'[name] = evidence[name] \/ evidence'[name] = refine(evidence[name])
          BY <1>3, <4>2
        <5>2. evidence' = [name \in Names |-> evidence'[name]]
          BY <1>3, <4>2
        <5>3. \A name \in Names : evidence'[name] \in SUBSET Nat /\ evidence'[name] \subseteq evidence[name] \cup {refined}
          BY <1>3, <3>2, <5>1
        <5> QED
          BY <5>2, <5>3
      <4> QED
        BY <3>1, <4>1, <4>2
    <3> QED
      BY <3>3
  <2> QED
    BY <2>1, <2>2
<1>6. \/ \E e \in Entry : diary' = Append(diary, e) /\ e.kind = "activity_finished"
      \/ \E e, g \in Entry : diary' = Append(Append(diary, e), g) /\ e.kind = "activity_finished" /\ g.kind = "goal_opened"
  <2>1. CASE FinishNormal(s)
    BY <1>4, <2>1 DEF FinishNormal, Noticed
  <2>2. CASE FinishStuck(s)
    <3>1. diary' = diary \o <<Ended(s, TRUE), f>> \/ diary' = Append(diary, Ended(s, TRUE))
      BY <2>2 DEF FinishStuck, Noticed
    <3>2. \A e, g \in Entry : diary \o <<e, g>> = Append(Append(diary, e), g)
      BY <1>3 DEF Diaries
    <3>3. Ended(s, TRUE) \in Entry /\ f \in Entry /\ Ended(s, TRUE).kind = "activity_finished" /\ f.kind = "goal_opened"
      BY <1>4
    <3> HIDE DEF f
    <3> QED
      BY <3>1, <3>2, <3>3
  <2> QED
    BY <2>1, <2>2
<1>7. diary' \in Diaries
  <2>1. CASE \E e \in Entry : diary' = Append(diary, e)
    BY <1>3, <2>1, Appended
  <2>2. CASE \E e, g \in Entry : diary' = Append(Append(diary, e), g)
    BY <1>3, <2>2, Appended
  <2> QED
    BY <1>6, <2>1, <2>2
<1>8. PICK avoid \in SUBSET Keyed : Now(s, [engine[s] EXCEPT !.at = "idle", !.avoid = avoid])
  <2>1. CASE FinishNormal(s)
    <3>1. [engine[s] EXCEPT !.at = "idle"] = [engine[s] EXCEPT !.at = "idle", !.avoid = engine[s].avoid] /\ engine[s].avoid \in SUBSET Keyed
      BY <1>2 DEF Session
    <3> QED
      BY <2>1, <3>1 DEF FinishNormal
  <2>2. CASE FinishStuck(s)
    <3>1. engine[s].avoid \cup {engine[s].key} \in SUBSET Keyed
      BY <1>2 DEF Session
    <3> QED
      BY <2>2, <3>1 DEF FinishStuck
  <2> QED
    BY <2>1, <2>2
<1> DEFINE state == [engine[s] EXCEPT !.at = "idle", !.avoid = avoid]
<1>9. state \in Session /\ state.at = "idle" /\ state.recent = engine[s].recent
  BY <1>2 DEF Session
<1> HIDE DEF state
<1>10. /\ engine' \in [Engines -> Session] /\ engine'[s] = state /\ \A t \in Engines \ {s} : engine'[t] = engine[t]
       /\ \A t \in Engines : (engine'[t].at # "idle" => engine'[t].key \in Keyed) /\ Len(engine'[t].recent) <= RecentWindow
  <2>1. Now(s, state)
    BY <1>8 DEF state
  <2> QED
    BY <1>2, <1>9, <2>1, NowFacts
<1>11. SelectionTypeOK'
  BY <1>5, <1>7, <1>10, EvidenceKept DEF SelectionTypeOK, Diaries
<1> QED
  BY <1>1, <1>6, <1>9, <1>10, <1>11

-----------------------------------------------------------------------------
(* What a session remembers of its selections, and how fair each of them was. *)

Turns(log, s) == {i \in IdsOfKind(log, "activity_started") : log[i].session = s}
Before(log, s, i) == Newest({j \in Turns(log, s) : j < i}, RecentWindow)
Times(log, ids, key) == Cardinality({j \in ids : log[j].key = key})

\* A selection was repeated at most once more than anything that was on offer.
FairAt(log, s, i) ==
  IsFiniteSet(log[i].offered) /\
  \A other \in log[i].offered :
    Times(log, Before(log, s, i), log[i].key) <= Times(log, Before(log, s, i), other) + 1
OfferedFairly(log) == \A s \in Engines : \A i \in Turns(log, s) : FairAt(log, s, i)

\* The keys of the newest of some selections, in their order.
Recollects(log, ids, keys) ==
  /\ Len(keys) = IF Cardinality(ids) < RecentWindow THEN Cardinality(ids) ELSE RecentWindow
  /\ \A i \in ids : Newer(ids, i) < Len(keys) => keys[Len(keys) - Newer(ids, i)] = log[i].key

Done(s) == IF engine[s].at = "run" THEN Selections(s) \ {engine[s].start} ELSE Selections(s)

Underway(s) ==
  engine[s].at = "run" =>
    /\ engine[s].start \in Selections(s) /\ diary[engine[s].start].key = engine[s].key
    /\ \A i \in Selections(s) : i <= engine[s].start

RotationInv ==
  /\ SelectionTypeOK /\ OfferedFairly(diary)
  /\ \A s \in Engines : Recollects(diary, Done(s), engine[s].recent) /\ Underway(s)

LEMMA TurnsFacts ==
  ASSUME NEW log \in Diaries, NEW s
  PROVE  /\ Turns(log, s) \in SUBSET Nat /\ IsFiniteSet(Turns(log, s))
         /\ \A i \in Turns(log, s) : i \in 1..Len(log) /\ log[i] \in Entry /\ log[i].kind = "activity_started" /\ log[i].session = s
         /\ \A i \in Nat : {j \in Turns(log, s) : j < i} \in SUBSET Nat /\ IsFiniteSet({j \in Turns(log, s) : j < i})
<1>1. Turns(log, s) \in SUBSET IdsOfKind(log, "activity_started")
  BY DEF Turns
<1>2. Turns(log, s) \in SUBSET Nat /\ IsFiniteSet(Turns(log, s))
  BY <1>1, EntriesOfKind, FS_Subset
<1>3. \A i \in Turns(log, s) : i \in 1..Len(log) /\ log[i] \in Entry /\ log[i].kind = "activity_started" /\ log[i].session = s
  BY EntriesOfKind DEF Turns
<1>4. ASSUME NEW i \in Nat PROVE {j \in Turns(log, s) : j < i} \in SUBSET Nat /\ IsFiniteSet({j \in Turns(log, s) : j < i})
  <2>1. {j \in Turns(log, s) : j < i} \in SUBSET Turns(log, s)
    OBVIOUS
  <2> QED
    BY <1>2, <2>1, FS_Subset
<1> QED
  BY <1>2, <1>3, <1>4

LEMMA TurnsAfter ==
  ASSUME NEW log \in Diaries, NEW e \in Entry, NEW s
  PROVE  Turns(Append(log, e), s) = IF e.kind = "activity_started" /\ e.session = s THEN Turns(log, s) \cup {Len(log) + 1}
                                    ELSE Turns(log, s)
<1> DEFINE new == Append(log, e)
<1>1. IdsOfKind(new, "activity_started")
        = IF e.kind = "activity_started" THEN IdsOfKind(log, "activity_started") \cup {Len(log) + 1} ELSE IdsOfKind(log, "activity_started")
  BY Appended
<1>2. (\A i \in IdsOfKind(log, "activity_started") : new[i] = log[i]) /\ new[Len(log) + 1] = e
  BY Appended, EntriesOfKind
<1> HIDE DEF new
<1>3. Turns(new, s) = IF e.kind = "activity_started" /\ e.session = s THEN Turns(log, s) \cup {Len(log) + 1}
                      ELSE Turns(log, s)
  BY <1>1, <1>2 DEF Turns
<1> QED
  BY <1>3 DEF new

\* What there was before a selection stays as it was.
LEMMA BeforeAfter ==
  ASSUME NEW log \in Diaries, NEW e \in Entry, NEW s, NEW i \in 1..(Len(log) + 1)
  PROVE  /\ {j \in Turns(Append(log, e), s) : j < i} = {j \in Turns(log, s) : j < i}
         /\ Before(Append(log, e), s, i) = Before(log, s, i)
         /\ \A key : Times(Append(log, e), Before(Append(log, e), s, i), key) = Times(log, Before(log, s, i), key)
<1> DEFINE new == Append(log, e)
<1>1. (\A j \in 1..Len(log) : new[j] = log[j]) /\ Len(log) \in Nat
  BY Appended
<1>2. {j \in Turns(new, s) : j < i} = {j \in Turns(log, s) : j < i}
  <2>1. Turns(new, s) = Turns(log, s) \/ Turns(new, s) = Turns(log, s) \cup {Len(log) + 1}
    BY TurnsAfter
  <2>2. ~(Len(log) + 1 < i)
    BY <1>1
  <2> HIDE DEF new
  <2> QED
    BY <2>1, <2>2
<1>3. Before(new, s, i) = Before(log, s, i)
  BY <1>2 DEF Before
<1>4. \A j \in Before(log, s, i) : j \in 1..Len(log)
  BY TurnsFacts DEF Before, Newest
<1>5. \A j \in Before(log, s, i) : new[j] = log[j]
  BY <1>1, <1>4
<1> HIDE DEF new
<1>6. \A key : Times(new, Before(new, s, i), key) = Times(log, Before(log, s, i), key)
  <2> TAKE key
  <2>1. {j \in Before(log, s, i) : new[j].key = key} = {j \in Before(log, s, i) : log[j].key = key}
    BY <1>5
  <2> QED
    BY <1>3, <2>1 DEF Times
<1> QED
  BY <1>2, <1>3, <1>6 DEF new

LEMMA FairAfter ==
  ASSUME NEW log \in Diaries, NEW e \in Entry, OfferedFairly(log),
         e.kind = "activity_started" => FairAt(Append(log, e), e.session, Len(log) + 1)
  PROVE  OfferedFairly(Append(log, e))
<1> DEFINE new == Append(log, e)
<1> SUFFICES ASSUME NEW s \in Engines, NEW i \in Turns(new, s) PROVE FairAt(new, s, i)
  BY DEF OfferedFairly
<1>1. CASE i \in Turns(log, s)
  <2>1. i \in 1..Len(log) /\ Len(log) \in Nat
    BY <1>1, TurnsFacts DEF Diaries
  <2>2. i \in 1..(Len(log) + 1) /\ new[i] = log[i]
    BY <2>1, Appended
  <2>3. FairAt(log, s, i)
    BY <1>1 DEF OfferedFairly
  <2>4. \A key : Times(new, Before(new, s, i), key) = Times(log, Before(log, s, i), key)
    BY <2>2, BeforeAfter
  <2> HIDE DEF new
  <2> QED
    BY <2>2, <2>3, <2>4 DEF FairAt
<1>2. CASE i \notin Turns(log, s)
  <2>1. e.kind = "activity_started" /\ e.session = s /\ i = Len(log) + 1
    BY <1>2, TurnsAfter
  <2> QED
    BY <2>1
<1> QED
  BY <1>1, <1>2

\* The repeats a session counts are those among its newest selections.
LEMMA RepeatsCounted ==
  ASSUME SelectionTypeOK, NEW s \in Engines, NEW ids \in SUBSET Nat, IsFiniteSet(ids),
         Recollects(diary, ids, engine[s].recent), NEW key
  PROVE  Repeats(s, key) = Times(diary, Newest(ids, RecentWindow), key)
<1> DEFINE keys == engine[s].recent
           shown == Newest(ids, RecentWindow)
           A == {i \in shown : diary[i].key = key}
           B == {k \in DOMAIN keys : keys[k] = key}
           place == [i \in A |-> Len(keys) - Newer(ids, i)]
<1>1. keys \in Seq(Keyed) /\ Len(keys) \in Nat /\ DOMAIN keys = 1..Len(keys)
  BY DEF SelectionTypeOK, Session
<1>2. RecentWindow \in Nat /\ Cardinality(ids) \in Nat
  BY SelectionAssumption, FS_CardinalityType
<1>3. shown \in SUBSET ids /\ IsFiniteSet(shown) /\ \A i \in ids : i \in shown <=> Newer(ids, i) < RecentWindow
  BY <1>2, NewestFacts
<1>4. \A i \in ids : Newer(ids, i) \in Nat /\ Newer(ids, i) < Cardinality(ids)
  BY NewerFacts
<1>5. Len(keys) = IF Cardinality(ids) < RecentWindow THEN Cardinality(ids) ELSE RecentWindow
  BY DEF Recollects
<1>6. \A i \in ids : i \in shown <=> Newer(ids, i) < Len(keys)
  BY <1>2, <1>3, <1>4, <1>5
<1> HIDE DEF shown
<1>7. \A i \in shown : keys[Len(keys) - Newer(ids, i)] = diary[i].key
  BY <1>3, <1>6 DEF Recollects
<1>8. \A i \in shown : Len(keys) - Newer(ids, i) \in 1..Len(keys)
  <2> TAKE i \in shown
  <2>1. Newer(ids, i) \in Nat /\ Newer(ids, i) < Len(keys)
    BY <1>3, <1>4, <1>6
  <2> QED
    BY <1>1, <2>1
<1> HIDE DEF keys
<1>9. place \in [A -> B]
  <2>1. \A i \in A : Len(keys) - Newer(ids, i) \in B
    BY <1>1, <1>7, <1>8
  <2> QED
    BY <2>1
<1>10. \A i, j \in A : place[i] = place[j] => i = j
  <2> TAKE i, j \in A
  <2>1. i \in ids /\ j \in ids /\ i \in Nat /\ j \in Nat
    BY <1>3
  <2>2. Newer(ids, i) \in Nat /\ Newer(ids, j) \in Nat
    BY <1>4, <2>1
  <2>3. place[i] = place[j] => Newer(ids, i) = Newer(ids, j)
    BY <1>1, <2>2
  <2>4. i < j => Newer(ids, j) < Newer(ids, i)
    BY <2>1, NewerFacts
  <2>5. j < i => Newer(ids, i) < Newer(ids, j)
    BY <2>1, NewerFacts
  <2> QED
    BY <2>1, <2>2, <2>3, <2>4, <2>5
<1>11. \A k \in B : \E i \in A : place[i] = k
  <2> TAKE k \in B
  <2>1. k \in 1..Len(keys) /\ keys[k] = key
    BY <1>1
  <2>2. Len(keys) - k \in Nat /\ Len(keys) - k < Cardinality(ids) /\ Len(keys) - k < Len(keys)
    BY <1>1, <1>2, <1>5, <2>1
  <2>3. PICK i \in ids : Newer(ids, i) = Len(keys) - k
    BY <2>2, PlaceTaken
  <2>4. i \in shown /\ Len(keys) - Newer(ids, i) = k
    BY <1>1, <1>6, <2>1, <2>2, <2>3
  <2>5. i \in A
    BY <1>7, <2>1, <2>4
  <2> QED
    BY <2>4, <2>5
<1>12. place \in Bijection(A, B)
  <2> HIDE DEF place, A, B
  <2> QED
    BY <1>9, <1>10, <1>11 DEF Bijection, Injection, Surjection, IsInjective
<1>13. ExistsBijection(A, B)
  BY <1>12 DEF ExistsBijection
<1>14. IsFiniteSet(A)
  <2>1. A \in SUBSET shown
    OBVIOUS
  <2> QED
    BY <1>3, <2>1, FS_Subset
<1>15. Cardinality(B) = Cardinality(A)
  BY <1>13, <1>14, FS_Bijection
<1> QED
  BY <1>15 DEF Repeats, Times, keys, shown

\* A selection that has been lived is remembered, and the oldest forgotten when
\* the window is full.
LEMMA RecollectsMore ==
  ASSUME NEW log, NEW ids \in SUBSET Nat, IsFiniteSet(ids), NEW keys \in Seq(Keyed), NEW new \in Nat,
         \A i \in ids : i < new, NEW key \in Keyed, log[new].key = key, Recollects(log, ids, keys)
  PROVE  Recollects(log, ids \cup {new}, Remembered(Append(keys, key)))
<1> DEFINE all == ids \cup {new}
           kept == Remembered(Append(keys, key))
           dropped == IF Len(keys) < RecentWindow THEN 0 ELSE 1
           W == RecentWindow
<1>1. W \in Nat \ {0} /\ Cardinality(ids) \in Nat /\ Len(keys) \in Nat
  BY SelectionAssumption, FS_CardinalityType
<1>2. Len(keys) = IF Cardinality(ids) < W THEN Cardinality(ids) ELSE W
  BY DEF Recollects
<1>3. Len(keys) <= RecentWindow
  BY <1>1, <1>2
<1>4. /\ kept \in Seq(Keyed) /\ Len(kept) = Len(keys) + 1 - dropped
      /\ kept[Len(kept)] = key
      /\ \A k \in 1..Len(kept) : k + dropped <= Len(keys) => kept[k] = keys[k + dropped]
  BY <1>3, RememberedFacts
<1>5. new \notin ids /\ IsFiniteSet(all) /\ Cardinality(all) = Cardinality(ids) + 1
  BY FS_AddElement
<1>6. Len(kept) = IF Cardinality(all) < W THEN Cardinality(all) ELSE W
  BY <1>1, <1>2, <1>4, <1>5
<1>7. Newer(all, new) = 0
  <2>1. ASSUME NEW j \in all PROVE ~(j > new)
    <3>1. CASE j = new
      BY <3>1
    <3>2. CASE j \in ids
      <4>1. j < new /\ j \in Nat
        BY <3>2
      <4> QED
        BY <4>1
    <3> QED
      BY <3>1, <3>2
  <2>2. {j \in all : j > new} = {}
    BY <2>1
  <2> QED
    BY <2>2, FS_EmptySet DEF Newer
<1>8. ASSUME NEW i \in ids PROVE Newer(all, i) = Newer(ids, i) + 1 /\ Newer(ids, i) \in Nat
  <2> DEFINE newer == {j \in ids : j > i}
  <2>1. {j \in all : j > i} = newer \cup {new} /\ new \notin newer
    BY <1>5
  <2>2. IsFiniteSet(newer) /\ Newer(ids, i) \in Nat /\ Newer(ids, i) = Cardinality(newer)
    BY NewerFacts DEF Newer
  <2> HIDE DEF newer, all
  <2>3. Cardinality(newer \cup {new}) = Cardinality(newer) + 1
    BY <2>1, <2>2, FS_AddElement
  <2>4. Newer(all, i) = Cardinality(newer \cup {new})
    BY <2>1 DEF Newer
  <2> QED
    BY <2>2, <2>3, <2>4
<1> HIDE DEF kept
<1>9. ASSUME NEW i \in all, Newer(all, i) < Len(kept) PROVE kept[Len(kept) - Newer(all, i)] = log[i].key
  <2>1. CASE i = new
    BY <1>4, <1>7, <2>1
  <2>2. CASE i \in ids
    <3>1. Newer(all, i) = Newer(ids, i) + 1 /\ Newer(ids, i) \in Nat
      BY <1>8, <2>2
    <3> DEFINE k == Len(kept) - Newer(all, i)
    <3>0. /\ dropped \in {0, 1} /\ Len(keys) \in Nat /\ Len(kept) \in Nat /\ Len(kept) = Len(keys) + 1 - dropped
          /\ Newer(all, i) = Newer(ids, i) + 1 /\ Newer(ids, i) \in Nat /\ Newer(all, i) < Len(kept)
      <4>1. dropped \in {0, 1}
        OBVIOUS
      <4>2. Len(keys) \in Nat /\ Len(kept) \in Nat
        BY <1>1, <1>4
      <4> QED
        BY <1>4, <1>9, <3>1, <4>1, <4>2
    <3>2. k \in 1..Len(kept) /\ k + dropped = Len(keys) - Newer(ids, i) /\ k + dropped <= Len(keys)
      <4> HIDE DEF dropped, all
      <4> QED
        BY <3>0
    <3>3. Newer(ids, i) < Len(keys)
      <4> HIDE DEF dropped, all
      <4> QED
        BY <3>0
    <3>4. kept[k] = keys[k + dropped]
      <4> HIDE DEF k, dropped
      <4> QED
        BY <1>4, <3>2
    <3>5. keys[Len(keys) - Newer(ids, i)] = log[i].key
      BY <2>2, <3>3 DEF Recollects
    <3> QED
      BY <3>2, <3>4, <3>5
  <2> QED
    BY <2>1, <2>2
<1> QED
  BY <1>6, <1>9 DEF Recollects, kept

-----------------------------------------------------------------------------

LEMMA RotationStart ==
  ASSUME SelectionInit
  PROVE  RotationInv
<1>1. diary \in Seq(PastEntry) /\ diary \in Diaries
  <2>1. diary \in Seq(PastEntry)
    BY SelectionAssumption DEF SelectionInit, PastEntry
  <2> QED
    BY <2>1 DEF Diaries
<1>2. \A s : Turns(diary, s) = {} /\ Selections(s) = {}
  <2>1. ASSUME NEW i \in DOMAIN diary PROVE diary[i].kind # "activity_started"
    <3>1. diary[i] \in PastEntry
      BY <1>1
    <3> QED
      BY <3>1 DEF PastEntry
  <2>2. IdsOfKind(diary, "activity_started") = {}
    BY <2>1 DEF IdsOfKind
  <2> QED
    BY <2>2 DEF Turns, Selections
<1>3. Resting \in Session /\ Resting.at = "idle" /\ Resting.recent = <<>>
  BY DEF Resting, Session
<1>4. engine \in [Engines -> Session] /\ \A s \in Engines : engine[s] = Resting
  BY <1>3 DEF SelectionInit
<1>5. evidence \in [Names -> SUBSET Nat] /\ IsFiniteSet(Everything)
  BY SelectionAssumption DEF SelectionInit, Everything
<1>6. Len(<<>>) = 0 /\ 0 <= RecentWindow /\ 0 < RecentWindow /\ <<>> \in Seq(Keyed)
  BY SelectionAssumption
<1>7. SelectionTypeOK
  BY <1>1, <1>3, <1>4, <1>5, <1>6 DEF SelectionTypeOK, Diaries
<1>8. OfferedFairly(diary)
  BY <1>2 DEF OfferedFairly
<1>9. ASSUME NEW s \in Engines PROVE Recollects(diary, Done(s), engine[s].recent) /\ Underway(s)
  <2>1. Done(s) = {} /\ engine[s].at = "idle" /\ engine[s].recent = <<>>
    BY <1>2, <1>3, <1>4 DEF Done
  <2>2. Cardinality({}) = 0
    BY FS_EmptySet
  <2> QED
    BY <1>6, <2>1, <2>2 DEF Recollects, Underway
<1> QED
  BY <1>7, <1>8, <1>9 DEF RotationInv

\* What an event does to the selections of a session.
LEMMA SelectionsAfter ==
  ASSUME SelectionTypeOK, NEW e \in Entry, diary' = Append(diary, e), NEW s
  PROVE  /\ diary \in Diaries /\ Selections(s) = Turns(diary, s)
         /\ Selections(s)' = IF e.kind = "activity_started" /\ e.session = s THEN Selections(s) \cup {Len(diary) + 1}
                             ELSE Selections(s)
         /\ \A i \in Selections(s) : diary'[i] = diary[i] /\ i \in 1..Len(diary)
<1>1. diary \in Diaries
  BY DEF SelectionTypeOK, Diaries
<1>2. Selections(s) = Turns(diary, s) /\ Selections(s)' = Turns(diary', s)
  BY DEF Selections, Turns
<1>3. \A i \in Selections(s) : diary'[i] = diary[i] /\ i \in 1..Len(diary)
  BY <1>1, <1>2, TurnsFacts, Appended
<1> QED
  BY <1>1, <1>2, <1>3, TurnsAfter

\* An event that is not a selection leaves the selections as they were.
LEMMA NoSelection ==
  ASSUME NEW log \in Diaries, NEW e \in Entry, e.kind # "activity_started", OfferedFairly(log)
  PROVE  /\ Append(log, e) \in Diaries /\ OfferedFairly(Append(log, e))
         /\ \A s : Turns(Append(log, e), s) = Turns(log, s)
         /\ \A s : \A i \in Turns(log, s) : Append(log, e)[i] = log[i]
<1>1. Append(log, e) \in Diaries /\ OfferedFairly(Append(log, e))
  BY Appended, FairAfter
<1>2. \A s : Turns(Append(log, e), s) = Turns(log, s)
  BY TurnsAfter
<1>3. \A s : \A i \in Turns(log, s) : Append(log, e)[i] = log[i]
  BY TurnsFacts, Appended
<1> QED
  BY <1>1, <1>2, <1>3

\* A session that does nothing remembers what it did.
LEMMA OthersRecollect ==
  ASSUME RotationInv, NEW t \in Engines, engine'[t] = engine[t],
         Selections(t)' = Selections(t), \A i \in Selections(t) : diary'[i] = diary[i]
  PROVE  Recollects(diary, Done(t), engine[t].recent)' /\ Underway(t)'
<1>1. Recollects(diary, Done(t), engine[t].recent) /\ Underway(t)
  BY DEF RotationInv
<1>2. Done(t)' = Done(t) /\ \A i \in Done(t) : i \in Selections(t)
  BY DEF Done
<1>3. Recollects(diary, Done(t), engine[t].recent)'
  <2>1. \A i \in Done(t) : diary'[i] = diary[i]
    BY <1>2
  <2> HIDE DEF Done
  <2> QED
    BY <1>1, <1>2, <2>1 DEF Recollects
<1>4. Underway(t)'
  BY <1>1 DEF Underway
<1> QED
  BY <1>3, <1>4

LEMMA ChooseRotates ==
  ASSUME RotationInv, NEW s \in Engines, Choose(s)
  PROVE  RotationInv'
<1>1. SelectionTypeOK /\ SelectionTypeOK' /\ engine[s].at = "idle" /\ Generated # {}
  BY ChooseDoes DEF RotationInv
<1>2. PICK e \in Entry :
        /\ diary' = Append(diary, e) /\ e.kind = "activity_started" /\ e.session = s
        /\ e.key = Selected(s) /\ e.offered = Generated \ engine[s].avoid
  BY <1>1, ChooseDoes
<1>3. /\ engine'[s].at = "run" /\ engine'[s].start = Len(diary) + 1 /\ engine'[s].key = Selected(s)
      /\ engine'[s].recent = engine[s].recent
      /\ \A t \in Engines \ {s} : engine'[t] = engine[t]
  BY <1>1, ChooseDoes
<1>4. /\ diary \in Diaries /\ \A t : Selections(t) = Turns(diary, t)
      /\ \A t : Selections(t)' = IF t = s THEN Selections(t) \cup {Len(diary) + 1} ELSE Selections(t)
      /\ \A t : \A i \in Selections(t) : diary'[i] = diary[i] /\ i \in 1..Len(diary)
  BY <1>1, <1>2, SelectionsAfter
<1> DEFINE new == Len(diary) + 1
<1>5. Len(diary) \in Nat /\ new \in Nat /\ new \in 1..(Len(diary) + 1) /\ diary'[new] = e
  BY <1>2, <1>4, Appended
<1>6. \A i \in Selections(s) : i < new
  BY <1>4, <1>5
<1> HIDE DEF new
<1>7. Done(s) = Selections(s) /\ Recollects(diary, Selections(s), engine[s].recent)
  BY <1>1 DEF RotationInv, Done
<1>8. Before(diary, s, new) = Newest(Selections(s), RecentWindow)
  <2>1. {j \in Turns(diary, s) : j < new} = Selections(s)
    BY <1>4, <1>6
  <2> QED
    BY <2>1 DEF Before
<1>9. FairAt(diary', s, new)
  <2>1. \A key : Times(diary', Before(diary', s, new), key) = Times(diary, Before(diary, s, new), key)
    BY <1>2, <1>4, <1>5, BeforeAfter
  <2>2. Selections(s) \in SUBSET Nat /\ IsFiniteSet(Selections(s))
    BY <1>4, TurnsFacts
  <2>3. \A key : Repeats(s, key) = Times(diary, Newest(Selections(s), RecentWindow), key)
    BY <1>1, <1>7, <2>2, RepeatsCounted
  <2>4. \A other \in Generated \ engine[s].avoid : Repeats(s, Selected(s)) <= Repeats(s, other) + 1
    BY <1>1, FairlySelected
  <2>5. IsFiniteSet(Generated \ engine[s].avoid)
    BY <1>1, GeneratedFacts, FS_Difference
  <2>6. diary'[new].offered = Generated \ engine[s].avoid /\ diary'[new].key = Selected(s)
    BY <1>2, <1>5
  <2>7. ASSUME NEW other \in diary'[new].offered
        PROVE Times(diary', Before(diary', s, new), diary'[new].key) <= Times(diary', Before(diary', s, new), other) + 1
    <3>1. Times(diary', Before(diary', s, new), Selected(s)) = Repeats(s, Selected(s))
      BY <1>8, <2>1, <2>3
    <3>2. Times(diary', Before(diary', s, new), other) = Repeats(s, other)
      BY <1>8, <2>1, <2>3
    <3> QED
      BY <2>4, <2>6, <2>7, <3>1, <3>2
  <2> QED
    BY <2>5, <2>6, <2>7 DEF FairAt
<1>10. OfferedFairly(diary')
  BY <1>2, <1>4, <1>9, FairAfter DEF RotationInv, new
<1>11. ASSUME NEW t \in Engines PROVE Recollects(diary, Done(t), engine[t].recent)' /\ Underway(t)'
  <2>1. CASE t = s
    <3>1. Selections(s)' = Selections(s) \cup {new} /\ new \notin Selections(s)
      <4>1. ~(new < new)
        BY <1>5
      <4> QED
        BY <1>4, <1>6, <4>1 DEF new
    <3>2. Done(s)' = Selections(s)
      BY <1>3, <3>1 DEF Done, new
    <3>3. Recollects(diary, Done(s), engine[s].recent)'
      BY <1>3, <1>4, <1>7, <3>2 DEF Recollects
    <3>4. engine'[s].start = new /\ diary'[new].key = engine'[s].key
      BY <1>2, <1>3, <1>5 DEF new
    <3>5. \A i \in Selections(s)' : i <= new
      <4>1. \A i \in Selections(s) : i \in Nat /\ i <= new
        BY <1>4, <1>5, <1>6
      <4> QED
        BY <1>5, <3>1, <4>1
    <3>6. Underway(s)'
      BY <3>1, <3>4, <3>5 DEF Underway
    <3> QED
      BY <2>1, <3>3, <3>6
  <2>2. CASE t # s
    BY <1>3, <1>4, <2>2, OthersRecollect
  <2> QED
    BY <2>1, <2>2
<1> QED
  BY <1>1, <1>10, <1>11 DEF RotationInv

LEMMA LiveRotates ==
  ASSUME RotationInv, NEW s \in Engines, Live(s)
  PROVE  RotationInv'
<1>1. SelectionTypeOK /\ SelectionTypeOK' /\ engine[s].at = "run"
  BY LiveDoes DEF RotationInv
<1>2. PICK e \in Entry : diary' = Append(diary, e) /\ e.kind = "experience"
  BY <1>1, LiveDoes
<1>3. /\ engine'[s].at = "finish" /\ engine'[s].recent = Remembered(Append(engine[s].recent, engine[s].key))
      /\ \A t \in Engines \ {s} : engine'[t] = engine[t]
  BY <1>1, LiveDoes
<1>4. /\ diary \in Diaries /\ \A t : Selections(t) = Turns(diary, t) /\ Selections(t)' = Selections(t)
      /\ \A t : \A i \in Selections(t) : diary'[i] = diary[i] /\ i \in 1..Len(diary)
  BY <1>1, <1>2, SelectionsAfter
<1>5. OfferedFairly(diary')
  BY <1>2, <1>4, NoSelection DEF RotationInv
<1> DEFINE start == engine[s].start
<1>6. /\ start \in Selections(s) /\ diary[start].key = engine[s].key /\ \A i \in Selections(s) : i <= start
      /\ Done(s) = Selections(s) \ {start} /\ Recollects(diary, Done(s), engine[s].recent)
  BY <1>1 DEF RotationInv, Underway, Done
<1>7. Recollects(diary, Done(s), engine[s].recent)'
  <2>1. Selections(s) \in SUBSET Nat /\ IsFiniteSet(Selections(s))
    BY <1>4, TurnsFacts
  <2>2. engine[s].key \in Keyed /\ engine[s].recent \in Seq(Keyed)
    BY <1>1 DEF SelectionTypeOK, Session
  <2>3. Done(s) \in SUBSET Nat /\ IsFiniteSet(Done(s))
    BY <1>6, <2>1, FS_Subset
  <2>4. \A i \in Done(s) : i < start
    <3>1. \A i \in Done(s) : i \in Nat /\ i # start /\ i <= start
      BY <1>6, <2>1
    <3>2. start \in Nat
      BY <1>6, <2>1
    <3> QED
      BY <3>1, <3>2
  <2>5. Recollects(diary, Done(s) \cup {start}, Remembered(Append(engine[s].recent, engine[s].key)))
    <3>1. start \in Nat
      BY <1>6, <2>1
    <3> HIDE DEF start
    <3> QED
      BY <1>6, <2>2, <2>3, <2>4, <3>1, RecollectsMore
  <2>6. Done(s)' = Done(s) \cup {start}
    BY <1>3, <1>4, <1>6 DEF Done
  <2>7. \A i \in Done(s) \cup {start} : diary'[i] = diary[i]
    BY <1>4, <1>6
  <2> HIDE DEF start
  <2> QED
    BY <1>3, <2>5, <2>6, <2>7 DEF Recollects
<1>8. ASSUME NEW t \in Engines PROVE Recollects(diary, Done(t), engine[t].recent)' /\ Underway(t)'
  <2>1. CASE t = s
    BY <1>3, <1>7, <2>1 DEF Underway
  <2>2. CASE t # s
    BY <1>3, <1>4, <2>2, OthersRecollect
  <2> QED
    BY <2>1, <2>2
<1> QED
  BY <1>1, <1>5, <1>8 DEF RotationInv

LEMMA FinishRotates ==
  ASSUME RotationInv, NEW s \in Engines, FinishNormal(s) \/ FinishStuck(s)
  PROVE  RotationInv'
<1>1. SelectionTypeOK /\ SelectionTypeOK' /\ engine[s].at = "finish"
  BY FinishDoes DEF RotationInv
<1>2. /\ engine'[s].at = "idle" /\ engine'[s].recent = engine[s].recent
      /\ \A t \in Engines \ {s} : engine'[t] = engine[t]
  BY <1>1, FinishDoes
<1>3. diary \in Diaries /\ OfferedFairly(diary)
  BY <1>1 DEF RotationInv, SelectionTypeOK, Diaries
<1>4. /\ OfferedFairly(diary') /\ \A t : Turns(diary', t) = Turns(diary, t)
      /\ \A t : \A i \in Turns(diary, t) : diary'[i] = diary[i]
  <2>1. CASE \E e \in Entry : diary' = Append(diary, e) /\ e.kind = "activity_finished"
    <3>1. PICK e \in Entry : diary' = Append(diary, e) /\ e.kind = "activity_finished"
      BY <2>1
    <3> QED
      BY <1>3, <3>1, NoSelection
  <2>2. CASE \E e, f \in Entry : diary' = Append(Append(diary, e), f) /\ e.kind = "activity_finished" /\ f.kind = "goal_opened"
    <3>1. PICK e, f \in Entry : diary' = Append(Append(diary, e), f) /\ e.kind = "activity_finished" /\ f.kind = "goal_opened"
      BY <2>2
    <3> DEFINE once == Append(diary, e)
    <3>2. /\ once \in Diaries /\ OfferedFairly(once) /\ \A t : Turns(once, t) = Turns(diary, t)
          /\ \A t : \A i \in Turns(diary, t) : once[i] = diary[i]
      BY <1>3, <3>1, NoSelection
    <3> HIDE DEF once
    <3>3. /\ OfferedFairly(Append(once, f)) /\ \A t : Turns(Append(once, f), t) = Turns(once, t)
          /\ \A t : \A i \in Turns(once, t) : Append(once, f)[i] = once[i]
      BY <3>1, <3>2, NoSelection
    <3>4. diary' = Append(once, f)
      BY <3>1 DEF once
    <3> QED
      BY <3>2, <3>3, <3>4
  <2> QED
    BY <1>1, <2>1, <2>2, FinishDoes
<1>5. /\ \A t : Selections(t)' = Selections(t)
      /\ \A t : \A i \in Selections(t) : diary'[i] = diary[i]
  <2>1. \A t : Selections(t) = Turns(diary, t) /\ Selections(t)' = Turns(diary', t)
    BY DEF Selections, Turns
  <2> QED
    BY <1>4, <2>1
<1>6. ASSUME NEW t \in Engines PROVE Recollects(diary, Done(t), engine[t].recent)' /\ Underway(t)'
  <2>1. CASE t = s
    <3>1. Done(s)' = Done(s) /\ Done(s) = Selections(s) /\ Recollects(diary, Done(s), engine[s].recent)
      BY <1>1, <1>2, <1>5 DEF RotationInv, Done
    <3>2. Recollects(diary, Done(s), engine[s].recent)'
      BY <1>2, <1>5, <3>1 DEF Recollects
    <3>3. Underway(s)'
      BY <1>2 DEF Underway
    <3> QED
      BY <2>1, <3>2, <3>3
  <2>2. CASE t # s
    BY <1>2, <1>5, <2>2, OthersRecollect
  <2> QED
    BY <2>1, <2>2
<1> QED
  BY <1>1, <1>4, <1>6 DEF RotationInv

\* A step of the choice of activities keeps what the sessions remember and how
\* fair their selections were.
LEMMA RotationInvKept ==
  ASSUME RotationInv, [SelectionNext]_selectionVars
  PROVE  RotationInv'
<1>1. CASE \E s \in Engines : Choose(s)
  BY <1>1, ChooseRotates
<1>2. CASE \E s \in Engines : Live(s)
  BY <1>2, LiveRotates
<1>3. CASE \E s \in Engines : FinishNormal(s) \/ FinishStuck(s)
  BY <1>3, FinishRotates
<1>4. CASE UNCHANGED <<diary, evidence, engine>>
  <2>1. SelectionTypeOK'
    BY <1>4 DEF RotationInv, SelectionTypeOK, Everything
  <2>2. OfferedFairly(diary')
    BY <1>4 DEF RotationInv
  <2>3. ASSUME NEW s \in Engines PROVE Recollects(diary, Done(s), engine[s].recent)' /\ Underway(s)'
    <3>1. Selections(s)' = Selections(s) /\ engine'[s] = engine[s] /\ \A i \in Selections(s) : diary'[i] = diary[i]
      BY <1>4 DEF Selections
    <3> QED
      BY <3>1, OthersRecollect
  <2> QED
    BY <2>1, <2>2, <2>3 DEF RotationInv
<1>5. CASE LiveElsewhere
  <2>1. PICK e \in FromElsewhere : diary' = Append(diary, e)
    BY <1>5 DEF LiveElsewhere, Noticed, Happening, FromElsewhere
  <2>2. /\ e \in Entry /\ e.kind = "experience" /\ engine' = engine /\ evidence' = evidence
        /\ SelectionTypeOK /\ diary \in Diaries
    BY <1>5 DEF LiveElsewhere, FromElsewhere, Entry, RotationInv, SelectionTypeOK, Diaries
  <2>3. SelectionTypeOK' /\ OfferedFairly(diary')
    <3>1. diary' \in Diaries
      BY <2>1, <2>2, Appended
    <3>2. SelectionTypeOK'
      BY <2>2, <3>1 DEF SelectionTypeOK, Everything, Diaries
    <3> QED
      BY <2>1, <2>2, <3>2, NoSelection DEF RotationInv
  <2>4. ASSUME NEW s \in Engines PROVE Recollects(diary, Done(s), engine[s].recent)' /\ Underway(s)'
    <3>1. Selections(s)' = Selections(s) /\ engine'[s] = engine[s] /\ \A i \in Selections(s) : diary'[i] = diary[i]
      BY <2>1, <2>2, SelectionsAfter
    <3> QED
      BY <3>1, OthersRecollect
  <2> QED
    BY <2>3, <2>4 DEF RotationInv
<1> QED
  BY <1>1, <1>2, <1>3, <1>4, <1>5 DEF SelectionNext, selectionVars, Mine

-----------------------------------------------------------------------------
(* Rotation: the keys that were taken, ordered by when they were last, are *)
(* taken ever less often by a bound of which the window has no room, as long *)
(* as one that was on offer all the time is left out. *)

Lately(log, s) == Newest(Turns(log, s), RecentWindow + 1)
TakenOf(log, s, keys) == {i \in Lately(log, s) : log[i].key \in keys}
Taken(log, s) == {log[i].key : i \in Lately(log, s)}

\* One is left out of more selections than the window holds, at each of which
\* it and all that were selected were on offer.
LeftOut(log, s, key) ==
  /\ Cardinality(Lately(log, s)) > RecentWindow
  /\ \A i \in Lately(log, s) : key \in log[i].offered /\ log[i].key # key
  /\ \A i, j \in Lately(log, s) : log[j].key \in log[i].offered

LEMMA LatelyFacts ==
  ASSUME NEW log \in Diaries, NEW s
  PROVE  /\ Lately(log, s) \in SUBSET Turns(log, s) /\ Lately(log, s) \in SUBSET Nat
         /\ IsFiniteSet(Lately(log, s)) /\ Cardinality(Lately(log, s)) <= RecentWindow + 1
         /\ \A i \in Lately(log, s) : Newer(Turns(log, s), i) < RecentWindow + 1
<1>1. RecentWindow + 1 \in Nat
  BY SelectionAssumption
<1>2. Turns(log, s) \in SUBSET Nat /\ IsFiniteSet(Turns(log, s))
  BY TurnsFacts
<1> QED
  BY <1>1, <1>2, NewestFacts DEF Lately

LEMMA BeforeFacts ==
  ASSUME NEW log \in Diaries, NEW s, NEW p \in Nat
  PROVE  IsFiniteSet(Before(log, s, p)) /\ Cardinality(Before(log, s, p)) <= RecentWindow
<1> DEFINE older == {j \in Turns(log, s) : j < p}
<1>1. older \in SUBSET Nat /\ IsFiniteSet(older)
  BY TurnsFacts
<1>2. RecentWindow \in Nat
  BY SelectionAssumption
<1> HIDE DEF older
<1>3. IsFiniteSet(Newest(older, RecentWindow)) /\ Cardinality(Newest(older, RecentWindow)) <= RecentWindow
  BY <1>1, <1>2, NewestFacts
<1> QED
  BY <1>3 DEF Before, older

\* What was selected lately and before one is what it was compared with.
LEMMA LatelyBefore ==
  ASSUME NEW log \in Diaries, NEW s, NEW p \in Lately(log, s)
  PROVE  {i \in Lately(log, s) : i < p} \subseteq Before(log, s, p)
<1> DEFINE all == Turns(log, s)
           older == {j \in all : j < p}
<1>1. all \in SUBSET Nat /\ IsFiniteSet(all) /\ p \in all /\ p \in Nat
  BY TurnsFacts, LatelyFacts
<1>2. older \in SUBSET Nat /\ IsFiniteSet(older)
  BY <1>1, TurnsFacts
<1> HIDE DEF all
<1>3. RecentWindow \in Nat
  BY SelectionAssumption
<1> SUFFICES ASSUME NEW i \in Lately(log, s), i < p PROVE i \in Before(log, s, p)
  OBVIOUS
<1>4. i \in older /\ i \in all /\ i \in Nat
  BY <1>1, LatelyFacts DEF all
<1>5. Newer(all, i) < RecentWindow + 1
  BY LatelyFacts DEF all
<1> DEFINE A == {j \in older : j > i}
           B == {j \in all : j > i}
<1>6. A \in SUBSET (B \ {p}) /\ p \in B
  <2>1. ~(p < p)
    BY <1>1
  <2> QED
    BY <1>1, <2>1
<1>7. IsFiniteSet(B) /\ Newer(all, i) = Cardinality(B) /\ Cardinality(B) \in Nat
  BY <1>1, <1>4, NewerFacts DEF Newer
<1>8. IsFiniteSet(B \ {p}) /\ Cardinality(B \ {p}) = Cardinality(B) - 1
  BY <1>6, <1>7, FS_RemoveElement
<1>9. Cardinality(A) <= Cardinality(B \ {p})
  BY <1>6, <1>8, FS_Subset
<1>10. Newer(older, i) = Cardinality(A) /\ Newer(older, i) \in Nat
  BY <1>2, <1>4, NewerFacts DEF Newer
<1>11. Newer(older, i) < RecentWindow
  <2> HIDE DEF A, B
  <2> QED
    BY <1>3, <1>5, <1>7, <1>8, <1>9, <1>10
<1> HIDE DEF older
<1>12. i \in Newest(older, RecentWindow)
  BY <1>2, <1>3, <1>4, <1>11, NewestFacts
<1> QED
  BY <1>12 DEF Before, older, all

\* As long as the newest of the selections all are of some keys, what was
\* before them cannot show these keys, and the one left out, more often.
LEMMA ShownBefore ==
  ASSUME NEW log \in Diaries, NEW s, NEW k, LeftOut(log, s, k), NEW X,
         NEW p \in Lately(log, s), log[p].key \notin X, \A i \in Lately(log, s) : i > p => log[i].key \in X
  PROVE  Cardinality({j \in Before(log, s, p) : log[j].key \in X \cup {k}}) <= Cardinality(TakenOf(log, s, X))
<1> DEFINE turn == Lately(log, s)
           B == Before(log, s, p)
           older == {i \in turn : i < p}
           after == {i \in turn : i > p}
           L == {j \in B : log[j].key \in X \cup {k}}
           M == {i \in older : log[i].key \in X}
           T == TakenOf(log, s, X)
<1>1. turn \in SUBSET Nat /\ IsFiniteSet(turn) /\ Cardinality(turn) = RecentWindow + 1 /\ RecentWindow \in Nat
  <2>1. RecentWindow \in Nat /\ Cardinality(turn) \in Nat
    BY SelectionAssumption, LatelyFacts, FS_CardinalityType
  <2>2. Cardinality(turn) > RecentWindow /\ Cardinality(turn) <= RecentWindow + 1
    BY LatelyFacts DEF LeftOut
  <2> HIDE DEF turn
  <2>3. Cardinality(turn) = RecentWindow + 1
    BY <2>1, <2>2
  <2> QED
    BY <2>1, <2>3, LatelyFacts DEF turn
<1>2. IsFiniteSet(B) /\ Cardinality(B) <= RecentWindow /\ Cardinality(B) \in Nat
  <2>1. p \in Nat
    BY LatelyFacts
  <2> HIDE DEF B
  <2>2. IsFiniteSet(B) /\ Cardinality(B) <= RecentWindow
    BY <2>1, BeforeFacts DEF B
  <2> QED
    BY <2>2, FS_CardinalityType
<1>3. older \in SUBSET B
  BY LatelyBefore
<1>4. T = M \cup after /\ M \cap after = {} /\ M \in SUBSET older
  <2>1. \A i \in turn : i \in Nat /\ p \in Nat
    BY <1>1
  <2>2. \A i \in turn : i < p \/ i = p \/ i > p
    BY <2>1
  <2>3. \A i \in turn : ~(i < p /\ i > p)
    BY <2>1
  <2> QED
    BY <2>2, <2>3 DEF TakenOf
<1>5. turn \ older = after \cup {p} /\ p \notin after
  <2>1. \A i \in turn : i \in Nat /\ p \in Nat
    BY <1>1
  <2>2. \A i \in turn : ~(i < p) <=> (i = p \/ i > p)
    BY <2>1
  <2>3. ~(p > p)
    BY <1>1
  <2> QED
    BY <2>2, <2>3
<1>6. L \in SUBSET (M \cup (B \ older))
  BY DEF LeftOut
<1>7. older \in SUBSET turn /\ after \in SUBSET turn
  OBVIOUS
<1> HIDE DEF turn, B, older, after, L, M, T
<1>8. /\ IsFiniteSet(older) /\ IsFiniteSet(after) /\ IsFiniteSet(M) /\ IsFiniteSet(B \ older)
      /\ Cardinality(older) \in Nat /\ Cardinality(after) \in Nat /\ Cardinality(M) \in Nat /\ Cardinality(B \ older) \in Nat
  <2>1. IsFiniteSet(older) /\ IsFiniteSet(after)
    BY <1>1, <1>7, FS_Subset
  <2>2. IsFiniteSet(M) /\ IsFiniteSet(B \ older)
    BY <1>2, <1>4, <2>1, FS_Subset, FS_Difference
  <2> QED
    BY <2>1, <2>2, FS_CardinalityType
<1>9. Cardinality(B \ older) = Cardinality(B) - Cardinality(older)
  <2>1. B \cap older = older
    BY <1>3
  <2> QED
    BY <1>2, <2>1, FS_Difference
<1>10. Cardinality(turn \ older) = Cardinality(turn) - Cardinality(older)
  <2>1. turn \cap older = older /\ IsFiniteSet(turn)
    BY <1>1, <1>7
  <2> QED
    BY <2>1, FS_Difference
<1>11. Cardinality(after \cup {p}) = Cardinality(after) + 1
  BY <1>5, <1>8, FS_AddElement
<1>12. Cardinality(B \ older) <= Cardinality(after)
  <2>1. Cardinality(turn \ older) = Cardinality(after \cup {p})
    BY <1>5
  <2>2. RecentWindow + 1 - Cardinality(older) = Cardinality(after) + 1
    BY <1>1, <1>8, <1>10, <1>11, <2>1
  <2> QED
    BY <1>1, <1>2, <1>8, <1>9, <2>2
<1>13. Cardinality(L) <= Cardinality(M) + Cardinality(B \ older)
  <2>1. IsFiniteSet(M \cup (B \ older)) /\ Cardinality(M \cup (B \ older)) \in Nat
        /\ Cardinality(M \cup (B \ older)) = Cardinality(M) + Cardinality(B \ older) - Cardinality(M \cap (B \ older))
    BY <1>8, FS_Union, FS_CardinalityType
  <2>2. M \cap (B \ older) = {}
    BY <1>4
  <2>3. Cardinality(M \cap (B \ older)) = 0
    BY <2>2, FS_EmptySet
  <2>4. Cardinality(L) <= Cardinality(M \cup (B \ older))
    BY <1>6, <2>1, FS_Subset
  <2> QED
    BY <1>8, <2>1, <2>3, <2>4
<1>14. Cardinality(T) = Cardinality(M) + Cardinality(after)
  <2>1. Cardinality(M \cup after) = Cardinality(M) + Cardinality(after) - Cardinality(M \cap after)
    BY <1>8, FS_Union
  <2>2. Cardinality(M \cap after) = 0
    BY <1>4, FS_EmptySet
  <2> QED
    BY <1>4, <1>8, <2>1, <2>2
<1>15. IsFiniteSet(L) /\ Cardinality(L) \in Nat
  <2>1. L \in SUBSET B
    BY DEF L
  <2> QED
    BY <1>2, <2>1, FS_Subset, FS_CardinalityType
<1>16. Cardinality(L) <= Cardinality(T)
  BY <1>8, <1>12, <1>13, <1>14, <1>15
<1> QED
  BY <1>16 DEF L, B, T

\* One more key that was taken, and how often.
LEMMA OneMoreTaken ==
  ASSUME NEW log \in Diaries, NEW s \in Engines, NEW k, LeftOut(log, s, k), OfferedFairly(log),
         NEW X \in SUBSET Taken(log, s), X # Taken(log, s), IsFiniteSet(X),
         2 * Cardinality(TakenOf(log, s, X)) <= Cardinality(X) * (Cardinality(X) + 3)
  PROVE  \E x \in Taken(log, s) \ X : Cardinality(TakenOf(log, s, {x})) <= Cardinality(X) + 2
<1> DEFINE turn == Lately(log, s)
           out == {i \in turn : log[i].key \notin X}
           m == Cardinality(X)
<1>1. turn \in SUBSET Nat /\ IsFiniteSet(turn) /\ turn \in SUBSET Turns(log, s)
  BY LatelyFacts
<1>2. out # {} /\ out \in SUBSET Nat /\ IsFiniteSet(out)
  <2>1. out \in SUBSET turn
    OBVIOUS
  <2>2. out # {}
    BY DEF Taken
  <2> QED
    BY <1>1, <2>1, <2>2, FS_Subset
<1>3. PICK p \in out : \A i \in out : i <= p
  BY <1>2, NewestOf
<1> DEFINE x == log[p].key
           B == Before(log, s, p)
<1>4. p \in turn /\ x \in Taken(log, s) \ X /\ p \in Nat
  BY <1>1, <1>3 DEF Taken
<1>5. \A i \in turn : i > p => log[i].key \in X
  <2> SUFFICES ASSUME NEW i \in turn, i > p, log[i].key \notin X PROVE FALSE
    OBVIOUS
  <2>1. i \in out /\ i \in Nat
    BY <1>1
  <2>2. i <= p
    BY <1>3, <2>1
  <2> QED
    BY <1>4, <2>1, <2>2
<1>6. IsFiniteSet(B)
  BY <1>4, BeforeFacts
<1> DEFINE L == {j \in B : log[j].key \in X \cup {k}}
<1>7. Cardinality(L) <= Cardinality(TakenOf(log, s, X))
  BY <1>4, <1>5, ShownBefore
<1>8. m \in Nat /\ IsFiniteSet(X \cup {k}) /\ Cardinality(X \cup {k}) = m + 1
  <2>1. k \notin X
    BY DEF Taken, LeftOut
  <2> QED
    BY <2>1, FS_AddElement, FS_CardinalityType
<1>9. Cardinality(L) \in Nat /\ Cardinality(TakenOf(log, s, X)) \in Nat
  <2>1. L \in SUBSET B /\ TakenOf(log, s, X) \in SUBSET turn
    BY DEF TakenOf
  <2> QED
    BY <1>1, <1>6, <2>1, FS_Subset, FS_CardinalityType
<1>10. \A o : Times(log, B, o) \in Nat
  <2> TAKE o
  <2>1. {j \in B : log[j].key = o} \in SUBSET B
    OBVIOUS
  <2> QED
    BY <1>6, <2>1, FS_Subset, FS_CardinalityType DEF Times
<1> HIDE DEF B
<1>11. PICK o \in X \cup {k} : Times(log, B, o) <= m
  <2> SUFFICES ASSUME \A o \in X \cup {k} : Times(log, B, o) > m PROVE FALSE
    BY <1>8, <1>10
  <2> DEFINE keyOf == [j \in B |-> log[j].key]
             D == X \cup {k}
             c == m + 1
  <2>1. EachHas(B, keyOf, D, c)
    <3> SUFFICES ASSUME NEW key \in D PROVE Cardinality(OneOf(B, keyOf, {key})) >= c
      BY DEF EachHas
    <3>1. OneOf(B, keyOf, {key}) = {j \in B : log[j].key = key}
      BY DEF OneOf
    <3>2. Times(log, B, key) > m /\ Times(log, B, key) \in Nat
      BY <1>10
    <3>3. Times(log, B, key) >= c
      BY <1>8, <3>2
    <3> QED
      BY <3>1, <3>3 DEF Times
  <2>2. OneOf(B, keyOf, D) = L
    BY DEF OneOf
  <2>3. c \in Nat /\ IsFiniteSet(D) /\ Cardinality(D) = c
    BY <1>8
  <2> HIDE DEF keyOf, m, L, D
  <2>4. Cardinality(L) >= (m + 1) * (m + 1)
    <3> HIDE DEF c
    <3>1. Cardinality(OneOf(B, keyOf, D)) >= c * Cardinality(D)
      BY <1>6, <2>1, <2>3, EachHasItsOwn
    <3> QED
      BY <2>2, <2>3, <3>1 DEF c
  <2>5. 2 * Cardinality(TakenOf(log, s, X)) <= m * (m + 3)
    BY DEF m
  <2>6. 2 * ((m + 1) * (m + 1)) <= m * (m + 3)
    <3>1. (m + 1) * (m + 1) \in Nat /\ m * (m + 3) \in Nat
      BY <1>8
    <3> QED
      BY <1>7, <1>9, <2>4, <2>5, <3>1
  <2>7. 2 * ((m + 1) * (m + 1)) = m * (m + 3) + (m * m + m + 2) /\ m * m \in Nat
    BY <1>8
  <2> QED
    <3>1. m * (m + 3) \in Nat
      BY <1>8
    <3> QED
      BY <1>8, <2>6, <2>7, <3>1
<1>12. Times(log, B, x) <= m + 1
  <2>1. o \in log[p].offered
    <3>1. o \in Taken(log, s) \/ o = k
      BY <1>11
    <3> QED
      BY <1>4, <3>1 DEF LeftOut, Taken
  <2>2. FairAt(log, s, p)
    BY <1>1, <1>4 DEF OfferedFairly
  <2>3. Times(log, B, x) <= Times(log, B, o) + 1
    BY <2>1, <2>2 DEF FairAt, B
  <2> HIDE DEF x, m
  <2> QED
    BY <1>8, <1>10, <1>11, <2>3
<1>13. Cardinality(TakenOf(log, s, {x})) <= Times(log, B, x) + 1
  <2> DEFINE own == {j \in B : log[j].key = x}
  <2>1. IsFiniteSet(own) /\ Times(log, B, x) = Cardinality(own)
    <3>1. own \in SUBSET B
      OBVIOUS
    <3> QED
      BY <1>6, <3>1, FS_Subset DEF Times
  <2>2. TakenOf(log, s, {x}) \in SUBSET (own \cup {p})
    <3> SUFFICES ASSUME NEW i \in turn, log[i].key = x, i # p PROVE i \in B
      BY DEF TakenOf
    <3>1. i \in out /\ i \in Nat
      BY <1>1, <1>4
    <3>2. i <= p
      BY <1>3, <3>1
    <3>3. i < p
      BY <1>4, <3>1, <3>2
    <3> QED
      BY <1>4, <3>3, LatelyBefore DEF B
  <2>3. IsFiniteSet(own \cup {p}) /\ Cardinality(own \cup {p}) <= Cardinality(own) + 1
    <3>1. Cardinality(own) \in Nat
      BY <2>1, FS_CardinalityType
    <3>2. CASE p \in own
      <4> DEFINE more == own \cup {p}
      <4>1. more = own
        BY <3>2
      <4> HIDE DEF own, more
      <4>2. IsFiniteSet(more) /\ Cardinality(more) <= Cardinality(own) + 1
        BY <2>1, <3>1, <4>1
      <4> QED
        BY <4>2 DEF more
    <3>3. CASE p \notin own
      <4> HIDE DEF own
      <4>1. IsFiniteSet(own \cup {p}) /\ Cardinality(own \cup {p}) = Cardinality(own) + 1
        BY <2>1, <3>3, FS_AddElement
      <4> QED
        BY <3>1, <4>1
    <3> QED
      BY <3>2, <3>3
  <2>4. Cardinality(TakenOf(log, s, {x})) <= Cardinality(own \cup {p})
    BY <2>2, <2>3, FS_Subset
  <2>5. Cardinality(TakenOf(log, s, {x})) \in Nat /\ Cardinality(own \cup {p}) \in Nat /\ Cardinality(own) \in Nat
    BY <2>1, <2>2, <2>3, FS_Subset, FS_CardinalityType
  <2> HIDE DEF own
  <2> QED
    BY <2>1, <2>3, <2>4, <2>5
<1>14. Cardinality(TakenOf(log, s, {x})) <= m + 2
  <2>1. Cardinality(TakenOf(log, s, {x})) \in Nat
    <3>1. TakenOf(log, s, {x}) \in SUBSET turn
      BY DEF TakenOf
    <3> QED
      BY <1>1, <3>1, FS_Subset, FS_CardinalityType
  <2> HIDE DEF x, m
  <2> QED
    BY <1>8, <1>10, <1>12, <1>13, <2>1
<1> QED
  BY <1>4, <1>14

\* Any number of those that were taken can be picked so that they were taken
\* not too often.
LEMMA SomeRarely ==
  ASSUME NEW log \in Diaries, NEW s \in Engines, NEW k, LeftOut(log, s, k), OfferedFairly(log),
         NEW m \in Nat, m <= Cardinality(Taken(log, s)), IsFiniteSet(Taken(log, s))
  PROVE  \E X \in SUBSET Taken(log, s) :
           Cardinality(X) = m /\ 2 * Cardinality(TakenOf(log, s, X)) <= m * (m + 3)
<1> DEFINE Rare(n) == \E X \in SUBSET Taken(log, s) :
                        Cardinality(X) = n /\ 2 * Cardinality(TakenOf(log, s, X)) <= n * (n + 3)
           Bad == {n \in Nat : n <= Cardinality(Taken(log, s)) /\ ~Rare(n)}
<1>1. Cardinality(Taken(log, s)) \in Nat
  BY FS_CardinalityType
<1>2. SUFFICES ASSUME Bad # {} PROVE FALSE
  OBVIOUS
<1>3. Bad \in SUBSET Nat
  OBVIOUS
<1> HIDE DEF Bad
<1>4. PICK n \in Bad : \A j \in Bad : n <= j
  BY <1>2, <1>3, LeastOf
<1>5. n \in Nat /\ n <= Cardinality(Taken(log, s)) /\ ~Rare(n)
  BY <1>4 DEF Bad
<1>6. Rare(0)
  <2>1. {} \in SUBSET Taken(log, s) /\ Cardinality({}) = 0
    BY FS_EmptySet
  <2>2. TakenOf(log, s, {}) = {}
    BY DEF TakenOf
  <2>3. 2 * Cardinality(TakenOf(log, s, {})) <= 0 * (0 + 3)
    BY <2>1, <2>2
  <2> QED
    BY <2>1, <2>3
<1> HIDE DEF Rare
<1>7. n - 1 \in Nat /\ n # 0
  BY <1>5, <1>6
<1> DEFINE l == n - 1
<1>8. Rare(l)
  <2>1. l \notin Bad
    <3> SUFFICES ASSUME l \in Bad PROVE FALSE
      OBVIOUS
    <3>1. n <= l
      BY <1>4
    <3> QED
      BY <1>5, <3>1
  <2>2. l \in Nat /\ l <= Cardinality(Taken(log, s))
    BY <1>1, <1>5, <1>7
  <2> HIDE DEF l
  <2> QED
    BY <2>1, <2>2 DEF Bad
<1>9. l \in Nat /\ l + 1 = n /\ l < Cardinality(Taken(log, s))
  BY <1>1, <1>5, <1>7
<1> HIDE DEF l
<1>10. PICK X \in SUBSET Taken(log, s) : Cardinality(X) = l /\ 2 * Cardinality(TakenOf(log, s, X)) <= l * (l + 3)
  BY <1>8 DEF Rare
<1>11. IsFiniteSet(X) /\ X # Taken(log, s)
  <2>1. X = Taken(log, s) => l = Cardinality(Taken(log, s))
    BY <1>10
  <2> QED
    BY <1>1, <1>9, <2>1, FS_Subset
<1>12. PICK x \in Taken(log, s) \ X : Cardinality(TakenOf(log, s, {x})) <= l + 2
  <2>1. 2 * Cardinality(TakenOf(log, s, X)) <= Cardinality(X) * (Cardinality(X) + 3)
    BY <1>10
  <2>2. \E x \in Taken(log, s) \ X : Cardinality(TakenOf(log, s, {x})) <= Cardinality(X) + 2
    BY <1>11, <2>1, OneMoreTaken
  <2> QED
    BY <1>10, <2>2
<1> DEFINE Y == X \cup {x}
<1>13. Y \in SUBSET Taken(log, s) /\ Cardinality(Y) = n
  <2>1. Cardinality(Y) = Cardinality(X) + 1
    BY <1>11, <1>12, FS_AddElement
  <2> QED
    BY <1>9, <1>10, <1>12, <2>1
<1>14. 2 * Cardinality(TakenOf(log, s, Y)) <= n * (n + 3)
  <2> DEFINE A == TakenOf(log, s, X)
             C == TakenOf(log, s, {x})
  <2>1. TakenOf(log, s, Y) = A \cup C /\ A \cap C = {}
    BY <1>12 DEF TakenOf
  <2>2. IsFiniteSet(A) /\ IsFiniteSet(C) /\ Cardinality(A) \in Nat /\ Cardinality(C) \in Nat
    <3>1. A \in SUBSET Lately(log, s) /\ C \in SUBSET Lately(log, s)
      BY DEF TakenOf
    <3> QED
      BY <3>1, LatelyFacts, FS_Subset, FS_CardinalityType
  <2>3. 2 * Cardinality(A) <= l * (l + 3) /\ Cardinality(C) <= l + 2
    BY <1>10, <1>12
  <2> HIDE DEF A, C, Y
  <2>4. Cardinality(A \cup C) = Cardinality(A) + Cardinality(C)
    <3>1. Cardinality(A \cup C) = Cardinality(A) + Cardinality(C) - Cardinality(A \cap C)
      BY <2>2, FS_Union
    <3>2. Cardinality(A \cap C) = 0
      BY <2>1, FS_EmptySet
    <3> QED
      BY <2>2, <3>1, <3>2
  <2>5. n * (n + 3) = l * (l + 3) + 2 * (l + 2) /\ l * (l + 3) \in Nat
    BY <1>9
  <2>6. 2 * Cardinality(A \cup C) <= l * (l + 3) + 2 * (l + 2)
    BY <1>9, <2>2, <2>3, <2>4, <2>5
  <2> QED
    BY <2>1, <2>5, <2>6
<1>15. Rare(n)
  <2> HIDE DEF Y
  <2> QED
    BY <1>13, <1>14 DEF Rare
<1> QED
  BY <1>5, <1>15

LEMMA NobodyLeftOut ==
  ASSUME NEW log \in Diaries, NEW s \in Engines, NEW k, LeftOut(log, s, k), OfferedFairly(log)
  PROVE  /\ IsFiniteSet(Taken(log, s)) /\ Cardinality(Taken(log, s)) \in Nat
         /\ Cardinality(Taken(log, s)) * (Cardinality(Taken(log, s)) + 3) > 2 * RecentWindow
<1> DEFINE turn == Lately(log, s)
           taken == Taken(log, s)
           n == Cardinality(taken)
<1>1. IsFiniteSet(turn) /\ Cardinality(turn) \in Nat /\ Cardinality(turn) > RecentWindow /\ RecentWindow \in Nat
  BY SelectionAssumption, LatelyFacts, FS_CardinalityType DEF LeftOut
<1>2. IsFiniteSet(taken) /\ n \in Nat
  <2> DEFINE f == [i \in turn |-> log[i].key]
  <2>1. f \in Surjection(turn, taken)
    BY DEF Surjection, Taken
  <2> HIDE DEF f, turn, taken
  <2> QED
    BY <1>1, <2>1, FS_Surjection, FS_CardinalityType
<1>3. PICK X \in SUBSET taken : Cardinality(X) = n /\ 2 * Cardinality(TakenOf(log, s, X)) <= n * (n + 3)
  <2>1. n <= n
    BY <1>2
  <2> QED
    BY <1>2, <2>1, SomeRarely
<1>4. X = taken
  <2> HIDE DEF taken
  <2>1. ASSUME X # taken PROVE FALSE
    <3>1. PICK y \in taken : y \notin X
      BY <2>1
    <3>2. IsFiniteSet(taken \ {y}) /\ Cardinality(taken \ {y}) = n - 1
      BY <1>2, <3>1, FS_RemoveElement
    <3>3. X \in SUBSET (taken \ {y})
      BY <3>1
    <3>4. n <= n - 1
      BY <1>3, <3>2, <3>3, FS_Subset
    <3> QED
      BY <1>2, <3>4
  <2> QED
    BY <2>1
<1>5. TakenOf(log, s, taken) = turn
  BY DEF TakenOf, Taken
<1>6. n * (n + 3) > 2 * RecentWindow
  <2>1. 2 * Cardinality(turn) <= n * (n + 3)
    BY <1>3, <1>4, <1>5
  <2> HIDE DEF turn, n
  <2>2. n * (n + 3) \in Nat
    BY <1>2
  <2> QED
    BY <1>1, <2>1, <2>2
<1> QED
  BY <1>2, <1>6

LEMMA RotationHolds ==
  ASSUME RotationInv
  PROVE  Rotation
<1>1. SelectionTypeOK /\ OfferedFairly(diary)
  BY DEF RotationInv
<1>2. diary \in Diaries
  BY <1>1 DEF SelectionTypeOK, Diaries
<1> SUFFICES ASSUME NEW s \in Engines
             PROVE  LET turn   == Newest(Selections(s), RecentWindow + 1)
                        taken  == {diary[i].key : i \in turn}
                        steady == {key \in UNION {diary[i].offered : i \in turn} : \A i \in turn : key \in diary[i].offered}
                        others == Cardinality(steady) - 1
                    IN  (Cardinality(turn) > RecentWindow /\ taken \subseteq steady /\ others * (others + 3) <= 2 * RecentWindow)
                          => steady = taken
  BY DEF Rotation
<1> DEFINE turn   == Newest(Selections(s), RecentWindow + 1)
           taken  == {diary[i].key : i \in turn}
           steady == {key \in UNION {diary[i].offered : i \in turn} : \A i \in turn : key \in diary[i].offered}
           others == Cardinality(steady) - 1
<1>3. turn = Lately(diary, s)
  BY DEF Lately, Turns, Selections
<1> HIDE DEF turn
<1>4. taken = Taken(diary, s)
  BY <1>3 DEF Taken
<1> SUFFICES ASSUME Cardinality(turn) > RecentWindow, taken \subseteq steady, others * (others + 3) <= 2 * RecentWindow,
                    steady # taken
             PROVE  FALSE
  BY DEF turn
<1>5. PICK k \in steady : k \notin taken
  OBVIOUS
<1>6. LeftOut(diary, s, k)
  BY <1>3, <1>5 DEF LeftOut
<1>7. IsFiniteSet(steady)
  <2>1. PICK i \in turn : TRUE
    <3>1. RecentWindow \in Nat /\ (turn = {} => Cardinality(turn) = 0)
      BY SelectionAssumption, FS_EmptySet
    <3> QED
      BY <3>1
  <2>2. i \in Turns(diary, s)
    BY <1>2, <1>3, LatelyFacts
  <2>3. IsFiniteSet(diary[i].offered)
    BY <1>1, <2>2 DEF OfferedFairly, FairAt
  <2>4. steady \in SUBSET diary[i].offered
    OBVIOUS
  <2> QED
    BY <2>3, <2>4, FS_Subset
<1> DEFINE n == Cardinality(taken)
<1>8. n \in Nat /\ IsFiniteSet(taken) /\ n * (n + 3) > 2 * RecentWindow
  BY <1>1, <1>2, <1>4, <1>6, NobodyLeftOut
<1> HIDE DEF taken, steady
<1>9. n <= others /\ others \in Int
  <2>1. IsFiniteSet(steady \ {k}) /\ Cardinality(steady \ {k}) = Cardinality(steady) - 1
    BY <1>5, <1>7, FS_RemoveElement
  <2>2. taken \in SUBSET (steady \ {k})
    BY <1>5
  <2>3. n <= Cardinality(steady \ {k}) /\ Cardinality(steady \ {k}) \in Nat
    BY <2>1, <2>2, FS_Subset, FS_CardinalityType
  <2> QED
    BY <2>1, <2>3
<1> HIDE DEF n, others
<1>10. n * (n + 3) <= others * (others + 3)
  <2>1. others - n \in Nat
    BY <1>8, <1>9
  <2>2. others * (others + 3) = n * (n + 3) + (others - n) * (others + n + 3)
    BY <1>8, <1>9
  <2>3. (others - n) * (others + n + 3) \in Nat
    <3>1. others + n + 3 \in Nat
      BY <1>8, <1>9
    <3> QED
      BY <2>1, <3>1
  <2>4. n * (n + 3) \in Nat
    BY <1>8
  <2> HIDE DEF n, others
  <2> QED
    BY <2>2, <2>3, <2>4
<1> QED
  <2>1. n * (n + 3) \in Nat /\ others * (others + 3) \in Int /\ RecentWindow \in Nat
    BY <1>8, <1>9, SelectionAssumption
  <2> QED
    BY <1>8, <1>10, <2>1

-----------------------------------------------------------------------------
(* What strategies rest on. *)

StartedIds(log) == IdsOfKind(log, "activity_started")
Lived(log) == IdsOfKind(log, "experience")

\* An experience is of the newest selection of its session, or of no activity.
Foreign(entry) == entry.start = 0 /\ entry.key = <<"none", 0>>
OwnStart(log, e) ==
  LET start == log[e].start
  IN  /\ start # 0 /\ start \in StartedIds(log) /\ start < e /\ log[start].session = log[e].session
      /\ \A i \in StartedIds(log) : start < i /\ i < e => log[i].session # log[e].session
ProperStart(log, e) == Foreign(log[e]) \/ OwnStart(log, e)
ProperStarts(log) == \A e \in Lived(log) : ProperStart(log, e)

\* What StrategiesTruthful says of a strategy and one of the events it rests on.
Truth(log, subject, e) ==
  LET start == log[e].start
  IN  IF start = 0 THEN subject[2] = 0
      ELSE \/ subject[3] = SourceOf(log[start].key).category
           \/ \E i \in StartedIds(log) : start < i /\ i < e /\ log[i].session # log[e].session
           \/ subject[3] = "UNKNOWN" /\ Cardinality({i \in StartedIds(log) : i > start}) >= MineLimit

Rests(log, subject, e) == subject[1] = "strategy" => e \in Lived(log) /\ Truth(log, subject, e)

Categories == {SourceOf(key).category : key \in Keyed} \cup {"UNKNOWN"}
Subjects == {"skill", "prefers", "strategy"} \X Nat \X Categories
Tellings(log) == {telling \in [subject : Subjects, event : Nat, against : BOOLEAN] :
                    Rests(log, telling.subject, telling.event)}

Confidences == {5000} \cup {Confidence(x[1], x[2]) : x \in Seq(Nat) \X Seq(Nat)}
LearnedRow ==
  [object : Subjects, support : Seq(Nat), contra : Seq(Nat), confidence : Confidences,
   status : {"candidate", "uncertain", "contradicted", "established"}, claim : {0}]
Honest(log, subject, row) ==
  /\ \A i \in 1..Len(row.support) : Rests(log, subject, row.support[i])
  /\ \A i \in 1..Len(row.contra) : Rests(log, subject, row.contra[i])
Tables(log) == {table \in UNION {[D -> LearnedRow] : D \in SUBSET Subjects} :
                  \A subject \in DOMAIN table : Honest(log, subject, table[subject])}

StrategyInv == RotationInv /\ ProperStarts(diary) /\ lessons \in Tables(diary)

LEMMA TableFacts ==
  ASSUME NEW log, NEW table
  PROVE  table \in Tables(log) <=>
           /\ table = [x \in DOMAIN table |-> table[x]] /\ DOMAIN table \in SUBSET Subjects
           /\ \A subject \in DOMAIN table : table[subject] \in LearnedRow /\ Honest(log, subject, table[subject])
<1>1. table \in UNION {[D -> LearnedRow] : D \in SUBSET Subjects} <=>
        table = [x \in DOMAIN table |-> table[x]] /\ DOMAIN table \in SUBSET Subjects
          /\ \A subject \in DOMAIN table : table[subject] \in LearnedRow
  <2>1. ASSUME table \in UNION {[D -> LearnedRow] : D \in SUBSET Subjects}
        PROVE  table = [x \in DOMAIN table |-> table[x]] /\ DOMAIN table \in SUBSET Subjects
                 /\ \A subject \in DOMAIN table : table[subject] \in LearnedRow
    <3>1. PICK D \in SUBSET Subjects : table \in [D -> LearnedRow]
      BY <2>1
    <3> QED
      BY <3>1
  <2>2. ASSUME table = [x \in DOMAIN table |-> table[x]], DOMAIN table \in SUBSET Subjects,
               \A subject \in DOMAIN table : table[subject] \in LearnedRow
        PROVE  table \in UNION {[D -> LearnedRow] : D \in SUBSET Subjects}
    <3>1. table \in [DOMAIN table -> LearnedRow]
      BY <2>2
    <3> QED
      BY <2>2, <3>1
  <2> QED
    BY <2>1, <2>2
<1> QED
  BY <1>1 DEF Tables

LEMMA ObservedFacts ==
  ASSUME NEW log, NEW subject \in Subjects, NEW row \in LearnedRow, Honest(log, subject, row),
         NEW event \in Nat, NEW against \in BOOLEAN, Rests(log, subject, event)
  PROVE  LET new == Observed(row, row, event, against) IN new \in LearnedRow /\ Honest(log, subject, new)
<1> DEFINE support == IF against THEN row.support ELSE Append(row.support, event)
           contra == IF against THEN Append(row.contra, event) ELSE row.contra
           confidence == Confidence(support, contra)
           status == StatusFor(support, contra, confidence)
           new == Observed(row, row, event, against)
<1>1. row.support \in Seq(Nat) /\ row.contra \in Seq(Nat)
  BY DEF LearnedRow
<1>2. support \in Seq(Nat) /\ contra \in Seq(Nat)
  BY <1>1
<1>3. /\ \A i \in 1..Len(support) : Rests(log, subject, support[i])
      /\ \A i \in 1..Len(contra) : Rests(log, subject, contra[i])
  <2>1. \A seq \in Seq(Nat) : (\A i \in 1..Len(seq) : Rests(log, subject, seq[i])) =>
          \A i \in 1..Len(Append(seq, event)) : Rests(log, subject, Append(seq, event)[i])
    <3> TAKE seq \in Seq(Nat)
    <3> HAVE \A i \in 1..Len(seq) : Rests(log, subject, seq[i])
    <3> TAKE i \in 1..Len(Append(seq, event))
    <3>1. i \in 1..(Len(seq) + 1) /\ Len(seq) \in Nat
      OBVIOUS
    <3>2. Append(seq, event)[i] = IF i = Len(seq) + 1 THEN event ELSE seq[i]
      BY <3>1
    <3>3. i # Len(seq) + 1 => i \in 1..Len(seq)
      BY <3>1
    <3> QED
      BY <3>2, <3>3
  <2>2. /\ \A i \in 1..Len(row.support) : Rests(log, subject, row.support[i])
        /\ \A i \in 1..Len(row.contra) : Rests(log, subject, row.contra[i])
    BY DEF Honest
  <2>3. CASE against
    BY <1>1, <2>1, <2>2, <2>3
  <2>4. CASE ~against
    BY <1>1, <2>1, <2>2, <2>4
  <2> QED
    BY <2>3, <2>4
<1> HIDE DEF support, contra
<1>4. confidence \in Confidences
  <2>1. <<support, contra>> \in Seq(Nat) \X Seq(Nat) /\ <<support, contra>>[1] = support /\ <<support, contra>>[2] = contra
    BY <1>2
  <2>2. \E x \in Seq(Nat) \X Seq(Nat) : confidence = Confidence(x[1], x[2])
    BY <2>1
  <2> QED
    BY <2>2 DEF Confidences
<1>5. status \in {"candidate", "uncertain", "contradicted", "established"}
  BY DEF StatusFor
<1>6. new = [row EXCEPT !.confidence = confidence, !.status = status, !.support = support, !.contra = contra]
  BY DEF Observed, Reassessed, support, contra, LearnedRow
<1> HIDE DEF confidence, status, new
<1>7. new \in LearnedRow /\ new.support = support /\ new.contra = contra
  BY <1>2, <1>4, <1>5, <1>6 DEF LearnedRow
<1> QED
  BY <1>3, <1>7 DEF Honest, new

\* One telling more leaves the table honest.
LEMMA ToldKept ==
  ASSUME NEW log, NEW table \in Tables(log), NEW telling \in Tellings(log)
  PROVE  Told(table, telling) \in Tables(log)
<1> DEFINE subject == telling.subject
           new == Told(table, telling)
<1>1. subject \in Subjects /\ telling.event \in Nat /\ telling.against \in BOOLEAN /\ Rests(log, subject, telling.event)
  BY DEF Tellings
<1>2. /\ table = [x \in DOMAIN table |-> table[x]] /\ DOMAIN table \in SUBSET Subjects
      /\ \A x \in DOMAIN table : table[x] \in LearnedRow /\ Honest(log, x, table[x])
  BY TableFacts
<1>3. CASE subject \notin DOMAIN table
  <2> DEFINE first == FirstSighting(subject, telling.event, telling.against)
  <2>1. new = [x \in DOMAIN table \cup {subject} |-> IF x = subject THEN first ELSE table[x]]
    BY <1>3 DEF Told
  <2>2. first \in LearnedRow /\ Honest(log, subject, first)
    <3>1. <<>> \in Seq(Nat) /\ <<telling.event>> \in Seq(Nat) /\ Len(<<>>) = 0 /\ Len(<<telling.event>>) = 1
          /\ <<telling.event>>[1] = telling.event
      BY <1>1
    <3>2. first \in LearnedRow
      BY <1>1, <3>1 DEF FirstSighting, LearnedRow, Confidences
    <3>3. \A i \in 1..0 : FALSE
      OBVIOUS
    <3>4. \A i \in 1..1 : i = 1
      OBVIOUS
    <3>5. Honest(log, subject, first)
      <4>1. CASE telling.against
        <5>1. first.support = <<>> /\ first.contra = <<telling.event>>
          BY <4>1 DEF FirstSighting
        <5> HIDE DEF first
        <5> QED
          BY <1>1, <3>1, <3>3, <3>4, <5>1 DEF Honest
      <4>2. CASE ~telling.against
        <5>1. first.support = <<telling.event>> /\ first.contra = <<>>
          BY <4>2 DEF FirstSighting
        <5> HIDE DEF first
        <5> QED
          BY <1>1, <3>1, <3>3, <3>4, <5>1 DEF Honest
      <4> QED
        BY <4>1, <4>2
    <3> QED
      BY <3>2, <3>5
  <2> HIDE DEF first, subject
  <2>3. DOMAIN new = DOMAIN table \cup {subject} /\ \A x \in DOMAIN new : new[x] = IF x = subject THEN first ELSE table[x]
    BY <2>1
  <2>4. new = [x \in DOMAIN new |-> new[x]]
    BY <2>1
  <2> HIDE DEF new
  <2>5. new \in Tables(log)
    BY <1>1, <1>2, <2>2, <2>3, <2>4, TableFacts
  <2> QED
    BY <2>5 DEF new
<1>4. CASE subject \in DOMAIN table /\ Counted(table[subject], telling.event)
  BY <1>4 DEF Told
<1>5. CASE subject \in DOMAIN table /\ ~Counted(table[subject], telling.event)
  <2> DEFINE next == Observed(table[subject], table[subject], telling.event, telling.against)
  <2>1. new = [table EXCEPT ![subject] = next]
    BY <1>5 DEF Told
  <2>2. next \in LearnedRow /\ Honest(log, subject, next)
    BY <1>1, <1>2, <1>5, ObservedFacts
  <2> HIDE DEF next, subject
  <2>3. DOMAIN new = DOMAIN table /\ \A x \in DOMAIN new : new[x] = IF x = subject THEN next ELSE table[x]
    BY <1>2, <1>5, <2>1
  <2>4. new = [x \in DOMAIN new |-> new[x]]
    BY <2>1
  <2> HIDE DEF new
  <2>5. new \in Tables(log)
    BY <1>1, <1>2, <2>2, <2>3, <2>4, TableFacts
  <2> QED
    BY <2>5 DEF new
<1> QED
  BY <1>3, <1>4, <1>5

\* So does any number of them.
LEMMA AllToldKept ==
  ASSUME NEW log, NEW base \in Tables(log), NEW tellings \in Seq(Tellings(log))
  PROVE  FoldLeft(Told, base, tellings) \in Tables(log)
<1> DEFINE S == DOMAIN tellings
           V == Tables(log)
           pick == [s \in SUBSET S |-> Max(s)]
           step == [s \in SUBSET S |-> [v \in V |-> IF s = {} THEN v ELSE Told(v, tellings[pick[s]])]]
<1>1. S = 1..Len(tellings) /\ Len(tellings) \in Nat /\ \A i \in S : tellings[i] \in Tellings(log)
  OBVIOUS
<1>2. IsFiniteSet(S)
  <2>1. 1 \in Int /\ Len(tellings) \in Int
    BY <1>1
  <2> QED
    BY <1>1, <2>1, FS_Interval
<1>3. \A s \in SUBSET S : s # {} => Max(s) \in s
  <2> TAKE s \in SUBSET S
  <2> HAVE s # {}
  <2>1. s \in SUBSET Nat /\ IsFiniteSet(s)
    BY <1>1, <1>2, FS_Subset
  <2>2. PICK i \in s : \A j \in s : j <= i
    BY <2>1, NewestOf
  <2>3. \A j \in s : i >= j
    BY <2>1, <2>2
  <2> QED
    BY <2>3 DEF Max
<1>4. \A s \in SUBSET S : pick[s] = Max(s)
  OBVIOUS
<1>5. Picks(pick, S)
  BY <1>3, <1>4 DEF Picks
<1> HIDE DEF pick, S
<1>6. \A s \in SUBSET S : s # {} => \A v \in V : step[s][v] = Told(v, tellings[Max(s)]) /\ Told(v, tellings[Max(s)]) \in V
  BY <1>1, <1>3, <1>4, ToldKept
<1>7. Closed(step, S, V)
  <2> SUFFICES ASSUME NEW s \in SUBSET S, NEW v \in V PROVE step[s][v] \in V
    BY DEF Closed
  <2>1. s = {} => step[s][v] = v
    OBVIOUS
  <2> HIDE DEF step, V
  <2> QED
    BY <1>6, <2>1
<1> HIDE DEF step, V
<1>8. PICK g \in [SUBSET S -> V] : Folds(g, S, base, pick, step)
  BY <1>2, <1>5, <1>7, FoldExists DEF V
<1>9. \A s \in SUBSET S : g[s] = IF s = {} THEN base ELSE Told(g[s \ {Max(s)}], tellings[Max(s)])
  <2> TAKE s \in SUBSET S
  <2>1. g[s] = IF s = {} THEN base ELSE step[s][g[s \ {Max(s)}]]
    BY <1>4, <1>8 DEF Folds
  <2>2. g[s \ {Max(s)}] \in V
    <3>1. s \ {Max(s)} \in SUBSET S
      OBVIOUS
    <3> QED
      BY <3>1
  <2> QED
    BY <1>6, <2>1, <2>2
<1> DEFINE Iter(h) == h = [s \in SUBSET S |-> IF s = {} THEN base ELSE Told(h[s \ {Max(s)}], tellings[Max(s)])]
           iter == CHOOSE h : Iter(h)
<1>10. Iter(g)
  BY <1>9
<1>11. Iter(iter)
  BY <1>10
<1>12. FoldLeft(Told, base, tellings) = iter[S]
  BY DEF FoldLeft, MapThenFoldSet, S
<1>13. \A s \in SUBSET S : iter[s] = IF s = {} THEN base ELSE Told(iter[s \ {Max(s)}], tellings[Max(s)])
  <2> HIDE DEF iter
  <2> QED
    BY <1>11
<1> HIDE DEF iter
<1>14. Alike(g, iter, S, pick)
  BY <1>4, <1>9, <1>13 DEF Alike
<1>15. g[S] = iter[S]
  BY <1>2, <1>5, <1>14, FoldUnique
<1>16. g[S] \in V
  OBVIOUS
<1> QED
  BY <1>12, <1>15, <1>16 DEF V

LEMMA NewestFirstFacts ==
  ASSUME NEW ids \in SUBSET Nat, IsFiniteSet(ids)
  PROVE  /\ Cardinality(ids) \in Nat /\ DOMAIN NewestFirst(ids) = 1..Cardinality(ids)
         /\ \A k \in 1..Cardinality(ids) : NewestFirst(ids)[k] \in ids
<1>1. Cardinality(ids) \in Nat
  BY FS_CardinalityType
<1>2. ASSUME NEW k \in 1..Cardinality(ids) PROVE NewestFirst(ids)[k] \in ids
  <2>1. k - 1 \in Nat /\ k - 1 < Cardinality(ids)
    BY <1>1
  <2>2. \E i \in ids : Newer(ids, i) = k - 1
    BY <2>1, PlaceTaken
  <2>3. \E i \in ids : Cardinality({j \in ids : j > i}) = k - 1
    BY <2>2 DEF Newer
  <2>4. NewestFirst(ids)[k] = CHOOSE i \in ids : Cardinality({j \in ids : j > i}) = k - 1
    BY DEF NewestFirst
  <2> QED
    BY <2>3, <2>4
<1> QED
  BY <1>1, <1>2 DEF NewestFirst

\* What is told of each of some events is a sequence of what may be told.
LEMMA TellingsOf ==
  ASSUME NEW log, NEW ids \in SUBSET Nat, IsFiniteSet(ids), NEW told,
         \A i \in ids : told[i] \in Tellings(log)
  PROVE  [k \in DOMAIN NewestFirst(ids) |-> told[NewestFirst(ids)[k]]] \in Seq(Tellings(log))
<1>1. /\ Cardinality(ids) \in Nat /\ DOMAIN NewestFirst(ids) = 1..Cardinality(ids)
      /\ \A k \in 1..Cardinality(ids) : NewestFirst(ids)[k] \in ids
  BY NewestFirstFacts
<1> DEFINE first == NewestFirst(ids)
           n == Cardinality(ids)
<1> HIDE DEF first, n
<1>2. \A k \in 1..n : told[first[k]] \in Tellings(log)
  BY <1>1 DEF first, n
<1>3. [k \in 1..n |-> told[first[k]]] \in Seq(Tellings(log))
  <2>1. n \in Nat
    BY <1>1 DEF n
  <2> QED
    BY <1>2, <2>1
<1> QED
  BY <1>1, <1>3 DEF first, n

LEMMA RecentFacts ==
  ASSUME SelectionTypeOK, NEW kind \in {"activity_started", "experience", "activity_finished"}
  PROVE  /\ Recent(kind) \in SUBSET IdsOfKind(diary, kind) /\ Recent(kind) \in SUBSET Nat /\ IsFiniteSet(Recent(kind))
         /\ \A i \in Recent(kind) : diary[i] \in Entry /\ (kind # "experience" => CategoryOf(i) \in Categories)
         /\ \A i \in IdsOfKind(diary, kind) : i \in Recent(kind) <=> Newer(IdsOfKind(diary, kind), i) < MineLimit
         /\ \A i \in IdsOfKind(diary, kind), j \in Recent(kind) : j < i => i \in Recent(kind)
<1>1. diary \in Diaries /\ MineLimit \in Nat
  BY SelectionAssumption DEF SelectionTypeOK, Diaries
<1>2. /\ IdsOfKind(diary, kind) \in SUBSET Nat /\ IsFiniteSet(IdsOfKind(diary, kind))
      /\ \A i \in IdsOfKind(diary, kind) : diary[i] \in Entry /\ diary[i].kind = kind
  BY <1>1, EntriesOfKind
<1>3. kind # "experience" => \A i \in IdsOfKind(diary, kind) : CategoryOf(i) \in Categories
  BY <1>2 DEF CategoryOf, Categories, Entry, OfActivity, FromElsewhere
<1> QED
  BY <1>1, <1>2, <1>3, NewestFacts DEF Recent, EventsOfKind

\* The activity an experience is taken to be of.
LEMMA RunningIsTruth ==
  ASSUME SelectionTypeOK, ProperStarts(diary), NEW exp \in Recent("experience"),
         NEW context \in Nat, Foreign(diary[exp]) => context = 0
  PROVE  /\ Running(exp) \in Categories
         /\ Rests(diary, <<"strategy", context, Running(exp)>>, exp)
<1> DEFINE all == StartedIds(diary)
           starts == {i \in Recent("activity_started") : i < exp}
           start == diary[exp].start
           category == Running(exp)
           subject == <<"strategy", context, category>>
<1>1. exp \in Lived(diary) /\ exp \in Nat
  BY RecentFacts DEF Lived
<1>0. CASE Foreign(diary[exp])
  <2>1. start = 0 /\ subject[2] = 0 /\ Running(exp) \in Categories
    <3>1. /\ Recent("activity_started") \in SUBSET Nat /\ IsFiniteSet(Recent("activity_started"))
          /\ \A i \in Recent("activity_started") : CategoryOf(i) \in Categories
      BY RecentFacts
    <3>2. starts # {} => Max(starts) \in starts
      <4>1. starts \in SUBSET Nat /\ IsFiniteSet(starts)
        BY <3>1, FS_Subset
      <4> HIDE DEF starts
      <4>2. ASSUME starts # {} PROVE \E i \in starts : \A j \in starts : i >= j
        <5>1. PICK i \in starts : \A j \in starts : j <= i
          BY <4>1, <4>2, NewestOf
        <5>2. \A j \in starts : i >= j
          BY <4>1, <5>1
        <5> QED
          BY <5>2
      <4> QED
        BY <4>2 DEF Max
    <3>3. Running(exp) = IF starts = {} THEN "UNKNOWN" ELSE CategoryOf(Max(starts))
      BY DEF Running
    <3> QED
      BY <1>0, <3>1, <3>2, <3>3 DEF Foreign, Categories
  <2> QED
    BY <1>1, <2>1 DEF Rests, Truth
<1> SUFFICES ASSUME OwnStart(diary, exp)
             PROVE  Running(exp) \in Categories /\ Rests(diary, <<"strategy", context, Running(exp)>>, exp)
  BY <1>0, <1>1 DEF ProperStarts, ProperStart
<1>2. /\ start # 0 /\ start \in all /\ start < exp /\ diary[start].session = diary[exp].session
      /\ \A i \in all : start < i /\ i < exp => diary[i].session # diary[exp].session
  BY <1>1 DEF OwnStart
<1>3. /\ Recent("activity_started") \in SUBSET all /\ all \in SUBSET Nat /\ IsFiniteSet(all)
      /\ \A i \in all : i \in Recent("activity_started") <=> Newer(all, i) < MineLimit
      /\ \A i \in all, j \in Recent("activity_started") : j < i => i \in Recent("activity_started")
      /\ \A i \in Recent("activity_started") : CategoryOf(i) \in Categories
  <2>1. diary \in Diaries
    BY DEF SelectionTypeOK, Diaries
  <2> QED
    BY <2>1, RecentFacts, EntriesOfKind DEF StartedIds
<1>4. subject[1] = "strategy" /\ subject[3] = category
  OBVIOUS
<1> HIDE DEF all, subject, start
<1>5. CASE starts = {}
  <2>1. category = "UNKNOWN"
    BY <1>5 DEF Running
  <2>2. ~(Newer(all, start) < MineLimit)
    BY <1>2, <1>3, <1>5
  <2>3. Newer(all, start) \in Nat /\ MineLimit \in Nat
    BY <1>2, <1>3, NewerFacts, SelectionAssumption
  <2>4. Newer(all, start) >= MineLimit
    BY <2>2, <2>3
  <2>5. Truth(diary, subject, exp)
    BY <1>2, <1>4, <2>1, <2>4 DEF Truth, Newer, all, start
  <2> QED
    BY <1>1, <2>1, <2>5 DEF Rests, Categories, subject
<1>6. CASE starts # {}
  <2> DEFINE m == Max(starts)
  <2>1. starts \in SUBSET Nat /\ IsFiniteSet(starts)
    <3>1. starts \in SUBSET all
      BY <1>3
    <3> QED
      BY <1>3, <3>1, FS_Subset
  <2>2. m \in starts /\ \A i \in starts : m >= i
    <3> HIDE DEF starts
    <3>1. PICK i \in starts : \A j \in starts : j <= i
      BY <1>6, <2>1, NewestOf
    <3>2. \A j \in starts : i >= j
      BY <2>1, <3>1
    <3> QED
      BY <3>2 DEF Max
  <2>3. category = CategoryOf(m)
    BY <1>6 DEF Running
  <2> HIDE DEF m
  <2>4. m \in Recent("activity_started") /\ m < exp /\ m \in all /\ m \in Nat /\ start \in Nat
    BY <1>2, <1>3, <2>2
  <2>5. ~(m < start)
    <3> SUFFICES ASSUME m < start PROVE FALSE
      OBVIOUS
    <3>1. start \in starts
      BY <1>2, <1>3, <2>4
    <3>2. m >= start
      BY <2>2, <3>1
    <3> QED
      BY <2>4, <3>2
  <2>6. CASE m = start
    <3>1. Truth(diary, subject, exp)
      BY <1>2, <1>4, <2>3, <2>6 DEF Truth, CategoryOf, start
    <3> QED
      BY <1>1, <1>3, <2>3, <2>4, <3>1 DEF Rests, subject
  <2>7. CASE m > start
    <3>1. start < m /\ diary[m].session # diary[exp].session
      BY <1>2, <2>4, <2>7
    <3>2. Truth(diary, subject, exp)
      BY <1>2, <2>4, <3>1 DEF Truth, all, start
    <3> QED
      BY <1>1, <1>3, <2>3, <2>4, <3>2 DEF Rests, subject
  <2> QED
    BY <2>4, <2>5, <2>6, <2>7
<1> QED
  BY <1>5, <1>6

LEMMA TellFacts ==
  ASSUME NEW log, NEW name \in {"skill", "prefers", "strategy"}, NEW context \in Nat, NEW category \in Categories,
         NEW event \in Nat, NEW against \in BOOLEAN, Rests(log, <<name, context, category>>, event)
  PROVE  Tell(<<name, context, category>>, event, against) \in Tellings(log)
<1>1. <<name, context, category>> \in Subjects
  BY DEF Subjects
<1> QED
  BY <1>1 DEF Tell, Tellings

\* Only strategies rest on anything.
LEMMA OthersRest ==
  ASSUME NEW log, NEW name \in {"skill", "prefers"}, NEW context, NEW category, NEW event
  PROVE  Rests(log, <<name, context, category>>, event)
BY DEF Rests

LEMMA MinedIsHonest ==
  ASSUME SelectionTypeOK, ProperStarts(diary)
  PROVE  Skills \o Preferences \o Strategies \in Seq(Tellings(diary))
<1> DEFINE T == Tellings(diary)
<1>1. Skills \in Seq(T)
  <2> DEFINE ids == {k \in Recent("activity_finished") : Performed(k)}
             told == [i \in ids |-> Tell(<<"skill", 0, CategoryOf(i)>>, i, diary[i].result = "failure")]
             first == NewestFirst(ids)
  <2>1. ids \in SUBSET Nat /\ IsFiniteSet(ids) /\ \A i \in ids : CategoryOf(i) \in Categories
    <3>1. ids \in SUBSET Recent("activity_finished")
      OBVIOUS
    <3> QED
      BY <3>1, RecentFacts, FS_Subset
  <2> HIDE DEF ids
  <2>2. \A i \in ids : told[i] \in T
    BY <2>1, TellFacts, OthersRest
  <2>3. [k \in DOMAIN first |-> told[first[k]]] \in Seq(T)
    <3> HIDE DEF told
    <3> QED
      BY <2>1, <2>2, TellingsOf
  <2>4. \A k \in DOMAIN first : told[first[k]] = Tell(<<"skill", 0, CategoryOf(first[k])>>, first[k], diary[first[k]].result = "failure")
    <3>1. \A k \in DOMAIN first : first[k] \in ids
      BY <2>1, NewestFirstFacts
    <3> HIDE DEF first
    <3> QED
      BY <3>1
  <2>5. Skills = [k \in DOMAIN first |-> told[first[k]]]
    <3>1. Skills = [k \in DOMAIN first |-> Tell(<<"skill", 0, CategoryOf(first[k])>>, first[k], diary[first[k]].result = "failure")]
      BY DEF Skills, ids
    <3> HIDE DEF told, first
    <3> QED
      BY <2>4, <3>1
  <2> QED
    BY <2>3, <2>5
<1>2. ASSUME NEW ids \in SUBSET Nat, IsFiniteSet(ids), \A i \in ids : CategoryOf(i) \in Categories, NEW against \in BOOLEAN
      PROVE  LET first == NewestFirst(ids)
             IN  [i \in DOMAIN first |-> Tell(<<"prefers", 0, CategoryOf(first[i])>>, first[i], against)] \in Seq(T)
  <2> DEFINE told == [i \in ids |-> Tell(<<"prefers", 0, CategoryOf(i)>>, i, against)]
             first == NewestFirst(ids)
  <2>2. \A i \in ids : told[i] \in T
    BY <1>2, TellFacts, OthersRest
  <2>3. [k \in DOMAIN first |-> told[first[k]]] \in Seq(T)
    <3> HIDE DEF told
    <3> QED
      BY <1>2, <2>2, TellingsOf
  <2>4. \A k \in DOMAIN first : told[first[k]] = Tell(<<"prefers", 0, CategoryOf(first[k])>>, first[k], against)
    <3>1. \A k \in DOMAIN first : first[k] \in ids
      BY <1>2, NewestFirstFacts
    <3> HIDE DEF first
    <3> QED
      BY <3>1
  <2>5. [i \in DOMAIN first |-> Tell(<<"prefers", 0, CategoryOf(first[i])>>, first[i], against)]
          = [k \in DOMAIN first |-> told[first[k]]]
    <3> HIDE DEF told, first
    <3> QED
      BY <2>4
  <2> QED
    BY <2>3, <2>5
<1>3. Preferences \in Seq(T)
  <2> DEFINE chosen == Recent("activity_started")
             stuck == {k \in Recent("activity_finished") : diary[k].stuck /\ Performed(k)}
             of(first, against) == [i \in DOMAIN first |-> Tell(<<"prefers", 0, CategoryOf(first[i])>>, first[i], against)]
  <2>1. chosen \in SUBSET Nat /\ IsFiniteSet(chosen) /\ \A i \in chosen : CategoryOf(i) \in Categories
    BY RecentFacts
  <2>2. stuck \in SUBSET Nat /\ IsFiniteSet(stuck) /\ \A i \in stuck : CategoryOf(i) \in Categories
    <3>1. stuck \in SUBSET Recent("activity_finished")
      OBVIOUS
    <3> QED
      BY <3>1, RecentFacts, FS_Subset
  <2>3. of(NewestFirst(chosen), FALSE) \in Seq(T)
    BY <1>2, <2>1
  <2>4. of(NewestFirst(stuck), TRUE) \in Seq(T)
    <3> HIDE DEF stuck
    <3> QED
      BY <1>2, <2>2
  <2>5. Preferences = of(NewestFirst(chosen), FALSE) \o of(NewestFirst(stuck), TRUE)
    BY DEF Preferences
  <2> DEFINE one == of(NewestFirst(chosen), FALSE)
             two == of(NewestFirst(stuck), TRUE)
  <2>6. one \in Seq(T) /\ two \in Seq(T) /\ Preferences = one \o two
    BY <2>3, <2>4, <2>5
  <2> HIDE DEF one, two, T
  <2> QED
    BY <2>6
<1>4. Strategies \in Seq(T)
  <2> DEFINE ids == {i \in Recent("experience") : diary[i].result # "unknown"}
             told == [i \in ids |-> Tell(<<"strategy", Context(diary[i].key), Running(i)>>, i, diary[i].result = "failure")]
             first == NewestFirst(ids)
  <2>1. ids \in SUBSET Nat /\ IsFiniteSet(ids) /\ \A i \in ids : diary[i] \in Entry
    <3>1. ids \in SUBSET Recent("experience")
      OBVIOUS
    <3> QED
      BY <3>1, RecentFacts, FS_Subset
  <2>2. \A i \in ids : told[i] \in T
    <3> TAKE i \in ids
    <3>1. Context(diary[i].key) \in Nat /\ (Foreign(diary[i]) => Context(diary[i].key) = 0)
      <4>1. diary[i] \in OfActivity \/ diary[i] \in FromElsewhere
        BY <2>1 DEF Entry
      <4>2. diary[i].key \in Keyed \/ diary[i].key = <<"none", 0>>
        BY <4>1 DEF OfActivity, FromElsewhere
      <4>3. diary[i].key[2] \in Nat
        BY <4>2 DEF Keyed
      <4>4. Context(<<"none", 0>>) = 0
        BY DEF Context
      <4> QED
        BY <4>3, <4>4 DEF Context, Foreign
    <3>2. Running(i) \in Categories /\ Rests(diary, <<"strategy", Context(diary[i].key), Running(i)>>, i)
      <4> DEFINE context == Context(diary[i].key)
      <4>1. context \in Nat /\ (Foreign(diary[i]) => context = 0) /\ i \in Recent("experience")
        BY <3>1
      <4> HIDE DEF context
      <4>2. Running(i) \in Categories /\ Rests(diary, <<"strategy", context, Running(i)>>, i)
        BY <4>1, RunningIsTruth
      <4> QED
        BY <4>2 DEF context
    <3>3. i \in Nat /\ (diary[i].result = "failure") \in BOOLEAN
      BY <2>1
    <3> QED
      BY <3>1, <3>2, <3>3, TellFacts
  <2> HIDE DEF ids
  <2>3. [k \in DOMAIN first |-> told[first[k]]] \in Seq(T)
    <3> HIDE DEF told
    <3> QED
      BY <2>1, <2>2, TellingsOf
  <2>4. \A k \in DOMAIN first : told[first[k]] = Tell(<<"strategy", Context(diary[first[k]].key), Running(first[k])>>, first[k],
                                                      diary[first[k]].result = "failure")
    <3>1. \A k \in DOMAIN first : first[k] \in ids
      BY <2>1, NewestFirstFacts
    <3> HIDE DEF first
    <3> QED
      BY <3>1
  <2>5. Strategies = [k \in DOMAIN first |-> told[first[k]]]
    <3>1. Strategies = [k \in DOMAIN first |-> Tell(<<"strategy", Context(diary[first[k]].key), Running(first[k])>>, first[k],
                                                    diary[first[k]].result = "failure")]
      BY DEF Strategies, ids
    <3> HIDE DEF told, first
    <3> QED
      BY <2>4, <3>1
  <2> QED
    BY <2>3, <2>5
<1> HIDE DEF T
<1>5. Skills \o Preferences \in Seq(T)
  BY <1>1, <1>3
<1>6. Skills \o Preferences \o Strategies \in Seq(T)
  BY <1>4, <1>5
<1> QED
  BY <1>6 DEF T

\* Mining keeps the table honest.
LEMMA MineKeeps ==
  ASSUME StrategyInv, Mine
  PROVE  lessons' \in Tables(diary)
<1>1. Skills \o Preferences \o Strategies \in Seq(Tellings(diary))
  BY MinedIsHonest DEF StrategyInv, RotationInv
<1>2. lessons' = FoldLeft(Told, lessons, Skills \o Preferences \o Strategies)
  BY DEF Mine
<1> QED
  BY <1>1, <1>2, AllToldKept DEF StrategyInv

\* What an experience is of does not change, and what was true of it stays true.
LEMMA TruthGrows ==
  ASSUME NEW log \in Diaries, NEW e \in Entry, NEW x \in Lived(log), ProperStart(log, x)
  PROVE  /\ x \in Lived(Append(log, e)) /\ ProperStart(Append(log, e), x)
         /\ \A subject : Truth(log, subject, x) => Truth(Append(log, e), subject, x)
<1> DEFINE new == Append(log, e)
           start == log[x].start
           A == StartedIds(log)
           B == StartedIds(new)
           last == Len(log) + 1
<1>1. /\ new \in Diaries /\ Len(log) \in Nat /\ \A i \in 1..Len(log) : new[i] = log[i]
      /\ B = IF e.kind = "activity_started" THEN A \cup {last} ELSE A
      /\ Lived(new) = IF e.kind = "experience" THEN Lived(log) \cup {last} ELSE Lived(log)
  BY Appended DEF StartedIds, Lived
<1>2. /\ A \in SUBSET Nat /\ B \in SUBSET Nat /\ IsFiniteSet(B) /\ x \in Nat /\ x < last
      /\ \A i \in A : i \in 1..Len(log) /\ new[i] = log[i]
      /\ new[x] = log[x]
  <2>1. x \in 1..Len(log)
    BY EntriesOfKind DEF Lived
  <2>2. A \in SUBSET Nat /\ \A i \in A : i \in 1..Len(log)
    BY EntriesOfKind DEF StartedIds
  <2>3. B \in SUBSET Nat /\ IsFiniteSet(B)
    BY <1>1, EntriesOfKind DEF StartedIds
  <2> HIDE DEF new, A, B
  <2> QED
    BY <1>1, <2>1, <2>2, <2>3
<1>0. CASE Foreign(log[x])
  <2>1. ProperStart(new, x) /\ x \in Lived(new) /\ \A subject : Truth(log, subject, x) => Truth(new, subject, x)
    BY <1>0, <1>1, <1>2 DEF ProperStart, Truth, Foreign
  <2> QED
    BY <2>1
<1> SUFFICES ASSUME OwnStart(log, x)
             PROVE  x \in Lived(new) /\ ProperStart(new, x) /\ \A subject : Truth(log, subject, x) => Truth(new, subject, x)
  BY <1>0 DEF ProperStart
<1>3. start # 0 /\ start \in A /\ start < x /\ log[start].session = log[x].session
      /\ \A i \in A : start < i /\ i < x => log[i].session # log[x].session
  BY DEF OwnStart
<1>4. A \subseteq B /\ \A i \in B : i < x => i \in A
  <2>1. ~(last < x)
    BY <1>1, <1>2
  <2> HIDE DEF new, A, B, last
  <2> QED
    BY <1>1, <2>1
<1> HIDE DEF new, A, B, last, start
<1>5. new[x] = log[x] /\ new[start] = log[start] /\ \A i \in A : new[i] = log[i]
  BY <1>2, <1>3
<1>6. ProperStart(new, x)
  BY <1>3, <1>4, <1>5 DEF ProperStart, OwnStart, A, B, start
<1>7. ASSUME NEW subject, Truth(log, subject, x) PROVE Truth(new, subject, x)
  <2>1. CASE subject[3] = SourceOf(log[start].key).category
    BY <1>3, <1>5, <2>1 DEF Truth, start
  <2>2. CASE \E i \in A : start < i /\ i < x /\ log[i].session # log[x].session
    BY <1>3, <1>4, <1>5, <2>2 DEF Truth, start, B
  <2>3. CASE subject[3] = "UNKNOWN" /\ Cardinality({i \in A : i > start}) >= MineLimit
    <3>1. IsFiniteSet({i \in B : i > start}) /\ Cardinality({i \in A : i > start}) <= Cardinality({i \in B : i > start})
      <4>1. {i \in B : i > start} \in SUBSET B /\ {i \in A : i > start} \in SUBSET {i \in B : i > start}
        BY <1>4
      <4> QED
        BY <1>2, <4>1, FS_Subset
    <3>2. /\ Cardinality({i \in A : i > start}) \in Nat /\ Cardinality({i \in B : i > start}) \in Nat
          /\ MineLimit \in Nat
      <4>1. {i \in A : i > start} \in SUBSET {i \in B : i > start}
        BY <1>4
      <4> QED
        BY <3>1, <4>1, FS_Subset, FS_CardinalityType, SelectionAssumption
    <3>3. Cardinality({i \in B : i > start}) >= MineLimit
      BY <2>3, <3>1, <3>2
    <3> QED
      BY <1>3, <1>5, <2>3, <3>3 DEF Truth, start, B
  <2> QED
    BY <1>3, <1>7, <2>1, <2>2, <2>3 DEF Truth, A, start
<1>8. x \in Lived(new)
  BY <1>1
<1> QED
  BY <1>6, <1>7, <1>8 DEF new

LEMMA TablesGrow ==
  ASSUME NEW log \in Diaries, NEW e \in Entry, ProperStarts(log), NEW table \in Tables(log)
  PROVE  table \in Tables(Append(log, e))
<1> DEFINE new == Append(log, e)
<1>1. \A subject, x : Rests(log, subject, x) => Rests(new, subject, x)
  BY TruthGrows DEF ProperStarts, Rests
<1> HIDE DEF new
<1>2. \A subject, row : Honest(log, subject, row) => Honest(new, subject, row)
  BY <1>1 DEF Honest
<1>3. table \in Tables(new)
  BY <1>2, TableFacts
<1> QED
  BY <1>3 DEF new

LEMMA StartsGrow ==
  ASSUME NEW log \in Diaries, NEW e \in Entry, ProperStarts(log),
         e.kind = "experience" => ProperStart(Append(log, e), Len(log) + 1)
  PROVE  ProperStarts(Append(log, e))
<1> SUFFICES ASSUME NEW x \in Lived(Append(log, e)) PROVE ProperStart(Append(log, e), x)
  BY DEF ProperStarts
<1>1. x \in Lived(log) \/ (e.kind = "experience" /\ x = Len(log) + 1)
  BY Appended DEF Lived
<1> QED
  BY <1>1, TruthGrows DEF ProperStarts

\* The experience a session records is of the selection it was at.
LEMMA LivedProperly ==
  ASSUME RotationInv, NEW s \in Engines, engine[s].at = "run", NEW e \in Entry,
         e.kind = "experience", e.session = s, e.start = engine[s].start
  PROVE  ProperStart(Append(diary, e), Len(diary) + 1)
<1> DEFINE new == Append(diary, e)
           last == Len(diary) + 1
           start == engine[s].start
           A == StartedIds(diary)
<1>1. diary \in Diaries
  BY DEF RotationInv, SelectionTypeOK, Diaries
<1>2. /\ Len(diary) \in Nat /\ new[last] = e /\ \A i \in 1..Len(diary) : new[i] = diary[i]
      /\ StartedIds(new) = A
  BY <1>1, Appended DEF StartedIds
<1>3. \A i \in A : i \in 1..Len(diary) /\ i \in Nat
  BY <1>1, EntriesOfKind DEF StartedIds
<1>4. start \in Selections(s) /\ \A i \in Selections(s) : i <= start
  BY DEF RotationInv, Underway
<1>5. \A i \in A : i \in Selections(s) <=> diary[i].session = s
  BY DEF Selections, StartedIds
<1>6. start \in A /\ start # 0
  BY <1>1, <1>4, EntriesOfKind DEF Selections, StartedIds
<1> HIDE DEF new, last, start, A
<1>7. \A i \in A : new[i] = diary[i] /\ (start < i => diary[i].session # s)
  <2> TAKE i \in A
  <2>1. i \in Nat /\ start \in Nat /\ new[i] = diary[i]
    BY <1>2, <1>3, <1>6
  <2>2. diary[i].session = s => i <= start
    BY <1>4, <1>5
  <2> QED
    BY <2>1, <2>2
<1>8. start < last
  BY <1>2, <1>3, <1>6 DEF last
<1>9. new[start].session = s
  BY <1>4, <1>5, <1>6, <1>7
<1>10. new[last].start = start /\ new[last].session = s
  BY <1>2 DEF start
<1>11. ProperStart(new, last)
  BY <1>2, <1>6, <1>7, <1>8, <1>9, <1>10 DEF ProperStart, OwnStart
<1> QED
  BY <1>11 DEF new, last

LEMMA StrategyStart ==
  ASSUME SelectionInit
  PROVE  StrategyInv
<1>1. RotationInv
  BY RotationStart
<1>2. Lived(diary) = {}
  <2>1. ASSUME NEW i \in DOMAIN diary PROVE diary[i].kind # "experience"
    <3>1. diary \in Seq(PastEntry)
      BY SelectionAssumption DEF SelectionInit, PastEntry
    <3>2. diary[i] \in PastEntry
      BY <3>1
    <3> QED
      BY <3>2 DEF PastEntry
  <2> QED
    BY <2>1 DEF Lived, IdsOfKind
<1>3. lessons = [subject \in {} |-> FirstSighting("none", 0, FALSE)]
  BY DEF SelectionInit
<1>4. lessons \in Tables(diary)
  <2>1. DOMAIN lessons = {} /\ lessons = [x \in DOMAIN lessons |-> lessons[x]]
    BY <1>3
  <2> QED
    BY <2>1, TableFacts
<1> QED
  BY <1>1, <1>2, <1>4 DEF StrategyInv, ProperStarts

\* A step of the choice of activities keeps what strategies rest on.
LEMMA StrategyInvKept ==
  ASSUME StrategyInv, [SelectionNext]_selectionVars
  PROVE  StrategyInv'
<1>1. RotationInv /\ RotationInv' /\ SelectionTypeOK
  BY RotationInvKept DEF StrategyInv, RotationInv
<1>2. diary \in Diaries
  BY <1>1 DEF SelectionTypeOK, Diaries
<1>3. ASSUME NEW log \in Diaries, NEW e \in Entry, ProperStarts(log), lessons \in Tables(log), e.kind # "experience"
      PROVE  Append(log, e) \in Diaries /\ ProperStarts(Append(log, e)) /\ lessons \in Tables(Append(log, e))
  BY <1>3, Appended, StartsGrow, TablesGrow
<1>4. CASE \E s \in Engines : Choose(s)
  <2>1. PICK s \in Engines : Choose(s)
    BY <1>4
  <2>2. PICK e \in Entry : diary' = Append(diary, e) /\ e.kind = "activity_started"
    BY <1>1, <2>1, ChooseDoes
  <2>3. lessons' = lessons
    BY <1>1, <2>1, ChooseDoes
  <2> QED
    BY <1>1, <1>2, <1>3, <2>2, <2>3 DEF StrategyInv
<1>5. CASE \E s \in Engines : Live(s)
  <2>1. PICK s \in Engines : Live(s)
    BY <1>5
  <2>2. PICK e \in Entry : diary' = Append(diary, e) /\ e.kind = "experience" /\ e.session = s /\ e.start = engine[s].start
    BY <1>1, <2>1, LiveDoes
  <2>3. lessons' = lessons /\ engine[s].at = "run"
    BY <1>1, <2>1, LiveDoes
  <2>4. ProperStarts(diary') /\ lessons \in Tables(diary')
    BY <1>1, <1>2, <2>2, <2>3, LivedProperly, StartsGrow, TablesGrow DEF StrategyInv
  <2> QED
    BY <1>1, <2>3, <2>4 DEF StrategyInv
<1>6. CASE \E s \in Engines : FinishNormal(s) \/ FinishStuck(s)
  <2>1. PICK s \in Engines : FinishNormal(s) \/ FinishStuck(s)
    BY <1>6
  <2>2. lessons' = lessons
    BY <1>1, <2>1, FinishDoes
  <2>3. \/ \E e \in Entry : diary' = Append(diary, e) /\ e.kind = "activity_finished"
        \/ \E e, f \in Entry : diary' = Append(Append(diary, e), f) /\ e.kind = "activity_finished" /\ f.kind = "goal_opened"
    BY <1>1, <2>1, FinishDoes
  <2>4. ProperStarts(diary) /\ lessons \in Tables(diary)
    BY DEF StrategyInv
  <2>5. ProperStarts(diary') /\ lessons \in Tables(diary')
    <3>1. CASE \E e \in Entry : diary' = Append(diary, e) /\ e.kind = "activity_finished"
      BY <1>2, <1>3, <2>4, <3>1
    <3>2. CASE \E e, f \in Entry : diary' = Append(Append(diary, e), f) /\ e.kind = "activity_finished" /\ f.kind = "goal_opened"
      <4>1. PICK e, f \in Entry : diary' = Append(Append(diary, e), f) /\ e.kind = "activity_finished" /\ f.kind = "goal_opened"
        BY <3>2
      <4> DEFINE once == Append(diary, e)
      <4>2. once \in Diaries /\ ProperStarts(once) /\ lessons \in Tables(once)
        BY <1>2, <1>3, <2>4, <4>1
      <4>3. diary' = Append(once, f)
        BY <4>1
      <4> HIDE DEF once
      <4> QED
        BY <1>3, <4>1, <4>2, <4>3
    <3> QED
      BY <2>3, <3>1, <3>2
  <2> QED
    BY <1>1, <2>2, <2>5 DEF StrategyInv
<1>9. CASE LiveElsewhere
  <2>1. PICK e \in FromElsewhere : diary' = Append(diary, e)
    BY <1>9 DEF LiveElsewhere, Noticed, Happening, FromElsewhere
  <2>2. e \in Entry /\ Foreign(e) /\ lessons' = lessons
    BY <1>9 DEF LiveElsewhere, Foreign, FromElsewhere, Entry
  <2>3. Append(diary, e)[Len(diary) + 1] = e
    BY <1>2, <2>2, Appended
  <2>4. ProperStarts(diary') /\ lessons \in Tables(diary')
    BY <1>2, <2>1, <2>2, <2>3, StartsGrow, TablesGrow DEF StrategyInv, ProperStart
  <2> QED
    BY <1>1, <2>2, <2>4 DEF StrategyInv
<1>7. CASE Mine
  <2>1. lessons' \in Tables(diary) /\ diary' = diary
    BY <1>7, MineKeeps DEF Mine
  <2> QED
    BY <1>1, <2>1 DEF StrategyInv
<1>8. CASE UNCHANGED selectionVars
  BY <1>1, <1>8 DEF StrategyInv, selectionVars
<1> QED
  BY <1>4, <1>5, <1>6, <1>7, <1>8, <1>9 DEF SelectionNext

LEMMA StrategiesHold ==
  ASSUME StrategyInv
  PROVE  StrategiesTruthful
<1> SUFFICES ASSUME NEW subject \in DOMAIN lessons, subject[1] = "strategy",
                    NEW e \in ToSet(lessons[subject].support \o lessons[subject].contra)
             PROVE  Truth(diary, subject, e)
  BY DEF StrategiesTruthful, Truth, CategoryOf, StartedIds
<1> DEFINE row == lessons[subject]
<1>1. row \in LearnedRow /\ Honest(diary, subject, row)
  BY TableFacts DEF StrategyInv
<1> HIDE DEF row
<1>2. row.support \in Seq(Nat) /\ row.contra \in Seq(Nat)
  BY <1>1 DEF LearnedRow
<1>3. PICK i \in DOMAIN (row.support \o row.contra) : e = (row.support \o row.contra)[i]
  BY DEF ToSet, row
<1>4. Rests(diary, subject, e)
  <2> DEFINE a == row.support
             b == row.contra
  <2>1. a \in Seq(Nat) /\ b \in Seq(Nat)
    BY <1>2
  <2>2. (\A j \in 1..Len(a) : Rests(diary, subject, a[j])) /\ (\A j \in 1..Len(b) : Rests(diary, subject, b[j]))
    BY <1>1 DEF Honest
  <2>3. i \in DOMAIN (a \o b) /\ e = (a \o b)[i]
    BY <1>3
  <2> HIDE DEF a, b
  <2>4. Len(a) \in Nat /\ Len(b) \in Nat /\ i \in 1..(Len(a) + Len(b))
    BY <2>1, <2>3
  <2>5. (a \o b)[i] = IF i <= Len(a) THEN a[i] ELSE b[i - Len(a)]
    BY <2>1, <2>4
  <2>6. i <= Len(a) => i \in 1..Len(a)
    BY <2>4
  <2>7. ~(i <= Len(a)) => i - Len(a) \in 1..Len(b)
    BY <2>4
  <2> QED
    BY <2>2, <2>3, <2>5, <2>6, <2>7
<1> QED
  BY <1>4 DEF Rests

-----------------------------------------------------------------------------
(* What holds in every state of the parts that stand alone. *)

\* For all hubs, rules, keys and cooldowns: while a hub lives, the rules that
\* share a key fire no more often than the cooldown of the later one allows,
\* however long a poll takes and whatever else is recorded meanwhile
\* (sensors.py:128-131).
THEOREM RulesFireApart == StandaloneSpec => []FiredApart
<1>1. StandaloneInit => SensorInv
  BY SensorStart DEF StandaloneInit
<1>2. SensorInv /\ [StandaloneNext]_standaloneVars => SensorInv'
  <2> SUFFICES ASSUME SensorInv, [StandaloneNext]_standaloneVars PROVE SensorInv'
    OBVIOUS
  <2>1. [SensorNext]_sensorVars
    BY DEF StandaloneNext, SensorStep, BrokerStep, SelectionStep, standaloneVars
  <2> QED
    BY <2>1, SensorInvKept
<1>3. SensorInv => FiredApart
  BY DEF SensorInv
<1> QED
  BY <1>1, <1>2, <1>3, PTL DEF StandaloneSpec

\* For all hubs, rules and periods, with any number of restarts and of other
\* wakes: two sensor wakes of which the second could see the first are a
\* cooldown apart, and have different causes (sensors.py:159-166).
THEOREM WakesKeptApart == StandaloneSpec => []WakesApart
<1>1. StandaloneInit => SensorInv
  BY SensorStart DEF StandaloneInit
<1>2. SensorInv /\ [StandaloneNext]_standaloneVars => SensorInv'
  <2> SUFFICES ASSUME SensorInv, [StandaloneNext]_standaloneVars PROVE SensorInv'
    OBVIOUS
  <2>1. [SensorNext]_sensorVars
    BY DEF StandaloneNext, SensorStep, BrokerStep, SelectionStep, standaloneVars
  <2> QED
    BY <2>1, SensorInvKept
<1>3. SensorInv => WakesApart
  BY WakesAreApart
<1> QED
  BY <1>1, <1>2, <1>3, PTL DEF StandaloneSpec

\* For all callers, paths, sizes and limits, whatever each of the writers has
\* read before the others wrote: what is above the disk quota was written by
\* somebody who is still to look, or whose look never came, for it has died or
\* met a file that had just gone (broker.py:72-74, 97, 123-125).
THEOREM BrokerWithinQuota == StandaloneSpec => []WithinQuota
<1>1. StandaloneInit => BrokerInv
  BY BrokerStart DEF StandaloneInit
<1>2. BrokerInv /\ [StandaloneNext]_standaloneVars => BrokerInv'
  <2> SUFFICES ASSUME BrokerInv, [StandaloneNext]_standaloneVars PROVE BrokerInv'
    OBVIOUS
  <2>1. [BrokerNext]_brokerVars
    BY DEF StandaloneNext, SensorStep, BrokerStep, SelectionStep, standaloneVars
  <2> QED
    BY <2>1, BrokerInvKept
<1>3. BrokerInv => WithinQuota
  BY QuotaHolds
<1> QED
  BY <1>1, <1>2, <1>3, PTL DEF StandaloneSpec

\* For all sources of evidence, windows, candidate limits and sessions: of
\* candidates that are on offer all the time, and few enough for the window,
\* each is selected within one selection more than the window holds, whatever
\* strategies were learned meanwhile (activities.py:313-316, 343-346,
\* autonomy.py:279).
THEOREM EachHasItsTurn == StandaloneSpec => []Rotation
<1>1. StandaloneInit => RotationInv
  BY RotationStart DEF StandaloneInit
<1>2. RotationInv /\ [StandaloneNext]_standaloneVars => RotationInv'
  <2> SUFFICES ASSUME RotationInv, [StandaloneNext]_standaloneVars PROVE RotationInv'
    OBVIOUS
  <2>1. [SelectionNext]_selectionVars
    BY DEF StandaloneNext, SensorStep, BrokerStep, SelectionStep, standaloneVars
  <2> QED
    BY <2>1, RotationInvKept
<1>3. RotationInv => Rotation
  BY RotationHolds
<1> QED
  BY <1>1, <1>2, <1>3, PTL DEF StandaloneSpec

\* For any number of sessions, events and runs of the miners: what a strategy
\* rests on are experiences of activities of its category, unless a second
\* session started one meanwhile, or the start was out of the miner's sight
\* (learned.py:422-429); and an experience of no activity, such as an
\* acquisition's, counts for general strategies only.
THEOREM StrategiesRestOnTheirs == StandaloneSpec => []StrategiesTruthful
<1>1. StandaloneInit => StrategyInv
  BY StrategyStart DEF StandaloneInit
<1>2. StrategyInv /\ [StandaloneNext]_standaloneVars => StrategyInv'
  <2> SUFFICES ASSUME StrategyInv, [StandaloneNext]_standaloneVars PROVE StrategyInv'
    OBVIOUS
  <2>1. [SelectionNext]_selectionVars
    BY DEF StandaloneNext, SensorStep, BrokerStep, SelectionStep, standaloneVars
  <2> QED
    BY <2>1, StrategyInvKept
<1>3. StrategyInv => StrategiesTruthful
  BY StrategiesHold
<1> QED
  BY <1>1, <1>2, <1>3, PTL DEF StandaloneSpec
=============================================================================
