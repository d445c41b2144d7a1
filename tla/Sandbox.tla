------------------------------- MODULE Sandbox ------------------------------
(***************************************************************************)
(* SandboxController.run_experiment (sandbox_controller.py) over a         *)
(* provider's virtual machines (vm_sandbox.py, proxmox_provider.py), an    *)
(* audit sink and the event ledger.                                        *)
(*                                                                         *)
(* Every call that leaves the controller is a step of its own and may      *)
(* raise: the RuntimeError or ValueError the code handles (a fault), or    *)
(* anything else, such as the operator's Ctrl-C, which only the finally    *)
(* block sees (an interrupt).  The operator may cancel at any time from    *)
(* another thread, and the process may die between any two steps.  No      *)
(* caller passes restore_after or keep_vm: they have their defaults.       *)
(***************************************************************************)
EXTENDS Naturals, Sequences, FiniteSets

CONSTANTS
  MaxExperiments,  \* bound: experiments asked for, in all
  MaxOperations,   \* bound: operations of a proposal
  MaxFaults,       \* bound: calls that raise what the code handles
  MaxCancels,      \* bound: cancellations
  MaxCrashes       \* bound: interrupts and deaths of the process

ASSUME SandboxBounds ==
  /\ MaxExperiments \in Nat /\ MaxCancels \in Nat /\ MaxFaults \in Nat /\ MaxCrashes \in Nat
  /\ MaxOperations \in Nat \ {0}

VARIABLES
  setup,      \* the controller's backend and whether it has an approver
  vms,        \* the status of every VM ever made, "absent" when destroyed
  audit,      \* the audit trail, as <<action, VM>>
  ledger,     \* the events of experiments
  counter,    \* _counter: experiments asked for since the process started
  cancelled,  \* _cancelled: experiment numbers
  pc,         \* where run_experiment is
  record,     \* the ExperimentRecord, with the proposal and the flags of the call
  vm,         \* the local variable sandbox_id, 0 for ""
  budget      \* what is left of the bounds

vars == <<setup, vms, audit, ledger, counter, cancelled, pc, record, vm, budget>>
outside == <<setup, cancelled, counter>>

-----------------------------------------------------------------------------
NoVM == 0

\* Not in the code: `bad', a command has failed or corrupted the guest or the
\* artifacts could not be had, and `late', the commands executed after the
\* experiment had been cancelled.
FreshRecord(size) ==
  [status |-> "proposed", outcome |-> "unknown", vm |-> NoVM, count |-> 0, rolled |-> FALSE,
   size |-> size, bad |-> FALSE, late |-> 0]

Alive == {v \in DOMAIN vms : vms[v] # "absent"}

Init ==
  /\ setup \in [real : BOOLEAN, approver : BOOLEAN]
  /\ vms = <<>> /\ audit = {} /\ ledger = <<>>
  /\ counter = 0 /\ cancelled = {}
  /\ pc = "idle" /\ record = FreshRecord(1) /\ vm = NoVM
  /\ budget = [experiments |-> MaxExperiments, faults |-> MaxFaults,
               cancels |-> MaxCancels, crashes |-> MaxCrashes]

Goto(from, to) == pc = from /\ pc' = to

\* The call raises RuntimeError or ValueError.
Fault == budget.faults > 0 /\ budget' = [budget EXCEPT !.faults = @ - 1]

\* The except clause around the experiment.
Failed == [record EXCEPT !.status = "failed", !.outcome = "failure"]
GiveUp(from) == Fault /\ Goto(from, "cleanup") /\ record' = Failed

Audit(action) == audit' = audit \cup {<<action, vm>>}

-----------------------------------------------------------------------------
(* Before the try block: the approval gate. *)

BeginExperiment ==
  /\ Goto("idle", "approve")
  /\ budget.experiments > 0
  /\ budget' = [budget EXCEPT !.experiments = @ - 1]
  /\ counter' = counter + 1
  /\ \E size \in 1..MaxOperations : record' = FreshRecord(size)
  /\ vm' = NoVM
  /\ UNCHANGED <<setup, vms, audit, ledger, cancelled>>

\* A real backend without an approver raises; an approver may deny.
RefuseExperiment ==
  /\ Goto("approve", "idle")
  /\ setup.real \/ setup.approver
  /\ record' = IF setup.approver THEN [record EXCEPT !.status = "cancelled"] ELSE record
  /\ UNCHANGED <<outside, vms, audit, ledger, vm, budget>>

Approve ==
  /\ Goto("approve", "create")
  /\ setup.real => setup.approver
  /\ record' = [record EXCEPT !.status = "validated"]
  /\ UNCHANGED <<outside, vms, audit, ledger, vm, budget>>

-----------------------------------------------------------------------------
(* The VM is made ready. *)

NewVM == /\ vms' = Append(vms, "creating")
         /\ vm' = Len(vms) + 1

CreateVM ==
  /\ Goto("create", "audit_create")
  /\ NewVM
  /\ record' = [record EXCEPT !.vm = Len(vms) + 1]
  /\ UNCHANGED <<outside, audit, ledger, budget>>

\* ProxmoxSandboxProvider.create clones before it configures: a fault in
\* between leaves a clone nobody knows of.
CreateFails(from) ==
  /\ GiveUp(from)
  /\ \/ UNCHANGED vms
     \/ setup.real /\ vms' = Append(vms, "creating")
  /\ UNCHANGED <<outside, audit, ledger, vm>>

AuditCreate ==
  /\ \/ Goto("audit_create", "start") /\ Audit("create") /\ UNCHANGED <<record, budget>>
     \/ GiveUp("audit_create") /\ UNCHANGED audit
  /\ UNCHANGED <<outside, vms, ledger, vm>>

StartVM ==
  /\ \/ /\ Goto("start", "ready")
        /\ vms' = [vms EXCEPT ![vm] = "running"]
        /\ UNCHANGED <<record, budget>>
     \/ GiveUp("start") /\ UNCHANGED vms
  /\ UNCHANGED <<outside, audit, ledger, vm>>

\* wait_ready and the baseline snapshot.
ReadyVM ==
  /\ \/ Goto("ready", "command") /\ record' = [record EXCEPT !.status = "running"] /\ UNCHANGED budget
     \/ GiveUp("ready")
  /\ UNCHANGED <<outside, vms, audit, ledger, vm>>

-----------------------------------------------------------------------------
(* The operations, one by one; the time budget may be used up before any. *)

\* After the loop: what happens to a status that is not "running".
Aftermath(status) ==
  /\ record' = [record EXCEPT !.status = status, !.outcome = "failure"]
  /\ pc' = IF status \in {"failed", "corrupted"} THEN "restore" ELSE "cleanup"

\* Mutant: the cancellation is looked at once, before the loop.
NextCommandUnasked ==
  /\ pc = "command"
  /\ record.count < record.size
  /\ IF counter \in cancelled /\ record.count = 0 THEN Aftermath("cancelled")
     ELSE \/ Aftermath("timeout")
          \/ pc' = "execute" /\ UNCHANGED record
  /\ UNCHANGED <<outside, vms, audit, ledger, vm, budget>>

NextCommand ==
  /\ pc = "command"
  /\ record.count < record.size
  /\ IF counter \in cancelled THEN Aftermath("cancelled")
     ELSE \/ Aftermath("timeout")
          \/ pc' = "execute" /\ UNCHANGED record
  /\ UNCHANGED <<outside, vms, audit, ledger, vm, budget>>

Executed == [record EXCEPT !.count = @ + 1, !.late = IF counter \in cancelled THEN @ + 1 ELSE @]

CommandSucceeds ==
  /\ Goto("execute", "command")
  /\ record' = Executed
  /\ UNCHANGED <<outside, vms, audit, ledger, vm, budget>>

\* The exit code is not 0, or the guest has corrupted itself.
CommandFails ==
  /\ pc = "execute"
  /\ \E status \in {"failed", "corrupted"} :
       /\ vms' = IF status = "corrupted" THEN [vms EXCEPT ![vm] = "corrupted"] ELSE vms
       /\ record' = [Executed EXCEPT !.status = status, !.outcome = "failure", !.bad = TRUE]
       /\ pc' = "restore"
  /\ UNCHANGED <<outside, audit, ledger, vm, budget>>

\* execute() raises, or status() after it.
CommandRaises ==
  /\ Fault /\ Goto("execute", "cleanup")
  /\ \E done \in {record, Executed} :
       record' = [done EXCEPT !.status = "failed", !.outcome = "failure"]
  /\ UNCHANGED <<outside, vms, audit, ledger, vm>>

\* The outcome is settled before the artifacts are collected.
FinishCommands ==
  /\ Goto("command", "collect")
  /\ record.count = record.size
  /\ record' = [record EXCEPT !.status = "observing", !.outcome = "success"]
  /\ UNCHANGED <<outside, vms, audit, ledger, vm, budget>>

Uncollected == [record EXCEPT !.status = "failed", !.outcome = "failure", !.bad = TRUE]

\* Mutant: what is missing is noted, and the outcome stays.
CollectKept ==
  /\ pc = "collect"
  /\ \/ pc' = "cleanup" /\ record' = [record EXCEPT !.status = "completed"] /\ UNCHANGED budget
     \/ pc' = "restore" /\ record' = [record EXCEPT !.status = "failed", !.bad = TRUE] /\ UNCHANGED budget
     \/ Fault /\ pc' = "cleanup" /\ record' = Uncollected
  /\ UNCHANGED <<outside, vms, audit, ledger, vm>>

\* A path that is not there raises ValueError, any other trouble RuntimeError.
Collect ==
  /\ pc = "collect"
  /\ \/ pc' = "cleanup" /\ record' = [record EXCEPT !.status = "completed"] /\ UNCHANGED budget
     \/ pc' = "restore" /\ record' = Uncollected /\ UNCHANGED budget
     \/ Fault /\ pc' = "cleanup" /\ record' = Uncollected
  /\ UNCHANGED <<outside, vms, audit, ledger, vm>>

-----------------------------------------------------------------------------
(* Rollback, or a new VM when the rollback fails. *)

Restore ==
  /\ \/ /\ Goto("restore", "audit_rollback")
        /\ vms' = [vms EXCEPT ![vm] = "running"]
        /\ record' = [record EXCEPT !.rolled = TRUE, !.status = "rolled_back"]
        /\ UNCHANGED budget
     \/ Fault /\ Goto("restore", "audit_recreate") /\ UNCHANGED <<vms, record>>
  /\ UNCHANGED <<outside, audit, ledger, vm>>

AuditRollback ==
  /\ \/ Goto("audit_rollback", "cleanup") /\ Audit("rollback") /\ UNCHANGED budget
     \/ Fault /\ Goto("audit_rollback", "audit_recreate") /\ UNCHANGED audit
  /\ UNCHANGED <<outside, vms, ledger, record, vm>>

AuditRecreate ==
  /\ \/ Goto("audit_recreate", "discard") /\ Audit("recreate") /\ UNCHANGED <<record, budget>>
     \/ GiveUp("audit_recreate") /\ UNCHANGED audit
  /\ UNCHANGED <<outside, vms, ledger, vm>>

\* Mutant: the old VM is not destroyed.
DiscardNothing ==
  /\ Goto("discard", "create_again")
  /\ UNCHANGED <<outside, vms, audit, ledger, record, vm, budget>>

Discard ==
  /\ \/ /\ Goto("discard", "create_again")
        /\ vms' = [vms EXCEPT ![vm] = "absent"]
        /\ UNCHANGED <<record, budget>>
     \/ GiveUp("discard") /\ UNCHANGED vms
  /\ UNCHANGED <<outside, audit, ledger, vm>>

CreateAgain ==
  /\ Goto("create_again", "start_again")
  /\ NewVM
  /\ UNCHANGED <<outside, audit, ledger, record, budget>>

StartAgain ==
  /\ \/ /\ Goto("start_again", "cleanup")
        /\ vms' = [vms EXCEPT ![vm] = "running"]
        /\ record' = [record EXCEPT !.vm = vm, !.status = "recreated", !.rolled = TRUE]
        /\ UNCHANGED budget
     \/ GiveUp("start_again") /\ UNCHANGED vms
  /\ UNCHANGED <<outside, audit, ledger, vm>>

-----------------------------------------------------------------------------
(* The finally block. *)

KeepsVM == vm = NoVM \/ record.status = "recreated"

\* Mutant: the VM is destroyed even when the audit entry cannot be written.
CleanupUnaudited ==
  /\ \/ Goto("cleanup", "record") /\ KeepsVM /\ UNCHANGED <<audit, budget>>
     \/ Goto("cleanup", "destroy") /\ ~KeepsVM /\ Audit("destroy") /\ UNCHANGED budget
     \/ Fault /\ Goto("cleanup", "destroy") /\ ~KeepsVM /\ UNCHANGED audit
  /\ UNCHANGED <<outside, vms, ledger, record, vm>>

\* The audit entry comes first: when it cannot be written the VM stays.
Cleanup ==
  /\ \/ Goto("cleanup", "record") /\ KeepsVM /\ UNCHANGED <<audit, budget>>
     \/ Goto("cleanup", "destroy") /\ ~KeepsVM /\ Audit("destroy") /\ UNCHANGED budget
     \/ Fault /\ Goto("cleanup", "record") /\ ~KeepsVM /\ UNCHANGED audit
  /\ UNCHANGED <<outside, vms, ledger, record, vm>>

Destroy ==
  /\ Goto("destroy", "record")
  /\ \/ vms' = [vms EXCEPT ![vm] = "absent"] /\ UNCHANGED budget
     \/ Fault /\ UNCHANGED vms
  /\ UNCHANGED <<outside, audit, ledger, record, vm>>

\* _record_outcome: the experiment, its outcome and, of a failure, its lesson.
AppendEvent(kind) == ledger' = Append(ledger, [kind |-> kind, status |-> record.status,
  outcome |-> record.outcome, honest |-> record.count = record.size /\ ~record.bad])

RecordExperiment ==
  /\ Goto("record", "record_outcome")
  /\ AppendEvent("experiment")
  /\ UNCHANGED <<outside, vms, audit, record, vm, budget>>

\* Mutant: only what has an outcome is recorded.
RecordKnownOutcome ==
  /\ Goto("record_outcome", "return")
  /\ IF record.outcome = "unknown" THEN UNCHANGED ledger ELSE AppendEvent("outcome")
  /\ UNCHANGED <<outside, vms, audit, record, vm, budget>>

RecordOutcome ==
  /\ Goto("record_outcome", IF record.outcome = "failure" THEN "record_lesson" ELSE "return")
  /\ AppendEvent("outcome")
  /\ UNCHANGED <<outside, vms, audit, record, vm, budget>>

RecordLesson ==
  /\ Goto("record_lesson", "return")
  /\ AppendEvent("learning")
  /\ UNCHANGED <<outside, vms, audit, record, vm, budget>>

ReturnRecord ==
  /\ Goto("return", "idle")
  /\ UNCHANGED <<outside, vms, audit, ledger, record, vm, budget>>

Controller ==
  \/ RefuseExperiment \/ Approve \/ CreateVM \/ CreateFails("create")
  \/ AuditCreate \/ StartVM \/ ReadyVM
  \/ NextCommand \/ CommandSucceeds \/ CommandFails \/ CommandRaises \/ FinishCommands \/ Collect
  \/ Restore \/ AuditRollback \/ AuditRecreate \/ Discard
  \/ CreateAgain \/ CreateFails("create_again") \/ StartAgain
  \/ Cleanup \/ Destroy \/ RecordExperiment \/ RecordOutcome \/ RecordLesson \/ ReturnRecord

-----------------------------------------------------------------------------
(* Everything around it. *)

\* The ids are predictable: an experiment may be cancelled before it is asked for.
Cancel ==
  /\ \E n \in {counter, counter + 1} \ (cancelled \cup {0}) : cancelled' = cancelled \cup {n}
  /\ budget.cancels > 0
  /\ budget' = [budget EXCEPT !.cancels = @ - 1]
  /\ UNCHANGED <<setup, vms, audit, ledger, counter, pc, record, vm>>

TryBlock == {"create", "audit_create", "start", "ready", "command", "execute", "collect", "restore",
             "audit_rollback", "audit_recreate", "discard", "create_again", "start_again"}

\* An exception the except clause does not name: straight to the finally block.
Interrupt ==
  /\ pc \in TryBlock
  /\ budget.crashes > 0
  /\ budget' = [budget EXCEPT !.crashes = @ - 1]
  /\ pc' = "cleanup"
  /\ UNCHANGED <<outside, vms, audit, ledger, record, vm>>

\* The mock's machines live in the process, the real ones do not.
Crash ==
  /\ pc # "idle"
  /\ budget.crashes > 0
  /\ budget' = [budget EXCEPT !.crashes = @ - 1]
  /\ vms' = IF setup.real THEN vms ELSE [v \in DOMAIN vms |-> "absent"]
  /\ counter' = 0 /\ cancelled' = {}
  /\ pc' = "idle" /\ record' = FreshRecord(1) /\ vm' = NoVM
  /\ UNCHANGED <<setup, audit, ledger>>

Next == BeginExperiment \/ Controller \/ Cancel \/ Interrupt \/ Crash

Spec == Init /\ [][Next]_vars

-----------------------------------------------------------------------------
(* Properties. *)

\* A machine is left behind only by a failure: between experiments there is at
\* most one for each fault, interrupt or death of the process.
LeftoverPerFailure ==
  pc = "idle" => Cardinality(Alive) <= (MaxFaults - budget.faults) + (MaxCrashes - budget.crashes)

\* What the ledger calls a success ran every operation of the proposal, none of
\* them failed or corrupted the guest, and the artifacts were not refused: the
\* success is settled before they are asked for (sandbox_controller.py:189-202),
\* and has to be taken back.
HonestSuccess == \A i \in DOMAIN ledger : ledger[i].outcome = "success" => ledger[i].honest

\* The controller keeps ExperimentLog's promise.
Phase == CASE pc = "idle" -> "idle"
           [] pc = "approve" -> "asked"
           [] pc \in {"record_lesson", "return"} -> "concluded"
           [] OTHER -> "admitted"
OutcomesOn(l) == [id \in {i \in DOMAIN l : l[i].kind = "outcome"} |-> l[id].outcome]

Log == INSTANCE ExperimentLog WITH phase <- Phase, outcomes <- OutcomesOn(ledger)
LogSpec == Log!Spec

\* The operator's cancel falls between any two steps: of an experiment that was
\* cancelled, only the command that had passed the check is still executed.
CancelHeeded == record.late <= 1

\* The audit trail is ahead of every destruction, whichever of the calls raises:
\* no machine is gone without an entry that says so, but for the mock's, which
\* go with their process.
AuditAhead ==
  \A v \in DOMAIN vms : vms[v] = "absent" =>
    \/ {<<"destroy", v>>, <<"recreate", v>>} \cap audit # {}
    \/ ~setup.real /\ budget.crashes < MaxCrashes
=============================================================================
