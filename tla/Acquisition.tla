----------------------------- MODULE Acquisition -----------------------------
(***************************************************************************)
(* Capabilities (capability.py) and their acquisition (acquisition.py):    *)
(* acquire() looks for a candidate when no available capability meets the  *)
(* requirement, and takes it through the registry's life cycle while it is *)
(* downloaded, installed and validated in a machine made for the purpose.  *)
(* Processes share the registry; each is in a call of acquire(), or of     *)
(* transition() made by hand.  A statement that commits is a step, and so  *)
(* is a read whose result is used by a later one; a crash may fall between *)
(* any two.  There is one requirement, and one version of each candidate.  *)
(***************************************************************************)
EXTENDS Integers

CONSTANTS
  Processes,      \* processes with the database open
  Candidates,     \* what discovery may find
  NoCandidate,    \* none of them
  Overlap,        \* a candidate's terms in common with the requirement
  Described,      \* candidates with a description and an install method
  Linked,         \* candidates with a source_url
  Checked,        \* candidates with a validate_command
  MinConfidence,  \* min_confidence, in hundredths
  ByHand,         \* pairs of statuses: the moves made by hand
  MaxCalls,       \* bound: calls of acquire, in all
  MaxHand,        \* bound: moves by hand, in all
  MaxUses,        \* bound: uses, in all
  MaxCrashes      \* bound: crashes, in all

Statuses == {"discovered", "downloaded", "installed", "initialized", "validated",
             "available", "failed", "disabled", "removed"}

\* _TRANSITIONS
Transitions ==
  [discovered  |-> {"downloaded", "failed", "removed"},
   downloaded  |-> {"installed", "failed", "removed"},
   installed   |-> {"initialized", "failed", "removed"},
   initialized |-> {"validated", "failed", "removed"},
   validated   |-> {"available", "failed", "disabled", "removed"},
   available   |-> {"disabled", "failed", "removed"},
   failed      |-> {"discovered", "disabled", "removed"},
   disabled    |-> {"available", "removed"},
   removed     |-> {}]

ASSUME AcquisitionAssumption ==
  /\ NoCandidate \notin Candidates
  /\ Overlap \in [Candidates -> Nat]
  /\ Described \subseteq Candidates /\ Linked \subseteq Candidates /\ Checked \subseteq Candidates
  /\ ByHand \subseteq Statuses \X Statuses
  /\ MinConfidence \in 0..100
  /\ {MaxCalls, MaxHand, MaxUses, MaxCrashes} \subseteq Nat

\* A person makes any move the registry allows, but the ones that are the work
\* of acquire().
Halfway == {"downloaded", "installed", "initialized", "validated"}
ASSUME HandAssumption == \A move \in ByHand : move[2] \notin Halfway

\* What acquire() has not brought to its end.
Unfinished == {"failed", "validated"}

NoMachine == 0
Unknown == "unknown"   \* the status of a candidate that has no record

VARIABLES
  status,       \* the registry's rows, one for each name and version
  location,     \* install_location: the machine it was validated in
  usage,        \* capability_usage: the successes and failures of each
  experiences,  \* the ledger's experiences of acquiring each
  machines,     \* the sandbox provider's machines
  made,         \* the number of machines it has made
  call,         \* each process's place in its call, and its locals
  proved,       \* history: the candidates and machines a validation passed in
  lost,         \* history: machines whose destruction failed or never came
  abandoned,    \* history: candidates a call was cut off from
  refused,      \* history: candidates that create() raised for
  turned,       \* history: candidates a person has turned off or on, Unfinished
  budget        \* what is left of the bounds

registry == <<status, location, usage>>
history == <<proved, lost, abandoned, refused, turned>>
vars == <<status, location, usage, experiences, machines, made, call, proved, lost, abandoned,
          refused, turned, budget>>

-----------------------------------------------------------------------------
\* evaluate_candidate, in hundredths.
Confidence(c) ==
  LET score == 30 + 10 * Overlap[c] + (IF c \in Described THEN 20 ELSE 0)
  IN  IF score > 90 THEN 90 ELSE score

Better(c, d) ==
  \/ Confidence(c) > Confidence(d)
  \/ Confidence(c) = Confidence(d) /\ Overlap[c] >= Overlap[d]

\* The candidates that may be the first of acquire()'s ranking.
Best(offers) ==
  LET fit == {c \in offers : Confidence(c) >= MinConfidence}
  IN  {c \in fit : \A d \in fit : Better(c, d)}

\* match: the available records with terms in common with the requirement.
Matches == {c \in Candidates : status[c] = "available" /\ Overlap[c] > 0}

\* detect_capability_gap
Gap == Matches = {}

\* reliability(c) <= reliability(d), a record without history counting for a
\* half (recommend_capability).
Successes(c) == IF usage[c].success + usage[c].failure = 0 THEN 1 ELSE usage[c].success
Trials(c) == IF usage[c].success + usage[c].failure = 0 THEN 2
             ELSE usage[c].success + usage[c].failure
LessReliable(c, d) ==
  LET left == Successes(c) * Trials(d)
      right == Successes(d) * Trials(c)
  IN  left < right \/ (left = right /\ Overlap[c] < Overlap[d])

\* recommend_capability
Recommended == {c \in Matches : ~\E d \in Matches : LessReliable(c, d)}

-----------------------------------------------------------------------------
Places == {"idle", "discover", "insert", "download", "create", "install", "validate",
           "locate", "destroy", "experience", "usage"} \cup Statuses
Reports == {"none", "no_gap", "no_candidate", "acquired", "failed", "raised", "moved"}

\* A place that is a status is a call of transition() to that status; `read'
\* says that it has read the record and found the move legal.
Idle == [at |-> "idle", candidate |-> NoCandidate, machine |-> NoMachine, read |-> FALSE,
         outcome |-> "success", hand |-> FALSE, report |-> "none"]

Init ==
  /\ status = [c \in Candidates |-> Unknown]
  /\ location = [c \in Candidates |-> NoMachine]
  /\ usage = [c \in Candidates |-> [success |-> 0, failure |-> 0]]
  /\ experiences = [c \in Candidates |-> 0]
  /\ machines = {} /\ made = 0
  /\ call = [p \in Processes |-> Idle]
  /\ proved = {} /\ lost = {} /\ abandoned = {} /\ refused = {} /\ turned = {}
  /\ budget = [calls |-> MaxCalls, hand |-> MaxHand, uses |-> MaxUses, crashes |-> MaxCrashes]

Go(p, place) == call' = [call EXCEPT ![p].at = place, ![p].read = FALSE]
Return(p, report) == call' = [call EXCEPT ![p] = [Idle EXCEPT !.report = report]]

\* Mutant: the record is left as it is.
FailQuiet(p) == call' = [call EXCEPT ![p].at = "destroy", ![p].outcome = "failure"]

\* The except clause: the record is to be failed before the machine goes.
Fail(p) == call' = [call EXCEPT ![p].at = "failed", ![p].read = FALSE, ![p].outcome = "failure"]

-----------------------------------------------------------------------------
\* acquire() asks whether there is a gap at all.
Begin(p) ==
  /\ call[p].at = "idle" /\ budget.calls > 0
  /\ budget' = [budget EXCEPT !.calls = @ - 1]
  /\ IF Gap THEN call' = [call EXCEPT ![p] = [Idle EXCEPT !.at = "discover"]]
            ELSE Return(p, "no_gap")
  /\ UNCHANGED <<registry, experiences, machines, made, history>>

\* Discovery, the choice of the best candidate, and discover()'s look for a
\* record that exists: it is used whatever its status.
Discover(p) ==
  /\ call[p].at = "discover"
  /\ \/ Return(p, "failed")
     \/ \E offers \in SUBSET Candidates :
          \/ Best(offers) = {} /\ Return(p, "no_candidate")
          \/ \E c \in Best(offers) :
               call' = [call EXCEPT ![p].candidate = c,
                          ![p].at = IF status[c] = Unknown THEN "insert" ELSE "download"]
  /\ UNCHANGED <<registry, experiences, machines, made, history, budget>>

\* discover() inserts the record; the unique index refuses a second one.
Insert(p) ==
  /\ call[p].at = "insert"
  /\ IF status[call[p].candidate] = Unknown
     THEN status' = [status EXCEPT ![call[p].candidate] = "discovered"] /\ Go(p, "download")
     ELSE Return(p, "raised") /\ UNCHANGED status
  /\ UNCHANGED <<location, usage, experiences, machines, made, history, budget>>

\* A download that fails or does not match its checksum fails the record.
Download(p) ==
  /\ call[p].at = "download"
  /\ \/ Go(p, "downloaded")
     \/ call[p].candidate \in Linked /\ Fail(p)
  /\ UNCHANGED <<registry, experiences, machines, made, history, budget>>

-----------------------------------------------------------------------------
\* transition() made by hand.
Hand(p) ==
  /\ call[p].at = "idle" /\ budget.hand > 0
  /\ \E c \in Candidates, to \in Statuses :
       /\ <<status[c], to>> \in ByHand
       /\ call' = [call EXCEPT ![p] = [Idle EXCEPT !.at = to, !.candidate = c, !.hand = TRUE]]
  /\ budget' = [budget EXCEPT !.hand = @ - 1]
  /\ UNCHANGED <<registry, experiences, machines, made, history>>

\* transition() reads the record and refuses an illegal move: that ends the
\* call before there is a machine, fails the record once there is one, and
\* is not caught where the record is being failed.
Read(p) ==
  LET c == call[p].candidate
      legal == status[c] # Unknown /\ call[p].at \in Transitions[status[c]]
      turning == legal /\ call[p].hand /\ call[p].at \in {"available", "disabled"} /\ status[c] \in Unfinished
  IN  /\ call[p].at \in Statuses /\ ~call[p].read
      /\ \/ legal /\ call' = [call EXCEPT ![p].read = TRUE]
         \/ ~legal /\ call[p].machine = NoMachine /\ Return(p, "raised")
         \/ ~legal /\ call[p].machine # NoMachine /\ call[p].at # "failed" /\ Fail(p)
         \/ /\ ~legal /\ call[p].machine # NoMachine /\ call[p].at = "failed"
            /\ call' = [call EXCEPT ![p].at = "destroy", ![p].outcome = "raised"]
      /\ turned' = IF turning THEN turned \cup {<<c, status[c]>>} ELSE turned
      /\ UNCHANGED <<registry, experiences, machines, made, proved, lost, abandoned, refused, budget>>

\* Where acquire() goes on after a move.
After(place) ==
  CASE place = "downloaded"  -> "create"
    [] place = "installed"   -> "initialized"
    [] place = "initialized" -> "validate"
    [] place = "validated"   -> "available"
    [] OTHER                 -> "destroy"

\* transition() writes the status, whatever it has become since it was read.
Write(p) ==
  /\ call[p].at \in Statuses /\ call[p].read
  /\ status' = [status EXCEPT ![call[p].candidate] = call[p].at]
  /\ \/ call[p].hand /\ Return(p, "moved")
     \/ ~call[p].hand /\ call[p].at = "failed" /\ call[p].machine = NoMachine /\ Return(p, "failed")
     \/ /\ ~call[p].hand /\ (call[p].at = "failed" => call[p].machine # NoMachine)
        /\ Go(p, After(call[p].at))
  /\ UNCHANGED <<location, usage, experiences, machines, made, history, budget>>

-----------------------------------------------------------------------------
\* The machine is created outside the try: what create() raises leaves the
\* record as it is, and also the machine, when it is configured after it is
\* cloned (proxmox_provider.py:122-126).
Create(p) ==
  /\ call[p].at = "create"
  /\ \/ /\ made' = made + 1
        /\ machines' = machines \cup {made + 1}
        /\ call' = [call EXCEPT ![p].at = "install", ![p].machine = made + 1]
        /\ UNCHANGED <<lost, refused>>
     \/ /\ Return(p, "raised")
        /\ refused' = refused \cup {call[p].candidate}
        /\ \/ /\ made' = made + 1
              /\ machines' = machines \cup {made + 1}
              /\ lost' = lost \cup {made + 1}
           \/ UNCHANGED <<machines, made, lost>>
  /\ UNCHANGED <<registry, experiences, proved, abandoned, turned, budget>>

\* The machine is started and awaited, and the install commands are run.
Install(p) ==
  /\ call[p].at = "install"
  /\ Go(p, "installed") \/ Fail(p)
  /\ UNCHANGED <<registry, experiences, machines, made, history, budget>>

\* An exception that is not caught, while a command is run.
Interrupt(p) ==
  /\ call[p].at \in {"install", "validate"}
  /\ call' = [call EXCEPT ![p].at = "destroy", ![p].outcome = "raised"]
  /\ abandoned' = abandoned \cup {call[p].candidate}
  /\ UNCHANGED <<registry, experiences, machines, made, proved, lost, refused, turned, budget>>

\* Mutant: the validate_command's exit code is not looked at.
ValidateBlind(p) ==
  /\ call[p].at = "validate"
  /\ Go(p, "locate")
  /\ \/ proved' = proved \cup {<<call[p].candidate, call[p].machine>>}
     \/ call[p].candidate \in Checked /\ UNCHANGED proved
  /\ UNCHANGED <<registry, experiences, machines, made, lost, abandoned, refused, turned, budget>>

\* Without a validate_command there is nothing to fail.
Validate(p) ==
  /\ call[p].at = "validate"
  /\ \/ /\ Go(p, "locate")
        /\ proved' = proved \cup {<<call[p].candidate, call[p].machine>>}
     \/ call[p].candidate \in Checked /\ Fail(p) /\ UNCHANGED proved
  /\ UNCHANGED <<registry, experiences, machines, made, lost, abandoned, refused, turned, budget>>

\* set_invocation
Locate(p) ==
  /\ call[p].at = "locate"
  /\ location' = [location EXCEPT ![call[p].candidate] = call[p].machine]
  /\ Go(p, "validated")
  /\ UNCHANGED <<status, usage, experiences, machines, made, history, budget>>

\* Mutant: the machine is destroyed only when all went well.
DestroyOnSuccess(p) ==
  /\ call[p].at = "destroy"
  /\ \/ call[p].outcome = "success" /\ Go(p, "experience")
     \/ call[p].outcome = "failure" /\ Return(p, "failed")
     \/ call[p].outcome = "raised" /\ Return(p, "raised")
  /\ machines' = IF call[p].outcome = "success" THEN machines \ {call[p].machine} ELSE machines
  /\ UNCHANGED <<registry, experiences, made, history, budget>>

\* The finally block; what destroy() raises is ignored.
Destroy(p) ==
  /\ call[p].at = "destroy"
  /\ \/ machines' = machines \ {call[p].machine} /\ UNCHANGED lost
     \/ lost' = lost \cup {call[p].machine} /\ UNCHANGED machines
  /\ \/ call[p].outcome = "success" /\ Go(p, "experience")
     \/ call[p].outcome = "failure" /\ Return(p, "failed")
     \/ call[p].outcome = "raised" /\ Return(p, "raised")
  /\ UNCHANGED <<registry, experiences, made, proved, abandoned, refused, turned, budget>>

RecordExperience(p) ==
  /\ call[p].at = "experience"
  /\ experiences' = [experiences EXCEPT ![call[p].candidate] = @ + 1]
  /\ Go(p, "usage")
  /\ UNCHANGED <<registry, machines, made, history, budget>>

\* record_usage, of the acquisition itself.
RecordUsage(p) ==
  /\ call[p].at = "usage"
  /\ usage' = [usage EXCEPT ![call[p].candidate].success = @ + 1]
  /\ Return(p, "acquired")
  /\ UNCHANGED <<status, location, experiences, machines, made, history, budget>>

\* A caller uses what is recommended, and records how that went.
Use ==
  /\ budget.uses > 0
  /\ \E c \in Recommended, result \in {"success", "failure"} :
       usage' = [usage EXCEPT ![c][result] = @ + 1]
  /\ budget' = [budget EXCEPT !.uses = @ - 1]
  /\ UNCHANGED <<status, location, experiences, machines, made, call, history>>

Crash(p) ==
  /\ call[p].at # "idle" /\ budget.crashes > 0
  /\ budget' = [budget EXCEPT !.crashes = @ - 1]
  /\ lost' = lost \cup ({call[p].machine} \ {NoMachine})
  /\ abandoned' = abandoned \cup ({call[p].candidate} \ {NoCandidate})
  /\ call' = [call EXCEPT ![p] = Idle]
  /\ UNCHANGED <<registry, experiences, machines, made, proved, refused, turned>>

Acquire(p) ==
  \/ Begin(p) \/ Discover(p) \/ Insert(p) \/ Download(p) \/ Create(p) \/ Install(p)
  \/ Interrupt(p) \/ Validate(p) \/ Locate(p) \/ Destroy(p) \/ RecordExperience(p) \/ RecordUsage(p)

Transition(p) == Read(p) \/ Write(p)

Next == Use \/ \E p \in Processes : Acquire(p) \/ Transition(p) \/ Hand(p) \/ Crash(p)

Spec == Init /\ [][Next]_vars

-----------------------------------------------------------------------------
Calls ==
  [at : Places, candidate : Candidates \cup {NoCandidate}, machine : Nat, read : BOOLEAN,
   outcome : {"success", "failure", "raised"}, hand : BOOLEAN, report : Reports]

\* Types; a process has a candidate wherever it needs one.
TypeOK ==
  /\ status \in [Candidates -> Statuses \cup {Unknown}]
  /\ location \in [Candidates -> Nat]
  /\ usage \in [Candidates -> [success : Nat, failure : Nat]]
  /\ experiences \in [Candidates -> Nat]
  /\ machines \subseteq Nat /\ made \in Nat /\ lost \subseteq Nat
  /\ call \in [Processes -> Calls]
  /\ \A p \in Processes : call[p].at \notin {"idle", "discover"} => call[p].candidate \in Candidates
  /\ proved \subseteq Candidates \X Nat
  /\ abandoned \subseteq Candidates /\ refused \subseteq Candidates
  /\ turned \subseteq Candidates \X Unfinished
  /\ budget \in [calls : Nat, hand : Nat, uses : Nat, crashes : Nat]

Busy(c) == \E p \in Processes : call[p].candidate = c

\* What the registry offers as validated or available passed its validation,
\* in the machine the record names as its location, whatever two acquisitions
\* of it and a person do at once (acquisition.py:372-381); but for what a person
\* turns off when it has failed, and then on (capability.py:50-51).
AvailableWasValidated ==
  \A c \in Candidates :
    status[c] \in {"validated", "available"} /\ <<c, "failed">> \notin turned => <<c, location[c]>> \in proved

\* No machine is left behind but by a destruction that failed, a create() that
\* raised when it had cloned, or a crash: the finally block is on every way out
\* of what comes after create() (acquisition.py:386).
NoMachineLeft ==
  \A m \in machines : m \in lost \/ \E p \in Processes : call[p].machine = m

\* What an acquisition that is not cut off leaves half-way through the life cycle
\* can only be a record that create() raised for: it is stuck in `downloaded',
\* where acquire() can never take it up again.  And what is available has its
\* experience on the ledger and a success to its name, unless it is a person who
\* made it so when acquire() had not: whether two acquisitions fall over each
\* other, or over a person (acquisition.py:358-414).
LeftInOrder ==
  \A c \in Candidates \ abandoned : ~Busy(c) =>
    /\ status[c] \in Halfway => (status[c] = "downloaded" /\ c \in refused)
    /\ status[c] = "available" /\ ~(\E from \in Unfinished : <<c, from>> \in turned)
       => (experiences[c] > 0 /\ usage[c].success > 0)
=============================================================================
