# Suns Chan in TLA+

Specifications of the parts of Suns Chan whose correctness depends on order,
failure and shared state, model-checked with TLC and, for the eight components
that keep a table of their own, proved with TLAPS. Paths such as
`autonomy.py:236` are files of `src/src/suns_chan/`.

## The system

Suns Chan is a Python agent that keeps everything it knows in one SQLite file.
A process (`main.py`: chat, one autonomy run, ingestion) opens the file, works
on it with one connection per store, and commits after every statement. Nothing
locks across statements, several processes may have the file open, and any of
them may die between two statements. That is where the hard behaviour is.

| Component | Keeps | Operations | Talks to |
|---|---|---|---|
| `AutonomyEngine` (`autonomy.py`) | a copy of the session while it runs | `run`/`_step`, `pause`, `stop`, `resume_session` | session, curiosity and event tables, core, sandbox |
| `SessionStore` (`session.py`) | one row per session | `open_or_create`, `save` (the whole row) | engine |
| `CuriosityStore` (`curiosity.py`) | curiosities and their status | `open`, `transition` | engine, reflection |
| `EventLedger` (`memory.py`) | append-only events, state snapshots | `record`, `events_of_kind`, `recall`, `save_state` | everything |
| `SandboxController` (`sandbox_controller.py`) | a counter, the cancelled ids | `run_experiment`, `cancel` | provider, approver, audit sink, ledger |
| providers (`vm_sandbox.py`, `proxmox_provider.py`) | virtual machines | `create` ... `destroy` | Proxmox API |
| `AgentCore`, `PolicyGate`, `ToolRegistry`, `AgentRuntime` | agent state snapshots | `turn`, `record_outcome`, `close_goal`, `run_task` | ledger, model |
| activity generation and selection (`activities.py`) | nothing | `generate_activities`, `select_activity` | ledger, every store |
| ingestion, `learning.py` (`ingest.py`) | nothing | `acquire`, `acquire_api`, `observe_preference`, `observe_correction`, `refresh_temporal`, `tend_interests` | ledger, knowledge |
| `KnowledgeStore` (`knowledge.py`) | beliefs with status, confidence, sources | `propose`, `affirm`, `supersede`, `contradict`, ... | consolidation, ingestion |
| `UnderstandingStore` (`understanding.py`) | records about the user | `note`, `affirm`, `revise`, mining | ledger |
| `LearnedStore`, consolidation (`learned.py`, `consolidation.py`) | patterns, skills, preferences, strategies | `observe`, `apply_correction`, `apply_decay`, promotion | ledger, knowledge |
| `CapabilityStore`, `Acquirer` (`capability.py`, `acquisition.py`) | capabilities with status | `discover`, `transition`, `acquire` | sandbox provider |
| telemetry (`telemetry.py`) | cursors, seen keys, promoted ids | `collect`, `promote_telemetry` | log files, ledger, understanding |
| `SensorHub` (`sensors.py`) | when each rule last fired | `poll`, `evaluate_wake` | ledger |
| comms (`comms.py`) | nothing | `dispatch` | policy gate, channels, ledger |
| `SandboxBroker` (`broker.py`) | files of a workspace | `write_text`, `fetch_to_file`, `create`, `destroy` | host file system |
| affect (`affect.py`) | nothing | `apply_affect` | ledger, agent state |
| retrieval, models, interfaces | see `PROJECT.json` | | |

What makes each of them correct, and hard to test:

- **Engine and session.** The session row is a bookmark into the ledger. It
  must never count what the ledger does not tell, an interrupted activity must
  be accounted for, a paused or stopped session must stay so, and a session
  that fails the same way over and over must stop. Crashes fall between two
  commits; callers overwrite the row a running engine also writes.
- **Curiosities and goals.** A curiosity is answered only by a success; a goal
  is given up only when it is blocked, and then carried forward once. Two
  engines work on the same records.
- **Sandbox.** Each of a dozen remote calls may fail with the ones before it
  done. Machines must not be left behind, outcomes must be honest, the audit
  trail must precede a destruction.
- **Core.** Goals are read through windows of a hundred events; the agent state
  is read, changed and written back by several processes; a tool with effects
  must have been approved, and what has an effect must be on record.
- **Knowledge, understanding, learned.** Lifecycles written by several miners
  from pictures of the store that grow old while they work, with promotions and
  replacements in two transactions.
- **Capabilities.** A nine-state life cycle interleaved with remote calls, two
  acquisitions of one capability, a person who moves records by hand.
- **Telemetry, sensors.** Cursors, duplicates, batches, cooldowns across restarts.
- **Selection.** Scores, recency and truncation decide what is ever done; what
  was done becomes the evidence for the next choice.

The list of hazards, each at its line with the property that covers it, is in
`PROJECT.json`.

## Modules

### Autonomy

One engine per session. State and code:

| Variable | Code |
|---|---|
| `ledger` | the `events` table; kinds activity_started, activity_finished, experience, outcome, goal_opened and goal_closed (the others are narrative) |
| `curiosity` | the `curiosities` table, status only |
| `row`, `mem` | the `autonomy_sessions` row, and the `AutonomySession` object of a run |
| `pc`, `candidate`, `result`, `hop`, `completed` | the position in `run`/`_step` and its local variables |
| `op` | a caller inside `pause`, `stop` or `resume_session`: the command and the row it has read |
| `skipped` | history: the activities left unlived when a caller passed over an interruption |

There is one action per committed statement; assignments to the in-memory
session between two commits belong to the step before or after them.
`SetStatus` is `_set`: one field of the copy changes and the whole copy
overwrites the row. The row is read in one step and saved in another at both
ends of the loop (`Reload` and `Assess`, `EndRun` and `LeaveRun`). Nobody is made
to call `resume_session` before a run: `main.py:206` does not. `Crash` is the death of the process or an exception no
handler catches: `mem` and the locals are lost, the tables stay. `Command`,
`RecordInterruption` and `SaveCommand` are the three parts of `pause`, `stop`
and `resume_session`, so another process can act in between when `Concurrent`.
`ReadCuriosity` and `WriteCuriosity` are `_move_curiosity`, with its table
(`Allowed`) and the store's (`CuriosityTransitions`) kept apart as they are in
the code. `ExecuteSandbox` is one `run_experiment`, which `Sandbox` models in
detail; `ExecuteCognitive` is one `AgentCore.turn`.

Abstracted: texts, scores (any candidate may be selected, so the results hold
for every selection rule), confidence values, `recent_keys`, `hypothesis`,
`last_selection`; the windows of a hundred events, which the bounds never fill;
the other candidate sources, whose keys the engine treats like revisits
(a capability candidate works on a goal and closes it like a goal candidate). The
branch of `run` for steps without a result (lines 214-220) is unreachable:
`_step` returns success or failure, or leaves the loop.

Properties: `CountedActivitiesLived`, `AnsweredByExperience`,
`NoUnaccountedActivity` (a started activity is lived through or recorded as
interrupted, unless a caller ran, paused or stopped the session over the
interruption), `IdenticalAttemptsBounded`, `BlockedGoalEvolves` (a
goal a session is blocked on is closed and carried forward, once; with two
sessions on one goal it does not hold, see Findings), `PausedUntilResumed`,
`RunEnds`.

### Sandbox and ExperimentLog

`Sandbox` is `run_experiment` call by call. `GiveUp` is the `except
(RuntimeError, ValueError)` clause, `Interrupt` an exception it does not name,
`Crash` the end of the process (a mock's machines die with it, real ones do
not). Two fields of `record` are history: `bad`, a command failed or corrupted
the guest or the artifacts were refused, and `late`, how many commands were
executed after the experiment was cancelled. The time budget may be found
exhausted before any command. `restore_after` and `keep_vm` have their
defaults, because no caller passes them. The backend and the presence of an
approver are chosen in `Init`.

`ExperimentLog` is what the caller is promised: refused without a trace, or
admitted and concluded with exactly one outcome before the call returns, or
lost with the process. `Sandbox` implements it (`LogSpec`) with `phase` mapped
to the position in the code and `outcomes` to the outcome events.

Properties: `HonestSuccess`, `LeftoverPerFailure`, `CancelHeeded` (of a cancelled
experiment only the command that had passed the check is still executed),
`AuditAhead` (no machine is destroyed without an entry in the audit trail,
whichever call raises), `LogSpec`. That an experiment ends is not stated: the
controller is a loop over a finite list, and a hanging call is the provider's.

### Telemetry and EventLedger

`EventLedger` holds how the ledger is read: `events_of_kind` as the newest ids
of a kind (`Newest`, `EventsOfKind`), a window and not all of them.

`Telemetry` is what `main.py --autonomy` does with a log file, for several
processes over one database:

| Variable | Code |
|---|---|
| `file` | the tailed file, as halves of lines, so that a poll may fall inside a line |
| `cursor`, `marks` | `telemetry_cursor`; `telemetry_fingerprints`, with the entries that retention has deleted kept as history |
| `ledger` | events of kinds telemetry, experience and telemetry_promoted |
| `proc` | per process: the source's `_offset`, the batch and cursor of a `collect()`, the events `promote_telemetry` holds |

`Poll` is one `poll()`: everything since the offset is read and split into
lines, half a line becomes a plain line (`Fragment`), a JSON value that is not
an object ends the process (`PollRaises`), and an unreadable file is reported
(`PollFails`). A line whose metadata is no mapping is reported too, but the offset
has moved by then, and this process does not read the chunk again (`PollLoses`).
Then each line is skipped by the cursor, found to be a duplicate,
or marked as seen and recorded, in three actions because they are three
transactions. Promotion reads the unpromoted events, records an experience, which
tells of the newest ten of them (`Told`), and then its marker, which covers them
all. Contents are abstracted to what the code branches on: whether
a line has a timestamp of its own (otherwise its fingerprint contains the time
it is read), whether it is an object, and its importance.

Properties: `RecordedOnce`, `SeenIsRecorded`, `PromotionComplete` (what the marker
covers and no experience tells of was crowded out of a full experience or of the
window, never lost to another process).

### Learning, KnowledgeStore and LearnedStore

`KnowledgeStore` and `LearnedStore` are operators over the two tables: what each
committed statement does to a claim, and how evidence determines confidence
(in ten-thousandths, rounded as the code rounds) and status.

`Learning` composes them with `EventLedger` into the end of an autonomy run:
`consolidate()` and `consolidate_learning()`, by several processes, while events
arrive and callers reject, replace, correct or decay what is there.

| Variable | Code |
|---|---|
| `learned`, `claims` | the `learned_objects` and `knowledge_records` tables |
| `proc` | per process: the miner it is in, the `calls` of `observe` still to make, the one under way (`call`) and the row it has read (`held`), the snapshot promotion works through (`rows`, `at`), the claim under way, `spent` |
| `op` | a caller of the stores between its read and its write |

`observe`, `affirm`, `mark_uncertain`, `apply_correction` and `apply_decay` read
a row and write it back in a second step, each its own columns; a proposal and
the link to it are two commits, as are the two halves of a replacement. Two
processes that insert the same row make the second one's miner fail
(`MinerFails`), which ends that miner only. `proc.clean` and `proc.seen` are
history: nobody else wrote since the pass began to mine, and what was on the
ledger then; `corrections` are the ones saved. A correction names any event on the
ledger, one that is counted already included. Pass 2 of the pattern miner skips what is counted when it begins
(the code looks at each row as pass 1 left it, which is the same in a pass that
is alone; `observe` asks again anyway). The calls are a set, of which
`ObserveRead` takes the one the code makes next (`Precedes`).

Abstracted: all texts form one cluster and all experiences one goal and
category, so the objects are one pattern for each outcome and one strategy; the
skill and preference miners call `observe` like the strategy miner. A wait for
another process's lock that times out is a crash.

Properties: `CountedOnce`, `MiningComplete`, `PromotedOnEvidence`,
`OrphansOnlyByCrash`, `PassSettles`, `ReplacedHasSuccessor`. `CountedOnce` is what
mining promises: an event that is on both sides of an object, or held against it
twice, was named by as many corrections, because `apply_correction` does not ask
whether it is counted (`learned.py:181`). With two processes
`OrphansOnlyByCrash` does not hold: both may find an object without an active
claim, propose one each and link it, and the second link hides the first claim;
`learning_concurrent` checks what remains.

### Study

`Study` puts `ingest.py` and `learning.py` over `KnowledgeStore` and
`EventLedger`: several processes ingest documents and see preferences in one
store, while claims are kept, rejected, corrected or grow old.

| Variable | Code |
|---|---|
| `ledger`, `fresh` | events `source`, `source_failed`, `observation`, ...; which sources are younger than thirty days |
| `claims`, `recent` | `knowledge_records`; which were updated within ninety days |
| `asked` | words with an open curiosity |
| `proc` | per process: the call it is in, what is left of its document, the claim it has chosen, the sources `affirm` has read |

`Evaluate` is `evaluate_claim` and the branch it takes; `affirm`, `contradict`,
`supersede` and a preference's candidate are two steps each, because they are a
read and a write, or two commits. `Refused` is what a `ValueError` of the store
does to the whole document; `FetchFails` and `QueryFails` are the sources that
could not be had. A statement is its set of words, so `recall` and the
overlap ratios are computed and not assumed, and sets without a word overlap with
nothing; credibility keeps the code's
constants.

Properties: `DocumentCovered`, `SourcesSay`, `AdoptedOnSightings`.

### Understanding

The records about the user and the two passes that derive them:
`mine_understanding` from what was said, `mine_telemetry_understanding` from the
newest telemetry. A pass reads the visible records once (`Picture`, the dict of
the code) and updates only its own picture of them; the events it still has to
go over are a set, taken oldest first; `Repeat`/`Affirm`,
`Contrast`/`NoteRevision`/`Replace` are the commits of `affirm` and `revise`.
`Command` is any other caller of the store. A repeat of a record that is no
longer active raises and ends the pass (`Abort`). What the markers of the code
make of a text, and how many tokens two texts share, are constants.

Properties: `ConfidenceEarned`, `FinishedPassCovers`, `BothSidesKept`,
`DerivedOnce`. They are checked with one process: with two, both may note the
same statement (the read and the insert are apart), so `DerivedOnce` needs it.

### Acquisition

`acquire()` over the registry's life cycle and a machine of its own, for several
processes, and `transition()` made by hand.

| Variable | Code |
|---|---|
| `status`, `location`, `usage` | the `capabilities` and `capability_usage` tables |
| `experiences` | the ledger's experiences of an acquisition |
| `machines`, `made` | the sandbox provider |
| `call` | per process: the position in `acquire()` or `transition()`, the candidate, the machine, whether `transition()` has read the record, and how the `finally` block was entered |
| `proved`, `lost`, `abandoned` | history: validations that passed, machines lost, candidates a call was cut off from |
| `refused`, `turned` | history: candidates that `create()` raised for; candidates a person turned off or on although `acquire()` had not finished with them |

`Read` and `Write` are the two halves of `transition()`: whatever the status has
become between them is overwritten. `Fail` is the `except` clause, `Destroy` the
`finally` block, whose own failure is swallowed; `Interrupt` is an exception the
clause does not name. `Create` is outside the `try`: when it raises, the record
stays `downloaded` and, if the provider had cloned already
(`proxmox_provider.py:122-126`), so does the machine. The ranking (`Best`) and the recommendation
(`Recommended`) are computed. An acquirer has a ledger (without one nothing is
recorded of a success). `ByHand` are the moves a person may make: any that the
registry allows, turning a failed capability off and on again included, but the
ones into `downloaded`, `installed`, `initialized` and `validated`, which are the
work of `acquire()` (`HandAssumption`; the tests of `transition()` make these,
`tests/test_capability.py:22-49`).

Properties: `AvailableWasValidated` (what is offered passed its validation in the
machine its record names, or is a failed one that a person turned off and on),
`NoMachineLeft` (a machine is left behind only by a destruction that failed, a
`create()` that raised after cloning, or a crash), `LeftInOrder` (of a call that
was not cut off, only a `create()` that raised leaves a record half-way; and what
`acquire()` made available has its experience and its success on record).

### Agency

What the agent does in the world: turns, `run_task` with its policy verdict, the
tool registry, messages, outcomes, affect, interests and the closing of goals,
over one ledger and one agent state that every call loads, changes and saves.
`snapshot` is the state as the set of events that shaped it, so a lost update is
an event that is missing from it; `ActiveGoals` reads goals through the two
windows. `ran`, `audits` and `delivered` are the outside world.

Properties: `StateKeepsUp`, `ClosedAgainOnlyUnseen`, `RunsOnApproval`,
`EffectsAudited`.

### Sensors, Broker, ActivitySelection, Standalone

`Sensors` is the hub with its cooldowns, `evaluate_wake` and the wake `main.py`
records after it, over restarts. `Broker` is the workspace with its quotas, which
is created and destroyed: a write, and the look at the disk quota, are two steps.
The look raises when another caller's file goes while it scans (`shaken`,
`LookFails`), and a caller may die before it; `missed` is history, the paths whose
latest write nobody looked at. `ActivitySelection` is the
generator's eleven sources in their order with their quotas and weighted scores,
the truncation, the halving of what was done recently, the strategies' bonus and
the choice, closed into a loop: outcomes change the evidence, the miners of
`learned.py` turn the diary into strategies, and these favour or disfavour.
`LiveElsewhere` are the experiences that are of no activity: an acquisition's, and
what was seen of the main server.

The three share no state, so `Standalone` composes them as alternatives, and one
run checks all.

Properties: `FiredApart`, `WakesApart`, `WithinQuota`, `Rotation`,
`StrategiesTruthful`. `Rotation` bounds how many candidates a window has room for,
`others (others + 3) <= 2 RecentWindow`, where `others` is one less than the
candidates that are on offer all the time: the window of ten the engine uses has
room for four. The run has a window of two, which has room for two; that the
bound is right for every window is proved. `StrategiesTruthful` has three exceptions, each
one the code's: a second session started an activity meanwhile, the start is out
of the miner's sight, or the experience is of no activity and counts for whatever
was started last (then for a general strategy, never for one of a goal).

## Runs

Every `MaxX` constant bounds a counter; the guards name it.

| Run | Bounds | Shows |
|---|---|---|
| `autonomy` | 1 session, 1 curiosity, 1 goal opened by a turn, threshold 2, 2 runs of 2 activities, 1 crash, 2 commands, none of which need be a resume | accounting, blocking, pausing, termination; 1.5 million states |
| `autonomy_concurrent` | 2 sessions, 1 curiosity, 1 activity a run, 2 runs, 1 command at any time, sandbox execution | what survives overwritten rows; 6.9 million states, symmetric in the sessions |
| `sandbox` | 2 experiments of up to 2 operations, 2 faults, 1 interrupt or crash, 1 cancellation | outcomes, cancellation, leftovers, the audit trail, the refinement; 0.9 million states |
| `telemetry` | 4 kinds of line, one of them malformed, 6 half lines written, 1 rotation, 2 processes, 2 starts, 1 crash, 3 fingerprints kept, window 2, 1 event in an experience | the properties of Telemetry; 7.7 million states, symmetric in the processes |
| `learning` | 2 events at first and 5 at most, MIN_SUPPORT 2, 2 passes, budget 6, 1 command, 1 crash | what a pass alone guarantees; 5.1 million states |
| `learning_concurrent` | 2 processes, 3 events, 2 passes, 1 correction by any event, no crash | what survives lost updates; 2.4 million states, symmetric in the processes |
| `acquisition` | 2 processes, 2 candidates of which one fits better, 2 calls, 3 moves by hand, 1 use, 1 crash, any failure | the properties of Acquisition; 2.2 million states, symmetric in the processes |
| `understanding` | 1 process, a fact, a preference, a contrast close to both, a question and a telemetry line; 4 events, 3 passes, telemetry window 1, 1 command, 1 crash | the properties of Understanding; 6.4 million states |
| `agency` | 2 processes, 2 tools, 5 kinds of request, window 2 over a past with one or two closings, 2 calls, 2 decisions, 2 steps a task, 1 crash | the properties of Agency; 0.4 million states, symmetric in the processes |
| `standalone` | sensors: 2 rules under one key with cooldowns 1 and 2, wake cooldown 2, window 2, clock to 3, 1 restart; broker: 2 callers, 3 paths, sizes below, between and above the quotas, 5 calls; selection: 1 or 2 sessions, 5 turns, 2 experiences from elsewhere, recent window 2, 1 mining | the properties of the three; 2.5 million states |
| `study` | 2 processes, 3 texts (two alike, one contrasting), 2 documents and a reply of two, 1 preference, threshold 2, windows 2, 3 calls, 1 crash or passing of time | the properties of Study; 1.4 million states, symmetric in the processes |
| `telemetry_lines` | as small as the disagreement needs | the finding below |

Why the bounds are enough: threshold 2 is the least the code accepts, and with
four activities a session can be blocked, paused, resumed, crash in the next
activity, be resumed and run again. Two faults reach every line of the sandbox's
recovery path (the rollback fails, and then any call of the recreation). Two
starts and a window of two are what it takes for a telemetry line to be read
twice, for two processes to collect and promote at once, and for a promotion to
overlook an event. Five events and a threshold of two let an object be promoted
in one pass and contradicted by the next. Two calls of `acquire()` may overlap on
one capability, or follow each other; three moves by hand turn a failed one off and
on again, or put it back to `discovered` between the two, with one to spare. Four
statements and three passes let a record be noted, affirmed, contradicted and
repeated, with a pass aborted by a command. A window of two with two closings in
the past is full, so that a goal's closing can be forgotten. Three calls let two
ingestions overlap with a correction. With five selections and a window of two
every candidate on offer has had its turn. Each property has a mutant, a
plausible bug in the code, that violates it under the same bounds.

Deadlock is not checked, because a run, a bound or a stopped session ends every
behaviour.

Fairness: `RunEnds` assumes weak fairness of `EngineStep`, which is straight-line
synchronous code in one thread; the loops below it have deadlines
(`proxmox_provider.py:153`, `:200`). Nothing is assumed of callers or crashes.

## Findings

`telemetry_lines` (`EachLineIsAnEvent`) is a disagreement a run shows: of the
lines read in one poll only the first is recorded. They all carry the offset of the poll's end
(`telemetry.py:177`, `:182`), and the cursor, moved there by the first, skips the
others (`:349`), while `telemetry.py:152` says each new line is one event.

Met while modelling, and part of the models as the code has them:

- A curiosity that is `new` is never put under investigation
  (`autonomy.py:438-456`): the engine's table lists `new` as a source of
  `investigating`, so the intermediate step is skipped; the store refuses and
  the refusal is swallowed.
- `run` restarts a crashed session without accounting for the activity that was
  under way, unless the caller calls `resume_session`, which `main.py:206` does
  not (`ARCHITECTURE.md:116`); `pause` and `stop` do not look at what the session's
  status was either (`autonomy.py:123-129`). These activities are in `skipped`, and
  `NoUnaccountedActivity` says that there are no others.
- The experience of a promotion tells of ten events, the marker covers all that
  were held (`telemetry.py:398-412`): what is important beyond the newest ten is in
  no experience, now or later.
- A malformed line makes a poll fail after the offset has moved
  (`telemetry.py:177`), so the lines read with it are lost to that process.
- A correction with an event that is counted already counts it again, on the other
  side or twice on one (`learned.py:181`).
- A failed capability that is turned off may be turned on
  (`capability.py:50-51`), and is then offered without ever having been validated.
- When `create()` raises, the record stays at `downloaded`, from where `acquire()`
  cannot take it up again (`acquisition.py:349-358`), and a machine that was cloned
  stays as well.
- `mine_strategies` takes the experience of an acquisition for one of the activity
  that was started last, in whatever session (`learned.py:421-438`).
- A scan of the workspace that meets a file another caller deletes raises
  (`broker.py:97`), and the file it was to judge stays.
- A stop during a step is lost to the engine's next save of the whole row.
- Two sessions blocked on one goal carry it forward twice: `close_goal` checks
  and records in two statements (`core.py:118`).
- The machine that replaces one that could not be rolled back is never destroyed
  (`sandbox_controller.py:226`).
- The cap a correction puts on a learned object's status lasts until the next
  observation, also when that observation is against it (`learned.py:163`,
  `:176`).
- An `observe` that read its row before another process's writes back an
  older, shorter list of evidence. `apply_decay` then may set the status from
  the longer list it had read (`learned.py:195-209`), and an object is
  `established` and promoted with fewer than `MIN_SUPPORT` events
  (`learned.py:30`). It takes two processes and a decay between them.
- Two processes that promote one object propose a claim each
  (`consolidation.py:203-220`); the row links to one of them, and nothing
  demotes the other.
- A preference is adopted after `threshold` sightings, which need not be distinct
  events as `learning.py:3-4` says: one event seen again counts again.
- A repeat of an understanding record that is no longer active raises and ends
  the pass, and the next one meets it again (`understanding.py:492`).
- `acquire()` may report a capability as acquired that does not meet the
  requirement it was looked for, so the gap stays.
- `fetch_to_file` does not ask how many files there are.
- The wake cooldown is measured from the latest candidate event, so a wake
  depends on what the window of twenty shows (`sensors.py:159-166`).
- `affirm` refuses a claim that has become outdated (`knowledge.py:187`), which
  ends the ingestion of a document that corroborates it (`ingest.py:196`).
- A task whose decision says that it is read-only may run a tool that writes:
  `run_task` passes `approved=True` (`runtime.py:145`).
- A tool that is not registered is not audited, and `acquire_api` asks about
  words that are known.
- Failures become candidates of their own (`revisit`), whose keys are new each
  time, so repeated failure evades both recency and the detection of a stuck
  session (`ARCHITECTURE.md:117-119`); truncation to `max_candidates` falls on
  the later sources (`activities.py:286`).
- Fingerprints beyond the retention are forgotten (`telemetry.py:294`), and a
  promotion whose marker was not written is made again (`telemetry.py:412`).

## Proofs

Each `...Proofs` module proves theorems of the specification it extends for all
values of the constants that the named assumptions of that module allow: any
number of processes, events, records and crashes, and any bound. A theorem that
needs more says so in its statement; every such hypothesis is one that a run
satisfies. The proofs share one shape: what each action does to the parts an
invariant speaks of (lemmas named `...Effect`, `...Move`, `...Steps`), that each
part is kept, and a temporal step. Almost nothing that matters is inductive by
itself, because the code reads in one transaction and writes in another: the
invariants say what a call carries between the two. The type invariants
(`TypeOK`) are proved and therefore in no run.

`StandaloneProofs` extends both `Sandbox` and `Standalone`, which share nothing.

| Module | Theorem | Property | Needs |
|---|---|---|---|
| `AutonomyProofs` | `TypeCorrect` | | |
| | `CountedAreLived` | `CountedActivitiesLived` | |
| | `AnsweredHaveExperience` | `AnsweredByExperience` | |
| | `PausedIsLeftAlone` | `PausedUntilResumed` | commands between runs (`~Concurrent`) |
| | `RetriesAreBounded` | `IdenticalAttemptsBounded` | |
| | `GoalsCarriedOn` | `GivenUp`, `CarriedOn` | |
| | `BlockedGoalsEvolve` | `BlockedGoalEvolves` | one session |
| | `NoneUnaccounted` | `NoUnaccountedActivity` | `~Concurrent` |
| `StandaloneProofs`, of `Sandbox` | `TypeCorrect` | | |
| | `SuccessIsHonest` | `HonestSuccess` | |
| | `CancelIsHeeded` | `CancelHeeded` | |
| | `AuditIsAhead` | `AuditAhead` | |
| | `KeepsThePromise` | `LogSpec` | |
| | `OneLeftoverPerFailure` | `LeftoverPerFailure` | |
| `StandaloneProofs`, of `Standalone` | `RulesFireApart` | `FiredApart` | |
| | `WakesKeptApart` | `WakesApart` | |
| | `BrokerWithinQuota` | `WithinQuota` | |
| | `EachHasItsTurn` | `Rotation` | |
| | `StrategiesRestOnTheirs` | `StrategiesTruthful` | |
| `AgencyProofs` | `TypeCorrect` | | |
| | `NothingShapedIsLost` | `StateKeepsUp` | |
| | `EffectsAreApproved` | `RunsOnApproval` | |
| | `EffectsAreOnRecord` | `EffectsAudited` | |
| | `NoVisibleClosingRepeated` | `ClosedAgainOnlyUnseen` | |
| `TelemetryProofs` | `SeenAreRecorded` | `SeenIsRecorded` | |
| | `NotRecordedAgain` | `RecordedOnce` | |
| | `NothingDropped` | `PromotionComplete` | |
| `UnderstandingProofs` | `TypeCorrect` | | |
| | `ConflictsKeepBothSides` | `BothSidesKept` | |
| | `SureOnEvidence` | `ConfidenceEarned` | one process |
| | `PassesCover` | `FinishedPassCovers` | one process |
| | `SaidOnceDerivedOnce` | `DerivedOnce` | one process |
| `StudyProofs` | `TypeCorrect` | | |
| | `SourcesAreHonest` | `SourcesSay` | |
| | `DocumentsAreCovered` | `DocumentCovered` | |
| | `PreferencesAreSighted` | `AdoptedOnSightings` | |
| `LearningProofs` | `TypeCorrect` | | |
| | `EvidenceCountedOnce` | `CountedOnce` | |
| | `ReplacementExplained` | `ReplacedHasSuccessor` | |
| | `PromotionsOnEvidence` | `PromotedOnEvidence` | one process, if objects decay |
| | `PromotionSettles` | `PassSettles` | |
| | `MiningIsComplete` | `MiningComplete` | |
| | `OrphansNeedACrash` | `OrphansOnlyByCrash` | one process |
| `AcquisitionProofs` | `TypeCorrect` | | |
| | `OfferedWasValidated` | `AvailableWasValidated` | |
| | `MachinesAccounted` | `NoMachineLeft` | |
| | `OrderKept` | `LeftInOrder` | |

**Autonomy.** `TypeCorrect` carries `CandidateKinds` (a candidate that moves a
curiosity names one of the store), which the typing of `WriteCuriosity` needs.
`CountedActivitiesLived` is not inductive: the row is written from the engine's
copy or from a caller's stale copy, and the counter is raised three steps after
the experience is recorded. `CountInv` says that every copy in the system (row,
engine, caller) counts only what is lived, that a result is known from the
execution on (`HasResult`), and that between the recording and the counting
(`Recorded`) the experience with the next number exists. `LedgerGrows` makes
"lived" permanent. The proof covers crashes and concurrent callers, so it
explains why lost updates of the row never corrupt the count.

For `AnsweredByExperience` the engine reads the status and writes it one step
later, so `AnswerInv` carries the evidence with the engine: from the recording on
(`Evidenced`) the ledger tells of its candidate and result, and an engine about
to write `answered` (`hop`) has concluded a success.

`PausedIsLeftAlone` rests on `RowInv`: when commands come between runs, a row is
paused only then, and what a command has read is the row still. For
`RetriesAreBounded`, `TailInv` says of every copy of a history (row, engine,
caller) that it ends in at most `Threshold - 1` identical attempts and one for
each crash and command spent, and one more while the last is not judged. In
`GoalsInv`, `HistoryInv` says that no copy of a history tells of more attempts
than the ledger does (`Behind`), `GivenUp` that a closed goal had enough
attempts, and `CarriedOn` that it has been refined, is about to be, or that a
process crashed. `RefinedOnce` adds that it is refined only once, which needs one
session. `AccountInv` says that a started activity has no experience only while
it is under way, when the row still tells that it was interrupted, or when it is
one of those that were `skipped`.

**Sandbox.** `KeepsThePromise` is the refinement step by step: the initial states
map to those of `ExperimentLog`, and every call of the controller is one of its
steps or a stutter. `HonestRecord` (a success counts all operations, and nothing was
bad) holds at every line of the recovery path. `Heeded` ties `late` to where the
controller is: a cancelled experiment that has executed a command since does not
come to execute another. `Announced` says that what is about to be destroyed has
its entry in the audit trail. For the leftovers, `Balance` says
that the machines alive but not held (`Held`) are at most what was spent on
faults, interrupts and deaths, with one in reserve while a machine is being
replaced (`Replacing`, `Replacement`).

**Agency.** `IInv` says what each place of a call implies (`Placed`): a state a
call holds has everything of the saved one but what is known to be overlapped
(`Holding`), a tool run for a task was decided, allowed and saved (`Decided`),
messages have numbers of their own and are on the ledger only after they were
sent (`Numbered`, `Unsent`), and a caller who found a goal active may not have
seen the closings there are (`LookedUp`). `PastsAreLedgers` asks the same of the
past the model starts with.

**Telemetry.** `Counted` relates, for each line, the marks, the copies on the
ledger and the processes between the two commits: what was marked is recorded,
about to be, or one of the crashes took it (`AllRecorded`); a line is marked once
for each process at most (`MarkedOnce`) and leads to one event for each mark
(`OncePerMark`). `Promoting` says that what is important at or before the marker,
or a marker about to be written, belongs to an experience or was crowded out of one
or of the window (`CoversAll`, `HoldsAll`). `ProcessesAssumption` (finitely many processes) is needed
to count them.

**Understanding.** `IInv` holds for any number of processes: a record's events
are on the ledger (`Sourced`), contradicted and contradicting records come in
pairs (`Linked`), and a contrast has replaced something, is about to, or was torn
by a crash (`Resolved`). For one process `OnlyOne` adds that confidence is
within the cap and what the events are worth (`Earned`), that a pass's picture
agrees with the table (`InSync`), and that what it has behind it is covered
(`Covering`). With two processes none of the three holds: `affirm` writes back
sources that are stale, adds to the confidence for an event the other process has
added already, and both may note one statement.

**Study.** `Places` says what a call holds at each place. `SayInv` lets the
sources that `affirm` has read, and is about to write back, say what the claim
says. `CoverInv` follows the document through the chunks that are behind it
(`Handled`), and charges a source that another `affirm` overwrote to `cut`.
`AdoptInv` counts the sightings of a tag from the claim that is about to be
adopted. `StudyAssumption` asks for finite sets of words, and that tags and
corrections are not texts.

**Learning.** `TypeCorrect` carries `Places`: a pass points at rows, claims and
events that exist, the calls it has still to make are of events of the right
outcome, and no row, nor one that was read, supports itself on an event twice.
`TallyInv` adds, for `CountedOnce`, that a row, and one that `observe` or a
correction has read, counts an event against it once for each correction that
named the two, and once more only if mining holds it against the object
(`Tallied`). `OldInv`
says that a claim proposed in place of another replaces nothing yet. `EvidenceInv`
follows the size of a row's evidence into the snapshot (`Backed`) and, when
objects decay, into the decay under way (`DecayOK`) and the stale row an
`observe` writes back (`Ahead`); `Ahead` is what a second process breaks.
`SettleInv` cuts the snapshot at `at`: what lies behind is settled, what lies
before is as the pass read it. `MineInv` says, for each stage, that what an
event is for is counted or still among the calls (`Pending`). `Accounted` counts
the orphans: a claim that is proposed and not yet linked
is the one a crash turns into an orphan, and the link hides no other, because the
rows to go over link to what they did when they were read (`LinksRead`) and
nothing is proposed for a row whose claim is active (`Unlinked`). Only this
theorem, and decay, need one process.

**Acquisition.** `transition()` writes over whatever the status has become, so
the table tells nothing without the calls that are at it. `IInv` says what each
place of a call implies (`AllInPlace`: it has a machine from its creation on, a
call by hand never has one, `outcome` is `success` until something fails); that
a location is one a validation passed in, and that a call about to write
`validated` or `available` has one behind it (`Located`); that a machine is
somebody's or lost (`MachineOwned`); that a candidate half-way through its life
cycle is held by a call that goes on or fails it (`InHand`); and that behind an
available or disabled one there is, for good, a history, a call that is
finishing, one that was cut off, or a person who turned it off or on before
`acquire()` had finished with it (`Behind`, `Vouched`). `Monotone` collects
what no step takes back. `HandAssumption` is needed for `InHand` and `Located`: a
person who moved a record to `installed` would leave it half-way, and one who
moved it to `validated` would vouch for a validation that never was.

**Sensors.** `FiredApart` needs to know what a hub remembers (`Remembering`: for
each key a time no earlier than any event of its own, and no event of a hub that
is still to come). For `WakesApart`, `WakesGrounded` states of every decision, one
that is still to be recorded included, which wakes it had before it and how far
from its cause they were (`Grounded`); `InOrder` is the clock.

**Broker.** A file is in the workspace before anybody looks at the quota, so what
is inductive is not the sum: it is that the files nobody is about to look at, and
whose look did not fail or never come (`LookedAt`), are within it. The sum over the
files is a fold of the library; `SumStep`, `SumSplit` and `SumMonotone` say what it
does with one term more.

**ActivitySelection, Rotation.** `RotationInv` has three parts. `Recollects` ties
what a session remembers, the keys, to its newest selections on the ledger, in
their order, and leaves out the one under way (`Done`). `OfferedFairly`
says of each selection that among the ones the session remembered then its key
was at most once more than anything on offer; this is where the scores come in:
a repeat halves the score, and no bonus and no difference of sources makes up for
two of them (`FairlySelected`). `Rotation` follows by counting. Take a candidate
that was left out of one selection more than the window holds, and order the keys
that were taken by when they were last taken, the latest first. The `m`-th was
taken at most `m + 1` times: what came after it is all of the `m - 1` keys before
it, so what the session remembered when it chose it shows these, and the one left
out, at most as often as the whole stretch does, and one of them too rarely for
it to be chosen more often (`OneMoreTaken`, by the pigeonhole `EachHasItsOwn`).
So `n` keys fill at most `n (n + 3) / 2` selections (`SomeRarely`), and
`others (others + 3) <= 2 RecentWindow` leaves one unfilled.

**ActivitySelection, StrategiesTruthful.** `StrategyInv` says that an experience
of an activity is of the newest selection of its session (`ProperStarts`, which needs
`Underway`), and that each learned row rests on what is true of its events
(`Tables`, `Honest`, `Truth`). The diary only grows, so what is true stays true
(`TruthGrows`); `RunningIsTruth` compares what the miner takes for the activity of
an experience with the one it is of; and the miner's fold of all that it has to
tell keeps the table honest (`AllToldKept`).

The library's induction theorems take an operator as a parameter and cannot be
used, but its fact that the naturals are well-founded can: the least and the
greatest of a set of ids (`Least`, `MinFacts`, `MaxFacts` and their like) come
from `NatLessThanWellFounded` and `WFMin`. An induction over data is then an
argument by the smallest counterexample. `FoldExists` and `FoldUnique` prove in this
way, for finite sets, that the equation of a fold has a solution and only one; with
the pick and the step given as functions they replace the theorem about folds
that would need an operator, and the sum of the broker and the miner's fold are
instances.

Only model-checked: `RunEnds`. Fairness and ENABLED are outside
the prover's reach.

## What could come next

1. What of the one-process theorems remains with several: how many records one
   statement, and how many claims one object, may have when `n` processes mine,
   and what a decay may set then.
2. Affect's weights in `ActivitySelection`, and the retention of telemetry as a
   property of its own.

## Not modelled

Prompting and parsing of model output, retrieval ranking and embeddings,
context building, graph and project views (pure functions of the ledger), HTTP
and browser fetching, voice, avatar, configuration, schemas, the interfaces and
the vendored `third_party/`: they change no state another component relies on,
or are input and output. `main.py` is the sequence of calls by which the modelled
parts are driven. Within modelled components, what is left out is named in
`PROJECT.json`.
