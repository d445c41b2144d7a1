----------------------------- MODULE Telemetry -----------------------------
(***************************************************************************)
(* Telemetry (telemetry.py) as main.py --autonomy drives it: a process     *)
(* tails a log file, collects twice, promotes what is important to an      *)
(* experience, and exits.  The file is written by others, also half a line *)
(* at a time, and may be rotated.  The source's offset lives in the        *)
(* process; the cursor, the fingerprints and the ledger are durable.  Each *)
(* statement that commits is a step; a crash may fall between any two, and *)
(* several processes may share the database.                               *)
(***************************************************************************)
EXTENDS EventLedger, SequencesExt

CONSTANTS
  Lines,         \* what others write to the file, by content
  Stamped,       \* the lines with a timestamp of their own
  Scalar,        \* the lines that are JSON but not an object: AttributeError
  Malformed,     \* the lines whose metadata is no mapping: ValueError
  Significant,   \* the lines at or above importance_threshold
  Important,     \* the lines at or above promote_telemetry's min_importance
  Fragment,      \* half a line, read as a plain line of low importance
  Processes,     \* processes with the database open
  Retention,     \* fingerprints kept
  Window,        \* the limit of unpromoted_telemetry
  Told,          \* the events an experience tells of: events[:10]
  MaxBytes,      \* bound: bytes written, in all; a line is two
  MaxRuns,       \* bound: processes started, in all
  MaxCrashes,    \* bound: crashes, in all
  MaxRotations   \* bound: rotations of the file, in all

ASSUME LinesAssumption ==
  /\ Stamped \subseteq Lines
  /\ Scalar \subseteq Lines \ Stamped /\ Malformed \subseteq Lines \ (Stamped \cup Scalar)
  /\ Important \subseteq Significant /\ Significant \subseteq Lines
  /\ Fragment \notin Lines
ASSUME ProcessesAssumption == IsFiniteSet(Processes)
ASSUME LimitsAssumption == {Retention, Window, Told} \subseteq Nat \ {0}
ASSUME BoundsAssumption ==
  MaxBytes \in Nat /\ MaxRuns \in Nat /\ MaxCrashes \in Nat /\ MaxRotations \in Nat

VARIABLES
  file,     \* the log file: its bytes, each a line and which half of it
  cursor,   \* telemetry_cursor
  marks,    \* every fingerprint ever stored; the table keeps the newest
  ledger,   \* the event table
  proc,     \* each process's program counter and locals
  budget    \* what is left of the bounds: bytes, runs, crashes, rotations

vars == <<file, cursor, marks, ledger, proc, budget>>

-----------------------------------------------------------------------------
\* `line' belongs to telemetry events, `about' (event ids) to experiences and
\* `upto' to telemetry_promoted.
Event(kind, line, about, upto) == [kind |-> kind, line |-> line, about |-> about, upto |-> upto]

Whole(chunk, i) == /\ chunk[i].half = 1
                   /\ i < Len(chunk)

\* _parse_line over the lines of a chunk, which need not begin or end with one.
Parsed(chunk) ==
  LET starts == SetToSortSeq({i \in DOMAIN chunk : i = 1 \/ chunk[i].half = 1}, <)
  IN  [k \in DOMAIN starts |->
         IF Whole(chunk, starts[k]) THEN chunk[starts[k]].line ELSE Fragment]

Chunk(p) == SubSeq(file, proc[p].offset + 1, Len(file))

\* The lines _parse_line raises on; the first of them ends the poll.
Faulty(chunk) == {i \in DOMAIN chunk : Whole(chunk, i) /\ chunk[i].line \in Scalar \cup Malformed}
FirstFault(chunk, lines) ==
  \E i \in Faulty(chunk) : chunk[i].line \in lines /\ \A j \in Faulty(chunk) : i <= j

\* Mutant: the fingerprint table is not looked at.
SeenNever(line) == FALSE

\* A line without a timestamp is stamped when it is read, so that its
\* fingerprint is never seen twice.
Seen(line) == /\ line \in Stamped
              /\ \E i \in Newest(DOMAIN marks, Retention) : marks[i] = line

Covered == LET markers == EventsOfKind(ledger, "telemetry_promoted", 1)
           IN  IF markers = {} THEN 0 ELSE ledger[CHOOSE i \in markers : TRUE].upto

Unpromoted == {i \in EventsOfKind(ledger, "telemetry", Window) :
                 i > Covered /\ ledger[i].line \in Important}

Idle == [pc |-> "off", pass |-> 0, offset |-> 0, batch |-> <<>>, cur |-> 0, held |-> {}]

Init ==
  /\ file = <<>>
  /\ cursor = 0
  /\ marks = <<>>
  /\ ledger = <<>>
  /\ proc = [p \in Processes |-> Idle]
  /\ budget = [bytes |-> MaxBytes, runs |-> MaxRuns, crashes |-> MaxCrashes,
               rotations |-> MaxRotations]

Spend(bound) == /\ budget[bound] > 0
                /\ budget' = [budget EXCEPT ![bound] = @ - 1]

Record(e) == ledger' = Append(ledger, e)

-----------------------------------------------------------------------------
(* The observed server. *)

WriteHalf ==
  /\ Spend("bytes")
  /\ IF file # <<>> /\ Last(file).half = 1
       THEN file' = Append(file, [line |-> Last(file).line, half |-> 2])
       ELSE \E l \in Lines : file' = Append(file, [line |-> l, half |-> 1])
  /\ UNCHANGED <<cursor, marks, ledger, proc>>

\* The file is moved away between two lines and a new one begun.
Rotate ==
  /\ Spend("rotations")
  /\ file # <<>> /\ Last(file).half = 2
  /\ file' = <<>>
  /\ UNCHANGED <<cursor, marks, ledger, proc>>

-----------------------------------------------------------------------------
(* TelemetryCollector.collect *)

Begin(p) ==
  /\ proc[p].pc = "off"
  /\ Spend("runs")
  /\ proc' = [proc EXCEPT ![p] = [Idle EXCEPT !.pc = "poll", !.pass = 1]]
  /\ UNCHANGED <<file, cursor, marks, ledger>>

\* main.py collects before and after the engine's run, then promotes.
AfterCollect(local) ==
  IF local.pass = 1 THEN [local EXCEPT !.pc = "poll", !.pass = 2]
                    ELSE [local EXCEPT !.pc = "promote"]

\* Everything since the last poll; its lines all carry the offset of its end.
Poll(p) ==
  /\ proc[p].pc = "poll"
  /\ Faulty(Chunk(p)) = {}
  /\ proc' = [proc EXCEPT ![p].pc = "begin", ![p].batch = Parsed(Chunk(p)),
                          ![p].offset = @ + Len(Chunk(p))]
  /\ UNCHANGED <<file, cursor, marks, ledger, budget>>

\* RuntimeError, when the file cannot be read: reported as disconnected.
PollFails(p) ==
  /\ proc[p].pc = "poll"
  /\ proc' = [proc EXCEPT ![p] = AfterCollect(@)]
  /\ UNCHANGED <<file, cursor, marks, ledger, budget>>

\* ValueError, when the offset has moved past the chunk already: reported as
\* disconnected too, and this process does not read the chunk's lines again.
PollLoses(p) ==
  /\ proc[p].pc = "poll"
  /\ FirstFault(Chunk(p), Malformed)
  /\ proc' = [proc EXCEPT ![p] = [AfterCollect(@) EXCEPT !.offset = @ + Len(Chunk(p))]]
  /\ UNCHANGED <<file, cursor, marks, ledger, budget>>

\* AttributeError: nobody handles it and the process ends.
PollRaises(p) ==
  /\ proc[p].pc = "poll"
  /\ FirstFault(Chunk(p), Scalar)
  /\ proc' = [proc EXCEPT ![p] = Idle]
  /\ UNCHANGED <<file, cursor, marks, ledger, budget>>

ReadCursor(p) ==
  /\ proc[p].pc = "begin"
  /\ proc' = [proc EXCEPT ![p].pc = "line", ![p].cur = cursor]
  /\ UNCHANGED <<file, cursor, marks, ledger, budget>>

\* The line is done with: the cursor moves to the offset it carries.
Advance(local) == [local EXCEPT !.pc = "line", !.cur = local.offset, !.batch = Tail(@)]

\* A line at or before the cursor is skipped, and so is every line after it,
\* which carries the same offset.
SkipLines(p) ==
  /\ proc[p].pc = "line"
  /\ proc[p].batch # <<>>
  /\ proc[p].offset <= proc[p].cur
  /\ proc' = [proc EXCEPT ![p].batch = <<>>]
  /\ UNCHANGED <<file, cursor, marks, ledger, budget>>

Deduplicate(p) ==
  /\ proc[p].pc = "line"
  /\ proc[p].batch # <<>>
  /\ proc[p].offset > proc[p].cur
  /\ proc' = [proc EXCEPT ![p] = IF Seen(Head(@.batch)) THEN Advance(@)
                                                        ELSE [@ EXCEPT !.pc = "mark"]]
  /\ UNCHANGED <<file, cursor, marks, ledger, budget>>

MarkSeen(p) ==
  /\ proc[p].pc = "mark"
  /\ marks' = Append(marks, Head(proc[p].batch))
  /\ proc' = [proc EXCEPT ![p] = IF Head(@.batch) \in Significant
                                   THEN [@ EXCEPT !.pc = "record"] ELSE Advance(@)]
  /\ UNCHANGED <<file, cursor, ledger, budget>>

\* Mutant: a line without a timestamp is dropped.
RecordLineStamped(p) ==
  /\ proc[p].pc = "record"
  /\ IF Head(proc[p].batch) \in Stamped
       THEN Record(Event("telemetry", Head(proc[p].batch), {}, 0))
       ELSE UNCHANGED ledger
  /\ proc' = [proc EXCEPT ![p] = Advance(@)]
  /\ UNCHANGED <<file, cursor, marks, budget>>

RecordLine(p) ==
  /\ proc[p].pc = "record"
  /\ Record(Event("telemetry", Head(proc[p].batch), {}, 0))
  /\ proc' = [proc EXCEPT ![p] = Advance(@)]
  /\ UNCHANGED <<file, cursor, marks, budget>>

SetCursor(p) ==
  /\ proc[p].pc = "line"
  /\ proc[p].batch = <<>>
  /\ cursor' = proc[p].cur
  /\ proc' = [proc EXCEPT ![p] = AfterCollect(@)]
  /\ UNCHANGED <<file, marks, ledger, budget>>

-----------------------------------------------------------------------------
(* promote_telemetry *)

ReadUnpromoted(p) ==
  /\ proc[p].pc = "promote"
  /\ proc' = [proc EXCEPT ![p] = IF Unpromoted = {} THEN Idle
                                 ELSE [@ EXCEPT !.pc = "experience", !.held = Unpromoted]]
  /\ UNCHANGED <<file, cursor, marks, ledger, budget>>

\* The events come newest first, and the experience tells of the first ten.
RecordExperience(p) ==
  /\ proc[p].pc = "experience"
  /\ Record(Event("experience", Fragment, Newest(proc[p].held, Told), 0))
  /\ proc' = [proc EXCEPT ![p].pc = "marker"]
  /\ UNCHANGED <<file, cursor, marks, budget>>

\* Mutant: the marker covers whatever is on the ledger by now.
CoverUpToNow(held) == Max(IdsOfKind(ledger, "telemetry"))

CoverUpTo(held) == Max(held)

RecordMarker(p) ==
  /\ proc[p].pc = "marker"
  /\ Record(Event("telemetry_promoted", Fragment, {}, CoverUpTo(proc[p].held)))
  /\ proc' = [proc EXCEPT ![p] = Idle]
  /\ UNCHANGED <<file, cursor, marks, budget>>

Crash(p) ==
  /\ proc[p].pc # "off"
  /\ Spend("crashes")
  /\ proc' = [proc EXCEPT ![p] = Idle]
  /\ UNCHANGED <<file, cursor, marks, ledger>>

Collect(p) == \/ Poll(p) \/ PollFails(p) \/ PollLoses(p) \/ PollRaises(p) \/ ReadCursor(p) \/ SkipLines(p)
              \/ Deduplicate(p) \/ MarkSeen(p) \/ RecordLine(p) \/ SetCursor(p)
Promote(p) == ReadUnpromoted(p) \/ RecordExperience(p) \/ RecordMarker(p)

Next == \/ WriteHalf \/ Rotate
        \/ \E p \in Processes : Begin(p) \/ Collect(p) \/ Promote(p) \/ Crash(p)

Spec == Init /\ [][Next]_vars

-----------------------------------------------------------------------------
(* Properties. *)

Recorded == IdsOfKind(ledger, "telemetry")
Experiences == IdsOfKind(ledger, "experience")

\* A line with its own timestamp is recorded once, however often the file is
\* read from its start again after a crash or a restart: as long as the table
\* forgets nothing, only processes that collect at the same time repeat it.
RecordedOnce ==
  Len(marks) <= Retention =>
    \A l \in Stamped : Cardinality({i \in Recorded : ledger[i].line = l}) <= Cardinality(Processes)

\* The fingerprint is stored before the event.  What was marked as seen is on
\* the ledger, except for one line in each crash.
SeenIsRecorded ==
  Cardinality({i \in DOMAIN marks : marks[i] \in Significant})
    <= Cardinality(Recorded) + (MaxCrashes - budget.crashes)
       + Cardinality({p \in Processes : proc[p].pc = "record"})

\* What the marker covers and no experience tells of was crowded out, whatever
\* other processes recorded meanwhile: an experience is full with ten newer
\* events, or the window was too small for the events since the last promotion
\* (telemetry.py:398-412, 426).
PromotionComplete ==
  \A i \in Recorded : ledger[i].line \in Important /\ i <= Covered =>
    \/ \E e \in Experiences : i \in ledger[e].about
    \/ \E e \in Experiences : Cardinality({j \in ledger[e].about : j > i}) >= Told
    \/ Cardinality({j \in Recorded : j > i}) >= Window

(* What the repository says of the program and the code does not do. *)

\* telemetry.py:152, "Each new line is one event": when a process has finished
\* a batch, the significant lines it has read are on the ledger.
EachLineIsAnEvent ==
  \A p \in Processes : proc[p].pc = "line" /\ proc[p].batch = <<>> =>
    \A i \in DOMAIN file :
      Whole(file, i) /\ i < proc[p].offset /\ file[i].line \in Stamped \cap Significant
        => \E e \in Recorded : ledger[e].line = file[i].line
=============================================================================
