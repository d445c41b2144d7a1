------------------------------- MODULE Study -------------------------------
(***************************************************************************)
(* What the agent takes in from outside, and from its user: ingestion of   *)
(* documents (ingest.py) and accumulation of preferences (learning.py)     *)
(* over one knowledge store and one ledger, which several processes share. *)
(* A statement is the set of its words; prefixes count for nothing.        *)
(***************************************************************************)
EXTENDS EventLedger, KnowledgeStore, Integers, SequencesExt

CONSTANTS
  Procs,         \* processes that ingest, or observe preferences
  Texts,         \* statements of documents
  Words,         \* the words of each text, numbered in alphabetical order
  Contrasting,   \* texts with one of CONTRAST_MARKERS
  Documents,     \* what a fetch may return: the chunks of a document
  Urls,          \* addresses of documents
  ApiUrl,        \* an address that is never asked for: acquire_api's
  Replies,       \* what a query may return: a sequence of documents
  Bonus,         \* source_reliability, as points of 0.05: -1, 0, 1
  Tags,          \* preferences
  Corrected,     \* what a correction is about, its tags being lost
  Threshold,     \* of sightings before a preference is adopted
  Kept,          \* what the keeper of the store may make of a claim
  RecallLimit,   \* recall(limit=10)
  SourceLimit,   \* events_of_kind("source", limit=100)
  MaxAsked,      \* curiosities opened for one document (3)
  MaxCalls,      \* bound: calls, in all
  MaxUpsets      \* bound: crashes and times that time passes, in all

ASSUME StudyAssumption ==
  /\ Words \in [Texts -> SUBSET Nat] /\ Contrasting \subseteq Texts
  /\ \A t \in Texts : IsFiniteSet(Words[t])
  /\ Tags \cap Texts = {} /\ Corrected \notin Tags \cup Texts
  /\ Kept \subseteq {"uncertain", "rejected", "archived"}
  /\ Documents \subseteq Seq(Texts) /\ Replies \subseteq Seq(Seq(Texts))
  /\ ApiUrl \notin Urls
  /\ Bonus \in {-1, 0, 1}
  /\ Threshold \in Nat /\ Threshold >= 2
  /\ {RecallLimit, SourceLimit, MaxAsked, MaxCalls, MaxUpsets} \subseteq Nat

VARIABLES
  ledger,   \* the events these calls record
  fresh,    \* the sources younger than thirty days
  claims,   \* the knowledge store
  recent,   \* the claims updated within ninety days
  asked,    \* words with an open curiosity
  proc,     \* each process: the call it is in, and what that remembers
  cut,      \* history: sources whose ingestion was cut short
  torn,     \* history: candidates that a crash left active
  budget    \* what is left of the bounds

vars == <<ledger, fresh, claims, recent, asked, proc, cut, torn, budget>>

-----------------------------------------------------------------------------
Idle == [at |-> "idle", url |-> ApiUrl, docs |-> <<>>, source |-> 0, rest |-> <<>>,
         claim |-> 0, new |-> 0, sources |-> {}, tag |-> Corrected, novel |-> {}, asks |-> 0]

Init ==
  /\ ledger = <<>> /\ fresh = {}
  /\ claims = <<>> /\ recent = {}
  /\ asked = {}
  /\ proc = [p \in Procs |-> Idle]
  /\ cut = {} /\ torn = {}
  /\ budget = [calls |-> MaxCalls, upsets |-> MaxUpsets]

store == <<claims, recent>>
history == <<cut, torn>>

Go(p, to) == proc' = [proc EXCEPT ![p] = to]

Call(p) ==
  /\ proc[p].at = "idle"
  /\ budget.calls > 0 /\ budget' = [budget EXCEPT !.calls = @ - 1]

Visible(i) == claims[i].status \in {"active", "uncertain", "contradicted", "outdated"}
VisibleClaims == {i \in DOMAIN claims : Visible(i)}

-----------------------------------------------------------------------------
(* Ingestion: the source. *)

Cached(url) ==
  {i \in EventsOfKind(ledger, "source", SourceLimit) : ledger[i].url = url /\ i \in fresh}

\* acquire, up to the fetch: a fresh source is not fetched again.
StartAcquire(p) ==
  /\ Call(p)
  /\ \E url \in Urls :
       IF Cached(url) # {} THEN UNCHANGED proc
       ELSE Go(p, [Idle EXCEPT !.at = "fetch", !.url = url])
  /\ UNCHANGED <<ledger, fresh, store, asked, history>>

Source(url, doc) == [kind |-> "source", url |-> url, doc |-> doc]
Plain(kind) == [kind |-> kind, url |-> ApiUrl, doc |-> <<>>]

FetchFails(p) ==
  /\ proc[p].at = "fetch"
  /\ ledger' = Append(ledger, Plain("source_failed"))
  /\ Go(p, Idle)
  /\ UNCHANGED <<fresh, store, asked, history, budget>>

\* acquire_api: one document for each record, and nothing is looked up first.
StartQuery(p) ==
  /\ Call(p)
  /\ \E docs \in Replies :
       IF docs = <<>> THEN UNCHANGED proc ELSE Go(p, [Idle EXCEPT !.at = "record", !.docs = docs])
  /\ UNCHANGED <<ledger, fresh, store, asked, history>>

QueryFails(p) ==
  /\ Call(p)
  /\ ledger' = Append(ledger, Plain("source_failed"))
  /\ UNCHANGED <<fresh, store, asked, proc, history>>

\* What is taken in next: what the fetch returns, or what is left of a reply.
Arriving(p) == IF proc[p].at = "fetch" THEN {<<doc>> : doc \in Documents} ELSE {proc[p].docs}

\* _ingest_document records its source before anything is made of it.
RecordSource(p) ==
  /\ proc[p].at \in {"fetch", "record"}
  /\ \E docs \in Arriving(p) :
       /\ ledger' = Append(ledger, Source(proc[p].url, Head(docs)))
       /\ Go(p, [proc[p] EXCEPT !.at = "chunk", !.docs = docs, !.source = Len(ledger) + 1,
                                !.rest = Head(docs)])
  /\ fresh' = fresh \cup {Len(ledger) + 1}
  /\ UNCHANGED <<store, asked, history, budget>>

-----------------------------------------------------------------------------
(* Ingestion: a chunk. *)

Shared(t, i) == IF claims[i].origin \in Texts
                THEN Cardinality(Words[t] \cap Words[claims[i].origin]) ELSE 0

\* recall: the claims that share most with a text, the newest of equals first.
Before(t, i, j) == Shared(t, i) > Shared(t, j) \/ (Shared(t, i) = Shared(t, j) /\ i > j)
Recalled(t) ==
  {i \in VisibleClaims : Cardinality({j \in VisibleClaims : Before(t, j, i)}) < RecallLimit}
First(t, ids) == CHOOSE i \in ids : \A j \in ids \ {i} : Before(t, i, j)

\* _overlap_ratio, in tenths.
Overlaps(t, i, tenths) ==
  /\ claims[i].origin \in Texts
  /\ Words[t] # {} /\ Words[claims[i].origin] # {}
  /\ 10 * Shared(t, i) >= tenths * Min({Cardinality(Words[t]), Cardinality(Words[claims[i].origin])})

\* Mutant: whatever shares a word corroborates.
CorroboratedLoose(t) == {i \in Recalled(t) : Shared(t, i) > 0}

Corroborated(t) == {i \in Recalled(t) : Overlaps(t, i, 5)}

Contradicted(t) ==
  IF t \in Contrasting THEN {i \in Recalled(t) : Overlaps(t, i, 3) /\ ~Overlaps(t, i, 5)} ELSE {}

\* 0.45 and 0.05 for each of three, less 0.15 when contradicted: at least 0.4.
Credible(t) ==
  9 + Min({Cardinality(Corroborated(t)), 3}) - (IF Contradicted(t) = {} THEN 0 ELSE 3) + Bonus >= 8

Chunk(p) == Head(proc[p].rest)
AtChunk(p) == proc[p].at = "chunk" /\ proc[p].rest # <<>>

\* evaluate_claim, and which of the three branches is taken.
Evaluate(p) ==
  /\ AtChunk(p)
  /\ LET t == Chunk(p)
     IN  Go(p, IF Contradicted(t) # {} /\ Credible(t)
                 THEN [proc[p] EXCEPT !.at = "contradict", !.claim = First(t, Contradicted(t))]
               ELSE IF Corroborated(t) # {}
                 THEN [proc[p] EXCEPT !.at = "affirm", !.claim = First(t, Corroborated(t))]
               ELSE [proc[p] EXCEPT !.at = "propose"])
  /\ UNCHANGED <<ledger, fresh, store, asked, history, budget>>

NextChunk(p) == [proc[p] EXCEPT !.at = "chunk", !.rest = Tail(@), !.claim = 0, !.new = 0, !.sources = {}]

\* propose commits a claim, here and as the first half of contradict.
Insert(origin, source) ==
  /\ claims' = Propose(claims, origin, {source})
  /\ recent' = recent \cup {Len(claims) + 1}

ProposeClaim(p) ==
  /\ proc[p].at = "propose"
  /\ Insert(Chunk(p), proc[p].source)
  /\ Go(p, NextChunk(p))
  /\ UNCHANGED <<ledger, fresh, asked, history, budget>>

\* Mutant: the refused chunk is passed over.
RefusedQuietly(p) ==
  /\ Go(p, IF proc[p].rest = <<>> THEN Idle ELSE NextChunk(p))
  /\ UNCHANGED <<cut, store>>

\* A ValueError of the store ends acquire and acquire_api: the rest of the
\* document, and the documents after it, are not taken in.
Refused(p) ==
  /\ Go(p, Idle)
  /\ cut' = cut \cup {proc[p].source}
  /\ UNCHANGED store

\* affirm: the record is read, and must be active ...
ReadAffirmed(p) ==
  /\ proc[p].at = "affirm"
  /\ LET i == proc[p].claim
     IN  IF claims[i].status # "active" THEN Refused(p)
         ELSE /\ Go(p, [proc[p] EXCEPT !.at = "write", !.sources = claims[i].sources \cup {proc[p].source}])
              /\ UNCHANGED <<cut, store>>
  /\ UNCHANGED <<ledger, fresh, asked, torn, budget>>

\* ... before its sources are written back, over what others wrote in between.
WriteAffirmed(p) ==
  /\ proc[p].at = "write"
  /\ LET i == proc[p].claim
     IN  /\ claims' = WriteSources(claims, i, proc[p].sources)
         /\ recent' = recent \cup {i}
         /\ cut' = cut \cup (claims[i].sources \ proc[p].sources)
  /\ Go(p, IF proc[p].rest = <<>> THEN Idle ELSE NextChunk(p))
  /\ UNCHANGED <<ledger, fresh, asked, torn, budget>>

\* contradict, up to its first commit ...
ProposeAgainst(p) ==
  /\ proc[p].at = "contradict"
  /\ IF ~MayBecome(claims[proc[p].claim].status, "contradicted") THEN Refused(p)
     ELSE /\ Insert(Chunk(p), proc[p].source)
          /\ Go(p, [proc[p] EXCEPT !.at = "replace", !.new = Len(claims) + 1])
          /\ UNCHANGED cut
  /\ UNCHANGED <<ledger, fresh, asked, torn, budget>>

\* ... and its second.
ReplaceContradicted(p) ==
  /\ proc[p].at = "replace"
  /\ claims' = Replace(claims, proc[p].claim, "contradicted", proc[p].new)
  /\ recent' = recent \cup {proc[p].claim}
  /\ Go(p, NextChunk(p))
  /\ UNCHANGED <<ledger, fresh, asked, history, budget>>

-----------------------------------------------------------------------------
(* Ingestion: curiosities for the words that are new. *)

WordsOf(texts) == UNION {Words[t] : t \in texts}

\* acquire asks about what no visible claim mentions; acquire_api, once all
\* its documents are in, about whatever there is.
EndDocument(p) ==
  /\ proc[p].at = "chunk" /\ proc[p].rest = <<>>
  /\ LET known == IF proc[p].url = ApiUrl THEN {}
                  ELSE WordsOf({claims[i].origin : i \in VisibleClaims} \cap Texts)
         novel == proc[p].novel \cup (WordsOf(ToSet(Head(proc[p].docs))) \ known)
         docs  == Tail(proc[p].docs)
     IN  Go(p, [Idle EXCEPT !.at = IF docs = <<>> THEN "ask" ELSE "record", !.docs = docs, !.novel = novel])
  /\ UNCHANGED <<ledger, fresh, store, asked, history, budget>>

Novel(p) == IF proc[p].asks = MaxAsked THEN {} ELSE proc[p].novel \ asked

\* The words of a chunk are asked about in order; here the document's are.
Ask(p) ==
  /\ proc[p].at = "ask" /\ Novel(p) # {}
  /\ LET word == Min(Novel(p))
     IN  /\ asked' = asked \cup {word}
         /\ Go(p, [proc[p] EXCEPT !.asks = @ + 1, !.novel = @ \ {word}])
  /\ ledger' = Append(ledger, Plain("observation"))
  /\ UNCHANGED <<fresh, store, history, budget>>

EndAsk(p) ==
  /\ proc[p].at = "ask" /\ Novel(p) = {}
  /\ Go(p, Idle)
  /\ UNCHANGED <<ledger, fresh, store, asked, history, budget>>

-----------------------------------------------------------------------------
(* Preferences. *)

Sightings(tag) == {i \in VisibleClaims : claims[i].origin = tag}
Adopted(tag) == {i \in Sightings(tag) : claims[i].status = "active"}

\* Mutant: the sighting under way is counted twice.
EnoughEager(tag) == Cardinality(Sightings(tag)) + 2 >= Threshold

Enough(tag) == Cardinality(Sightings(tag)) + 1 >= Threshold

\* observe_preference, of an observation the caller has recorded: the newest
\* adopted record is affirmed, or one adopted, or one more candidate made.
Sight(p) ==
  /\ Call(p)
  /\ \E tag \in Tags :
       LET here == [Idle EXCEPT !.source = Len(ledger) + 1, !.tag = tag]
       IN  Go(p, IF ~Enough(tag) THEN [here EXCEPT !.at = "candidate"]
                 ELSE IF Adopted(tag) = {} THEN [here EXCEPT !.at = "adopt"]
                 ELSE [here EXCEPT !.at = "affirm", !.claim = Max(Adopted(tag))])
  /\ ledger' = Append(ledger, Plain("sighting"))
  /\ UNCHANGED <<fresh, store, asked, history>>

Adopt(p) ==
  /\ proc[p].at = "adopt"
  /\ Insert(proc[p].tag, proc[p].source)
  /\ Go(p, Idle)
  /\ UNCHANGED <<ledger, fresh, asked, history, budget>>

\* A candidate is active until a second commit makes it uncertain.
ProposeCandidate(p) ==
  /\ proc[p].at = "candidate"
  /\ Insert(proc[p].tag, proc[p].source)
  /\ Go(p, [proc[p] EXCEPT !.at = "doubt", !.claim = Len(claims) + 1])
  /\ UNCHANGED <<ledger, fresh, asked, history, budget>>

Write(i, status) ==
  /\ claims' = WriteStatus(claims, i, status)
  /\ recent' = recent \cup {i}

Doubt(p) ==
  /\ proc[p].at = "doubt"
  /\ IF MayBecome(claims[proc[p].claim].status, "uncertain")
     THEN Write(proc[p].claim, "uncertain") ELSE UNCHANGED store
  /\ Go(p, Idle)
  /\ UNCHANGED <<ledger, fresh, asked, history, budget>>

\* observe_correction: supersede, in two commits; the tags are lost.
Correct(p) ==
  /\ Call(p)
  /\ \E i \in DOMAIN claims :
       /\ MayBecome(claims[i].status, "superseded")
       /\ Insert(Corrected, Len(ledger) + 1)
       /\ Go(p, [Idle EXCEPT !.at = "supersede", !.source = Len(ledger) + 1,
                             !.claim = i, !.new = Len(claims) + 1])
  /\ ledger' = Append(ledger, Plain("correction"))
  /\ UNCHANGED <<fresh, asked, history>>

Supersede(p) ==
  /\ proc[p].at = "supersede"
  /\ claims' = Replace(claims, proc[p].claim, "superseded", proc[p].new)
  /\ recent' = recent \cup {proc[p].claim}
  /\ Go(p, Idle)
  /\ UNCHANGED <<ledger, fresh, asked, history, budget>>

-----------------------------------------------------------------------------
(* Time, the keeper of the store, and crashes. *)

\* refresh_temporal, over a snapshot of the store, newest first.
StartRefresh(p) ==
  /\ Call(p)
  /\ Go(p, [Idle EXCEPT !.at = "refresh",
              !.sources = {i \in DOMAIN claims : /\ claims[i].status = "active" /\ claims[i].origin \in Texts
                                                 /\ i \notin recent}])
  /\ UNCHANGED <<ledger, fresh, store, asked, history>>

\* A claim that is no longer active or uncertain ends the sweep.
Refresh(p) ==
  /\ proc[p].at = "refresh"
  /\ IF proc[p].sources = {} THEN Go(p, Idle) /\ UNCHANGED store
     ELSE LET i == Max(proc[p].sources)
          IN  IF MayBecome(claims[i].status, "outdated")
              THEN Write(i, "outdated") /\ Go(p, [proc[p] EXCEPT !.sources = @ \ {i}])
              ELSE Go(p, Idle) /\ UNCHANGED store
  /\ UNCHANGED <<ledger, fresh, asked, history, budget>>

\* mark_uncertain, reject and archive, called from anywhere.
Keep ==
  /\ budget.calls > 0 /\ budget' = [budget EXCEPT !.calls = @ - 1]
  /\ \E i \in DOMAIN claims, to \in Kept :
       MayBecome(claims[i].status, to) /\ Write(i, to)
  /\ UNCHANGED <<ledger, fresh, asked, proc, history>>

\* A month, or a quarter of a year, passes.
TimePasses ==
  /\ budget.upsets > 0 /\ budget' = [budget EXCEPT !.upsets = @ - 1]
  /\ fresh' = {}
  /\ recent' \in {recent, {}}
  /\ UNCHANGED <<ledger, claims, asked, proc, history>>

Crash(p) ==
  /\ proc[p].at # "idle"
  /\ budget.upsets > 0 /\ budget' = [budget EXCEPT !.upsets = @ - 1]
  /\ cut' = cut \cup ({proc[p].source} \ {0})
  /\ torn' = IF proc[p].at = "doubt" THEN torn \cup {proc[p].claim} ELSE torn
  /\ Go(p, Idle)
  /\ UNCHANGED <<ledger, fresh, store, asked>>

Ingest(p) ==
  \/ StartAcquire(p) \/ FetchFails(p) \/ StartQuery(p) \/ QueryFails(p) \/ RecordSource(p)
  \/ Evaluate(p) \/ ProposeClaim(p) \/ ReadAffirmed(p) \/ WriteAffirmed(p)
  \/ ProposeAgainst(p) \/ ReplaceContradicted(p) \/ EndDocument(p) \/ Ask(p) \/ EndAsk(p)

Learn(p) ==
  \/ Sight(p) \/ Adopt(p) \/ ProposeCandidate(p) \/ Doubt(p) \/ Correct(p) \/ Supersede(p)

Next ==
  \/ \E p \in Procs : Ingest(p) \/ Learn(p) \/ StartRefresh(p) \/ Refresh(p) \/ Crash(p)
  \/ Keep \/ TimePasses

Spec == Init /\ [][Next]_vars

-----------------------------------------------------------------------------

Sources == IdsOfKind(ledger, "source")
Alike(t, i) == claims[i].origin = t \/ Overlaps(t, i, 5)

\* Once a document has been taken in, every chunk of it is behind a claim that
\* says as much and names its source, whatever other processes did to the
\* store meanwhile; a crash, a refused chunk and an affirmation overwritten by
\* another excepted (ingest.py:185-204, knowledge.py:119-126).
DocumentCovered ==
  \A s \in Sources :
    \/ s \in cut
    \/ \E p \in Procs : proc[p].source = s
    \/ \A t \in ToSet(ledger[s].doc) :
         \E i \in DOMAIN claims : s \in claims[i].sources /\ Alike(t, i)

\* No claim names a document as its source that says nothing of the kind
\* (knowledge.py:121, ingest.py:196).
SourcesSay ==
  \A i \in DOMAIN claims : \A s \in claims[i].sources \cap Sources :
    \E t \in ToSet(ledger[s].doc) : Alike(t, i)

\* A preference believed without reserve was sighted often enough, unless a
\* crash has come between a candidate and its mark (learning.py:58-77).
AdoptedOnSightings ==
  \A i \in DOMAIN claims :
    (claims[i].status = "active" /\ claims[i].origin \in Tags) =>
      \/ i \in torn
      \/ \E p \in Procs : proc[p].at = "doubt" /\ proc[p].claim = i
      \/ Cardinality({j \in 1..i : claims[j].origin = claims[i].origin}) >= Threshold

=============================================================================
