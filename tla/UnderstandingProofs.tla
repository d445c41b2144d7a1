------------------------- MODULE UnderstandingProofs -------------------------
(* Machine-checked facts about Understanding, for every value of its         *)
(* constants; those of the last section are about a single process.          *)
EXTENDS Understanding, FiniteSetTheorems, WellFoundedInduction, TLAPS

-----------------------------------------------------------------------------
(* The inductive invariant, for any number of processes. *)

Kinds == {"fact", "observation", "preference", "interest", "project", "identity", "inference",
          "uncertainty"}
Records == [statement : Statements, kind : Kinds, sources : SUBSET Nat, confidence : Nat,
            status : VisibleStatus, old : Nat]
Entries == [id : Nat, sources : SUBSET Nat, status : VisibleStatus \cup {"none"}]
Procs == [at : {"idle", "mine", "affirm", "revise", "replace"}, events : SUBSET Nat,
          took : SUBSET Nat, known : [Statements -> Entries], id : Nat,
          held : Records \cup {<<>>}, new : Nat, aborted : BOOLEAN]

TypeOK ==
  /\ ledger \in Seq(Statements)
  /\ records \in Seq(Records)
  /\ proc \in [Processes -> Procs]
  /\ mined \subseteq DOMAIN ledger
  /\ torn \subseteq Nat
  /\ budget \in [passes : Nat, commands : Nat, crashes : Nat]

\* What a pass holds is on the ledger and in the table, and a record that is
\* yet to replace another has replaced none.
InPass(log, table, r) ==
  /\ r.events \subseteq r.took /\ r.took \subseteq DOMAIN log
  /\ \A s \in Statements : r.known[s] # None => r.known[s].id \in DOMAIN table
  /\ r.at \in {"affirm", "revise", "replace"} => r.events # {} /\ r.id \in DOMAIN table
  /\ r.at = "affirm" => r.held \in Records /\ r.held.sources \subseteq DOMAIN log
  /\ r.at = "revise" \/ r.at = "replace" => Form[log[Min(r.events)]] = "contrast"
  /\ IF r.at = "replace" THEN r.new \in DOMAIN table /\ table[r.new].old = 0 ELSE r.new = 0

Apart(ps) == \A p, q \in Processes :
  p # q /\ ps[p].at = "replace" /\ ps[q].at = "replace" => ps[p].new # ps[q].new

\* Each record has sources on the ledger.
Sourced(log, table) ==
  \A i \in DOMAIN table : table[i].sources # {} /\ table[i].sources \subseteq DOMAIN log

\* Contradicted and contradicting records come in pairs.
Linked(table) ==
  /\ \A i \in DOMAIN table : table[i].status = "contradicted" =>
       \E j \in DOMAIN table : table[j].old = i
  /\ \A i \in DOMAIN table : table[i].old # 0 =>
       table[i].old \in DOMAIN table /\ table[table[i].old].status = "contradicted"

\* A contrast has replaced something, or is about to, or was torn by a crash.
Resolved(table, ps, lost) ==
  \A i \in DOMAIN table \ lost : Form[table[i].statement] = "contrast" =>
    table[i].old # 0 \/ \E p \in Processes : ps[p].at = "replace" /\ ps[p].new = i

IInv ==
  /\ TypeOK
  /\ \A p \in Processes : InPass(ledger, records, proc[p])
  /\ Apart(proc)
  /\ Sourced(ledger, records)
  /\ Linked(records)
  /\ Resolved(records, proc, torn)

-----------------------------------------------------------------------------
(* The inductive invariant of a single process. *)

Earned(r) ==
  /\ r.confidence <= Cap[r.kind]
  /\ r.confidence <= Sure(r.kind, Form[r.statement]) + Boost * (Cardinality(r.sources) - 1)

\* The picture of a pass agrees with the table, and shows what was said but
\* for the record about to replace another.
InSync(log, table, r) == r.at # "idle" =>
  /\ \A s \in Statements : r.known[s] # None =>
       table[r.known[s].id].statement = s /\ table[r.known[s].id].sources = r.known[s].sources
  /\ \A i \in DOMAIN table :
       table[i].kind \in {"fact", "preference"} /\ r.known[table[i].statement] = None =>
         r.at = "replace" /\ r.new = i
  /\ r.at = "revise" \/ r.at = "replace" => r.known[log[Min(r.events)]] = None
  /\ r.at = "replace" => table[r.new].statement = log[Min(r.events)]
  /\ r.at = "affirm" =>
       /\ r.known[log[Min(r.events)]] # None /\ r.known[log[Min(r.events)]].id = r.id
       /\ r.held.sources = table[r.id].sources /\ r.held.confidence = table[r.id].confidence
       /\ r.held.kind = table[r.id].kind /\ Min(r.events) \notin r.held.sources

\* What a pass has taken and put behind it, and what finished passes took.
Derivable(log, e) == Form[log[e]] \in {"fact", "preference", "telemetry"}
CoveredBy(table, e) == \E i \in DOMAIN table : e \in table[i].sources
Covering(log, table, r, done) ==
  \A e \in (r.took \ r.events) \cup done : Derivable(log, e) => CoveredBy(table, e)

OnlyOne(p) ==
  /\ IInv
  /\ \A i \in DOMAIN records : Earned(records[i])
  /\ DerivedOnce
  /\ InSync(ledger, records, proc[p])
  /\ Covering(ledger, records, proc[p], mined)

-----------------------------------------------------------------------------
(* The least and the greatest of a set of ids. *)

LEMMA Least ==
  ASSUME NEW S \in SUBSET Nat, S # {}
  PROVE  \E m \in S : \A n \in S : m <= n
<1> DEFINE R == OpToRel(<, Nat)
<1>1. IsWellFoundedOn(R, Nat)
  BY NatLessThanWellFounded
<1>2. \A x, y \in Nat : x < y => <<x, y>> \in R
  BY DEF OpToRel
<1> HIDE DEF R
<1>3. PICK m \in S : \A y \in S : ~(<<y, m>> \in R)
  BY <1>1, WFMin
<1>4. \A n \in S : ~(n < m)
  BY <1>2, <1>3
<1>5. \A n \in S : m \in Nat /\ n \in Nat
  BY <1>3
<1> QED
  BY <1>4, <1>5

LEMMA MinFacts ==
  ASSUME NEW S \in SUBSET Nat, S # {}
  PROVE  Min(S) \in S /\ \A n \in S : Min(S) <= n
<1>1. PICK m \in S : \A n \in S : m <= n
  BY Least
<1> QED
  BY <1>1 DEF Min

\* The greatest of ids that are bounded, or 0.
LEMMA MaxFacts ==
  ASSUME NEW S \in SUBSET Nat, NEW x \in S, NEW bound \in Nat, \A n \in S : n <= bound
  PROVE  Max(S) \in S /\ x <= Max(S)
<1> DEFINE far == {bound - n : n \in S}
<1>1. far \in SUBSET Nat /\ far # {}
  OBVIOUS
<1>2. PICK d \in far : \A c \in far : d <= c
  BY <1>1, Least
<1>3. PICK m \in S : d = bound - m
  BY <1>2
<1>4. \A n \in S : n <= m
  <2> SUFFICES ASSUME NEW n \in S PROVE n <= m
    OBVIOUS
  <2>1. d <= bound - n
    BY <1>2
  <2>2. n \in Nat /\ m \in Nat
    OBVIOUS
  <2> QED
    BY <1>3, <2>1, <2>2
<1>5. \A y \in S : m >= y
  BY <1>4
<1>6. Max(S) \in S /\ \A y \in S : Max(S) >= y
  BY <1>5 DEF Max
<1> QED
  BY <1>6

LEMMA PairMin ==
  ASSUME NEW a \in Nat, NEW b \in Nat
  PROVE  Min({a, b}) \in Nat /\ Min({a, b}) <= a /\ Min({a, b}) <= b /\ Min({a, b}) \in {a, b}
BY MinFacts

LEMMA Levels ==
  ASSUME NEW kind \in Kinds
  PROVE  Cap[kind] \in Nat /\ Default[kind] \in Nat
BY DEF Kinds, Cap, Default

LEMMA SureFacts ==
  ASSUME NEW kind \in Kinds, NEW form
  PROVE  /\ Sure(kind, form) \in Nat
         /\ form = "telemetry" /\ kind = "observation" => Sure(kind, form) <= Cap[kind]
         /\ form # "telemetry" => Sure(kind, form) <= Cap[kind]
<1>1. CASE form = "telemetry"
  BY <1>1 DEF Sure, Cap
<1>2. CASE form # "telemetry"
  BY <1>2, Levels, PairMin DEF Sure
<1> QED
  BY <1>1, <1>2

-----------------------------------------------------------------------------
(* What the writes do to the table. *)

\* The record a note adds.
Fresh(kind, s, e) ==
  [statement |-> s, kind |-> kind, sources |-> {e}, confidence |-> Sure(kind, Form[s]),
   status |-> "active", old |-> 0]

LEMMA NotedFacts ==
  ASSUME TypeOK, NEW kind \in Kinds, NEW s \in Statements, NEW e \in Nat
  PROVE  LET table == Noted(kind, s, e)  n == Len(records) + 1
         IN  /\ table \in Seq(Records) /\ Len(table) = n /\ n \in Nat \ {0}
             /\ DOMAIN table = DOMAIN records \cup {n} /\ n \notin DOMAIN records
             /\ \A i \in DOMAIN records : table[i] = records[i]
             /\ table[n] = Fresh(kind, s, e)
<1>1. Fresh(kind, s, e) \in Records
  BY SureFacts DEF Fresh, Records, VisibleStatus
<1>2. Noted(kind, s, e) = Append(records, Fresh(kind, s, e))
  BY DEF Noted, Fresh
<1> HIDE DEF Records
<1> QED
  BY <1>1, <1>2 DEF TypeOK

\* The table with the record id affirmed, as it was read, by the event e.
AffirmedIs(table, id, held, e) ==
  /\ table \in Seq(Records) /\ Len(table) = Len(records) /\ DOMAIN table = DOMAIN records
  /\ \A i \in DOMAIN records : i # id => table[i] = records[i]
  /\ table[id].statement = records[id].statement /\ table[id].kind = records[id].kind
  /\ table[id].status = records[id].status /\ table[id].old = records[id].old
  /\ table[id].sources = held.sources \cup {e}
  /\ table[id].confidence = Min({held.confidence + Boost, Cap[held.kind]})

LEMMA AffirmedFacts ==
  ASSUME TypeOK, NEW id \in DOMAIN records, NEW held \in Records, NEW e \in Nat
  PROVE  AffirmedIs(Affirmed(id, held, e), id, held, e)
<1> DEFINE c == Min({held.confidence + Boost, Cap[held.kind]})
           new == [records[id] EXCEPT !.sources = held.sources \cup {e}, !.confidence = c]
           table == Affirmed(id, held, e)
<1>1. c \in Nat
  <2>1. held.kind \in Kinds /\ held.confidence + Boost \in Nat
    BY DEF Records, Boost
  <2> QED
    BY <2>1, Levels, PairMin
<1>2. records[id] \in Records
  BY DEF TypeOK
<1> HIDE DEF c
<1>3. /\ new \in Records
      /\ new.statement = records[id].statement /\ new.kind = records[id].kind
      /\ new.status = records[id].status /\ new.old = records[id].old
      /\ new.sources = held.sources \cup {e} /\ new.confidence = c
  BY <1>1, <1>2 DEF Records
<1>4. table = [records EXCEPT ![id] = new]
  BY DEF Affirmed, c
<1> HIDE DEF Records, new, table
<1>5. table \in Seq(Records) /\ Len(table) = Len(records) /\ DOMAIN table = DOMAIN records
  BY <1>3, <1>4 DEF TypeOK
<1>6. table[id] = new /\ \A i \in DOMAIN records : i # id => table[i] = records[i]
  BY <1>4 DEF TypeOK
<1>7. AffirmedIs(table, id, held, e)
  BY <1>3, <1>5, <1>6 DEF c, AffirmedIs
<1> QED
  BY <1>7 DEF table

\* What a table has in common with another that differs in statuses and links.
SameNotes(table) ==
  /\ table \in Seq(Records) /\ Len(table) = Len(records) /\ DOMAIN table = DOMAIN records
  /\ \A i \in DOMAIN records :
       /\ table[i].statement = records[i].statement /\ table[i].kind = records[i].kind
       /\ table[i].sources = records[i].sources /\ table[i].confidence = records[i].confidence

LEMMA MarkedFacts ==
  ASSUME TypeOK, NEW id \in DOMAIN records, NEW status \in VisibleStatus
  PROVE  LET table == [records EXCEPT ![id].status = status]
         IN  /\ SameNotes(table)
             /\ \A i \in DOMAIN records : table[i].old = records[i].old
             /\ \A i \in DOMAIN records : table[i].status = IF i = id THEN status ELSE records[i].status
<1> DEFINE new == [records[id] EXCEPT !.status = status]
           table == [records EXCEPT ![id].status = status]
<1>1. records[id] \in Records /\ records \in Seq(Records)
  BY DEF TypeOK
<1>2. /\ new \in Records
      /\ new.statement = records[id].statement /\ new.kind = records[id].kind
      /\ new.sources = records[id].sources /\ new.confidence = records[id].confidence
      /\ new.old = records[id].old /\ new.status = status
  BY <1>1 DEF Records
<1>3. table = [records EXCEPT ![id] = new]
  OBVIOUS
<1> HIDE DEF Records, new, table
<1>4. table \in Seq(Records) /\ Len(table) = Len(records) /\ DOMAIN table = DOMAIN records
  BY <1>1, <1>2, <1>3
<1>5. table[id] = new /\ \A i \in DOMAIN records : i # id => table[i] = records[i]
  BY <1>1, <1>3
<1> QED
  BY <1>2, <1>4, <1>5 DEF SameNotes, table

LEMMA ReplacedFacts ==
  ASSUME TypeOK, NEW old \in DOMAIN records, NEW new \in DOMAIN records
  PROVE  LET table == Replaced(old, new)
         IN  /\ SameNotes(table)
             /\ \A i \in DOMAIN records : table[i].old = IF i = new THEN old ELSE records[i].old
             /\ \A i \in DOMAIN records :
                  table[i].status = IF i = old THEN "contradicted" ELSE records[i].status
<1> DEFINE mid == [records EXCEPT ![old].status = "contradicted"]
           last == [mid[new] EXCEPT !.old = old]
           table == Replaced(old, new)
<1>1. /\ SameNotes(mid)
      /\ \A i \in DOMAIN records : mid[i].old = records[i].old
      /\ \A i \in DOMAIN records : mid[i].status = IF i = old THEN "contradicted" ELSE records[i].status
  BY MarkedFacts DEF VisibleStatus
<1>2. table = [mid EXCEPT ![new] = last]
  BY DEF Replaced
<1>3. mid \in Seq(Records) /\ new \in DOMAIN mid /\ mid[new] \in Records /\ old \in Nat
  BY <1>1 DEF SameNotes, TypeOK
<1> HIDE DEF mid
<1>4. /\ last \in Records
      /\ last.statement = mid[new].statement /\ last.kind = mid[new].kind
      /\ last.sources = mid[new].sources /\ last.confidence = mid[new].confidence
      /\ last.status = mid[new].status /\ last.old = old
  BY <1>3 DEF Records
<1> HIDE DEF Records, last, table
<1>5. table \in Seq(Records) /\ Len(table) = Len(mid) /\ DOMAIN table = DOMAIN mid
  BY <1>2, <1>3, <1>4
<1>6. table[new] = last /\ \A i \in DOMAIN records : i # new => table[i] = mid[i]
  BY <1>1, <1>2, <1>3 DEF SameNotes
<1>7. SameNotes(table)
  BY <1>1, <1>4, <1>5, <1>6 DEF SameNotes
<1> QED
  BY <1>1, <1>4, <1>6, <1>7 DEF table

-----------------------------------------------------------------------------
(* What a step does to the processes. *)

Others(p) == DOMAIN proc' = Processes /\ \A q \in Processes \ {p} : proc'[q] = proc[q]

\* The event at hand is one of those the pass took.
LEMMA EventFacts ==
  ASSUME TypeOK, NEW p \in Processes, InPass(ledger, records, proc[p]), proc[p].events # {}
  PROVE  /\ Event(p) \in proc[p].events /\ Event(p) \in DOMAIN ledger /\ Event(p) \in Nat
         /\ Said(p) \in Statements
         /\ Known(p) \in Entries
         /\ Event(p) = Min(proc[p].events) /\ Said(p) = ledger[Min(proc[p].events)]
<1>1. proc[p].events \in SUBSET Nat /\ proc[p].known \in [Statements -> Entries]
  BY DEF TypeOK, Procs
<1>2. Event(p) \in proc[p].events
  BY <1>1, MinFacts DEF Event
<1>3. Event(p) \in DOMAIN ledger /\ Event(p) \in Nat
  BY <1>1, <1>2 DEF InPass
<1>4. Said(p) \in Statements
  BY <1>3 DEF Said, TypeOK
<1> QED
  BY <1>1, <1>2, <1>3, <1>4 DEF Event, Said, Known

LEMMA GoFacts ==
  ASSUME TypeOK, NEW p \in Processes, NEW r \in Procs, Go(p, r)
  PROVE  proc' \in [Processes -> Procs] /\ proc'[p] = r /\ Others(p)
BY DEF Go, TypeOK, Others

LEMMA IdleFacts ==
  /\ Idle \in Procs /\ Idle.at = "idle" /\ Idle.events = {} /\ Idle.took = {} /\ Idle.new = 0
  /\ \A s \in Statements : Idle.known[s] = None
BY DEF Idle, Procs, None, Entries

\* A process that leaves its pass forgets all of it.
Left(p) == /\ proc'[p].at = "idle" /\ proc'[p].events = {} /\ proc'[p].took = {} /\ proc'[p].new = 0
           /\ \A s \in Statements : proc'[p].known[s] = None

LEMMA LeaveEffect ==
  ASSUME TypeOK, NEW p \in Processes, NEW b \in BOOLEAN,
         Go(p, Idle) \/ Go(p, [Idle EXCEPT !.aborted = b])
  PROVE  proc' \in [Processes -> Procs] /\ Others(p) /\ Left(p)
<1>1. CASE Go(p, Idle)
  BY <1>1, GoFacts, IdleFacts DEF Left
<1>2. CASE Go(p, [Idle EXCEPT !.aborted = b])
  <2> DEFINE r == [Idle EXCEPT !.aborted = b]
  <2>1. /\ r \in Procs /\ r.at = "idle" /\ r.events = {} /\ r.took = {} /\ r.new = 0
        /\ \A s \in Statements : r.known[s] = None
    BY IdleFacts DEF Idle, Procs
  <2> HIDE DEF r
  <2>2. proc' \in [Processes -> Procs] /\ proc'[p] = r /\ Others(p)
    BY <1>2, <2>1, GoFacts DEF r
  <2> QED
    BY <2>1, <2>2 DEF Left
<1> QED
  BY <1>1, <1>2

LEMMA PictureTypes ==
  ASSUME TypeOK
  PROVE  /\ Picture \in [Statements -> Entries]
         /\ \A s \in Statements :
              LET ids == {i \in DOMAIN records : records[i].statement = s}
              IN  IF ids = {} THEN Picture[s] = None
                  ELSE Min(ids) \in ids /\ Picture[s] = Entry(records, Min(ids))
<1> SUFFICES ASSUME NEW s \in Statements
             PROVE  LET ids == {i \in DOMAIN records : records[i].statement = s}
                    IN  /\ Picture[s] \in Entries
                        /\ IF ids = {} THEN Picture[s] = None
                           ELSE Min(ids) \in ids /\ Picture[s] = Entry(records, Min(ids))
  BY DEF Picture
<1> DEFINE ids == {i \in DOMAIN records : records[i].statement = s}
<1>1. /\ records \in Seq(Records) /\ DOMAIN records \subseteq Nat
      /\ \A i \in DOMAIN records : records[i] \in Records
  BY DEF TypeOK
<1>2. \A i \in DOMAIN records : records[i].status \in VisibleStatus /\ records[i].sources \in SUBSET Nat
  BY <1>1 DEF Records
<1>3. ids = {i \in DOMAIN records : records[i].statement = s /\ records[i].status \in VisibleStatus}
  BY <1>2
<1>4. Picture[s] = IF ids = {} THEN None ELSE Entry(records, Min(ids))
  BY <1>3 DEF Picture
<1>5. CASE ids = {}
  BY <1>4, <1>5 DEF None, Entries
<1>6. CASE ids # {}
  <2>1. Min(ids) \in ids
    BY <1>1, <1>6, MinFacts
  <2>2. Min(ids) \in DOMAIN records /\ Min(ids) \in Nat
    BY <1>1, <2>1
  <2>3. Entry(records, Min(ids)) \in Entries
    BY <1>2, <2>2 DEF Entry, Entries
  <2> QED
    BY <1>4, <1>6, <2>1, <2>3
<1> QED
  BY <1>5, <1>6

LEMMA EnterEffect ==
  ASSUME TypeOK, NEW p \in Processes, Begin(p) \/ Watch(p)
  PROVE  /\ proc' \in [Processes -> Procs] /\ Others(p) /\ proc[p].at = "idle"
         /\ proc'[p].at = "mine" /\ proc'[p].new = 0 /\ proc'[p].known = Picture
         /\ proc'[p].events = proc'[p].took /\ proc'[p].took \subseteq DOMAIN ledger
         /\ UNCHANGED <<ledger, records, mined, torn>>
         /\ budget' \in [passes : Nat, commands : Nat, crashes : Nat]
<1>1. PICK taken \in SUBSET DOMAIN ledger : Pass(p, taken)
  BY DEF Begin, Watch, Heard, Observed, Newest
<1> DEFINE r == [Idle EXCEPT !.at = "mine", !.events = taken, !.took = taken, !.known = Picture]
<1>2. taken \in SUBSET Nat /\ taken \subseteq DOMAIN ledger
  BY DEF TypeOK
<1>3. /\ r \in Procs /\ r.at = "mine" /\ r.new = 0 /\ r.known = Picture /\ r.events = taken
      /\ r.took = taken
  BY <1>2, PictureTypes DEF Idle, Procs
<1>4. Go(p, r)
  BY <1>1 DEF Pass
<1> HIDE DEF r
<1>5. proc' \in [Processes -> Procs] /\ Others(p) /\ proc'[p] = r
  BY <1>3, <1>4, GoFacts
<1>6. budget' \in [passes : Nat, commands : Nat, crashes : Nat]
  <2>1. budget.passes > 0 /\ budget' = [budget EXCEPT !.passes = @ - 1]
    BY <1>1 DEF Pass
  <2>2. budget \in [passes : Nat, commands : Nat, crashes : Nat]
    BY DEF TypeOK
  <2>3. budget.passes - 1 \in Nat
    BY <2>1, <2>2
  <2> QED
    BY <2>1, <2>2, <2>3
<1>7. proc[p].at = "idle" /\ UNCHANGED <<ledger, records, mined, torn>>
  BY <1>1 DEF Pass
<1>8. /\ proc'[p].at = "mine" /\ proc'[p].new = 0 /\ proc'[p].known = Picture
      /\ proc'[p].events = taken /\ proc'[p].took = taken
  BY <1>3, <1>5
<1> QED
  BY <1>2, <1>5, <1>6, <1>7, <1>8

\* The process goes on to its next event, and its picture shows the record.
Forward(p, table, id) ==
  /\ proc' \in [Processes -> Procs] /\ Others(p)
  /\ proc'[p].at = "mine" /\ proc'[p].new = 0
  /\ proc'[p].took = proc[p].took /\ proc'[p].events = proc[p].events \ {Event(p)}
  /\ \A s \in Statements :
       proc'[p].known[s] = IF s = Said(p) /\ id # 0 THEN Entry(table, id) ELSE proc[p].known[s]

LEMMA NextEventEffect ==
  ASSUME TypeOK, NEW p \in Processes, NEW table \in Seq(Records), NEW id \in DOMAIN table \cup {0},
         NextEvent(p, table, id)
  PROVE  Forward(p, table, id)
<1> DEFINE r == [proc[p] EXCEPT !.at = "mine", !.events = @ \ {Event(p)}, !.id = 0, !.held = <<>>,
                   !.new = 0, !.known[Said(p)] = IF id = 0 THEN @ ELSE Entry(table, id)]
<1>1. proc[p] \in Procs
  BY DEF TypeOK
<1>2. id # 0 => Entry(table, id) \in Entries
  <2>1. id # 0 => id \in Nat /\ table[id] \in Records
    OBVIOUS
  <2> QED
    BY <2>1 DEF Entry, Entries, Records
<1>3. /\ r.at = "mine" /\ r.new = 0 /\ r.took = proc[p].took
      /\ r.events = proc[p].events \ {Event(p)} /\ r.id = 0 /\ r.held = <<>>
      /\ r.aborted = proc[p].aborted
      /\ r.known = [proc[p].known EXCEPT ![Said(p)] = IF id = 0 THEN @ ELSE Entry(table, id)]
  BY <1>1 DEF Procs
<1>4. r \in Procs
  BY <1>1, <1>2 DEF Procs
<1>5. Go(p, r)
  BY DEF NextEvent
<1> HIDE DEF r
<1>6. proc' \in [Processes -> Procs] /\ Others(p) /\ proc'[p] = r
  BY <1>4, <1>5, GoFacts
<1>7. \A s \in Statements :
        r.known[s] = IF s = Said(p) /\ id # 0 THEN Entry(table, id) ELSE proc[p].known[s]
  <2>1. proc[p].known \in [Statements -> Entries]
    BY <1>1 DEF Procs
  <2> QED
    BY <1>3, <2>1
<1> QED
  BY <1>3, <1>6, <1>7 DEF Forward

-----------------------------------------------------------------------------
(* What each action does. *)

Working(p) == TypeOK /\ InPass(ledger, records, proc[p])

\* The process keeps what it has taken and its picture.
Moved(p, place) ==
  /\ proc' \in [Processes -> Procs] /\ Others(p)
  /\ proc'[p].at = place /\ proc'[p].took = proc[p].took /\ proc'[p].events = proc[p].events
  /\ proc'[p].known = proc[p].known

LEMMA SkipEffect ==
  ASSUME NEW p \in Processes, Working(p), Skip(p)
  PROVE  /\ Forward(p, records, 0) /\ proc[p].at = "mine" /\ proc[p].events # {}
         /\ UNCHANGED <<ledger, records, mined, torn, budget>>
         /\ \/ ~Derivable(ledger, Event(p))
            \/ Event(p) \in Known(p).sources
<1>1. Forward(p, records, 0)
  BY NextEventEffect DEF Skip, Working, TypeOK
<1>2. Said(p) = ledger[Event(p)]
  BY DEF Said
<1> QED
  BY <1>1, <1>2 DEF Skip, Mining, Derivable

LEMMA RepeatEffect ==
  ASSUME NEW p \in Processes, Working(p), Repeat(p)
  PROVE  /\ UNCHANGED <<ledger, records, mined, torn, budget>>
         /\ proc[p].at = "mine" /\ proc[p].events # {}
         /\ Known(p) # None /\ Event(p) \notin Known(p).sources
         /\ \/ /\ proc' \in [Processes -> Procs] /\ Others(p) /\ Left(p)
            \/ /\ Moved(p, "affirm") /\ proc'[p].id = Known(p).id /\ proc'[p].id \in DOMAIN records
               /\ proc'[p].held = records[Known(p).id] /\ proc'[p].new = 0
<1> DEFINE id == Known(p).id
<1>1. /\ proc[p].at = "mine" /\ proc[p].events # {} /\ proc[p].new = 0
      /\ Known(p) # None /\ Event(p) \notin Known(p).sources
  BY DEF Repeat, Mining, Working, InPass
<1>2. id \in DOMAIN records /\ id \in Nat /\ records[id] \in Records
  <2>1. Said(p) \in Statements
    BY <1>1, EventFacts DEF Working
  <2> QED
    BY <1>1, <2>1 DEF Known, Working, InPass, TypeOK
<1>3. CASE Abort(p)
  <2>1. proc' \in [Processes -> Procs] /\ Others(p) /\ Left(p)
    BY <1>3, LeaveEffect DEF Abort, Working
  <2> QED
    BY <1>1, <2>1 DEF Repeat
<1>4. CASE Go(p, [proc[p] EXCEPT !.at = "affirm", !.id = id, !.held = records[id]])
  <2> DEFINE r == [proc[p] EXCEPT !.at = "affirm", !.id = id, !.held = records[id]]
  <2>1. proc[p] \in Procs
    BY DEF Working, TypeOK
  <2>2. /\ r \in Procs /\ r.at = "affirm" /\ r.id = id /\ r.held = records[id]
        /\ r.took = proc[p].took /\ r.events = proc[p].events /\ r.known = proc[p].known
        /\ r.new = proc[p].new
    BY <1>2, <2>1 DEF Procs
  <2> HIDE DEF r
  <2>3. proc' \in [Processes -> Procs] /\ Others(p) /\ proc'[p] = r
    BY <1>4, <2>2, GoFacts DEF Working, r
  <2>4. Moved(p, "affirm")
    BY <2>2, <2>3 DEF Moved
  <2> QED
    BY <1>1, <1>2, <2>2, <2>3, <2>4 DEF Repeat
<1> QED
  BY <1>3, <1>4 DEF Repeat

LEMMA AffirmEffect ==
  ASSUME NEW p \in Processes, Working(p), Affirm(p)
  PROVE  /\ UNCHANGED <<ledger, mined, torn, budget>>
         /\ proc[p].at = "affirm" /\ proc[p].events # {} /\ proc[p].id \in DOMAIN records
         /\ proc[p].held \in Records /\ Event(p) \in Nat
         /\ AffirmedIs(records', proc[p].id, proc[p].held, Event(p))
         /\ records' \in Seq(Records) /\ DOMAIN records' = DOMAIN records
         /\ Forward(p, records', proc[p].id)
<1>1. /\ proc[p].at = "affirm" /\ proc[p].events # {} /\ proc[p].id \in DOMAIN records
      /\ proc[p].held \in Records
  BY DEF Affirm, Working, InPass
<1>2. Event(p) \in Nat
  BY <1>1, EventFacts DEF Working
<1>3. records' = Affirmed(proc[p].id, proc[p].held, Event(p))
  BY DEF Affirm
<1>4. AffirmedIs(records', proc[p].id, proc[p].held, Event(p))
  <2> DEFINE id == proc[p].id  held == proc[p].held  e == Event(p)
  <2>1. TypeOK /\ id \in DOMAIN records /\ held \in Records /\ e \in Nat
    BY <1>1, <1>2 DEF Working
  <2> HIDE DEF id, held, e
  <2>2. AffirmedIs(Affirmed(id, held, e), id, held, e)
    BY <2>1, AffirmedFacts
  <2> QED
    BY <1>3, <2>2 DEF id, held, e
<1>5. Forward(p, records', proc[p].id)
  <2>1. records' \in Seq(Records) /\ DOMAIN records' = DOMAIN records
    BY <1>4 DEF AffirmedIs
  <2> QED
    BY <1>1, <2>1, NextEventEffect DEF Affirm, Working
<1> QED
  BY <1>1, <1>2, <1>4, <1>5 DEF Affirm, AffirmedIs

LEMMA NoteEffect ==
  ASSUME NEW p \in Processes, Working(p), Note(p)
  PROVE  /\ UNCHANGED <<ledger, mined, torn, budget>>
         /\ proc[p].at = "mine" /\ proc[p].events # {} /\ Known(p) = None
         /\ Form[Said(p)] \in {"fact", "preference", "telemetry"}
         /\ Said(p) \in Statements /\ Event(p) \in Nat /\ Event(p) \in DOMAIN ledger
         /\ Len(records') = Len(records) + 1 /\ Len(records') \in DOMAIN records'
         /\ Forward(p, records', Len(records'))
         /\ \E kind \in Kinds :
              /\ records' = Noted(kind, Said(p), Event(p))
              /\ Form[Said(p)] = "telemetry" => kind = "observation"
<1> DEFINE kind == IF IsTelemetry(Event(p)) THEN "observation" ELSE Form[Said(p)]
<1>1. /\ proc[p].at = "mine" /\ proc[p].events # {} /\ Known(p) = None
      /\ Form[Said(p)] \in {"fact", "preference", "telemetry"}
  BY DEF Note, Mining
<1>2. Said(p) \in Statements /\ Event(p) \in Nat /\ Event(p) \in DOMAIN ledger
  BY <1>1, EventFacts DEF Working
<1>3. kind \in Kinds /\ (Form[Said(p)] = "telemetry" => kind = "observation")
  BY <1>1 DEF Kinds, IsTelemetry, Said
<1>4. records' = Noted(kind, Said(p), Event(p))
  BY DEF Note
<1> HIDE DEF kind
<1>5. /\ records' \in Seq(Records) /\ Len(records') = Len(records) + 1
      /\ Len(records') \in DOMAIN records'
  BY <1>2, <1>3, <1>4, NotedFacts DEF Working
<1>6. Forward(p, records', Len(records'))
  BY <1>5, NextEventEffect DEF Note, Working
<1> QED
  BY <1>1, <1>2, <1>3, <1>4, <1>5, <1>6 DEF Note

LEMMA ContrastEffect ==
  ASSUME NEW p \in Processes, Working(p), Contrast(p)
  PROVE  /\ UNCHANGED <<ledger, records, mined, torn, budget>>
         /\ proc[p].at = "mine" /\ proc[p].events # {} /\ Known(p) = None
         /\ Form[Said(p)] = "contrast"
         /\ \/ /\ proc' \in [Processes -> Procs] /\ Others(p) /\ Left(p)
            \/ Moved(p, "revise") /\ proc'[p].id \in DOMAIN records /\ proc'[p].new = 0
<1>1. /\ proc[p].at = "mine" /\ proc[p].events # {} /\ Known(p) = None
      /\ Form[Said(p)] = "contrast" /\ proc[p].new = 0
  BY DEF Contrast, Mining, Working, InPass
<1>2. CASE Abort(p)
  <2>1. proc' \in [Processes -> Procs] /\ Others(p) /\ Left(p)
    BY <1>2, LeaveEffect DEF Abort, Working
  <2> QED
    BY <1>1, <2>1 DEF Contrast
<1>3. ASSUME NEW t \in Targets(proc[p].known, Said(p)),
             Go(p, [proc[p] EXCEPT !.at = "revise", !.id = proc[p].known[t].id])
      PROVE  Moved(p, "revise") /\ proc'[p].id \in DOMAIN records /\ proc'[p].new = 0
  <2> DEFINE id == proc[p].known[t].id
             r == [proc[p] EXCEPT !.at = "revise", !.id = id]
  <2>1. t \in Statements /\ proc[p].known[t].status \in Revisable
    BY <1>3 DEF Targets
  <2>2. id \in DOMAIN records /\ id \in Nat
    BY <2>1 DEF Revisable, None, Working, InPass, TypeOK
  <2>3. proc[p] \in Procs
    BY DEF Working, TypeOK
  <2> HIDE DEF id
  <2>4. /\ r \in Procs /\ r.at = "revise" /\ r.id = id /\ r.new = proc[p].new
        /\ r.took = proc[p].took /\ r.events = proc[p].events /\ r.known = proc[p].known
    BY <2>2, <2>3 DEF Procs
  <2> HIDE DEF r
  <2>5. proc' \in [Processes -> Procs] /\ Others(p) /\ proc'[p] = r
    BY <1>3, <2>4, GoFacts DEF Working, r, id
  <2> QED
    BY <1>1, <2>2, <2>4, <2>5 DEF Moved
<1> QED
  BY <1>1, <1>2, <1>3 DEF Contrast

LEMMA NoteRevisionEffect ==
  ASSUME NEW p \in Processes, Working(p), NoteRevision(p)
  PROVE  /\ UNCHANGED <<ledger, mined, torn, budget>>
         /\ proc[p].at = "revise" /\ proc[p].events # {}
         /\ Said(p) \in Statements /\ Event(p) \in Nat /\ Event(p) \in DOMAIN ledger
         /\ Form[Said(p)] = "contrast"
         /\ records' = Noted("fact", Said(p), Event(p))
         /\ Moved(p, "replace") /\ proc'[p].id = proc[p].id /\ proc'[p].new = Len(records) + 1
<1>1. proc[p].at = "revise" /\ proc[p].events # {} /\ Form[ledger[Min(proc[p].events)]] = "contrast"
  BY DEF NoteRevision, Working, InPass
<1>2. Said(p) \in Statements /\ Event(p) \in Nat /\ Event(p) \in DOMAIN ledger
  BY <1>1, EventFacts DEF Working
<1>3. records' = Noted("fact", Said(p), Event(p))
  BY DEF NoteRevision
<1>4. Len(records') = Len(records) + 1 /\ Len(records) + 1 \in Nat
  BY <1>2, <1>3, NotedFacts DEF Kinds, Working
<1> DEFINE n == Len(records')  r == [proc[p] EXCEPT !.at = "replace", !.new = n]
<1>5. proc[p] \in Procs /\ n \in Nat
  BY <1>4 DEF Working, TypeOK
<1> HIDE DEF n
<1>6. /\ r \in Procs /\ r.at = "replace" /\ r.id = proc[p].id /\ r.new = n
      /\ r.took = proc[p].took /\ r.events = proc[p].events /\ r.known = proc[p].known
  BY <1>5 DEF Procs
<1> HIDE DEF r
<1>7. Go(p, r)
  BY DEF NoteRevision, r, n
<1>8. proc' \in [Processes -> Procs] /\ Others(p) /\ proc'[p] = r
  BY <1>6, <1>7, GoFacts DEF Working
<1>9. Form[Said(p)] = "contrast"
  BY <1>1 DEF Said, Event
<1> QED
  BY <1>1, <1>2, <1>3, <1>4, <1>6, <1>8, <1>9 DEF NoteRevision, Moved, n

LEMMA ReplaceEffect ==
  ASSUME NEW p \in Processes, Working(p), Replace(p)
  PROVE  /\ UNCHANGED <<ledger, mined, torn, budget>>
         /\ proc[p].at = "replace" /\ proc[p].events # {} /\ proc[p].id \in DOMAIN records
         /\ proc[p].new \in DOMAIN records /\ records[proc[p].new].old = 0
         /\ records' = Replaced(proc[p].id, proc[p].new) /\ SameNotes(records')
         /\ Forward(p, records', proc[p].new)
<1>1. /\ proc[p].at = "replace" /\ proc[p].events # {} /\ proc[p].id \in DOMAIN records
      /\ proc[p].new \in DOMAIN records /\ records[proc[p].new].old = 0
  BY DEF Replace, Working, InPass
<1>2. records' = Replaced(proc[p].id, proc[p].new)
  BY DEF Replace
<1>3. SameNotes(records')
  BY <1>1, <1>2, ReplacedFacts DEF Working
<1>4. Forward(p, records', proc[p].new)
  BY <1>1, <1>3, NextEventEffect DEF Replace, Working, SameNotes
<1> QED
  BY <1>1, <1>2, <1>3, <1>4 DEF Replace

LEMMA EndEffect ==
  ASSUME NEW p \in Processes, Working(p), End(p)
  PROVE  /\ proc' \in [Processes -> Procs] /\ Others(p) /\ Left(p)
         /\ proc[p].at = "mine" /\ proc[p].events = {} /\ mined' = mined \cup proc[p].took
         /\ UNCHANGED <<ledger, records, torn, budget>>
BY LeaveEffect DEF End, Working

LEMMA CrashEffect ==
  ASSUME NEW p \in Processes, Working(p), Crash(p)
  PROVE  /\ proc' \in [Processes -> Procs] /\ Others(p) /\ Left(p)
         /\ torn' = torn \cup ({proc[p].new} \ {0})
         /\ budget' \in [passes : Nat, commands : Nat, crashes : Nat]
         /\ UNCHANGED <<ledger, records, mined>>
<1>1. budget' \in [passes : Nat, commands : Nat, crashes : Nat]
  BY DEF Crash, Working, TypeOK
<1> QED
  BY <1>1, LeaveEffect DEF Crash, Working

\* A command changes the status of a record, or adds one of its own.
LEMMA CommandEffect ==
  ASSUME TypeOK, Command
  PROVE  /\ UNCHANGED <<ledger, proc, mined, torn>>
         /\ budget' \in [passes : Nat, commands : Nat, crashes : Nat]
         /\ \/ \E id \in DOMAIN records, status \in {"uncertain", "outdated"} :
                 records[id].status = "active" /\ records' = [records EXCEPT ![id].status = status]
            \/ \E s \in Statements :
                 /\ Form[s] \in {"fact", "preference"} /\ ledger # <<>>
                 /\ records' = Noted("inference", s, Len(ledger))
<1>1. budget' \in [passes : Nat, commands : Nat, crashes : Nat]
  BY DEF Command, TypeOK
<1> QED
  BY <1>1 DEF Command, MarkUncertain, MarkOutdated, Infer

LEMMA SayEffect ==
  ASSUME TypeOK, Say
  PROVE  /\ UNCHANGED <<records, proc, mined, torn, budget>> /\ ledger' \in Seq(Statements)
         /\ DOMAIN ledger \subseteq DOMAIN ledger' /\ \A e \in DOMAIN ledger : ledger'[e] = ledger[e]
BY DEF Say, TypeOK

-----------------------------------------------------------------------------
(* The inductive invariant is one. *)

\* Records stay, with what they say; only a replacement changes what one
\* has replaced.
Grown(table) ==
  /\ table \in Seq(Records) /\ DOMAIN records \subseteq DOMAIN table
  /\ \A i \in DOMAIN records : /\ table[i].statement = records[i].statement
                               /\ table[i].kind = records[i].kind
SameLinks(table) == \A i \in DOMAIN records : table[i].old = records[i].old

LEMMA NotedGrows ==
  ASSUME TypeOK, NEW kind \in Kinds, NEW s \in Statements, NEW e \in Nat, records' = Noted(kind, s, e)
  PROVE  Grown(records') /\ SameLinks(records')
BY NotedFacts DEF Grown, SameLinks

LEMMA StepFacts ==
  ASSUME NEW p \in Processes, Working(p), Step(p)
  PROVE  /\ UNCHANGED ledger /\ proc' \in [Processes -> Procs] /\ Others(p) /\ Grown(records')
         /\ Replace(p) \/ SameLinks(records')
         /\ budget' \in [passes : Nat, commands : Nat, crashes : Nat]
         /\ mined' \subseteq DOMAIN ledger /\ torn' \subseteq Nat
<1>1. /\ TypeOK /\ proc[p].took \subseteq DOMAIN ledger /\ proc[p].new \in Nat
      /\ budget \in [passes : Nat, commands : Nat, crashes : Nat]
      /\ mined \subseteq DOMAIN ledger /\ torn \subseteq Nat
  BY DEF Working, InPass, TypeOK, Procs
<1>2. UNCHANGED records => Grown(records') /\ SameLinks(records')
  BY <1>1 DEF Grown, SameLinks, TypeOK
<1>3. CASE Begin(p) \/ Watch(p)
  BY <1>1, <1>2, <1>3, EnterEffect
<1>4. CASE Skip(p)
  BY <1>1, <1>2, <1>4, SkipEffect DEF Forward
<1>5. CASE Repeat(p)
  BY <1>1, <1>2, <1>5, RepeatEffect DEF Moved
<1>6. CASE Affirm(p)
  <2>1. Grown(records') /\ SameLinks(records')
    <3>1. /\ proc[p].id \in DOMAIN records /\ proc[p].held \in Records /\ Event(p) \in Nat
          /\ AffirmedIs(records', proc[p].id, proc[p].held, Event(p))
          /\ records' \in Seq(Records) /\ DOMAIN records' = DOMAIN records
      BY <1>6, AffirmEffect
    <3> DEFINE id == proc[p].id  held == proc[p].held  e == Event(p)
    <3>2. id \in DOMAIN records /\ AffirmedIs(records', id, held, e)
      BY <3>1
    <3> HIDE DEF id, held, e
    <3>3. /\ \A i \in DOMAIN records : i # id => records'[i] = records[i]
          /\ records'[id].statement = records[id].statement /\ records'[id].kind = records[id].kind
          /\ records'[id].old = records[id].old
      BY <3>2 DEF AffirmedIs
    <3> QED
      BY <3>1, <3>2, <3>3 DEF Grown, SameLinks
  <2> QED
    BY <1>1, <1>6, <2>1, AffirmEffect DEF Forward
<1>7. CASE Note(p)
  <2>1. Grown(records') /\ SameLinks(records')
    BY <1>1, <1>7, NoteEffect, NotedGrows
  <2> QED
    BY <1>1, <1>7, <2>1, NoteEffect DEF Forward
<1>8. CASE Contrast(p)
  BY <1>1, <1>2, <1>8, ContrastEffect DEF Moved
<1>9. CASE NoteRevision(p)
  <2>1. Grown(records') /\ SameLinks(records')
    BY <1>1, <1>9, NoteRevisionEffect, NotedGrows DEF Kinds
  <2> QED
    BY <1>1, <1>9, <2>1, NoteRevisionEffect DEF Moved
<1>10. CASE Replace(p)
  <2>1. Grown(records')
    BY <1>10, ReplaceEffect DEF Grown, SameNotes
  <2> QED
    BY <1>1, <1>10, <2>1, ReplaceEffect DEF Forward
<1>11. CASE End(p)
  BY <1>1, <1>2, <1>11, EndEffect
<1>12. CASE Crash(p)
  <2>1. torn' \subseteq Nat
    BY <1>1, <1>12, CrashEffect
  <2> QED
    BY <1>1, <1>2, <1>12, <2>1, CrashEffect
<1> QED
  BY <1>3, <1>4, <1>5, <1>6, <1>7, <1>8, <1>9, <1>10, <1>11, <1>12 DEF Step

LEMMA CommandFacts ==
  ASSUME TypeOK, Command
  PROVE  /\ UNCHANGED <<ledger, proc, mined, torn>> /\ Grown(records') /\ SameLinks(records')
         /\ budget' \in [passes : Nat, commands : Nat, crashes : Nat]
<1>1. ASSUME NEW id \in DOMAIN records, NEW status \in {"uncertain", "outdated"},
             records' = [records EXCEPT ![id].status = status]
      PROVE  Grown(records') /\ SameLinks(records')
  <2>1. status \in VisibleStatus
    BY DEF VisibleStatus
  <2> QED
    BY <1>1, <2>1, MarkedFacts DEF Grown, SameLinks, SameNotes
<1>2. ASSUME NEW s \in Statements, records' = Noted("inference", s, Len(ledger))
      PROVE  Grown(records') /\ SameLinks(records')
  <2>1. Len(ledger) \in Nat /\ "inference" \in Kinds
    BY DEF TypeOK, Kinds
  <2> QED
    BY <1>2, <2>1, NotedGrows
<1> QED
  BY <1>1, <1>2, CommandEffect

\* What every process holds survives the step of another.
LEMMA InPassStays ==
  ASSUME NEW r, InPass(ledger, records, r), Grown(records'),
         DOMAIN ledger \subseteq DOMAIN ledger', \A e \in DOMAIN ledger : ledger'[e] = ledger[e],
         r.events \in SUBSET Nat,
         r.at = "replace" => records'[r.new].old = records[r.new].old
  PROVE  InPass(ledger', records', r)
<1>1. r.events # {} => Min(r.events) \in DOMAIN ledger
  BY MinFacts DEF InPass
<1> QED
  BY <1>1 DEF InPass, Grown

\* A process that goes on to its next event.
LEMMA InPassForward ==
  ASSUME NEW p \in Processes, Working(p), Grown(records'), UNCHANGED ledger,
         NEW id \in DOMAIN records' \cup {0}, Forward(p, records', id)
  PROVE  InPass(ledger', records', proc'[p])
<1>1. /\ proc'[p].events \subseteq proc'[p].took /\ proc'[p].took \subseteq DOMAIN ledger'
      /\ proc'[p].at = "mine" /\ proc'[p].new = 0
  BY DEF Forward, Working, InPass
<1>2. ASSUME NEW s \in Statements, proc'[p].known[s] # None
      PROVE  proc'[p].known[s].id \in DOMAIN records'
  <2>1. CASE s = Said(p) /\ id # 0
    BY <2>1 DEF Forward, Entry
  <2>2. CASE ~(s = Said(p) /\ id # 0)
    BY <1>2, <2>2 DEF Forward, Working, InPass, Grown
  <2> QED
    BY <2>1, <2>2
<1> QED
  BY <1>1, <1>2 DEF InPass

LEMMA InPassLeft ==
  ASSUME NEW p \in Processes, Left(p)
  PROVE  InPass(ledger', records', proc'[p])
BY DEF Left, InPass

LEMMA InPassStep ==
  ASSUME IInv, NEW p \in Processes, Step(p)
  PROVE  \A q \in Processes : InPass(ledger', records', proc'[q])
<1>1. Working(p)
  BY DEF IInv, Working
<1>2. /\ UNCHANGED ledger /\ Others(p) /\ Grown(records') /\ (Replace(p) \/ SameLinks(records'))
  BY <1>1, StepFacts
<1>3. ASSUME NEW q \in Processes \ {p} PROVE InPass(ledger', records', proc'[q])
  <2>1. InPass(ledger, records, proc[q]) /\ proc'[q] = proc[q] /\ proc[q].events \in SUBSET Nat
    BY <1>2 DEF IInv, Others, TypeOK, Procs
  <2>2. proc[q].at = "replace" => records'[proc[q].new].old = records[proc[q].new].old
    <3>1. CASE SameLinks(records')
      BY <2>1, <3>1 DEF SameLinks, InPass
    <3>2. CASE Replace(p)
      <4>1. /\ proc[p].at = "replace" /\ proc[p].id \in DOMAIN records /\ proc[p].new \in DOMAIN records
            /\ records' = Replaced(proc[p].id, proc[p].new)
        BY <1>1, <3>2, ReplaceEffect
      <4>2. proc[q].at = "replace" => proc[q].new # proc[p].new /\ proc[q].new \in DOMAIN records
        BY <2>1, <4>1 DEF IInv, Apart, InPass
      <4> QED
        BY <4>1, <4>2, ReplacedFacts DEF IInv
    <3> QED
      BY <1>2, <3>1, <3>2
  <2>3. InPass(ledger', records', proc[q])
    BY <1>2, <2>1, <2>2, InPassStays
  <2> QED
    BY <2>1, <2>3
<1>4. InPass(ledger', records', proc'[p])
  <2>1. CASE Begin(p) \/ Watch(p)
    <3>1. /\ proc'[p].at = "mine" /\ proc'[p].new = 0 /\ proc'[p].known = Picture
          /\ proc'[p].events = proc'[p].took /\ proc'[p].took \subseteq DOMAIN ledger
      BY <1>1, <2>1, EnterEffect DEF Working
    <3>2. ASSUME NEW s \in Statements, Picture[s] # None
          PROVE  Picture[s].id \in DOMAIN records'
      <4> DEFINE ids == {i \in DOMAIN records : records[i].statement = s}
      <4>1. Min(ids) \in ids /\ Picture[s] = Entry(records, Min(ids))
        BY <1>1, <3>2, PictureTypes DEF Working
      <4> QED
        BY <1>2, <4>1 DEF Entry, Grown
    <3> QED
      BY <1>2, <3>1, <3>2 DEF InPass
  <2>2. CASE Skip(p)
    BY <1>1, <1>2, <2>2, SkipEffect, InPassForward
  <2>3. CASE Repeat(p)
    <3>1. CASE Left(p)
      BY <3>1, InPassLeft
    <3>2. CASE /\ Moved(p, "affirm") /\ proc'[p].id = Known(p).id /\ proc'[p].id \in DOMAIN records
               /\ proc'[p].held = records[Known(p).id] /\ proc'[p].new = 0
      <4>1. proc'[p].held \in Records /\ proc'[p].held.sources \subseteq DOMAIN ledger
        BY <3>2 DEF IInv, TypeOK, Sourced
      <4>2. proc[p].events # {}
        BY <1>1, <2>3, RepeatEffect
      <4> QED
        BY <1>1, <1>2, <3>2, <4>1, <4>2 DEF Working, InPass, Moved, Grown
    <3> QED
      BY <1>1, <2>3, <3>1, <3>2, RepeatEffect
  <2>4. CASE Affirm(p)
    BY <1>1, <1>2, <2>4, AffirmEffect, InPassForward
  <2>5. CASE Note(p)
    BY <1>1, <1>2, <2>5, NoteEffect, InPassForward
  <2>6. CASE Contrast(p)
    <3>1. CASE Left(p)
      BY <3>1, InPassLeft
    <3>2. CASE Moved(p, "revise") /\ proc'[p].id \in DOMAIN records /\ proc'[p].new = 0
      <4>1. proc[p].events # {} /\ Form[ledger[Min(proc[p].events)]] = "contrast"
        BY <1>1, <2>6, ContrastEffect DEF Said, Event
      <4> QED
        BY <1>1, <1>2, <3>2, <4>1 DEF Working, InPass, Moved, Grown
    <3> QED
      BY <1>1, <2>6, <3>1, <3>2, ContrastEffect
  <2>7. CASE NoteRevision(p)
    <3>1. /\ proc[p].at = "revise" /\ Moved(p, "replace") /\ proc'[p].id = proc[p].id
          /\ proc'[p].new = Len(records) + 1 /\ records' = Noted("fact", Said(p), Event(p))
          /\ Said(p) \in Statements /\ Event(p) \in Nat
      BY <1>1, <2>7, NoteRevisionEffect
    <3>2. proc'[p].new \in DOMAIN records' /\ records'[proc'[p].new].old = 0
      <4>1. TypeOK /\ "fact" \in Kinds
        BY <1>1 DEF Working, Kinds
      <4>2. /\ DOMAIN records' = DOMAIN records \cup {Len(records) + 1}
            /\ records'[Len(records) + 1] = Fresh("fact", Said(p), Event(p))
        BY <3>1, <4>1, NotedFacts
      <4> QED
        BY <3>1, <4>2 DEF Fresh
    <3> QED
      BY <1>1, <1>2, <3>1, <3>2 DEF Working, InPass, Moved, Grown
  <2>8. CASE Replace(p)
    <3>1. proc[p].new \in DOMAIN records' /\ Forward(p, records', proc[p].new)
      BY <1>1, <2>8, ReplaceEffect DEF SameNotes
    <3> QED
      BY <1>1, <1>2, <3>1, InPassForward
  <2>9. CASE End(p) \/ Crash(p)
    BY <1>1, <2>9, EndEffect, CrashEffect, InPassLeft
  <2> QED
    BY <2>1, <2>2, <2>3, <2>4, <2>5, <2>6, <2>7, <2>8, <2>9 DEF Step
<1> QED
  BY <1>3, <1>4

\* Two processes never hold the same new record: it is the newest when it is
\* noted.
LEMMA ApartStep ==
  ASSUME IInv, NEW p \in Processes, Step(p)
  PROVE  Apart(proc')
<1>1. Working(p) /\ Others(p)
  BY StepFacts DEF IInv, Working
<1>2. CASE NoteRevision(p)
  <2>1. proc'[p].new = Len(records) + 1
    BY <1>1, <1>2, NoteRevisionEffect
  <2>2. \A q \in Processes : proc[q].at = "replace" => proc[q].new \in DOMAIN records
    BY DEF IInv, InPass
  <2>3. Len(records) + 1 \notin DOMAIN records
    BY DEF IInv, TypeOK
  <2> QED
    BY <1>1, <2>1, <2>2, <2>3 DEF IInv, Apart, Others
<1>3. CASE ~NoteRevision(p)
  <2>1. proc'[p].at # "replace"
    <3>1. CASE Begin(p) \/ Watch(p) \/ Skip(p) \/ Affirm(p) \/ Note(p) \/ Replace(p)
      BY <1>1, <3>1, EnterEffect, SkipEffect, AffirmEffect, NoteEffect, ReplaceEffect DEF Forward, Working
    <3>2. CASE Repeat(p) \/ Contrast(p) \/ End(p) \/ Crash(p)
      BY <1>1, <3>2, RepeatEffect, ContrastEffect, EndEffect, CrashEffect DEF Moved, Left
    <3> QED
      BY <1>3, <3>1, <3>2 DEF Step
  <2> QED
    BY <1>1, <2>1 DEF IInv, Apart, Others
<1> QED
  BY <1>2, <1>3

LEMMA NotedSourced ==
  ASSUME TypeOK, Sourced(ledger, records), NEW kind \in Kinds, NEW s \in Statements,
         NEW e \in DOMAIN ledger, records' = Noted(kind, s, e)
  PROVE  Sourced(ledger, records')
<1>1. e \in Nat
  BY DEF TypeOK
<1> DEFINE table == Noted(kind, s, e)  n == Len(records) + 1
<1>2. /\ DOMAIN table = DOMAIN records \cup {n} /\ table[n] = Fresh(kind, s, e)
      /\ \A i \in DOMAIN records : table[i] = records[i]
  BY <1>1, NotedFacts
<1>3. table[n].sources = {e}
  BY <1>2 DEF Fresh
<1> HIDE DEF table, n
<1>4. Sourced(ledger, table)
  BY <1>2, <1>3 DEF Sourced
<1> QED
  BY <1>4 DEF table

LEMMA SourcedStep ==
  ASSUME IInv, NEW p \in Processes, Step(p)
  PROVE  Sourced(ledger', records')
<1>1. Working(p) /\ UNCHANGED ledger /\ TypeOK /\ Sourced(ledger, records)
  BY StepFacts DEF IInv, Working
<1>2. CASE UNCHANGED records
  BY <1>1, <1>2
<1>3. CASE Note(p)
  BY <1>1, <1>3, NoteEffect, NotedSourced
<1>4. CASE NoteRevision(p)
  BY <1>1, <1>4, NoteRevisionEffect, NotedSourced DEF Kinds
<1>5. CASE Replace(p)
  BY <1>1, <1>5, ReplaceEffect DEF SameNotes, Sourced
<1>6. CASE Affirm(p)
  <2> DEFINE id == proc[p].id  held == proc[p].held  e == Event(p)
  <2>1. /\ id \in DOMAIN records /\ AffirmedIs(records', id, held, e)
        /\ proc[p].at = "affirm" /\ proc[p].events # {}
    BY <1>1, <1>6, AffirmEffect
  <2>2. e \in DOMAIN ledger /\ held.sources \subseteq DOMAIN ledger
    BY <1>1, <2>1, EventFacts DEF Working, InPass
  <2> HIDE DEF id, held, e
  <2>3. /\ DOMAIN records' = DOMAIN records /\ records'[id].sources = held.sources \cup {e}
        /\ \A i \in DOMAIN records : i # id => records'[i] = records[i]
    BY <2>1 DEF AffirmedIs
  <2>4. Sourced(ledger, records')
    BY <1>1, <2>2, <2>3 DEF Sourced
  <2> QED
    BY <1>1, <2>4
<1>7. UNCHANGED records \/ Note(p) \/ NoteRevision(p) \/ Replace(p) \/ Affirm(p)
  <2>1. CASE Begin(p) \/ Watch(p) \/ Skip(p) \/ Repeat(p)
    BY <1>1, <2>1, EnterEffect, SkipEffect, RepeatEffect DEF Working
  <2>2. CASE Contrast(p) \/ End(p) \/ Crash(p)
    BY <1>1, <2>2, ContrastEffect, EndEffect, CrashEffect
  <2> QED
    BY <2>1, <2>2 DEF Step
<1> QED
  BY <1>2, <1>3, <1>4, <1>5, <1>6, <1>7

\* A step that writes no statuses or links, but for a new record with none.
Unlinked(table) ==
  /\ DOMAIN records \subseteq DOMAIN table
  /\ \A i \in DOMAIN records : table[i].status = records[i].status /\ table[i].old = records[i].old
  /\ \A i \in DOMAIN table \ DOMAIN records : table[i].status = "active" /\ table[i].old = 0

LEMMA UnlinkedKeeps ==
  ASSUME Linked(records), Unlinked(records')
  PROVE  Linked(records')
BY DEF Linked, Unlinked

LEMMA NotedUnlinked ==
  ASSUME TypeOK, NEW kind \in Kinds, NEW s \in Statements, NEW e \in Nat
  PROVE  Unlinked(Noted(kind, s, e))
<1> DEFINE table == Noted(kind, s, e)  n == Len(records) + 1
<1>1. /\ DOMAIN table = DOMAIN records \cup {n} /\ table[n] = Fresh(kind, s, e)
      /\ \A i \in DOMAIN records : table[i] = records[i]
  BY NotedFacts
<1>2. table[n].status = "active" /\ table[n].old = 0
  BY <1>1 DEF Fresh
<1> HIDE DEF table, n
<1>3. Unlinked(table)
  BY <1>1, <1>2 DEF Unlinked
<1> QED
  BY <1>3 DEF table

\* A record is replaced by one that has replaced none.
LEMMA ReplacedKeeps ==
  ASSUME TypeOK, Linked(records), NEW old \in DOMAIN records, NEW new \in DOMAIN records,
         records[new].old = 0
  PROVE  Linked(Replaced(old, new))
<1> DEFINE table == Replaced(old, new)
<1>1. /\ DOMAIN table = DOMAIN records
      /\ \A i \in DOMAIN records : table[i].old = IF i = new THEN old ELSE records[i].old
      /\ \A i \in DOMAIN records :
           table[i].status = IF i = old THEN "contradicted" ELSE records[i].status
  BY ReplacedFacts DEF SameNotes
<1>2. 0 \notin DOMAIN records
  BY DEF TypeOK
<1> HIDE DEF table
<1>3. ASSUME NEW i \in DOMAIN table, table[i].status = "contradicted"
      PROVE  \E j \in DOMAIN table : table[j].old = i
  <2>1. CASE i = old
    BY <1>1, <2>1
  <2>2. CASE i # old
    <3>1. PICK j \in DOMAIN records : records[j].old = i
      BY <1>1, <1>3, <2>2 DEF Linked
    <3>2. j # new
      BY <1>1, <1>2, <1>3, <3>1
    <3> QED
      BY <1>1, <3>1, <3>2
  <2> QED
    BY <2>1, <2>2
<1>4. ASSUME NEW i \in DOMAIN table, table[i].old # 0
      PROVE  table[i].old \in DOMAIN table /\ table[table[i].old].status = "contradicted"
  <2>1. CASE i = new
    BY <1>1, <2>1
  <2>2. CASE i # new
    BY <1>1, <1>4, <2>2 DEF Linked
  <2> QED
    BY <2>1, <2>2
<1>5. Linked(table)
  BY <1>3, <1>4 DEF Linked
<1> QED
  BY <1>5 DEF table

LEMMA LinkedStep ==
  ASSUME IInv, NEW p \in Processes, Step(p)
  PROVE  Linked(records')
<1>1. Working(p) /\ TypeOK /\ Linked(records)
  BY DEF IInv, Working
<1>2. CASE UNCHANGED records
  BY <1>1, <1>2
<1>3. CASE Note(p)
  BY <1>1, <1>3, NoteEffect, NotedUnlinked, UnlinkedKeeps
<1>4. CASE NoteRevision(p)
  BY <1>1, <1>4, NoteRevisionEffect, NotedUnlinked, UnlinkedKeeps DEF Kinds
<1>5. CASE Replace(p)
  BY <1>1, <1>5, ReplaceEffect, ReplacedKeeps
<1>6. CASE Affirm(p)
  <2> DEFINE id == proc[p].id  held == proc[p].held  e == Event(p)
  <2>1. id \in DOMAIN records /\ AffirmedIs(records', id, held, e)
    BY <1>1, <1>6, AffirmEffect
  <2> HIDE DEF id, held, e
  <2>2. /\ DOMAIN records' = DOMAIN records
        /\ records'[id].status = records[id].status /\ records'[id].old = records[id].old
        /\ \A i \in DOMAIN records : i # id => records'[i] = records[i]
    BY <2>1 DEF AffirmedIs
  <2>3. Unlinked(records')
    BY <2>2 DEF Unlinked
  <2> QED
    BY <1>1, <2>3, UnlinkedKeeps
<1>7. UNCHANGED records \/ Note(p) \/ NoteRevision(p) \/ Replace(p) \/ Affirm(p)
  <2>1. CASE Begin(p) \/ Watch(p) \/ Skip(p) \/ Repeat(p)
    BY <1>1, <2>1, EnterEffect, SkipEffect, RepeatEffect
  <2>2. CASE Contrast(p) \/ End(p) \/ Crash(p)
    BY <1>1, <2>2, ContrastEffect, EndEffect, CrashEffect
  <2> QED
    BY <2>1, <2>2 DEF Step
<1> QED
  BY <1>2, <1>3, <1>4, <1>5, <1>6, <1>7

LEMMA ResolvedStep ==
  ASSUME IInv, NEW p \in Processes, Step(p)
  PROVE  Resolved(records', proc', torn')
<1>1. /\ Working(p) /\ Others(p) /\ Grown(records') /\ TypeOK
      /\ (Replace(p) \/ SameLinks(records')) /\ Resolved(records, proc, torn)
  BY StepFacts DEF IInv, Working
<1>2. ASSUME NEW i \in DOMAIN records, i \notin torn', torn \subseteq torn',
             Form[records'[i].statement] = "contrast", Replace(p) \/ proc[p].at # "replace" \/ i # proc[p].new
      PROVE  records'[i].old # 0 \/ \E q \in Processes : proc'[q].at = "replace" /\ proc'[q].new = i
  <2>1. Form[records[i].statement] = "contrast" /\ i \notin torn
    BY <1>1, <1>2 DEF Grown
  <2>2. CASE records[i].old # 0
    <3>1. CASE SameLinks(records')
      BY <2>2, <3>1 DEF SameLinks
    <3>2. CASE Replace(p)
      <4>1. /\ proc[p].id \in DOMAIN records /\ proc[p].new \in DOMAIN records
            /\ records' = Replaced(proc[p].id, proc[p].new) /\ records[proc[p].new].old = 0
        BY <1>1, <3>2, ReplaceEffect
      <4> QED
        BY <1>1, <2>2, <4>1, ReplacedFacts
    <3> QED
      BY <1>1, <3>1, <3>2
  <2>3. ASSUME NEW q \in Processes, proc[q].at = "replace", proc[q].new = i
        PROVE  records'[i].old # 0 \/ \E r \in Processes : proc'[r].at = "replace" /\ proc'[r].new = i
    <3>1. CASE q # p
      BY <1>1, <2>3, <3>1 DEF Others
    <3>2. CASE q = p
      <4>1. Replace(p)
        BY <1>2, <2>3, <3>2
      <4>2. /\ proc[p].id \in DOMAIN records /\ proc[p].new \in DOMAIN records
            /\ records' = Replaced(proc[p].id, proc[p].new)
        BY <1>1, <4>1, ReplaceEffect
      <4>3. records'[i].old = proc[p].id
        BY <1>1, <2>3, <3>2, <4>2, ReplacedFacts
      <4>4. proc[p].id # 0
        BY <1>1, <4>2 DEF TypeOK
      <4> QED
        BY <4>3, <4>4
    <3> QED
      BY <3>1, <3>2
  <2> QED
    BY <1>1, <2>1, <2>2, <2>3 DEF Resolved
<1>3. CASE Note(p)
  <2>1. /\ torn' = torn /\ proc[p].at # "replace" /\ Said(p) \in Statements /\ Event(p) \in Nat
        /\ Form[Said(p)] # "contrast"
    BY <1>1, <1>3, NoteEffect
  <2>2. PICK kind \in Kinds : records' = Noted(kind, Said(p), Event(p))
    BY <1>1, <1>3, NoteEffect
  <2>3. /\ DOMAIN records' = DOMAIN records \cup {Len(records) + 1}
        /\ records'[Len(records) + 1].statement = Said(p)
    <3> DEFINE table == Noted(kind, Said(p), Event(p))
    <3>1. /\ DOMAIN table = DOMAIN records \cup {Len(records) + 1}
          /\ table[Len(records) + 1] = Fresh(kind, Said(p), Event(p))
      BY <1>1, <2>1, NotedFacts
    <3> QED
      BY <2>2, <3>1 DEF Fresh
  <2> QED
    BY <1>2, <2>1, <2>3 DEF Resolved
<1>4. CASE NoteRevision(p)
  <2>1. /\ torn' = torn /\ proc[p].at # "replace" /\ Said(p) \in Statements /\ Event(p) \in Nat
        /\ records' = Noted("fact", Said(p), Event(p))
        /\ proc'[p].at = "replace" /\ proc'[p].new = Len(records) + 1
    BY <1>1, <1>4, NoteRevisionEffect DEF Moved
  <2>2. "fact" \in Kinds
    BY DEF Kinds
  <2>3. DOMAIN records' = DOMAIN records \cup {Len(records) + 1}
    BY <1>1, <2>1, <2>2, NotedFacts
  <2> QED
    BY <1>2, <2>1, <2>3 DEF Resolved
<1>5. CASE Replace(p)
  <2>1. torn' = torn /\ DOMAIN records' = DOMAIN records
    BY <1>1, <1>5, ReplaceEffect DEF SameNotes
  <2> QED
    BY <1>2, <1>5, <2>1 DEF Resolved
<1>6. CASE Affirm(p)
  <2>1. torn' = torn /\ DOMAIN records' = DOMAIN records /\ proc[p].at # "replace"
    BY <1>1, <1>6, AffirmEffect
  <2> QED
    BY <1>2, <2>1 DEF Resolved
<1>7. CASE Crash(p)
  <2>1. torn' = torn \cup ({proc[p].new} \ {0}) /\ DOMAIN records' = DOMAIN records
    BY <1>1, <1>7, CrashEffect
  <2>2. \A i \in DOMAIN records : i # 0
    BY <1>1 DEF TypeOK
  <2> QED
    BY <1>2, <2>1, <2>2 DEF Resolved
<1>8. CASE Begin(p) \/ Watch(p) \/ Skip(p) \/ Repeat(p) \/ Contrast(p) \/ End(p)
  <2>1. torn' = torn /\ DOMAIN records' = DOMAIN records /\ proc[p].at # "replace"
    BY <1>1, <1>8, EnterEffect, SkipEffect, RepeatEffect, ContrastEffect, EndEffect DEF Working
  <2> QED
    BY <1>2, <2>1 DEF Resolved
<1> QED
  BY <1>3, <1>4, <1>5, <1>6, <1>7, <1>8 DEF Step

LEMMA CommandKeeps ==
  ASSUME IInv, Command
  PROVE  IInv'
<1>1. /\ UNCHANGED <<ledger, proc, mined, torn>> /\ Grown(records') /\ SameLinks(records')
      /\ budget' \in [passes : Nat, commands : Nat, crashes : Nat] /\ TypeOK
  BY CommandFacts DEF IInv
<1>2. TypeOK'
  BY <1>1 DEF TypeOK, Grown
<1>3. ASSUME NEW q \in Processes PROVE InPass(ledger, records', proc[q])
  <2>1. InPass(ledger, records, proc[q]) /\ proc[q].events \in SUBSET Nat
    BY <1>1 DEF IInv, TypeOK, Procs
  <2>2. proc[q].at = "replace" => records'[proc[q].new].old = records[proc[q].new].old
    BY <1>1, <2>1 DEF SameLinks, InPass
  <2>3. ledger' = ledger /\ Grown(records')
    BY <1>1
  <2>4. InPass(ledger', records', proc[q])
    BY <2>1, <2>2, <2>3, InPassStays
  <2> QED
    BY <2>3, <2>4
<1>4. Sourced(ledger, records') /\ Linked(records') /\ Resolved(records', proc, torn)
  <2>1. ASSUME NEW id \in DOMAIN records, NEW status \in {"uncertain", "outdated"},
               records[id].status = "active", records' = [records EXCEPT ![id].status = status]
        PROVE  Sourced(ledger, records') /\ Linked(records') /\ Resolved(records', proc, torn)
    <3>1. status \in VisibleStatus
      BY DEF VisibleStatus
    <3>2. /\ SameNotes(records') /\ \A i \in DOMAIN records : records'[i].old = records[i].old
          /\ \A i \in DOMAIN records :
               records'[i].status = IF i = id THEN status ELSE records[i].status
      <4> DEFINE table == [records EXCEPT ![id].status = status]
      <4>1. TypeOK /\ id \in DOMAIN records /\ status \in VisibleStatus
        BY <1>1, <3>1
      <4>2. /\ SameNotes(table) /\ \A i \in DOMAIN records : table[i].old = records[i].old
            /\ \A i \in DOMAIN records :
                 table[i].status = IF i = id THEN status ELSE records[i].status
        BY <4>1, MarkedFacts
      <4>3. records' = table
        BY <2>1
      <4> HIDE DEF table
      <4> QED
        BY <4>2, <4>3
    <3>3. Sourced(ledger, records')
      BY <3>2 DEF IInv, Sourced, SameNotes
    <3>4. Linked(records')
      BY <2>1, <3>2 DEF IInv, Linked, SameNotes
    <3>5. Resolved(records', proc, torn)
      BY <3>2 DEF IInv, Resolved, SameNotes
    <3> QED
      BY <3>3, <3>4, <3>5
  <2>2. ASSUME NEW s \in Statements, Form[s] \in {"fact", "preference"}, ledger # <<>>,
               records' = Noted("inference", s, Len(ledger))
        PROVE  Sourced(ledger, records') /\ Linked(records') /\ Resolved(records', proc, torn)
    <3>1. "inference" \in Kinds /\ Len(ledger) \in DOMAIN ledger /\ Len(ledger) \in Nat
      BY <1>1, <2>2 DEF Kinds, TypeOK
    <3>2. Sourced(ledger, records')
      BY <1>1, <2>2, <3>1, NotedSourced DEF IInv
    <3>3. Linked(records')
      BY <1>1, <2>2, <3>1, NotedUnlinked, UnlinkedKeeps DEF IInv
    <3>4. /\ DOMAIN records' = DOMAIN records \cup {Len(records) + 1}
          /\ records'[Len(records) + 1].statement = s
      <4> DEFINE e == Len(ledger)  table == Noted("inference", s, e)
      <4> HIDE DEF e
      <4>1. e \in Nat /\ records' = table
        BY <2>2, <3>1 DEF e
      <4>2. /\ DOMAIN table = DOMAIN records \cup {Len(records) + 1}
            /\ table[Len(records) + 1] = Fresh("inference", s, e)
        BY <1>1, <3>1, <4>1, NotedFacts
      <4> QED
        BY <4>1, <4>2 DEF Fresh
    <3>5. Resolved(records', proc, torn)
      BY <1>1, <2>2, <3>4 DEF IInv, Resolved, Grown, SameLinks
    <3> QED
      BY <3>2, <3>3, <3>5
  <2> QED
    BY <1>1, <2>1, <2>2, CommandEffect
<1> QED
  BY <1>1, <1>2, <1>3, <1>4 DEF IInv, Apart

LEMMA SayKeeps ==
  ASSUME IInv, Say
  PROVE  IInv'
<1>1. /\ UNCHANGED <<records, proc, mined, torn, budget>> /\ ledger' \in Seq(Statements)
      /\ DOMAIN ledger \subseteq DOMAIN ledger' /\ \A e \in DOMAIN ledger : ledger'[e] = ledger[e]
  BY SayEffect DEF IInv
<1>2. TypeOK' /\ Sourced(ledger', records)
  BY <1>1 DEF IInv, TypeOK, Sourced
<1>3. Grown(records')
  BY <1>1 DEF IInv, Grown, TypeOK
<1>4. ASSUME NEW q \in Processes PROVE InPass(ledger', records', proc'[q])
  <2>1. InPass(ledger, records, proc[q]) /\ proc[q].events \in SUBSET Nat
    BY DEF IInv, TypeOK, Procs
  <2> QED
    BY <1>1, <1>3, <2>1, InPassStays
<1> QED
  BY <1>1, <1>2, <1>4 DEF IInv, Apart, Linked, Resolved

LEMMA StepKeeps ==
  ASSUME IInv, NEW p \in Processes, Step(p)
  PROVE  IInv'
<1>1. TypeOK'
  BY StepFacts DEF IInv, Working, TypeOK, Grown
<1> QED
  BY <1>1, InPassStep, ApartStep, SourcedStep, LinkedStep, ResolvedStep DEF IInv

LEMMA InitKeeps == Init => IInv
<1> SUFFICES ASSUME Init PROVE IInv
  OBVIOUS
<1>1. /\ ledger = <<>> /\ records = <<>> /\ mined = {} /\ torn = {}
      /\ proc = [p \in Processes |-> Idle]
      /\ budget = [passes |-> MaxPasses, commands |-> MaxCommands, crashes |-> MaxCrashes]
  BY DEF Init
<1>2. TypeOK
  BY <1>1, IdleFacts, UnderstandingAssumption DEF TypeOK
<1>3. ASSUME NEW p \in Processes PROVE InPass(ledger, records, proc[p])
  BY <1>1, IdleFacts DEF InPass
<1>4. Apart(proc)
  BY <1>1, IdleFacts DEF Apart
<1>5. DOMAIN records = {}
  BY <1>1
<1> QED
  BY <1>2, <1>3, <1>4, <1>5 DEF IInv, Sourced, Linked, Resolved

LEMMA Stutter == ASSUME IInv, UNCHANGED vars PROVE IInv'
BY DEF IInv, vars, TypeOK, InPass, Apart, Sourced, Linked, Resolved

LEMMA Invariance == Spec => []IInv
<1>1. IInv /\ [Next]_vars => IInv'
  BY SayKeeps, CommandKeeps, StepKeeps, Stutter DEF Next
<1> QED
  BY <1>1, InitKeeps, PTL DEF Spec

\* The tables, the ledger and the passes are what they should be.
THEOREM TypeCorrect == Spec => []TypeOK
<1>1. IInv => TypeOK
  BY DEF IInv
<1> QED
  BY <1>1, Invariance, PTL

\* A contradicted record keeps what spoke for it and what spoke against it,
\* and a contrast has contradicted something unless a crash fell between the
\* commits of revise, however many processes mine at once
\* (understanding.py:217-228, 322-339).
THEOREM ConflictsKeepBothSides == Spec => []BothSidesKept
<1>1. IInv => BothSidesKept
  <2> SUFFICES ASSUME IInv PROVE BothSidesKept
    OBVIOUS
  <2>1. ASSUME NEW i \in DOMAIN records, records[i].status = "contradicted"
        PROVE  explain(i).supporting # {} /\ explain(i).contradicted_by # {}
    <3>1. PICK j \in DOMAIN records : records[j].old = i
      BY <2>1 DEF IInv, Linked
    <3> DEFINE S == {0} \cup {k \in DOMAIN records : records[k].old = i}
    <3>2. Len(records) \in Nat /\ DOMAIN records = 1..Len(records)
      BY DEF IInv, TypeOK
    <3>3. S \in SUBSET Nat /\ j \in S /\ \A n \in S : n <= Len(records)
      BY <3>1, <3>2
    <3> HIDE DEF S
    <3>4. Max(S) \in S /\ j <= Max(S)
      BY <3>2, <3>3, MaxFacts
    <3>5. superseded_by(i) = Max(S)
      BY DEF superseded_by, S
    <3>6. superseded_by(i) \in DOMAIN records /\ superseded_by(i) # 0
      <4>1. j \in Nat /\ j # 0
        BY <3>2
      <4>2. Max(S) # 0
        BY <3>3, <3>4, <4>1
      <4> QED
        BY <3>4, <3>5, <4>2 DEF S
    <3>7. resolve_sources(i) # {} /\ resolve_sources(superseded_by(i)) # {}
      BY <3>6 DEF IInv, Sourced, resolve_sources
    <3> QED
      BY <3>6, <3>7 DEF explain
  <2>2. ASSUME NEW j \in DOMAIN records \ torn, Form[records[j].statement] = "contrast"
        PROVE  \/ records[j].old # 0 /\ records[records[j].old].status = "contradicted"
               \/ \E p \in Processes : proc[p].new = j
    BY <2>2 DEF IInv, Resolved, Linked
  <2> QED
    BY <2>1, <2>2 DEF BothSidesKept
<1> QED
  BY <1>1, Invariance, PTL

-----------------------------------------------------------------------------
(* A single process. *)

LEMMA NotedEarned ==
  ASSUME TypeOK, \A i \in DOMAIN records : Earned(records[i]), NEW kind \in Kinds,
         NEW s \in Statements, NEW e \in Nat, Form[s] = "telemetry" => kind = "observation"
  PROVE  \A i \in DOMAIN Noted(kind, s, e) : Earned(Noted(kind, s, e)[i])
<1> DEFINE table == Noted(kind, s, e)  n == Len(records) + 1  new == Fresh(kind, s, e)
<1>1. /\ DOMAIN table = DOMAIN records \cup {n} /\ table[n] = new
      /\ \A i \in DOMAIN records : table[i] = records[i]
  BY NotedFacts
<1>2. Cardinality({e}) = 1
  BY FS_Singleton
<1>3. Sure(kind, Form[s]) \in Nat /\ Sure(kind, Form[s]) <= Cap[kind]
  BY SureFacts
<1>4. /\ new.kind = kind /\ new.statement = s /\ new.sources = {e}
      /\ new.confidence = Sure(kind, Form[s])
  BY DEF Fresh
<1> HIDE DEF new, table, n
<1>5. Earned(new)
  BY <1>2, <1>3, <1>4 DEF Earned, Boost
<1>6. \A i \in DOMAIN table : Earned(table[i])
  BY <1>1, <1>5
<1> QED
  BY <1>6 DEF table

LEMMA SameEarned ==
  ASSUME \A i \in DOMAIN records : Earned(records[i]), SameNotes(records')
  PROVE  \A i \in DOMAIN records' : Earned(records'[i])
BY DEF SameNotes, Earned

\* What is affirmed is the record that was read, one event later.
AffirmsAsRead(p) ==
  /\ records'[proc[p].id].sources = records[proc[p].id].sources \cup {Event(p)}
  /\ Event(p) \notin records[proc[p].id].sources
  /\ records'[proc[p].id].confidence
       = Min({records[proc[p].id].confidence + Boost, Cap[records[proc[p].id].kind]})
  /\ records'[proc[p].id].statement = records[proc[p].id].statement
  /\ records'[proc[p].id].kind = records[proc[p].id].kind
  /\ \A i \in DOMAIN records : i # proc[p].id => records'[i] = records[i]

LEMMA AffirmedAsRead ==
  ASSUME NEW p \in Processes, Working(p), InSync(ledger, records, proc[p]), Affirm(p)
  PROVE  AffirmsAsRead(p) /\ Known(p) # None /\ Known(p).id = proc[p].id
<1> DEFINE id == proc[p].id  held == proc[p].held  e == Event(p)
<1>1. /\ id \in DOMAIN records /\ AffirmedIs(records', id, held, e)
      /\ proc[p].at = "affirm" /\ proc[p].events # {}
  BY AffirmEffect DEF Working
<1>2. e = Min(proc[p].events) /\ Known(p) = proc[p].known[ledger[Min(proc[p].events)]]
  BY DEF Event, Known, Said
<1>3. /\ held.sources = records[id].sources /\ held.confidence = records[id].confidence
      /\ held.kind = records[id].kind /\ e \notin held.sources
      /\ Known(p) # None /\ Known(p).id = id
  BY <1>1, <1>2 DEF InSync
<1> HIDE DEF id, held, e
<1>4. /\ \A i \in DOMAIN records : i # id => records'[i] = records[i]
      /\ records'[id].statement = records[id].statement /\ records'[id].kind = records[id].kind
      /\ records'[id].sources = held.sources \cup {e}
      /\ records'[id].confidence = Min({held.confidence + Boost, Cap[held.kind]})
  BY <1>1 DEF AffirmedIs
<1> QED
  BY <1>3, <1>4 DEF AffirmsAsRead, id, e

LEMMA AffirmEarned ==
  ASSUME IInv, \A i \in DOMAIN records : Earned(records[i]), NEW p \in Processes,
         InSync(ledger, records, proc[p]), Affirm(p)
  PROVE  \A i \in DOMAIN records' : Earned(records'[i])
<1>1. Working(p) /\ TypeOK /\ Sourced(ledger, records)
  BY DEF IInv, Working
<1>2. AffirmsAsRead(p) /\ DOMAIN records' = DOMAIN records /\ proc[p].id \in DOMAIN records
  BY <1>1, AffirmedAsRead, AffirmEffect DEF OnlyOne
<1> DEFINE id == proc[p].id  e == Event(p)  r == records[id]  new == records'[id]
<1>3. /\ r \in Records /\ Earned(r) /\ r.sources \subseteq DOMAIN ledger
  BY <1>1, <1>2 DEF TypeOK, Sourced
<1>4. IsFiniteSet(r.sources) /\ Cardinality(r.sources) \in Nat
  <2>1. Len(ledger) \in Nat /\ DOMAIN ledger = 1..Len(ledger)
    BY <1>1 DEF TypeOK
  <2>2. IsFiniteSet(DOMAIN ledger)
    BY <2>1, FS_Interval
  <2> QED
    BY <1>3, <2>2, FS_Subset, FS_CardinalityType
<1>5. /\ new.sources = r.sources \cup {e} /\ e \notin r.sources
      /\ new.confidence = Min({r.confidence + Boost, Cap[r.kind]})
      /\ new.statement = r.statement /\ new.kind = r.kind
  BY <1>2 DEF AffirmsAsRead
<1>6. Cardinality(new.sources) = Cardinality(r.sources) + 1
  BY <1>4, <1>5, FS_AddElement
<1>7. r.kind \in Kinds /\ r.confidence \in Nat /\ r.confidence + Boost \in Nat
  BY <1>3 DEF Records, Boost
<1>8. Cap[r.kind] \in Nat /\ Sure(r.kind, Form[r.statement]) \in Nat
  BY <1>7, Levels, SureFacts
<1>9. new.confidence \in Nat /\ new.confidence <= r.confidence + Boost /\ new.confidence <= Cap[r.kind]
  BY <1>5, <1>7, <1>8, PairMin
<1> HIDE DEF r, new, e
<1>10. new.confidence <= Sure(new.kind, Form[new.statement]) + Boost * (Cardinality(new.sources) - 1)
  <2> DEFINE c == Cardinality(r.sources)  m == Sure(r.kind, Form[r.statement])
  <2>1. r.confidence <= m + Boost * (c - 1)
    BY <1>3 DEF Earned
  <2>2. c \in Nat /\ m \in Nat
    BY <1>4, <1>8
  <2> HIDE DEF c, m
  <2>3. new.confidence <= m + Boost * c
    BY <1>7, <1>9, <2>1, <2>2 DEF Boost
  <2>4. Cardinality(new.sources) - 1 = c
    BY <1>6, <2>2 DEF c
  <2> QED
    BY <1>5, <2>3, <2>4 DEF m
<1>11. Earned(new)
  BY <1>5, <1>9, <1>10 DEF Earned
<1>12. \A i \in DOMAIN records : i # id => records'[i] = records[i]
  BY <1>2 DEF AffirmsAsRead
<1> QED
  BY <1>2, <1>11, <1>12 DEF new

LEMMA EarnedStep ==
  ASSUME NEW p \in Processes, OnlyOne(p), Step(p)
  PROVE  \A i \in DOMAIN records' : Earned(records'[i])
<1>1. Working(p) /\ TypeOK /\ IInv /\ InSync(ledger, records, proc[p])
      /\ \A i \in DOMAIN records : Earned(records[i])
  BY DEF IInv, Working, OnlyOne
<1>2. CASE UNCHANGED records
  BY <1>1, <1>2
<1>3. CASE Note(p)
  <2>1. PICK kind \in Kinds : /\ records' = Noted(kind, Said(p), Event(p))
                              /\ Form[Said(p)] = "telemetry" => kind = "observation"
    BY <1>1, <1>3, NoteEffect
  <2>2. Said(p) \in Statements /\ Event(p) \in Nat
    BY <1>1, <1>3, NoteEffect
  <2>3. \A i \in DOMAIN Noted(kind, Said(p), Event(p)) : Earned(Noted(kind, Said(p), Event(p))[i])
    BY <1>1, <2>1, <2>2, NotedEarned
  <2> QED
    BY <2>1, <2>3
<1>4. CASE NoteRevision(p)
  <2>1. /\ records' = Noted("fact", Said(p), Event(p)) /\ Said(p) \in Statements /\ Event(p) \in Nat
        /\ Form[Said(p)] = "contrast" /\ "fact" \in Kinds
    BY <1>1, <1>4, NoteRevisionEffect DEF Kinds
  <2>2. \A i \in DOMAIN Noted("fact", Said(p), Event(p)) : Earned(Noted("fact", Said(p), Event(p))[i])
    BY <1>1, <2>1, NotedEarned
  <2> QED
    BY <2>1, <2>2
<1>5. CASE Replace(p)
  BY <1>1, <1>5, ReplaceEffect, SameEarned
<1>6. CASE Affirm(p)
  BY <1>1, <1>6, AffirmEarned
<1>7. UNCHANGED records \/ Note(p) \/ NoteRevision(p) \/ Replace(p) \/ Affirm(p)
  <2>1. CASE Begin(p) \/ Watch(p) \/ Skip(p) \/ Repeat(p)
    BY <1>1, <2>1, EnterEffect, SkipEffect, RepeatEffect
  <2>2. CASE Contrast(p) \/ End(p) \/ Crash(p)
    BY <1>1, <2>2, ContrastEffect, EndEffect, CrashEffect
  <2> QED
    BY <2>1, <2>2 DEF Step
<1> QED
  BY <1>2, <1>3, <1>4, <1>5, <1>6, <1>7

\* A record that a pass adds is of a statement its picture did not show.
LEMMA NotedOnce ==
  ASSUME TypeOK, DerivedOnce, NEW p \in Processes, InSync(ledger, records, proc[p]),
         proc[p].at \in {"mine", "revise"}, Known(p) = None,
         NEW kind \in Kinds, NEW e \in Nat, Said(p) \in Statements, records' = Noted(kind, Said(p), e)
  PROVE  DerivedOnce'
<1> DEFINE n == Len(records) + 1  s == Said(p)
<1>1. /\ DOMAIN records' = DOMAIN records \cup {n} /\ records'[n] = Fresh(kind, s, e)
      /\ \A i \in DOMAIN records : records'[i] = records[i]
  <2> DEFINE table == Noted(kind, s, e)
  <2>1. /\ DOMAIN table = DOMAIN records \cup {n} /\ table[n] = Fresh(kind, s, e)
        /\ \A i \in DOMAIN records : table[i] = records[i]
    BY NotedFacts
  <2> QED
    BY <2>1
<1>2. records'[n].statement = s
  BY <1>1 DEF Fresh
<1>3. \A i \in DOMAIN records : records[i].statement = s => records[i].kind \notin {"fact", "preference"}
  BY DEF InSync, Known
<1> HIDE DEF n, s
<1> QED
  BY <1>1, <1>2, <1>3 DEF DerivedOnce

LEMMA DerivedStep ==
  ASSUME NEW p \in Processes, OnlyOne(p), Step(p)
  PROVE  DerivedOnce'
<1>1. Working(p) /\ TypeOK /\ DerivedOnce /\ InSync(ledger, records, proc[p])
  BY DEF IInv, Working, OnlyOne
<1>2. ASSUME DOMAIN records' = DOMAIN records,
             \A i \in DOMAIN records : /\ records'[i].statement = records[i].statement
                                       /\ records'[i].kind = records[i].kind
      PROVE  DerivedOnce'
  BY <1>1, <1>2 DEF DerivedOnce
<1>3. CASE Note(p)
  BY <1>1, <1>3, NoteEffect, NotedOnce
<1>4. CASE NoteRevision(p)
  <2>1. Known(p) = None
    BY <1>1, <1>4, NoteRevisionEffect DEF InSync, Known, Said, Event
  <2> QED
    BY <1>1, <1>4, <2>1, NoteRevisionEffect, NotedOnce DEF Kinds
<1>5. CASE Replace(p)
  BY <1>1, <1>2, <1>5, ReplaceEffect DEF SameNotes
<1>6. CASE Affirm(p)
  <2>1. Grown(records') /\ DOMAIN records' = DOMAIN records
    BY <1>1, <1>6, StepFacts, AffirmEffect
  <2> QED
    BY <1>2, <2>1 DEF Grown
<1>7. CASE UNCHANGED records
  BY <1>2, <1>7
<1>8. UNCHANGED records \/ Note(p) \/ NoteRevision(p) \/ Replace(p) \/ Affirm(p)
  <2>1. CASE Begin(p) \/ Watch(p) \/ Skip(p) \/ Repeat(p)
    BY <1>1, <2>1, EnterEffect, SkipEffect, RepeatEffect
  <2>2. CASE Contrast(p) \/ End(p) \/ Crash(p)
    BY <1>1, <2>2, ContrastEffect, EndEffect, CrashEffect
  <2> QED
    BY <2>1, <2>2 DEF Step
<1> QED
  BY <1>3, <1>4, <1>5, <1>6, <1>7, <1>8

\* The process goes on, and its picture shows the record it led to.
LEMMA SyncForward ==
  ASSUME NEW p \in Processes, Working(p), InSync(ledger, records, proc[p]), proc[p].at # "idle",
         Grown(records'), NEW id \in DOMAIN records' \cup {0}, Forward(p, records', id),
         id # 0 => records'[id].statement = Said(p),
         \A s \in Statements \ (IF id = 0 THEN {} ELSE {Said(p)}) : proc[p].known[s] # None =>
           records'[proc[p].known[s].id].sources = records[proc[p].known[s].id].sources,
         \A i \in DOMAIN records' :
           records'[i].kind \in {"fact", "preference"} /\ proc[p].known[records'[i].statement] = None =>
             id # 0 /\ records'[i].statement = Said(p)
  PROVE  InSync(ledger, records', proc'[p])
<1>1. /\ proc'[p].at = "mine"
      /\ \A s \in Statements :
           proc'[p].known[s] = IF s = Said(p) /\ id # 0 THEN Entry(records', id) ELSE proc[p].known[s]
  BY DEF Forward
<1>2. ASSUME NEW s \in Statements, proc'[p].known[s] # None
      PROVE  /\ records'[proc'[p].known[s].id].statement = s
             /\ records'[proc'[p].known[s].id].sources = proc'[p].known[s].sources
  <2>1. CASE s = Said(p) /\ id # 0
    BY <1>1, <2>1 DEF Entry
  <2>2. CASE ~(s = Said(p) /\ id # 0)
    <3>1. proc'[p].known[s] = proc[p].known[s] /\ proc[p].known[s].id \in DOMAIN records
      BY <1>1, <1>2, <2>2 DEF Working, InPass
    <3>2. s \in Statements \ (IF id = 0 THEN {} ELSE {Said(p)})
      BY <2>2
    <3> QED
      BY <1>2, <3>1, <3>2 DEF InSync, Grown
  <2> QED
    BY <2>1, <2>2
<1>3. ASSUME NEW i \in DOMAIN records', records'[i].kind \in {"fact", "preference"},
             proc'[p].known[records'[i].statement] = None
      PROVE  FALSE
  <2>1. records'[i].statement \in Statements
    <3>1. records'[i] \in Records
      BY DEF Grown
    <3> QED
      BY <3>1 DEF Records
  <2>2. id # 0 => Entry(records', id) # None
    BY DEF Entry, None
  <2> QED
    BY <1>1, <1>3, <2>1, <2>2
<1> QED
  BY <1>1, <1>2, <1>3 DEF InSync

LEMMA SyncEnter ==
  ASSUME NEW p \in Processes, Working(p), Begin(p) \/ Watch(p)
  PROVE  InSync(ledger, records', proc'[p])
<1>1. /\ records' = records /\ proc'[p].at = "mine" /\ proc'[p].known = Picture
      /\ TypeOK
  BY EnterEffect DEF Working
<1>2. ASSUME NEW s \in Statements
      PROVE  /\ Picture[s] # None => /\ records[Picture[s].id].statement = s
                                     /\ records[Picture[s].id].sources = Picture[s].sources
             /\ \A i \in DOMAIN records : records[i].statement = s => Picture[s] # None
  <2> DEFINE ids == {i \in DOMAIN records : records[i].statement = s}
  <2>1. IF ids = {} THEN Picture[s] = None
        ELSE Min(ids) \in ids /\ Picture[s] = Entry(records, Min(ids))
    BY <1>1, PictureTypes
  <2>2. 0 \notin ids
    BY <1>1 DEF TypeOK
  <2>3. CASE ids = {}
    BY <2>1, <2>3
  <2>4. CASE ids # {}
    <3> DEFINE m == Min(ids)
    <3>1. m \in ids /\ Picture[s] = Entry(records, m)
      BY <2>1, <2>4
    <3> HIDE DEF m
    <3>2. Picture[s].id = m /\ Picture[s].sources = records[m].sources /\ m # 0
      BY <2>2, <3>1 DEF Entry
    <3>3. records[m].statement = s
      BY <3>1
    <3> QED
      BY <3>2, <3>3 DEF None
  <2> QED
    BY <2>3, <2>4
<1>3. \A i \in DOMAIN records : records[i].statement \in Statements
  <2>1. \A i \in DOMAIN records : records[i] \in Records
    BY <1>1 DEF TypeOK
  <2> QED
    BY <2>1 DEF Records
<1> QED
  BY <1>1, <1>2, <1>3 DEF InSync

LEMMA SyncStep ==
  ASSUME NEW p \in Processes, OnlyOne(p), Step(p)
  PROVE  InSync(ledger', records', proc'[p])
<1>1. /\ Working(p) /\ TypeOK /\ InSync(ledger, records, proc[p]) /\ UNCHANGED ledger
      /\ Grown(records')
  BY StepFacts DEF IInv, Working, OnlyOne
<1>2. CASE Begin(p) \/ Watch(p)
  BY <1>1, <1>2, SyncEnter
<1>3. CASE Skip(p)
  <2>1. Forward(p, records', 0) /\ proc[p].at = "mine" /\ records' = records
    BY <1>1, <1>3, SkipEffect
  <2> QED
    BY <1>1, <2>1, SyncForward DEF InSync
<1>4. CASE Left(p)
  BY <1>4 DEF Left, InSync
<1>5. CASE Repeat(p) /\ ~Left(p)
  <2>1. /\ proc[p].at = "mine" /\ Known(p) # None /\ Event(p) \notin Known(p).sources
        /\ Moved(p, "affirm") /\ proc'[p].id = Known(p).id /\ proc'[p].held = records[Known(p).id]
        /\ records' = records /\ proc[p].events # {}
    BY <1>1, <1>5, RepeatEffect
  <2>2. Said(p) \in Statements
    BY <1>1, <2>1, EventFacts DEF Working
  <2>3. records[Known(p).id].sources = Known(p).sources
    BY <1>1, <2>1, <2>2 DEF InSync, Known
  <2>4. /\ proc'[p].known = proc[p].known /\ proc'[p].events = proc[p].events
        /\ proc'[p].at = "affirm" /\ ledger' = ledger
    BY <1>1, <2>1 DEF Moved
  <2>5. /\ proc'[p].known[ledger[Min(proc'[p].events)]] = Known(p)
        /\ Min(proc'[p].events) = Event(p)
    BY <2>4 DEF Known, Said, Event
  <2> QED
    BY <1>1, <2>1, <2>3, <2>4, <2>5 DEF InSync
<1>6. CASE Affirm(p)
  <2>1. /\ AffirmsAsRead(p) /\ Known(p) # None /\ Known(p).id = proc[p].id
        /\ proc[p].at = "affirm" /\ proc[p].events # {} /\ proc[p].id \in DOMAIN records
        /\ DOMAIN records' = DOMAIN records /\ Forward(p, records', proc[p].id)
    BY <1>1, <1>6, AffirmedAsRead, AffirmEffect
  <2>2. Said(p) \in Statements /\ proc[p].id # 0
    BY <1>1, <2>1, EventFacts DEF Working, TypeOK
  <2>3. records[proc[p].id].statement = Said(p)
    BY <1>1, <2>1, <2>2 DEF InSync, Known
  <2>4. records'[proc[p].id].statement = Said(p)
    BY <2>1, <2>3 DEF AffirmsAsRead
  <2>5. ASSUME NEW s \in Statements \ {Said(p)}, proc[p].known[s] # None
        PROVE  records'[proc[p].known[s].id].sources = records[proc[p].known[s].id].sources
    <3>1. records[proc[p].known[s].id].statement = s /\ proc[p].known[s].id \in DOMAIN records
      BY <1>1, <2>1, <2>5 DEF InSync, Working, InPass
    <3> QED
      BY <2>1, <2>3, <3>1 DEF AffirmsAsRead
  <2>6. ASSUME NEW i \in DOMAIN records', records'[i].kind \in {"fact", "preference"},
               proc[p].known[records'[i].statement] = None
        PROVE  FALSE
    BY <1>1, <2>1, <2>6 DEF InSync, Grown
  <2> QED
    BY <1>1, <2>1, <2>2, <2>4, <2>5, <2>6, SyncForward
<1>7. CASE Note(p)
  <2>1. PICK kind \in Kinds : records' = Noted(kind, Said(p), Event(p))
    BY <1>1, <1>7, NoteEffect
  <2>2. /\ proc[p].at = "mine" /\ Known(p) = None /\ Said(p) \in Statements /\ Event(p) \in Nat
        /\ Len(records') \in DOMAIN records' /\ Len(records') = Len(records) + 1
        /\ Forward(p, records', Len(records'))
    BY <1>1, <1>7, NoteEffect
  <2> DEFINE n == Len(records')
  <2>3. /\ DOMAIN records' = DOMAIN records \cup {n} /\ records'[n].statement = Said(p) /\ n # 0
        /\ \A i \in DOMAIN records : records'[i] = records[i]
    <3> DEFINE table == Noted(kind, Said(p), Event(p))  m == Len(records) + 1
    <3>1. /\ DOMAIN table = DOMAIN records \cup {m} /\ table[m] = Fresh(kind, Said(p), Event(p))
          /\ \A i \in DOMAIN records : table[i] = records[i]
      BY <1>1, <2>2, NotedFacts
    <3>2. m # 0
      BY <1>1 DEF TypeOK
    <3> QED
      BY <2>1, <2>2, <3>1, <3>2 DEF Fresh
  <2> HIDE DEF n
  <2>4. ASSUME NEW s \in Statements, proc[p].known[s] # None
        PROVE  records'[proc[p].known[s].id].sources = records[proc[p].known[s].id].sources
    BY <1>1, <2>3, <2>4 DEF Working, InPass
  <2>5. ASSUME NEW i \in DOMAIN records', records'[i].kind \in {"fact", "preference"},
               proc[p].known[records'[i].statement] = None
        PROVE  records'[i].statement = Said(p)
    BY <1>1, <2>2, <2>3, <2>5 DEF InSync
  <2> QED
    BY <1>1, <2>2, <2>3, <2>4, <2>5, SyncForward DEF n
<1>8. CASE Contrast(p) /\ ~Left(p)
  <2>1. /\ proc[p].at = "mine" /\ Known(p) = None /\ Moved(p, "revise") /\ records' = records
    BY <1>1, <1>8, ContrastEffect
  <2> QED
    BY <1>1, <2>1 DEF InSync, Moved, Known, Said, Event
<1>9. CASE NoteRevision(p)
  <2>1. /\ proc[p].at = "revise" /\ Said(p) \in Statements /\ Event(p) \in Nat
        /\ Moved(p, "replace") /\ proc'[p].new = Len(records) + 1
        /\ records' = Noted("fact", Said(p), Event(p)) /\ "fact" \in Kinds
    BY <1>1, <1>9, NoteRevisionEffect DEF Kinds
  <2> DEFINE n == Len(records) + 1
  <2>2. /\ DOMAIN records' = DOMAIN records \cup {n} /\ records'[n].statement = Said(p)
        /\ \A i \in DOMAIN records : records'[i] = records[i]
    <3> DEFINE table == Noted("fact", Said(p), Event(p))
    <3>1. /\ DOMAIN table = DOMAIN records \cup {n} /\ table[n] = Fresh("fact", Said(p), Event(p))
          /\ \A i \in DOMAIN records : table[i] = records[i]
      BY <1>1, <2>1, NotedFacts
    <3> QED
      BY <2>1, <3>1 DEF Fresh
  <2>3. \A s \in Statements : proc[p].known[s] # None => proc[p].known[s].id \in DOMAIN records
    BY <1>1 DEF Working, InPass
  <2>4. Known(p) = None
    BY <1>1, <2>1 DEF InSync, Known, Said, Event
  <2>5. proc'[p].new = n /\ proc'[p].at = "replace" /\ proc'[p].known = proc[p].known
        /\ proc'[p].events = proc[p].events
    BY <2>1 DEF Moved
  <2> HIDE DEF n
  <2>6. \A s \in Statements : proc'[p].known[s] # None =>
          /\ records'[proc'[p].known[s].id].statement = s
          /\ records'[proc'[p].known[s].id].sources = proc'[p].known[s].sources
    BY <1>1, <2>1, <2>2, <2>3, <2>5 DEF InSync
  <2>7. \A i \in DOMAIN records' :
          records'[i].kind \in {"fact", "preference"} /\ proc'[p].known[records'[i].statement] = None =>
            i = n
    BY <1>1, <2>1, <2>2, <2>5 DEF InSync
  <2>8. /\ proc'[p].known[ledger[Min(proc'[p].events)]] = None
        /\ records'[n].statement = ledger[Min(proc'[p].events)]
    BY <2>2, <2>4, <2>5 DEF Known, Said, Event
  <2> QED
    BY <1>1, <2>5, <2>6, <2>7, <2>8 DEF InSync
<1>10. CASE Replace(p)
  <2>1. /\ proc[p].at = "replace" /\ proc[p].new \in DOMAIN records /\ SameNotes(records')
        /\ Forward(p, records', proc[p].new)
    BY <1>1, <1>10, ReplaceEffect
  <2>2. records'[proc[p].new].statement = Said(p) /\ proc[p].new # 0
    BY <1>1, <2>1 DEF InSync, Said, Event, SameNotes, TypeOK
  <2>3. ASSUME NEW s \in Statements, proc[p].known[s] # None
        PROVE  records'[proc[p].known[s].id].sources = records[proc[p].known[s].id].sources
    BY <1>1, <2>1, <2>3 DEF Working, InPass, SameNotes
  <2>4. ASSUME NEW i \in DOMAIN records', records'[i].kind \in {"fact", "preference"},
               proc[p].known[records'[i].statement] = None
        PROVE  records'[i].statement = Said(p)
    BY <1>1, <2>1, <2>2, <2>4 DEF InSync, SameNotes
  <2>5. proc[p].new \in DOMAIN records'
    BY <2>1 DEF SameNotes
  <2> QED
    BY <1>1, <2>1, <2>2, <2>3, <2>4, <2>5, SyncForward
<1>11. CASE End(p) \/ Crash(p)
  BY <1>1, <1>4, <1>11, EndEffect, CrashEffect
<1> QED
  BY <1>2, <1>3, <1>4, <1>5, <1>6, <1>7, <1>8, <1>9, <1>10, <1>11 DEF Step

\* What is a source of a record stays one.
LEMMA CoveredStays ==
  ASSUME NEW p \in Processes, OnlyOne(p), Step(p), NEW e, CoveredBy(records, e)
  PROVE  CoveredBy(records', e)
<1>1. Working(p) /\ TypeOK /\ InSync(ledger, records, proc[p])
  BY DEF IInv, Working, OnlyOne
<1>2. PICK i \in DOMAIN records : e \in records[i].sources
  BY DEF CoveredBy
<1>3. i \in DOMAIN records' /\ records[i].sources \subseteq records'[i].sources
  <2>1. CASE UNCHANGED records
    BY <2>1
  <2>2. CASE Note(p)
    <3>1. PICK kind \in Kinds : records' = Noted(kind, Said(p), Event(p))
      BY <1>1, <2>2, NoteEffect
    <3>2. Said(p) \in Statements /\ Event(p) \in Nat
      BY <1>1, <2>2, NoteEffect
    <3> DEFINE table == Noted(kind, Said(p), Event(p))
    <3>3. i \in DOMAIN table /\ table[i] = records[i]
      BY <1>1, <3>2, NotedFacts
    <3> QED
      BY <3>1, <3>3
  <2>3. CASE NoteRevision(p)
    <3>1. /\ records' = Noted("fact", Said(p), Event(p)) /\ Said(p) \in Statements /\ Event(p) \in Nat
          /\ "fact" \in Kinds
      BY <1>1, <2>3, NoteRevisionEffect DEF Kinds
    <3> DEFINE table == Noted("fact", Said(p), Event(p))
    <3>2. i \in DOMAIN table /\ table[i] = records[i]
      BY <1>1, <3>1, NotedFacts
    <3> QED
      BY <3>1, <3>2
  <2>4. CASE Replace(p)
    BY <1>1, <2>4, ReplaceEffect DEF SameNotes
  <2>5. CASE Affirm(p)
    BY <1>1, <2>5, AffirmEffect, AffirmedAsRead DEF AffirmsAsRead
  <2>6. UNCHANGED records \/ Note(p) \/ NoteRevision(p) \/ Replace(p) \/ Affirm(p)
    <3>1. CASE Begin(p) \/ Watch(p) \/ Skip(p) \/ Repeat(p)
      BY <1>1, <3>1, EnterEffect, SkipEffect, RepeatEffect
    <3>2. CASE Contrast(p) \/ End(p) \/ Crash(p)
      BY <1>1, <3>2, ContrastEffect, EndEffect, CrashEffect
    <3> QED
      BY <3>1, <3>2 DEF Step
  <2> QED
    BY <2>1, <2>2, <2>3, <2>4, <2>5, <2>6
<1> QED
  BY <1>2, <1>3 DEF CoveredBy

\* An event is put behind once it is a source, unless nothing comes of it.
LEMMA EventCovered ==
  ASSUME NEW p \in Processes, OnlyOne(p), Skip(p) \/ Affirm(p) \/ Note(p) \/ Replace(p),
         Derivable(ledger, Event(p))
  PROVE  CoveredBy(records', Event(p))
<1>1. Working(p) /\ TypeOK /\ InSync(ledger, records, proc[p])
  BY DEF IInv, Working, OnlyOne
<1>2. CASE Skip(p)
  <2>1. Event(p) \in Known(p).sources /\ records' = records /\ proc[p].at = "mine" /\ proc[p].events # {}
    BY <1>1, <1>2, SkipEffect
  <2>2. Known(p) # None
    BY <2>1 DEF None
  <2>3. Said(p) \in Statements
    BY <1>1, <2>1, EventFacts DEF Working
  <2>4. Known(p).id \in DOMAIN records /\ records[Known(p).id].sources = Known(p).sources
    BY <1>1, <2>1, <2>2, <2>3 DEF Known, InSync, Working, InPass
  <2> QED
    BY <2>1, <2>4 DEF CoveredBy
<1>3. CASE Affirm(p)
  <2>1. proc[p].id \in DOMAIN records' /\ Event(p) \in records'[proc[p].id].sources
    BY <1>1, <1>3, AffirmEffect, AffirmedAsRead DEF AffirmsAsRead
  <2> QED
    BY <2>1 DEF CoveredBy
<1>4. CASE Note(p)
  <2>1. PICK kind \in Kinds : records' = Noted(kind, Said(p), Event(p))
    BY <1>1, <1>4, NoteEffect
  <2>2. Said(p) \in Statements /\ Event(p) \in Nat
    BY <1>1, <1>4, NoteEffect
  <2> DEFINE table == Noted(kind, Said(p), Event(p))  n == Len(records) + 1
  <2>3. n \in DOMAIN table /\ table[n] = Fresh(kind, Said(p), Event(p))
    BY <1>1, <2>2, NotedFacts
  <2>4. Event(p) \in table[n].sources
    BY <2>3 DEF Fresh
  <2> QED
    BY <2>1, <2>3, <2>4 DEF CoveredBy
<1>5. CASE Replace(p)
  <2>1. proc[p].at = "replace"
    BY <1>1, <1>5, ReplaceEffect
  <2>2. Form[ledger[Event(p)]] = "contrast"
    BY <1>1, <2>1 DEF Working, InPass, Event
  <2> QED
    BY <2>2 DEF Derivable
<1> QED
  BY <1>2, <1>3, <1>4, <1>5

LEMMA CoveringStep ==
  ASSUME NEW p \in Processes, OnlyOne(p), Step(p)
  PROVE  Covering(ledger', records', proc'[p], mined')
<1>1. /\ Working(p) /\ UNCHANGED ledger /\ Covering(ledger, records, proc[p], mined)
  BY StepFacts DEF IInv, Working, OnlyOne
<1>2. SUFFICES ASSUME NEW e \in (proc'[p].took \ proc'[p].events) \cup mined', Derivable(ledger, e)
               PROVE  CoveredBy(records', e)
  BY <1>1 DEF Covering
<1>3. CASE e \in (proc[p].took \ proc[p].events) \cup mined
  BY <1>1, <1>2, <1>3, CoveredStays DEF Covering
<1>4. CASE e \notin (proc[p].took \ proc[p].events) \cup mined
  <2>1. CASE Begin(p) \/ Watch(p)
    BY <1>1, <1>2, <1>4, <2>1, EnterEffect DEF Working
  <2>2. CASE Skip(p) \/ Affirm(p) \/ Note(p) \/ Replace(p)
    <3>1. /\ mined' = mined /\ proc'[p].took = proc[p].took
          /\ proc'[p].events = proc[p].events \ {Event(p)}
      BY <1>1, <2>2, SkipEffect, AffirmEffect, NoteEffect, ReplaceEffect DEF Forward
    <3>2. e = Event(p)
      BY <1>2, <1>4, <3>1
    <3> QED
      BY <1>2, <2>2, <3>2, EventCovered
  <2>3. CASE Repeat(p) \/ Contrast(p)
    BY <1>1, <1>2, <1>4, <2>3, RepeatEffect, ContrastEffect DEF Moved, Left
  <2>4. CASE NoteRevision(p)
    BY <1>1, <1>2, <1>4, <2>4, NoteRevisionEffect DEF Moved
  <2>5. CASE End(p) \/ Crash(p)
    BY <1>1, <1>2, <1>4, <2>5, EndEffect, CrashEffect DEF Left
  <2> QED
    BY <2>1, <2>2, <2>3, <2>4, <2>5 DEF Step
<1> QED
  BY <1>3, <1>4

LEMMA OneCommand ==
  ASSUME NEW p \in Processes, OnlyOne(p), Command
  PROVE  OnlyOne(p)'
<1>1. /\ IInv' /\ TypeOK /\ Working(p) /\ UNCHANGED <<ledger, proc, mined, torn>>
  BY CommandKeeps, CommandFacts DEF OnlyOne, IInv, Working
<1>2. CASE \E id \in DOMAIN records, status \in {"uncertain", "outdated"} :
             records' = [records EXCEPT ![id].status = status]
  <2>1. PICK id \in DOMAIN records, status \in {"uncertain", "outdated"} :
          records' = [records EXCEPT ![id].status = status]
    BY <1>2
  <2>2. status \in VisibleStatus
    BY DEF VisibleStatus
  <2>3. SameNotes(records')
    BY <1>1, <2>1, <2>2, MarkedFacts
  <2>4. \A i \in DOMAIN records' : Earned(records'[i])
    BY <2>3, SameEarned DEF OnlyOne
  <2>5. DerivedOnce'
    BY <2>3 DEF OnlyOne, DerivedOnce, SameNotes
  <2>6. InSync(ledger, records', proc[p])
    <3>1. proc[p].at # "idle" =>
            /\ \A s \in Statements : proc[p].known[s] # None => proc[p].known[s].id \in DOMAIN records
            /\ proc[p].at = "replace" => proc[p].new \in DOMAIN records
            /\ proc[p].at = "affirm" => proc[p].id \in DOMAIN records
      BY <1>1 DEF Working, InPass
    <3>2. InSync(ledger, records, proc[p])
      BY DEF OnlyOne
    <3> QED
      BY <2>3, <3>1, <3>2 DEF InSync, SameNotes
  <2>7. Covering(ledger, records', proc[p], mined)
    BY <2>3 DEF OnlyOne, Covering, CoveredBy, SameNotes
  <2> QED
    BY <1>1, <2>4, <2>5, <2>6, <2>7 DEF OnlyOne
<1>3. CASE \E s \in Statements :
             /\ Form[s] \in {"fact", "preference"} /\ ledger # <<>>
             /\ records' = Noted("inference", s, Len(ledger))
  <2> DEFINE e == Len(ledger)  n == Len(records) + 1
  <2>1. PICK s \in Statements :
          Form[s] \in {"fact", "preference"} /\ records' = Noted("inference", s, e)
    BY <1>3
  <2>2. e \in Nat /\ "inference" \in Kinds
    BY <1>1 DEF TypeOK, Kinds
  <2> HIDE DEF e
  <2>3. /\ DOMAIN records' = DOMAIN records \cup {n} /\ n \notin DOMAIN records
        /\ records'[n].kind = "inference" /\ \A i \in DOMAIN records : records'[i] = records[i]
    <3> DEFINE table == Noted("inference", s, e)
    <3>1. /\ DOMAIN table = DOMAIN records \cup {n} /\ n \notin DOMAIN records
          /\ table[n] = Fresh("inference", s, e) /\ \A i \in DOMAIN records : table[i] = records[i]
      BY <1>1, <2>2, NotedFacts
    <3> QED
      BY <2>1, <3>1 DEF Fresh
  <2>4. \A i \in DOMAIN records' : Earned(records'[i])
    <3>1. \A i \in DOMAIN Noted("inference", s, e) : Earned(Noted("inference", s, e)[i])
      BY <1>1, <2>1, <2>2, NotedEarned DEF OnlyOne
    <3> QED
      BY <2>1, <3>1
  <2> HIDE DEF n
  <2>5. DerivedOnce'
    BY <2>3 DEF OnlyOne, DerivedOnce
  <2>6. InSync(ledger, records', proc[p])
    BY <1>1, <2>3 DEF OnlyOne, InSync, Working, InPass
  <2>7. Covering(ledger, records', proc[p], mined)
    BY <2>3 DEF OnlyOne, Covering, CoveredBy
  <2> QED
    BY <1>1, <2>4, <2>5, <2>6, <2>7 DEF OnlyOne
<1> QED
  BY <1>1, <1>2, <1>3, CommandEffect

LEMMA OneSay ==
  ASSUME NEW p \in Processes, OnlyOne(p), Say
  PROVE  OnlyOne(p)'
<1>1. /\ IInv' /\ Working(p) /\ UNCHANGED <<records, proc, mined, torn>>
      /\ DOMAIN ledger \subseteq DOMAIN ledger' /\ \A e \in DOMAIN ledger : ledger'[e] = ledger[e]
  BY SayKeeps, SayEffect DEF OnlyOne, IInv, Working
<1>2. proc[p].at \in {"affirm", "revise", "replace"} => Min(proc[p].events) \in DOMAIN ledger
  <2>1. proc[p].events # {} => Min(proc[p].events) \in DOMAIN ledger
    BY <1>1, EventFacts DEF OnlyOne, IInv
  <2> QED
    BY <2>1 DEF OnlyOne, IInv, InPass
<1>3. InSync(ledger', records, proc[p])
  BY <1>1, <1>2 DEF OnlyOne, InSync
<1>4. Covering(ledger', records, proc[p], mined)
  <2>1. proc[p].took \subseteq DOMAIN ledger /\ mined \subseteq DOMAIN ledger
    BY <1>1 DEF Working, InPass, TypeOK
  <2> QED
    BY <1>1, <2>1 DEF OnlyOne, Covering, Derivable
<1> QED
  BY <1>1, <1>3, <1>4 DEF OnlyOne, DerivedOnce

LEMMA OneInit ==
  ASSUME NEW p \in Processes, Init
  PROVE  OnlyOne(p)
<1>1. proc[p] = Idle /\ DOMAIN records = {} /\ mined = {} /\ IInv
  BY InitKeeps DEF Init
<1> QED
  BY <1>1, IdleFacts DEF OnlyOne, DerivedOnce, InSync, Covering

LEMMA OneInvariance ==
  ASSUME NEW p, Processes = {p}
  PROVE  Spec => []OnlyOne(p)
<1>1. Init => OnlyOne(p)
  BY OneInit
<1>2. OnlyOne(p) /\ [Next]_vars => OnlyOne(p)'
  <2> SUFFICES ASSUME OnlyOne(p), [Next]_vars PROVE OnlyOne(p)'
    OBVIOUS
  <2>1. CASE Say \/ Command
    BY <2>1, OneSay, OneCommand
  <2>2. CASE \E q \in Processes : Step(q)
    <3>1. p \in Processes /\ Step(p) /\ IInv
      BY <2>2 DEF OnlyOne
    <3>2. IInv' /\ \A i \in DOMAIN records' : Earned(records'[i])
      BY <3>1, StepKeeps, EarnedStep
    <3> QED
      BY <3>1, <3>2, DerivedStep, SyncStep, CoveringStep DEF OnlyOne
  <2>3. CASE UNCHANGED vars
    BY <2>3, Stutter DEF OnlyOne, vars, DerivedOnce, InSync, Covering, CoveredBy, Derivable
  <2> QED
    BY <2>1, <2>2, <2>3 DEF Next
<1> QED
  BY <1>1, <1>2, PTL DEF Spec

\* With one process, no record is surer than its events warrant, whatever is
\* mined again, aborted or lost (understanding.py:184-185, 491, telemetry.py:473).
THEOREM SureOnEvidence ==
  ASSUME NEW p, Processes = {p}
  PROVE  Spec => []ConfidenceEarned
<1>1. OnlyOne(p) => ConfidenceEarned
  <2> SUFFICES ASSUME OnlyOne(p), NEW i \in DOMAIN records
               PROVE  records[i].confidence
                        <= Min({Cap[records[i].kind],
                                Sure(records[i].kind, Form[records[i].statement])
                                  + Boost * (Cardinality(records[i].sources) - 1)})
    BY DEF ConfidenceEarned
  <2> DEFINE r == records[i]  a == Cap[r.kind]  b == Sure(r.kind, Form[r.statement])
             c == Boost * (Cardinality(r.sources) - 1)
  <2>1. r \in Records /\ r.sources \subseteq DOMAIN ledger /\ r.sources # {}
    BY DEF OnlyOne, IInv, TypeOK, Sourced
  <2>2. a \in Nat /\ b \in Nat
    BY <2>1, Levels, SureFacts DEF Records
  <2>3. Cardinality(r.sources) \in Nat \ {0}
    <3>1. Len(ledger) \in Nat /\ DOMAIN ledger = 1..Len(ledger)
      BY DEF OnlyOne, IInv, TypeOK
    <3>2. IsFiniteSet(r.sources)
      <4>1. IsFiniteSet(DOMAIN ledger)
        BY <3>1, FS_Interval
      <4> QED
        BY <2>1, <4>1, FS_Subset
    <3> QED
      BY <2>1, <3>2, FS_CardinalityType, FS_EmptySet
  <2>4. b + c \in Nat
    BY <2>2, <2>3 DEF Boost
  <2>5. r.confidence <= a /\ r.confidence <= b + c
    BY DEF OnlyOne, Earned
  <2> HIDE DEF r, a, b, c
  <2>6. Min({a, b + c}) \in {a, b + c}
    BY <2>2, <2>4, PairMin
  <2>7. r.confidence <= Min({a, b + c})
    BY <2>5, <2>6
  <2> QED
    BY <2>7 DEF r, a, b, c
<1> QED
  BY <1>1, OneInvariance, PTL

\* With one process, whatever a finished pass read is a source of some record,
\* unless nothing comes of it (understanding.py:483-503, telemetry.py:462-476).
THEOREM PassesCover ==
  ASSUME NEW p, Processes = {p}
  PROVE  Spec => []FinishedPassCovers
<1>1. OnlyOne(p) => FinishedPassCovers
  BY DEF OnlyOne, Covering, Derivable, CoveredBy, FinishedPassCovers, covered_source_ids
<1> QED
  BY <1>1, OneInvariance, PTL

\* With one process, what was said is derived once (understanding.py:490, 422, 437).
THEOREM SaidOnceDerivedOnce ==
  ASSUME NEW p, Processes = {p}
  PROVE  Spec => []DerivedOnce
<1>1. OnlyOne(p) => DerivedOnce
  BY DEF OnlyOne
<1> QED
  BY <1>1, OneInvariance, PTL
=============================================================================
