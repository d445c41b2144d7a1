---------------------------- MODULE StudyProofs ----------------------------
(* Machine-checked facts about Study, for every value of its constants and   *)
(* any number of processes.                                                  *)
EXTENDS Study, FiniteSetTheorems, WellFoundedInduction, TLAPS

-----------------------------------------------------------------------------
(* What the variables hold. *)

States == {"idle", "fetch", "record", "chunk", "propose", "affirm", "write", "contradict", "replace",
           "ask", "adopt", "candidate", "doubt", "supersede", "refresh"}
Events == [kind : {"source", "source_failed", "observation", "sighting", "correction"},
           url : Urls \cup {ApiUrl}, doc : Seq(Texts)]
Origins == Texts \cup Tags \cup {Corrected}
Claims == [origin : Origins, sources : SUBSET Nat, status : ClaimStatus, old : Nat]
Calls == [at : States, url : Urls \cup {ApiUrl}, docs : Seq(Seq(Texts)), source : Nat,
          rest : Seq(Texts), claim : Nat, new : Nat, sources : SUBSET Nat,
          tag : Tags \cup {Corrected}, novel : SUBSET Nat, asks : Nat]

TypeOK ==
  /\ ledger \in Seq(Events) /\ fresh \subseteq Nat
  /\ claims \in Seq(Claims) /\ recent \subseteq Nat
  /\ asked \subseteq Nat
  /\ proc \in [Procs -> Calls]
  /\ cut \subseteq Nat /\ torn \subseteq Nat
  /\ budget \in [calls : Nat, upsets : Nat]

\* What it means to say as much, of a text and what a claim is about.
Resembles(t, origin) ==
  origin = t \/
    /\ origin \in Texts /\ Words[t] # {} /\ Words[origin] # {}
    /\ 10 * Cardinality(Words[t] \cap Words[origin])
         >= 5 * Min({Cardinality(Words[t]), Cardinality(Words[origin])})

-----------------------------------------------------------------------------
(* Where a process can be, given a ledger and a table. *)

SourceIds(log) == IdsOfKind(log, "source")
Within == {"chunk", "propose", "contradict", "replace"}
Ingesting == Within \cup {"affirm", "write"}

\* It is taking in the source it has recorded, of which the rest is left.
Taking(r, log) ==
  /\ r.docs # <<>> /\ r.source \in SourceIds(log)
  /\ ToSet(r.rest) \subseteq ToSet(log[r.source].doc)

\* Only an ingestion has a chunk at hand, and it affirms what says as much;
\* a preference is affirmed for a sighting, which is no source.
Affirming(r, log, table) ==
  /\ r.source # 0
  /\ r.rest # <<>> => Taking(r, log) /\ Resembles(Head(r.rest), table[r.claim].origin)
  /\ r.rest = <<>> => r.source \notin SourceIds(log)

PlaceOK(r, log, table) ==
  /\ r.source \in 0..Len(log)
  /\ r.at \in Within => Taking(r, log)
  /\ r.at \in Within \ {"chunk"} => r.rest # <<>>
  /\ r.at \in {"affirm", "write"} => Affirming(r, log, table)
  /\ r.at \in {"affirm", "write", "contradict", "replace", "doubt", "supersede"} => r.claim \in DOMAIN table
  /\ r.at \in {"replace", "supersede"} => r.new \in DOMAIN table
  /\ r.at \notin Ingesting => r.source \notin SourceIds(log)
  /\ r.at \in {"adopt", "candidate"} => r.source # 0 /\ r.tag \in Tags
  /\ r.at = "record" => r.docs # <<>>
  /\ r.at = "write" => r.source \in r.sources
  /\ r.at = "refresh" => r.sources \subseteq DOMAIN table

Places == \A p \in Procs : PlaceOK(proc[p], ledger, claims)

\* The ledger and the table only grow, and no claim changes what it is about.
Grown(log, log2) ==
  /\ Len(log) <= Len(log2) /\ DOMAIN log \subseteq DOMAIN log2
  /\ \A i \in DOMAIN log : log2[i] = log[i]
Lasting(table, table2) ==
  /\ DOMAIN table \subseteq DOMAIN table2
  /\ \A i \in DOMAIN table : table2[i].origin = table[i].origin

\* What a step of one process has to do with the others and the invariant.
Others(p) == \A q \in Procs \ {p} : proc'[q] = proc[q]
Lawful(p) ==
  /\ TypeOK'
  /\ Grown(ledger, ledger') /\ Lasting(claims, claims')
  /\ Others(p) /\ PlaceOK(proc'[p], ledger', claims')

-----------------------------------------------------------------------------
(* The least and the greatest of a set. *)

LEMMA Least ==
  ASSUME NEW S \in SUBSET Nat, S # {}
  PROVE  \E m \in S : \A n \in S : m <= n
<1> DEFINE R == OpToRel(<, Nat)
<1>1. IsWellFoundedOn(R, Nat)
  BY NatLessThanWellFounded
<1>2. \A x, y \in Nat : x < y => <<x, y>> \in R
  BY DEF OpToRel
<1> HIDE DEF R
<1>3. PICK m \in S : \A y \in S : ~(<<y, m>> \in R)
  BY <1>1, WFMin
<1>4. \A n \in S : ~(n < m)
  BY <1>2, <1>3
<1>5. \A n \in S : m \in Nat /\ n \in Nat
  BY <1>3
<1> QED
  BY <1>4, <1>5

LEMMA MinFacts ==
  ASSUME NEW S \in SUBSET Nat, S # {}
  PROVE  Min(S) \in S /\ \A n \in S : Min(S) <= n
<1>1. PICK m \in S : \A n \in S : m <= n
  BY Least
<1> QED
  BY <1>1 DEF Min

LEMMA Greatest ==
  ASSUME NEW S \in SUBSET Nat, S # {}, NEW bound \in Nat, \A n \in S : n <= bound
  PROVE  \E m \in S : \A n \in S : n <= m
<1> DEFINE far == {bound - n : n \in S}
<1>1. far \in SUBSET Nat /\ far # {}
  <2>1. PICK x \in S : TRUE
    OBVIOUS
  <2>2. bound - x \in far
    BY <2>1
  <2>3. \A n \in S : bound - n \in Nat
    OBVIOUS
  <2> QED
    BY <2>2, <2>3
<1>2. PICK d \in far : \A c \in far : d <= c
  BY <1>1, Least
<1>3. PICK m \in S : d = bound - m
  BY <1>2
<1>4. \A n \in S : n <= m
  <2> SUFFICES ASSUME NEW n \in S PROVE n <= m
    OBVIOUS
  <2>1. d <= bound - n
    BY <1>2
  <2>2. n \in Nat /\ m \in Nat
    OBVIOUS
  <2> QED
    BY <1>3, <2>1, <2>2
<1> QED
  BY <1>4

LEMMA MaxIn ==
  ASSUME NEW S \in SUBSET Nat, S # {}, NEW bound \in Nat, \A n \in S : n <= bound
  PROVE  Max(S) \in S
<1>1. PICK m \in S : \A n \in S : n <= m
  BY Greatest
<1>2. \A n \in S : m >= n
  BY <1>1
<1> QED
  BY <1>2 DEF Max

\* What is first among claims is one of them: what is shared is bounded by the
\* words of the text.
LEMMA FirstIn ==
  ASSUME TypeOK, NEW t \in Texts, NEW ids \in SUBSET DOMAIN claims, ids # {}
  PROVE  First(t, ids) \in ids
<1> DEFINE most == Cardinality(Words[t])
           shares == {Shared(t, i) : i \in ids}
<1>1. IsFiniteSet(Words[t]) /\ most \in Nat
  BY StudyAssumption, FS_CardinalityType
<1>2. \A i \in ids : Shared(t, i) \in Nat /\ Shared(t, i) <= most
  <2> SUFFICES ASSUME NEW i \in ids, claims[i].origin \in Texts
               PROVE  Shared(t, i) \in Nat /\ Shared(t, i) <= most
    BY <1>1 DEF Shared
  <2> DEFINE both == Words[t] \cap Words[claims[i].origin]
  <2>1. both \subseteq Words[t]
    OBVIOUS
  <2>2. Cardinality(both) \in Nat /\ Cardinality(both) <= most
    BY <1>1, <2>1, FS_Subset, FS_CardinalityType
  <2> QED
    BY <2>2 DEF Shared
<1>3. shares \in SUBSET Nat /\ shares # {} /\ \A n \in shares : n <= most
  BY <1>2
<1>4. PICK top \in shares : \A n \in shares : n <= top
  BY <1>1, <1>3, Greatest
<1> DEFINE best == {i \in ids : Shared(t, i) = top}
<1>5. best \in SUBSET Nat /\ best # {} /\ \A i \in best : i <= Len(claims)
  BY <1>4 DEF TypeOK
<1>6. Len(claims) \in Nat
  BY DEF TypeOK
<1>7. PICK m \in best : \A n \in best : n <= m
  BY <1>5, <1>6, Greatest
<1>8. \A j \in ids \ {m} : Before(t, m, j)
  <2> SUFFICES ASSUME NEW j \in ids, j # m PROVE Before(t, m, j)
    OBVIOUS
  <2>1. Shared(t, m) = top /\ Shared(t, j) <= top /\ Shared(t, j) \in Nat /\ top \in Nat
    BY <1>2, <1>3, <1>4, <1>7
  <2>2. CASE Shared(t, j) = top
    <3>1. j \in best /\ j <= m /\ j \in Nat /\ m \in Nat
      BY <1>5, <1>7, <2>2
    <3> QED
      BY <2>1, <2>2, <3>1 DEF Before
  <2>3. CASE Shared(t, j) # top
    BY <2>1, <2>3 DEF Before
  <2> QED
    BY <2>2, <2>3
<1>9. m \in ids
  BY <1>7
<1> HIDE DEF shares, best, most
<1> QED
  BY <1>8, <1>9 DEF First

-----------------------------------------------------------------------------
(* Sequences, and what the commits of the store and the ledger do to them. *)

LEMMA RestOf ==
  ASSUME NEW S, NEW s \in Seq(S)
  PROVE  /\ s = <<>> => ToSet(s) = {}
         /\ s # <<>> => /\ Head(s) \in S /\ Tail(s) \in Seq(S) /\ Head(s) \in ToSet(s)
                        /\ ToSet(s) = {Head(s)} \cup ToSet(Tail(s))
<1>1. s = <<>> => ToSet(s) = {}
  BY DEF ToSet
<1>2. ASSUME s # <<>>
      PROVE  /\ Head(s) \in S /\ Tail(s) \in Seq(S) /\ Head(s) \in ToSet(s)
             /\ ToSet(s) = {Head(s)} \cup ToSet(Tail(s))
  <2>1. /\ Len(s) \in Nat /\ Len(s) > 0 /\ DOMAIN s = 1..Len(s)
        /\ Head(s) = s[1] /\ Head(s) \in S /\ Tail(s) \in Seq(S)
        /\ Len(Tail(s)) = Len(s) - 1 /\ DOMAIN Tail(s) = 1..(Len(s) - 1)
        /\ \A i \in 1..(Len(s) - 1) : Tail(s)[i] = s[i + 1]
    BY <1>2
  <2>2. \A i \in 1..Len(s) : i = 1 \/ (i - 1 \in 1..(Len(s) - 1) /\ s[i] = Tail(s)[i - 1])
    BY <2>1
  <2>3. \A i \in 1..(Len(s) - 1) : i + 1 \in 1..Len(s)
    BY <2>1
  <2>4. 1 \in DOMAIN s
    BY <2>1
  <2>5. ToSet(s) \subseteq {Head(s)} \cup ToSet(Tail(s))
    <3> SUFFICES ASSUME NEW i \in 1..Len(s) PROVE s[i] = Head(s) \/ s[i] \in ToSet(Tail(s))
      BY <2>1 DEF ToSet
    <3>1. CASE i = 1
      BY <2>1, <3>1
    <3>2. CASE i - 1 \in DOMAIN Tail(s) /\ s[i] = Tail(s)[i - 1]
      BY <3>2 DEF ToSet
    <3> QED
      BY <2>1, <2>2, <3>1, <3>2
  <2>6. ToSet(Tail(s)) \subseteq ToSet(s)
    BY <2>1, <2>3 DEF ToSet
  <2> QED
    BY <2>1, <2>4, <2>5, <2>6 DEF ToSet
<1> QED
  BY <1>1, <1>2

LEMMA AppendFacts ==
  ASSUME NEW S, NEW s \in Seq(S), NEW e \in S
  PROVE  /\ Append(s, e) \in Seq(S) /\ Len(Append(s, e)) = Len(s) + 1 /\ Len(s) \in Nat
         /\ DOMAIN s = 1..Len(s)
         /\ DOMAIN Append(s, e) = DOMAIN s \cup {Len(s) + 1} /\ Len(s) + 1 \notin DOMAIN s
         /\ \A i \in DOMAIN s : Append(s, e)[i] = s[i]
         /\ Append(s, e)[Len(s) + 1] = e
OBVIOUS

\* The ledger, when an event is appended.
LEMMA Recorded ==
  ASSUME TypeOK, NEW e \in Events, ledger' = Append(ledger, e)
  PROVE  /\ ledger' \in Seq(Events) /\ Grown(ledger, ledger')
         /\ Len(ledger') = Len(ledger) + 1 /\ Len(ledger) \in Nat
         /\ DOMAIN ledger' = DOMAIN ledger \cup {Len(ledger) + 1}
         /\ ledger'[Len(ledger) + 1] = e /\ Len(ledger) + 1 \notin DOMAIN ledger
<1>1. ledger \in Seq(Events)
  BY DEF TypeOK
<1>2. /\ Append(ledger, e) \in Seq(Events) /\ Len(Append(ledger, e)) = Len(ledger) + 1
      /\ Len(ledger) \in Nat
      /\ DOMAIN Append(ledger, e) = DOMAIN ledger \cup {Len(ledger) + 1}
      /\ Len(ledger) + 1 \notin DOMAIN ledger
      /\ \A i \in DOMAIN ledger : Append(ledger, e)[i] = ledger[i]
      /\ Append(ledger, e)[Len(ledger) + 1] = e
  BY <1>1, AppendFacts
<1> QED
  BY <1>2 DEF Grown

LEMMA Stays ==
  ASSUME TypeOK
  PROVE  Grown(ledger, ledger) /\ Lasting(claims, claims)
<1>1. Len(ledger) \in Nat
  BY DEF TypeOK
<1> QED
  BY <1>1 DEF Grown, Lasting

\* Another claim; the sources of one written back; nothing but statuses and
\* what replaces what, and no claim made active.
Added(table, table2, origin, source) ==
  /\ DOMAIN table2 = DOMAIN table \cup {Len(table) + 1} /\ Len(table) + 1 \notin DOMAIN table
  /\ \A i \in DOMAIN table : table2[i] = table[i]
  /\ table2[Len(table) + 1].origin = origin /\ table2[Len(table) + 1].sources = {source}
Rewritten(table, table2, id, sources) ==
  /\ DOMAIN table2 = DOMAIN table
  /\ \A i \in DOMAIN table :
       /\ table2[i].origin = table[i].origin /\ table2[i].status = table[i].status
       /\ table2[i].sources = IF i = id THEN sources ELSE table[i].sources
Marked(table, table2) ==
  /\ DOMAIN table2 = DOMAIN table
  /\ \A i \in DOMAIN table :
       /\ table2[i].origin = table[i].origin /\ table2[i].sources = table[i].sources
       /\ table2[i].status = table[i].status \/ table2[i].status # "active"

LEMMA ProposeFacts ==
  ASSUME TypeOK, NEW origin \in Origins, NEW source \in Nat, claims' = Propose(claims, origin, {source})
  PROVE  /\ claims' \in Seq(Claims) /\ Lasting(claims, claims')
         /\ Added(claims, claims', origin, source) /\ Len(claims) + 1 \in Nat
<1> DEFINE c == [origin |-> origin, sources |-> {source}, status |-> "active", old |-> 0]
<1>1. claims \in Seq(Claims)
  BY DEF TypeOK
<1>2. c \in Claims
  BY DEF Claims, ClaimStatus
<1>3. c.origin = origin /\ c.sources = {source}
  OBVIOUS
<1> HIDE DEF c
<1>4. claims' = Append(claims, c)
  BY DEF Propose, c
<1>5. /\ Append(claims, c) \in Seq(Claims) /\ Len(claims) \in Nat
      /\ DOMAIN Append(claims, c) = DOMAIN claims \cup {Len(claims) + 1}
      /\ Len(claims) + 1 \notin DOMAIN claims
      /\ \A i \in DOMAIN claims : Append(claims, c)[i] = claims[i]
      /\ Append(claims, c)[Len(claims) + 1] = c
  BY <1>1, <1>2, AppendFacts
<1>6. Lasting(claims, claims')
  BY <1>4, <1>5 DEF Lasting
<1>7. Added(claims, claims', origin, source)
  BY <1>3, <1>4, <1>5 DEF Added
<1>8. claims' \in Seq(Claims)
  BY <1>4, <1>5, Zenon
<1>9. Len(claims) + 1 \in Nat
  BY <1>5
<1> QED
  BY <1>6, <1>7, <1>8, <1>9

\* A claim may be replaced at its place.
LEMMA PutFacts ==
  ASSUME NEW S, NEW s \in Seq(S), NEW i, NEW e \in S
  PROVE  /\ [s EXCEPT ![i] = e] \in Seq(S) /\ DOMAIN [s EXCEPT ![i] = e] = DOMAIN s
         /\ \A j \in DOMAIN s : [s EXCEPT ![i] = e][j] = IF j = i THEN e ELSE s[j]
<1> DEFINE u == [s EXCEPT ![i] = e]
<1>1. Len(s) \in Nat /\ DOMAIN s = 1..Len(s) /\ \A j \in 1..Len(s) : s[j] \in S
  OBVIOUS
<1>2. u = [j \in 1..Len(s) |-> IF j = i THEN e ELSE s[j]]
  BY <1>1
<1>3. \A j \in 1..Len(s) : u[j] = IF j = i THEN e ELSE s[j]
  BY <1>2
<1>4. \A j \in 1..Len(s) : u[j] \in S
  BY <1>1, <1>3
<1>5. DOMAIN u = 1..Len(s)
  BY <1>2
<1>6. u = [j \in 1..Len(s) |-> u[j]]
  BY <1>2
<1> HIDE DEF u
<1>7. u \in Seq(S)
  BY <1>1, <1>4, <1>6
<1> QED
  BY <1>1, <1>3, <1>5, <1>7 DEF u

LEMMA WriteSourcesFacts ==
  ASSUME TypeOK, NEW id \in DOMAIN claims, NEW srcs \in SUBSET Nat,
         claims' = WriteSources(claims, id, srcs)
  PROVE  claims' \in Seq(Claims) /\ Lasting(claims, claims') /\ Rewritten(claims, claims', id, srcs)
<1>1. claims \in Seq(Claims) /\ claims[id] \in Claims
  BY DEF TypeOK
<1> DEFINE c == [claims[id] EXCEPT !.sources = srcs]
<1>2. c \in Claims /\ c.origin = claims[id].origin /\ c.status = claims[id].status /\ c.sources = srcs
  BY <1>1 DEF Claims
<1>3. claims' = [claims EXCEPT ![id] = c]
  BY DEF WriteSources
<1> HIDE DEF c
<1>4. /\ [claims EXCEPT ![id] = c] \in Seq(Claims) /\ DOMAIN [claims EXCEPT ![id] = c] = DOMAIN claims
      /\ \A j \in DOMAIN claims : [claims EXCEPT ![id] = c][j] = IF j = id THEN c ELSE claims[j]
  BY <1>1, <1>2, PutFacts
<1> QED
  BY <1>2, <1>3, <1>4 DEF Lasting, Rewritten

LEMMA WriteStatusFacts ==
  ASSUME NEW table \in Seq(Claims), NEW id \in DOMAIN table, NEW to \in ClaimStatus, to # "active"
  PROVE  /\ WriteStatus(table, id, to) \in Seq(Claims)
         /\ Marked(table, WriteStatus(table, id, to))
         /\ WriteStatus(table, id, to)[id].status = to
<1>1. table[id] \in Claims
  OBVIOUS
<1> DEFINE c == [table[id] EXCEPT !.status = to]
<1>2. c \in Claims /\ c.origin = table[id].origin /\ c.status = to /\ c.sources = table[id].sources
  BY <1>1 DEF Claims
<1>3. WriteStatus(table, id, to) = [table EXCEPT ![id] = c]
  BY DEF WriteStatus
<1> HIDE DEF c
<1>4. /\ [table EXCEPT ![id] = c] \in Seq(Claims) /\ DOMAIN [table EXCEPT ![id] = c] = DOMAIN table
      /\ \A j \in DOMAIN table : [table EXCEPT ![id] = c][j] = IF j = id THEN c ELSE table[j]
  BY <1>1, <1>2, PutFacts
<1> QED
  BY <1>2, <1>3, <1>4 DEF Marked

LEMMA ReplaceFacts ==
  ASSUME TypeOK, NEW id \in DOMAIN claims, NEW to \in Replacing, NEW new \in DOMAIN claims,
         claims' = Replace(claims, id, to, new)
  PROVE  claims' \in Seq(Claims) /\ Lasting(claims, claims') /\ Marked(claims, claims')
<1> DEFINE table == WriteStatus(claims, id, to)
<1>1. claims \in Seq(Claims) /\ to \in ClaimStatus /\ to # "active" /\ id \in Nat
  BY DEF TypeOK, Replacing, ClaimStatus
<1>2. table \in Seq(Claims) /\ Marked(claims, table)
  BY <1>1, WriteStatusFacts
<1>3. new \in DOMAIN table /\ table[new] \in Claims
  BY <1>2 DEF Marked
<1>4. claims' = [table EXCEPT ![new].old = id]
  BY DEF Replace
<1> HIDE DEF table
<1> DEFINE c == [table[new] EXCEPT !.old = id]
<1>5. c \in Claims /\ c.origin = table[new].origin /\ c.status = table[new].status
      /\ c.sources = table[new].sources
  BY <1>1, <1>3 DEF Claims
<1>6. claims' = [table EXCEPT ![new] = c]
  BY <1>4
<1> HIDE DEF c
<1>7. /\ [table EXCEPT ![new] = c] \in Seq(Claims) /\ DOMAIN [table EXCEPT ![new] = c] = DOMAIN table
      /\ \A j \in DOMAIN table : [table EXCEPT ![new] = c][j] = IF j = new THEN c ELSE table[j]
  BY <1>2, <1>5, PutFacts
<1>8. DOMAIN table = DOMAIN claims
  BY <1>2 DEF Marked
<1>9. \A j \in DOMAIN claims : /\ claims'[j].origin = table[j].origin /\ claims'[j].status = table[j].status
                               /\ claims'[j].sources = table[j].sources
  BY <1>5, <1>6, <1>7, <1>8
<1>10. Marked(claims, claims')
  BY <1>2, <1>6, <1>7, <1>8, <1>9 DEF Marked
<1> QED
  BY <1>6, <1>7, <1>10 DEF Lasting, Marked

-----------------------------------------------------------------------------
(* Places. *)

\* Where others are stays such a place while the ledger and the table grow.
LEMMA PlaceStable ==
  ASSUME NEW r \in Calls, NEW log \in Seq(Events), NEW log2 \in Seq(Events),
         NEW table \in Seq(Claims), NEW table2 \in Seq(Claims),
         Grown(log, log2), Lasting(table, table2), PlaceOK(r, log, table)
  PROVE  PlaceOK(r, log2, table2)
<1>1. /\ Len(log) \in Nat /\ Len(log2) \in Nat /\ Len(log) <= Len(log2) /\ r.source \in Nat
      /\ r.source <= Len(log) /\ DOMAIN log = 1..Len(log)
  BY DEF Grown, PlaceOK, Calls
<1>2. r.source \in 0..Len(log2)
  BY <1>1
<1>3. r.source = 0 \/ r.source \in DOMAIN log
  BY <1>1
<1>4. 0 \notin DOMAIN log /\ 0 \notin DOMAIN log2
  OBVIOUS
<1>5. r.source \in SourceIds(log) <=> r.source \in SourceIds(log2)
  BY <1>3, <1>4 DEF SourceIds, IdsOfKind, Grown
<1>6. Taking(r, log) => Taking(r, log2)
  BY <1>5 DEF Taking, Grown, SourceIds, IdsOfKind
<1>7. ASSUME r.claim \in DOMAIN table, Affirming(r, log, table) PROVE Affirming(r, log2, table2)
  BY <1>5, <1>6, <1>7 DEF Affirming, Lasting
<1>8. r.claim \in DOMAIN table => r.claim \in DOMAIN table2
  BY DEF Lasting
<1>9. r.new \in DOMAIN table => r.new \in DOMAIN table2
  BY DEF Lasting
<1>10. r.sources \subseteq DOMAIN table => r.sources \subseteq DOMAIN table2
  BY DEF Lasting
<1> QED
  BY <1>2, <1>5, <1>6, <1>7, <1>8, <1>9, <1>10 DEF PlaceOK

Waiting == {"idle", "fetch", "record", "ask", "refresh"}

LEMMA WaitingPlace ==
  ASSUME NEW r, NEW log \in Seq(Events), NEW table, r.at \in Waiting, r.source = 0,
         r.at = "record" => r.docs # <<>>, r.at = "refresh" => r.sources \subseteq DOMAIN table
  PROVE  PlaceOK(r, log, table)
<1>1. 0 \in 0..Len(log) /\ 0 \notin SourceIds(log)
  BY DEF SourceIds, IdsOfKind
<1> QED
  BY <1>1 DEF PlaceOK, Waiting, Ingesting, Within

LEMMA IdleFacts ==
  /\ Idle \in Calls /\ Idle.at = "idle" /\ Idle.source = 0 /\ Idle.docs = <<>> /\ Idle.rest = <<>>
  /\ Idle.sources = {} /\ Idle.url = ApiUrl /\ Idle.claim = 0 /\ Idle.new = 0
  /\ Idle.tag = Corrected /\ Idle.novel = {} /\ Idle.asks = 0
<1>1. <<>> \in Seq(Texts) /\ <<>> \in Seq(Seq(Texts))
  OBVIOUS
<1> QED
  BY <1>1 DEF Idle, Calls, States

\* The variables that a place does not depend on.
RestTyped ==
  /\ fresh' \subseteq Nat /\ recent' \subseteq Nat /\ asked' \subseteq Nat
  /\ cut' \subseteq Nat /\ torn' \subseteq Nat /\ budget' \in [calls : Nat, upsets : Nat]

LEMMA Going ==
  ASSUME TypeOK, NEW p \in Procs, NEW to \in Calls, Go(p, to), RestTyped,
         ledger' \in Seq(Events), claims' \in Seq(Claims),
         Grown(ledger, ledger'), Lasting(claims, claims'), PlaceOK(to, ledger', claims')
  PROVE  Lawful(p) /\ proc'[p] = to
<1>1. proc' \in [Procs -> Calls] /\ proc'[p] = to /\ Others(p)
  BY DEF TypeOK, Go, Others
<1> QED
  BY <1>1 DEF Lawful, RestTyped, TypeOK

\* The steps that leave the process waiting, with no source.
LEMMA GoingToWait ==
  ASSUME TypeOK, NEW p \in Procs, NEW to \in Calls, Go(p, to), RestTyped,
         ledger' \in Seq(Events), claims' \in Seq(Claims),
         Grown(ledger, ledger'), Lasting(claims, claims'),
         to.at \in Waiting, to.source = 0,
         to.at = "record" => to.docs # <<>>, to.at = "refresh" => to.sources \subseteq DOMAIN claims'
  PROVE  Lawful(p) /\ proc'[p] = to
<1>1. PlaceOK(to, ledger', claims')
  BY WaitingPlace
<1> QED
  BY <1>1, Going

LEMMA CallFacts ==
  ASSUME TypeOK, NEW p \in Procs, Call(p)
  PROVE  proc[p].at = "idle" /\ budget' \in [calls : Nat, upsets : Nat]
<1>1. budget.calls \in Nat /\ budget.upsets \in Nat /\ budget.calls > 0
  BY DEF TypeOK, Call
<1>2. budget.calls - 1 \in Nat
  BY <1>1
<1> QED
  BY <1>1, <1>2 DEF Call, TypeOK

LEMMA PlainFacts ==
  ASSUME NEW kind \in {"source_failed", "observation", "sighting", "correction"}
  PROVE  Plain(kind) \in Events /\ Plain(kind).kind = kind /\ kind # "source"
<1>1. <<>> \in Seq(Texts)
  OBVIOUS
<1> QED
  BY <1>1 DEF Plain, Events

\* A plain event is no source.
LEMMA PlainRecorded ==
  ASSUME TypeOK, NEW kind \in {"source_failed", "observation", "sighting", "correction"},
         ledger' = Append(ledger, Plain(kind))
  PROVE  /\ ledger' \in Seq(Events) /\ Grown(ledger, ledger')
         /\ SourceIds(ledger') = SourceIds(ledger)
         /\ Len(ledger') = Len(ledger) + 1 /\ Len(ledger) \in Nat
         /\ Len(ledger) + 1 \in DOMAIN ledger' /\ Len(ledger) + 1 \notin SourceIds(ledger')
<1>1. Plain(kind) \in Events /\ Plain(kind).kind # "source"
  BY PlainFacts
<1>2. /\ ledger' \in Seq(Events) /\ Grown(ledger, ledger')
      /\ Len(ledger') = Len(ledger) + 1 /\ Len(ledger) \in Nat
      /\ DOMAIN ledger' = DOMAIN ledger \cup {Len(ledger) + 1}
      /\ ledger'[Len(ledger) + 1] = Plain(kind) /\ Len(ledger) + 1 \notin DOMAIN ledger
  BY <1>1, Recorded
<1>3. SourceIds(ledger') = SourceIds(ledger)
  BY <1>1, <1>2 DEF SourceIds, IdsOfKind, Grown
<1>4. Len(ledger) + 1 \notin SourceIds(ledger')
  BY <1>1, <1>2 DEF SourceIds, IdsOfKind
<1> QED
  BY <1>2, <1>3, <1>4

-----------------------------------------------------------------------------
(* One lemma for each action, or for a few that differ in little.           *)

\* No source is begun, taken in or given up.
Quietly(p) ==
  /\ SourceIds(ledger') = SourceIds(ledger) /\ cut' = cut /\ torn' = torn
  /\ proc[p].at \notin Ingesting

LEMMA HereFacts ==
  ASSUME TypeOK, NEW p \in Procs
  PROVE  /\ proc[p] \in Calls /\ ledger \in Seq(Events) /\ claims \in Seq(Claims)
         /\ fresh \subseteq Nat /\ recent \subseteq Nat /\ asked \subseteq Nat
         /\ cut \subseteq Nat /\ torn \subseteq Nat /\ budget \in [calls : Nat, upsets : Nat]
BY DEF TypeOK

LEMMA NovelFacts ==
  ASSUME TypeOK, NEW p \in Procs, Novel(p) # {}
  PROVE  Min(Novel(p)) \in Nat
<1>1. Novel(p) \in SUBSET Nat
  BY HereFacts DEF Novel, Calls
<1> QED
  BY <1>1, MinFacts

\* The calls that wait, and their starts.
LEMMA WaitingMove ==
  ASSUME TypeOK, Places, NEW p \in Procs,
         \/ StartAcquire(p) \/ FetchFails(p) \/ StartQuery(p) \/ QueryFails(p)
         \/ Ask(p) \/ EndAsk(p) \/ StartRefresh(p)
  PROVE  /\ Lawful(p) /\ Quietly(p) /\ claims' = claims
         /\ proc[p].at \in Waiting /\ proc'[p].at \in Waiting
<1>1. /\ proc[p] \in Calls /\ ledger \in Seq(Events) /\ claims \in Seq(Claims)
      /\ PlaceOK(proc[p], ledger, claims)
  BY HereFacts DEF Places
<1>2. Grown(ledger, ledger) /\ Lasting(claims, claims)
  BY Stays
<1> DEFINE Goal == /\ Lawful(p) /\ Quietly(p) /\ claims' = claims
                   /\ proc[p].at \in Waiting /\ proc'[p].at \in Waiting
<1>3. ASSUME proc' = proc, UNCHANGED <<ledger, fresh, store, asked, history>>, proc[p].at = "idle",
             budget' \in [calls : Nat, upsets : Nat]
      PROVE  Goal
  <2>1. TypeOK' /\ Others(p) /\ PlaceOK(proc'[p], ledger', claims')
    BY <1>1, <1>3 DEF TypeOK, Others, store, history
  <2>2. Grown(ledger, ledger') /\ Lasting(claims, claims')
    BY <1>2, <1>3 DEF store
  <2> QED
    BY <1>3, <2>1, <2>2 DEF Lawful, Quietly, Waiting, Ingesting, Within, store, history
<1>4. ASSUME NEW to \in Calls, Go(p, to), UNCHANGED <<fresh, store, cut, torn>>, proc[p].at \in Waiting,
             budget' \in [calls : Nat, upsets : Nat], asked' \subseteq Nat,
             ledger' \in Seq(Events), Grown(ledger, ledger'), SourceIds(ledger') = SourceIds(ledger),
             to.at \in Waiting, to.source = 0,
             to.at = "record" => to.docs # <<>>, to.at = "refresh" => to.sources \subseteq DOMAIN claims
      PROVE  Goal
  <2>1. RestTyped /\ claims' = claims /\ claims' \in Seq(Claims) /\ Lasting(claims, claims')
    BY <1>1, <1>2, <1>4, HereFacts DEF RestTyped, store
  <2>2. Lawful(p) /\ proc'[p] = to
    BY <1>4, <2>1, GoingToWait
  <2> QED
    BY <1>4, <2>1, <2>2 DEF Quietly, Waiting, Ingesting, Within
<1>5. ASSUME StartAcquire(p) PROVE Goal
  <2>1. proc[p].at = "idle" /\ budget' \in [calls : Nat, upsets : Nat] /\ proc[p].at \in Waiting
    BY <1>5, CallFacts DEF StartAcquire, Waiting
  <2>2. PICK url \in Urls : IF Cached(url) # {} THEN UNCHANGED proc
                            ELSE Go(p, [Idle EXCEPT !.at = "fetch", !.url = url])
    BY <1>5 DEF StartAcquire
  <2>3. UNCHANGED <<ledger, fresh, store, asked, history>>
    BY <1>5 DEF StartAcquire
  <2> DEFINE to == [Idle EXCEPT !.at = "fetch", !.url = url]
  <2>4. to \in Calls /\ to.at = "fetch" /\ to.source = 0
    BY IdleFacts DEF Calls, States
  <2> HIDE DEF to
  <2>5. CASE Go(p, to)
    BY <1>1, <1>2, <1>4, <2>1, <2>3, <2>4, <2>5, HereFacts DEF Waiting, store, history
  <2> QED
    BY <1>3, <2>1, <2>2, <2>3, <2>5 DEF to
<1>6. ASSUME FetchFails(p) PROVE Goal
  <2>1. proc[p].at \in Waiting /\ ledger' = Append(ledger, Plain("source_failed")) /\ Go(p, Idle)
        /\ UNCHANGED <<fresh, store, asked, history, budget>>
    BY <1>6 DEF FetchFails, Waiting
  <2>2. ledger' \in Seq(Events) /\ Grown(ledger, ledger') /\ SourceIds(ledger') = SourceIds(ledger)
    BY <2>1, PlainRecorded
  <2> QED
    BY <1>1, <1>4, <2>1, <2>2, HereFacts, IdleFacts DEF Waiting, store, history
<1>7. ASSUME StartQuery(p) PROVE Goal
  <2>1. proc[p].at = "idle" /\ budget' \in [calls : Nat, upsets : Nat] /\ proc[p].at \in Waiting
    BY <1>7, CallFacts DEF StartQuery, Waiting
  <2>2. PICK docs \in Replies : IF docs = <<>> THEN UNCHANGED proc
                                ELSE Go(p, [Idle EXCEPT !.at = "record", !.docs = docs])
    BY <1>7 DEF StartQuery
  <2>3. UNCHANGED <<ledger, fresh, store, asked, history>>
    BY <1>7 DEF StartQuery
  <2> DEFINE to == [Idle EXCEPT !.at = "record", !.docs = docs]
  <2>4. to \in Calls /\ to.at = "record" /\ to.source = 0 /\ to.docs = docs
    <3>1. docs \in Seq(Seq(Texts))
      BY StudyAssumption
    <3> QED
      BY <3>1, IdleFacts DEF Calls, States
  <2> HIDE DEF to
  <2>5. CASE docs # <<>> /\ Go(p, to)
    BY <1>1, <1>2, <1>4, <2>1, <2>3, <2>4, <2>5, HereFacts DEF Waiting, store, history
  <2> QED
    BY <1>3, <2>1, <2>2, <2>3, <2>5 DEF to
<1>11. ASSUME QueryFails(p) PROVE Goal
  <2>1. /\ proc[p].at = "idle" /\ budget' \in [calls : Nat, upsets : Nat] /\ proc' = proc
        /\ ledger' = Append(ledger, Plain("source_failed")) /\ UNCHANGED <<fresh, store, asked, history>>
    BY <1>11, CallFacts DEF QueryFails
  <2>2. ledger' \in Seq(Events) /\ Grown(ledger, ledger') /\ SourceIds(ledger') = SourceIds(ledger)
    BY <2>1, PlainRecorded
  <2>3. TypeOK' /\ Others(p)
    BY <2>1, <2>2 DEF TypeOK, Others, store, history
  <2>4. PlaceOK(proc'[p], ledger', claims')
    <3>1. claims' = claims /\ proc'[p] = proc[p]
      BY <2>1 DEF store
    <3> QED
      BY <1>1, <1>2, <2>1, <2>2, <3>1, PlaceStable
  <2> QED
    BY <1>2, <2>1, <2>2, <2>3, <2>4 DEF Lawful, Quietly, Waiting, Ingesting, Within, store, history
<1>8. ASSUME Ask(p) PROVE Goal
  <2> DEFINE word == Min(Novel(p))
             to == [proc[p] EXCEPT !.asks = @ + 1, !.novel = @ \ {word}]
  <2>1. /\ proc[p].at = "ask" /\ Novel(p) # {} /\ asked' = asked \cup {word} /\ Go(p, to)
        /\ ledger' = Append(ledger, Plain("observation"))
        /\ UNCHANGED <<fresh, store, history, budget>>
    BY <1>8 DEF Ask
  <2>2. word \in Nat
    BY <2>1, NovelFacts
  <2>3. to \in Calls /\ to.at = "ask" /\ to.source = proc[p].source
    <3>1. proc[p].asks + 1 \in Nat /\ proc[p].novel \ {word} \in SUBSET Nat
      BY <1>1 DEF Calls
    <3> HIDE DEF word
    <3> QED
      BY <1>1, <2>1, <3>1 DEF Calls
  <2>4. ledger' \in Seq(Events) /\ Grown(ledger, ledger') /\ SourceIds(ledger') = SourceIds(ledger)
    BY <2>1, PlainRecorded
  <2> HIDE DEF word, to
  <2>5. PlaceOK(to, ledger', claims')
    <3>1. PlaceOK(to, ledger, claims)
      BY <1>1, <2>1, <2>3 DEF PlaceOK, Within, Ingesting
    <3>2. claims' = claims
      BY <2>1 DEF store
    <3> QED
      BY <1>1, <1>2, <2>3, <2>4, <3>1, <3>2, PlaceStable
  <2>6. RestTyped /\ claims' = claims
    BY <2>1, <2>2, HereFacts DEF RestTyped, store, history
  <2>7. Lawful(p) /\ proc'[p] = to
    BY <1>1, <1>2, <2>1, <2>3, <2>4, <2>5, <2>6, Going
  <2> QED
    BY <2>1, <2>3, <2>4, <2>6, <2>7 DEF Quietly, Waiting, Ingesting, Within, history
<1>9. ASSUME EndAsk(p) PROVE Goal
  <2>1. proc[p].at \in Waiting /\ Go(p, Idle) /\ UNCHANGED <<ledger, fresh, store, asked, history, budget>>
    BY <1>9 DEF EndAsk, Waiting
  <2> QED
    BY <1>1, <1>2, <1>4, <2>1, HereFacts, IdleFacts DEF Waiting, store, history
<1>10. ASSUME StartRefresh(p) PROVE Goal
  <2> DEFINE old == {i \in DOMAIN claims : /\ claims[i].status = "active" /\ claims[i].origin \in Texts
                                           /\ i \notin recent}
             to == [Idle EXCEPT !.at = "refresh", !.sources = old]
  <2>1. proc[p].at = "idle" /\ budget' \in [calls : Nat, upsets : Nat] /\ proc[p].at \in Waiting
    BY <1>10, CallFacts DEF StartRefresh, Waiting
  <2>2. Go(p, to) /\ UNCHANGED <<ledger, fresh, store, asked, history>>
    BY <1>10 DEF StartRefresh
  <2>3. old \subseteq DOMAIN claims /\ old \subseteq Nat
    BY <1>1
  <2> HIDE DEF old
  <2>4. to \in Calls /\ to.at = "refresh" /\ to.source = 0 /\ to.sources = old
    BY <2>3, IdleFacts DEF Calls, States
  <2> HIDE DEF to
  <2> QED
    BY <1>1, <1>2, <1>4, <2>1, <2>2, <2>3, <2>4, HereFacts DEF Waiting, store, history
<1> QED
  BY <1>5, <1>6, <1>7, <1>8, <1>9, <1>10, <1>11

LEMMA MarkedSelf ==
  ASSUME NEW table
  PROVE  Marked(table, table)
BY DEF Marked

LEMMA MarkedKept ==
  ASSUME NEW table, NEW table2, Marked(table, table2)
  PROVE  Lasting(table, table2)
BY DEF Marked, Lasting

\* A status that is written.
LEMMA Writing ==
  ASSUME TypeOK, NEW i \in DOMAIN claims, NEW to \in ClaimStatus, to # "active", Write(i, to)
  PROVE  /\ claims' \in Seq(Claims) /\ Marked(claims, claims') /\ recent' \subseteq Nat
         /\ claims'[i].status # "active"
<1>1. claims \in Seq(Claims) /\ i \in Nat /\ recent \subseteq Nat
  BY DEF TypeOK
<1>2. claims' = WriteStatus(claims, i, to) /\ recent' = recent \cup {i}
  BY DEF Write
<1>3. /\ WriteStatus(claims, i, to) \in Seq(Claims) /\ Marked(claims, WriteStatus(claims, i, to))
      /\ WriteStatus(claims, i, to)[i].status = to
  BY <1>1, WriteStatusFacts
<1>4. recent' \subseteq Nat
  BY <1>1, <1>2
<1> QED
  BY <1>2, <1>3, <1>4, Zenon

LEMMA SweepMove ==
  ASSUME TypeOK, Places, NEW p \in Procs, Refresh(p)
  PROVE  /\ Lawful(p) /\ Quietly(p) /\ Marked(claims, claims')
         /\ proc[p].at \in Waiting /\ proc'[p].at \in Waiting
<1>1. /\ proc[p] \in Calls /\ ledger \in Seq(Events) /\ claims \in Seq(Claims)
      /\ PlaceOK(proc[p], ledger, claims) /\ proc[p].at = "refresh"
  BY HereFacts DEF Places, Refresh
<1>2. Grown(ledger, ledger) /\ Lasting(claims, claims) /\ Marked(claims, claims)
  BY Stays, MarkedSelf
<1>3. UNCHANGED <<ledger, fresh, asked, history, budget>> /\ proc[p].at \in Waiting
  BY <1>1 DEF Refresh, Waiting
<1>4. proc[p].at \notin Ingesting /\ proc[p].at # "idle"
  BY <1>1 DEF Ingesting, Within
<1> DEFINE Goal == /\ Lawful(p) /\ Quietly(p) /\ Marked(claims, claims')
                   /\ proc[p].at \in Waiting /\ proc'[p].at \in Waiting
<1>5. ASSUME Go(p, Idle), UNCHANGED store PROVE Goal
  <2>1. RestTyped /\ claims' = claims
    BY <1>3, <1>5, HereFacts DEF RestTyped, store, history
  <2>2. Lawful(p) /\ proc'[p] = Idle
    BY <1>1, <1>2, <1>3, <1>5, <2>1, IdleFacts, GoingToWait DEF Waiting
  <2> QED
    BY <1>2, <1>3, <1>4, <2>1, <2>2, IdleFacts DEF Quietly, Waiting, history
<1>6. ASSUME proc[p].sources # {},
             LET i == Max(proc[p].sources)
             IN  Write(i, "outdated") /\ Go(p, [proc[p] EXCEPT !.sources = @ \ {i}])
      PROVE  Goal
  <2> DEFINE i == Max(proc[p].sources)
             to == [proc[p] EXCEPT !.sources = @ \ {i}]
  <2>1. proc[p].sources \subseteq DOMAIN claims /\ DOMAIN claims = 1..Len(claims) /\ Len(claims) \in Nat
    BY <1>1 DEF PlaceOK
  <2>2. i \in DOMAIN claims
    <3>1. /\ proc[p].sources \in SUBSET Nat /\ \A n \in proc[p].sources : n <= Len(claims)
      BY <2>1
    <3>2. i \in proc[p].sources
      BY <1>6, <2>1, <3>1, MaxIn
    <3> QED
      BY <2>1, <3>2
  <2>3. /\ to \in Calls /\ to.at = "refresh" /\ to.source = proc[p].source
        /\ to.sources \subseteq DOMAIN claims
    <3> HIDE DEF i
    <3> QED
      BY <1>1, <2>1 DEF Calls
  <2>4. Write(i, "outdated") /\ Go(p, to)
    BY <1>6
  <2> HIDE DEF i, to
  <2>5. claims' \in Seq(Claims) /\ Marked(claims, claims') /\ recent' \subseteq Nat
    BY <2>2, <2>4, Writing DEF ClaimStatus
  <2>6. RestTyped /\ Lasting(claims, claims')
    BY <1>3, <2>5, HereFacts, MarkedKept DEF RestTyped, history
  <2>7. PlaceOK(to, ledger, claims)
    BY <1>1, <2>3 DEF PlaceOK, Within, Ingesting
  <2>8. PlaceOK(to, ledger', claims')
    BY <1>1, <1>2, <1>3, <2>3, <2>5, <2>6, <2>7, PlaceStable
  <2>9. Lawful(p) /\ proc'[p] = to
    BY <1>1, <1>2, <1>3, <2>3, <2>4, <2>5, <2>6, <2>8, Going
  <2> QED
    BY <1>3, <1>4, <2>3, <2>5, <2>9 DEF Quietly, Waiting, history
<1> QED
  BY <1>5, <1>6 DEF Refresh

LEMMA SupersedeMove ==
  ASSUME TypeOK, Places, NEW p \in Procs, Supersede(p)
  PROVE  /\ Lawful(p) /\ Quietly(p) /\ Marked(claims, claims')
         /\ proc[p].at = "supersede" /\ proc'[p].at \in Waiting
<1>1. /\ proc[p] \in Calls /\ ledger \in Seq(Events) /\ claims \in Seq(Claims)
      /\ PlaceOK(proc[p], ledger, claims) /\ proc[p].at = "supersede"
  BY HereFacts DEF Places, Supersede
<1>2. proc[p].claim \in DOMAIN claims /\ proc[p].new \in DOMAIN claims /\ DOMAIN claims \subseteq Nat
  BY <1>1 DEF PlaceOK
<1>3. claims' \in Seq(Claims) /\ Lasting(claims, claims') /\ Marked(claims, claims')
  BY <1>2, ReplaceFacts DEF Supersede, Replacing
<1>4. Go(p, Idle) /\ RestTyped /\ Grown(ledger, ledger') /\ ledger' = ledger /\ cut' = cut /\ torn' = torn
  BY <1>2, HereFacts, Stays DEF Supersede, RestTyped, history
<1>5. Lawful(p) /\ proc'[p] = Idle
  BY <1>1, <1>3, <1>4, IdleFacts, GoingToWait DEF Waiting
<1> QED
  BY <1>1, <1>3, <1>4, <1>5, IdleFacts DEF Quietly, Waiting, Ingesting, Within

LEMMA DoubtMove ==
  ASSUME TypeOK, Places, NEW p \in Procs, Doubt(p)
  PROVE  /\ Lawful(p) /\ Quietly(p) /\ Marked(claims, claims') /\ claims'[proc[p].claim].status # "active"
         /\ proc[p].at = "doubt" /\ proc'[p].at \in Waiting
<1>1. /\ proc[p] \in Calls /\ ledger \in Seq(Events) /\ claims \in Seq(Claims)
      /\ PlaceOK(proc[p], ledger, claims) /\ proc[p].at = "doubt"
  BY HereFacts DEF Places, Doubt
<1>2. proc[p].claim \in DOMAIN claims
  BY <1>1 DEF PlaceOK
<1>3. /\ claims' \in Seq(Claims) /\ Marked(claims, claims') /\ recent' \subseteq Nat
      /\ claims'[proc[p].claim].status # "active"
  <2>1. CASE Write(proc[p].claim, "uncertain")
    BY <1>2, <2>1, Writing DEF ClaimStatus
  <2>2. CASE claims[proc[p].claim].status # "active" /\ UNCHANGED store
    BY <1>1, <2>2, HereFacts, MarkedSelf DEF store
  <2> QED
    BY <2>1, <2>2 DEF Doubt, MayBecome
<1>4. Lasting(claims, claims')
  BY <1>3, MarkedKept
<1>5. Go(p, Idle) /\ RestTyped /\ Grown(ledger, ledger') /\ ledger' = ledger /\ cut' = cut /\ torn' = torn
  BY <1>3, HereFacts, Stays DEF Doubt, RestTyped, history
<1>6. Lawful(p) /\ proc'[p] = Idle
  BY <1>1, <1>3, <1>4, <1>5, IdleFacts, GoingToWait DEF Waiting
<1> QED
  BY <1>1, <1>3, <1>5, <1>6, IdleFacts DEF Quietly, Waiting, Ingesting, Within

LEMMA Inserting ==
  ASSUME TypeOK, NEW origin \in Origins, NEW source \in Nat, Insert(origin, source)
  PROVE  /\ claims' \in Seq(Claims) /\ Lasting(claims, claims') /\ recent' \subseteq Nat
         /\ Added(claims, claims', origin, source)
         /\ Len(claims) + 1 \in Nat /\ Len(claims) + 1 \in DOMAIN claims'
<1>1. claims' = Propose(claims, origin, {source}) /\ recent' = recent \cup {Len(claims) + 1}
  BY DEF Insert
<1>2. /\ claims' \in Seq(Claims) /\ Lasting(claims, claims')
      /\ Added(claims, claims', origin, source) /\ Len(claims) + 1 \in Nat
  BY <1>1, ProposeFacts
<1>3. recent' \subseteq Nat
  BY <1>1, <1>2 DEF TypeOK
<1>4. Len(claims) + 1 \in DOMAIN claims'
  BY <1>2 DEF Added
<1> QED
  BY <1>2, <1>3, <1>4

\* A claim for what is on the ledger, and is no source.
Noted(table, table2, origin, source, log) ==
  Added(table, table2, origin, source) /\ source \in DOMAIN log /\ source \notin SourceIds(log)

LEMMA TagPlace ==
  ASSUME TypeOK, Places, NEW p \in Procs, proc[p].at \in {"adopt", "candidate"}
  PROVE  /\ proc[p].source \in DOMAIN ledger /\ proc[p].source \notin SourceIds(ledger)
         /\ proc[p].source \in Nat /\ proc[p].tag \in Tags
<1>1. PlaceOK(proc[p], ledger, claims) /\ proc[p] \in Calls /\ ledger \in Seq(Events)
  BY HereFacts DEF Places
<1>2. proc[p].source \in 0..Len(ledger) /\ proc[p].source # 0 /\ proc[p].tag \in Tags
  BY <1>1 DEF PlaceOK
<1>3. proc[p].source \notin SourceIds(ledger)
  BY <1>1 DEF PlaceOK, Ingesting, Within
<1> QED
  BY <1>1, <1>2, <1>3

LEMMA AdoptMove ==
  ASSUME TypeOK, Places, NEW p \in Procs, Adopt(p)
  PROVE  /\ Lawful(p) /\ Quietly(p)
         /\ Noted(claims, claims', proc[p].tag, proc[p].source, ledger') /\ proc[p].tag \in Tags
         /\ proc[p].at = "adopt" /\ proc'[p].at \in Waiting
<1>1. proc[p].at = "adopt" /\ Insert(proc[p].tag, proc[p].source) /\ Go(p, Idle)
      /\ UNCHANGED <<ledger, fresh, asked, history, budget>>
  BY DEF Adopt
<1>2. /\ proc[p].source \in DOMAIN ledger /\ proc[p].source \notin SourceIds(ledger)
      /\ proc[p].source \in Nat /\ proc[p].tag \in Tags /\ proc[p].tag \in Origins
  BY <1>1, TagPlace DEF Origins
<1>3. /\ claims' \in Seq(Claims) /\ Lasting(claims, claims') /\ recent' \subseteq Nat
      /\ Added(claims, claims', proc[p].tag, proc[p].source)
  BY <1>1, <1>2, Inserting
<1>4. RestTyped /\ ledger' \in Seq(Events) /\ Grown(ledger, ledger')
  BY <1>1, <1>3, HereFacts, Stays DEF RestTyped, history
<1>5. Lawful(p) /\ proc'[p] = Idle
  BY <1>1, <1>3, <1>4, IdleFacts, GoingToWait DEF Waiting
<1> QED
  BY <1>1, <1>2, <1>3, <1>5, IdleFacts DEF Quietly, Waiting, Ingesting, Within, history, Noted

LEMMA CandidateMove ==
  ASSUME TypeOK, Places, NEW p \in Procs, ProposeCandidate(p)
  PROVE  /\ Lawful(p) /\ Quietly(p)
         /\ Noted(claims, claims', proc[p].tag, proc[p].source, ledger') /\ proc[p].tag \in Tags
         /\ proc[p].at = "candidate" /\ proc'[p].at = "doubt" /\ proc'[p].claim = Len(claims) + 1
<1> DEFINE to == [proc[p] EXCEPT !.at = "doubt", !.claim = Len(claims) + 1]
<1>1. proc[p].at = "candidate" /\ Insert(proc[p].tag, proc[p].source) /\ Go(p, to)
      /\ UNCHANGED <<ledger, fresh, asked, history, budget>>
  BY DEF ProposeCandidate
<1>2. /\ proc[p].source \in DOMAIN ledger /\ proc[p].source \notin SourceIds(ledger)
      /\ proc[p].source \in Nat /\ proc[p].tag \in Tags /\ proc[p].tag \in Origins
  BY <1>1, TagPlace DEF Origins
<1>3. /\ claims' \in Seq(Claims) /\ Lasting(claims, claims') /\ recent' \subseteq Nat
      /\ Added(claims, claims', proc[p].tag, proc[p].source)
      /\ Len(claims) + 1 \in Nat /\ Len(claims) + 1 \in DOMAIN claims'
  BY <1>1, <1>2, Inserting
<1>4. RestTyped /\ ledger' \in Seq(Events) /\ Grown(ledger, ledger')
  BY <1>1, <1>3, HereFacts, Stays DEF RestTyped, history
<1>5. /\ to \in Calls /\ to.at = "doubt" /\ to.claim = Len(claims) + 1 /\ to.source = proc[p].source
  <2>1. proc[p] \in Calls
    BY HereFacts
  <2>2. "doubt" \in States
    BY DEF States
  <2> QED BY <1>3, <2>1, <2>2 DEF Calls
<1> HIDE DEF to
<1>6. PlaceOK(to, ledger', claims')
  <2>1. PlaceOK(proc[p], ledger, claims)
    BY DEF Places
  <2> QED
    BY <1>1, <1>2, <1>3, <1>5, <2>1 DEF PlaceOK, Within, Ingesting
<1>7. Lawful(p) /\ proc'[p] = to
  BY <1>1, <1>3, <1>4, <1>5, <1>6, Going
<1> QED
  BY <1>1, <1>2, <1>3, <1>5, <1>7 DEF Quietly, Ingesting, Within, history, Noted

LEMMA CorrectMove ==
  ASSUME TypeOK, Places, NEW p \in Procs, Correct(p)
  PROVE  /\ Lawful(p) /\ Quietly(p)
         /\ \E s \in Nat : Noted(claims, claims', Corrected, s, ledger')
         /\ proc[p].at = "idle" /\ proc'[p].at = "supersede"
<1> DEFINE s == Len(ledger) + 1
<1>1. PICK i \in DOMAIN claims :
        /\ Insert(Corrected, s)
        /\ Go(p, [Idle EXCEPT !.at = "supersede", !.source = s, !.claim = i, !.new = Len(claims) + 1])
  BY DEF Correct
<1>2. Call(p) /\ ledger' = Append(ledger, Plain("correction")) /\ UNCHANGED <<fresh, asked, history>>
  BY DEF Correct
<1> DEFINE to == [Idle EXCEPT !.at = "supersede", !.source = s, !.claim = i, !.new = Len(claims) + 1]
<1>3. proc[p].at = "idle" /\ budget' \in [calls : Nat, upsets : Nat]
  BY <1>2, CallFacts
<1>4. /\ ledger' \in Seq(Events) /\ Grown(ledger, ledger') /\ SourceIds(ledger') = SourceIds(ledger)
      /\ s \in DOMAIN ledger' /\ s \notin SourceIds(ledger') /\ s \in Nat /\ Len(ledger') = s
  BY <1>2, PlainRecorded
<1>5. Corrected \in Origins
  BY DEF Origins
<1> HIDE DEF s
<1>6. /\ claims' \in Seq(Claims) /\ Lasting(claims, claims') /\ recent' \subseteq Nat
      /\ Added(claims, claims', Corrected, s)
      /\ Len(claims) + 1 \in Nat /\ Len(claims) + 1 \in DOMAIN claims'
  BY <1>1, <1>4, <1>5, Inserting
<1>7. i \in Nat /\ i \in DOMAIN claims'
  BY <1>6, HereFacts DEF Lasting
<1>8. /\ to \in Calls /\ to.at = "supersede" /\ to.source = s /\ to.claim = i /\ to.new = Len(claims) + 1
  BY <1>4, <1>6, <1>7, IdleFacts DEF Calls, States
<1>9. Go(p, to)
  BY <1>1
<1> HIDE DEF to
<1>10. RestTyped
  BY <1>2, <1>3, <1>6, HereFacts DEF RestTyped, history
<1>11. PlaceOK(to, ledger', claims')
  BY <1>4, <1>6, <1>7, <1>8 DEF PlaceOK, Within, Ingesting
<1>12. Lawful(p) /\ proc'[p] = to
  BY <1>4, <1>6, <1>8, <1>9, <1>10, <1>11, Going
<1> QED
  BY <1>2, <1>3, <1>4, <1>6, <1>8, <1>12 DEF Quietly, Ingesting, Within, history, Noted

LEMMA SightMove ==
  ASSUME TypeOK, Places, NEW p \in Procs, Sight(p)
  PROVE  /\ Lawful(p) /\ Quietly(p) /\ claims' = claims
         /\ proc[p].at = "idle" /\ proc'[p].at \in {"candidate", "adopt", "affirm"}
         /\ proc'[p].at = "affirm" => proc'[p].rest = <<>>
         /\ proc'[p].source \notin SourceIds(ledger')
         /\ proc'[p].at = "adopt" => Enough(proc'[p].tag) /\ proc'[p].tag \in Tags
<1> DEFINE s == Len(ledger) + 1
<1>1. PICK tag \in Tags :
        Go(p, IF ~Enough(tag) THEN [[Idle EXCEPT !.source = s, !.tag = tag] EXCEPT !.at = "candidate"]
              ELSE IF Adopted(tag) = {} THEN [[Idle EXCEPT !.source = s, !.tag = tag] EXCEPT !.at = "adopt"]
              ELSE [[Idle EXCEPT !.source = s, !.tag = tag] EXCEPT !.at = "affirm", !.claim = Max(Adopted(tag))])
  BY DEF Sight
<1>2. Call(p) /\ ledger' = Append(ledger, Plain("sighting")) /\ UNCHANGED <<fresh, store, asked, history>>
  BY DEF Sight
<1>3. proc[p].at = "idle" /\ budget' \in [calls : Nat, upsets : Nat]
  BY <1>2, CallFacts
<1>4. /\ ledger' \in Seq(Events) /\ Grown(ledger, ledger') /\ SourceIds(ledger') = SourceIds(ledger)
      /\ s \in DOMAIN ledger' /\ s \notin SourceIds(ledger') /\ s \in Nat /\ Len(ledger') = s
  BY <1>2, PlainRecorded
<1>5. ASSUME Adopted(tag) # {} PROVE Max(Adopted(tag)) \in DOMAIN claims
  <2>1. Adopted(tag) \subseteq DOMAIN claims /\ DOMAIN claims = 1..Len(claims) /\ Len(claims) \in Nat
    BY HereFacts DEF Adopted, Sightings, VisibleClaims
  <2>2. Adopted(tag) \in SUBSET Nat /\ \A n \in Adopted(tag) : n <= Len(claims)
    BY <2>1
  <2> QED
    BY <1>5, <2>1, <2>2, MaxIn
<1> HIDE DEF s
<1>6. PICK to \in Calls : /\ Go(p, to) /\ to.source = s /\ to.tag = tag /\ to.rest = <<>>
                          /\ \/ to.at = "candidate"
                             \/ to.at = "adopt" /\ Enough(tag)
                             \/ to.at = "affirm" /\ to.claim \in DOMAIN claims
  <2> DEFINE here == [Idle EXCEPT !.source = s, !.tag = tag]
  <2>1. /\ here \in Calls /\ here.source = s /\ here.tag = tag /\ here.rest = <<>>
    BY <1>4, IdleFacts DEF Calls
  <2> HIDE DEF here
  <2>2. CASE ~Enough(tag)
    <3> DEFINE to == [here EXCEPT !.at = "candidate"]
    <3>1. to \in Calls /\ to.source = s /\ to.tag = tag /\ to.rest = <<>> /\ to.at = "candidate"
      BY <2>1 DEF Calls, States
    <3>2. Go(p, to)
      BY <1>1, <2>2 DEF here
    <3> QED
      BY <3>1, <3>2
  <2>3. CASE Enough(tag) /\ Adopted(tag) = {}
    <3> DEFINE to == [here EXCEPT !.at = "adopt"]
    <3>1. to \in Calls /\ to.source = s /\ to.tag = tag /\ to.rest = <<>> /\ to.at = "adopt"
      BY <2>1 DEF Calls, States
    <3>2. Go(p, to)
      BY <1>1, <2>3 DEF here
    <3> QED
      BY <2>3, <3>1, <3>2
  <2>4. CASE Enough(tag) /\ Adopted(tag) # {}
    <3> DEFINE last == Max(Adopted(tag))
               to == [here EXCEPT !.at = "affirm", !.claim = last]
    <3>1. last \in DOMAIN claims /\ last \in Nat
      BY <1>5, <2>4, HereFacts
    <3>2. Go(p, to)
      BY <1>1, <2>4 DEF here
    <3> HIDE DEF last
    <3>3. /\ to \in Calls /\ to.source = s /\ to.tag = tag /\ to.rest = <<>> /\ to.at = "affirm"
          /\ to.claim = last
      BY <2>1, <3>1 DEF Calls, States
    <3> QED
      BY <3>1, <3>2, <3>3
  <2> QED
    BY <2>2, <2>3, <2>4
<1>7. /\ RestTyped /\ claims' = claims /\ claims' \in Seq(Claims) /\ Lasting(claims, claims')
      /\ cut' = cut /\ torn' = torn
  BY <1>2, <1>3, HereFacts, Stays DEF RestTyped, store, history
<1>8. PlaceOK(to, ledger', claims')
  <2>1. s # 0 /\ s \in 0..Len(ledger')
    BY <1>4
  <2> QED
    BY <1>4, <1>6, <1>7, <2>1 DEF PlaceOK, Within, Ingesting, Affirming
<1>9. Lawful(p) /\ proc'[p] = to
  BY <1>4, <1>6, <1>7, <1>8, Going
<1> QED
  BY <1>3, <1>4, <1>6, <1>7, <1>9 DEF Quietly, Ingesting, Within

\* An ingestion goes on within its source, or is given up.
Onward(p) ==
  /\ ledger' = ledger /\ torn' = torn
  /\ proc'[p].source = proc[p].source /\ proc'[p].docs = proc[p].docs
  /\ proc'[p].rest = proc[p].rest
GivenUp(p) ==
  /\ ledger' = ledger /\ torn' = torn /\ claims' = claims
  /\ cut' = cut \cup {proc[p].source} /\ proc'[p].at = "idle" /\ proc'[p].source = 0

LEMMA RefusedMove ==
  ASSUME TypeOK, Places, NEW p \in Procs, proc[p].at \in Ingesting, Refused(p),
         UNCHANGED <<ledger, fresh, asked, torn, budget>>
  PROVE  Lawful(p) /\ GivenUp(p)
<1>1. Go(p, Idle) /\ cut' = cut \cup {proc[p].source} /\ UNCHANGED store
  BY DEF Refused
<1>2. proc[p].source \in Nat
  BY HereFacts DEF Calls
<1>3. RestTyped /\ claims' = claims
  BY <1>1, <1>2, HereFacts DEF RestTyped, store
<1>4. Lawful(p) /\ proc'[p] = Idle
  BY <1>1, <1>3, HereFacts, Stays, IdleFacts, GoingToWait DEF Waiting
<1> QED
  BY <1>1, <1>3, <1>4, IdleFacts DEF GivenUp

\* A place at a chunk.
LEMMA ChunkPlace ==
  ASSUME TypeOK, Places, NEW p \in Procs, proc[p].at \in Ingesting, proc[p].rest # <<>>
  PROVE  /\ Taking(proc[p], ledger) /\ proc[p].source \in SourceIds(ledger)
         /\ proc[p].source \in Nat /\ proc[p].source \in DOMAIN ledger
         /\ proc[p] \in Calls /\ Chunk(p) \in Texts
         /\ Chunk(p) = Head(proc[p].rest) /\ Chunk(p) \in ToSet(ledger[proc[p].source].doc)
         /\ Tail(proc[p].rest) \in Seq(Texts)
         /\ ToSet(proc[p].rest) = {Chunk(p)} \cup ToSet(Tail(proc[p].rest))
<1>1. PlaceOK(proc[p], ledger, claims) /\ proc[p] \in Calls
  BY HereFacts DEF Places
<1>2. Taking(proc[p], ledger)
  BY <1>1 DEF PlaceOK, Affirming, Ingesting
<1>3. proc[p].rest \in Seq(Texts) /\ proc[p].source \in Nat
  BY <1>1 DEF Calls
<1>4. /\ Head(proc[p].rest) \in Texts /\ Tail(proc[p].rest) \in Seq(Texts)
      /\ Head(proc[p].rest) \in ToSet(proc[p].rest)
      /\ ToSet(proc[p].rest) = {Head(proc[p].rest)} \cup ToSet(Tail(proc[p].rest))
  BY <1>3, RestOf
<1> QED
  BY <1>1, <1>2, <1>3, <1>4 DEF Taking, Chunk, SourceIds, IdsOfKind

\* The step to the next chunk.
Advanced(p) ==
  /\ ledger' = ledger /\ torn' = torn
  /\ proc'[p].at = "chunk" /\ proc'[p].source = proc[p].source /\ proc'[p].rest = Tail(proc[p].rest)

LEMMA Advancing ==
  ASSUME TypeOK, Places, NEW p \in Procs, proc[p].at \in Ingesting, proc[p].rest # <<>>,
         Go(p, NextChunk(p)), ledger' = ledger, torn' = torn, RestTyped,
         claims' \in Seq(Claims), Lasting(claims, claims')
  PROVE  Lawful(p) /\ Advanced(p)
<1> DEFINE to == NextChunk(p)
<1>1. /\ proc[p] \in Calls /\ Taking(proc[p], ledger) /\ Tail(proc[p].rest) \in Seq(Texts)
      /\ ToSet(Tail(proc[p].rest)) \subseteq ToSet(proc[p].rest)
  BY ChunkPlace
<1>2. /\ to \in Calls /\ to.at = "chunk" /\ to.source = proc[p].source /\ to.docs = proc[p].docs
      /\ to.rest = Tail(proc[p].rest)
  BY <1>1 DEF NextChunk, Calls, States
<1>3. Go(p, to)
  OBVIOUS
<1> HIDE DEF to
<1>4. Taking(to, ledger)
  BY <1>1, <1>2 DEF Taking
<1>5. PlaceOK(to, ledger', claims')
  <2>1. proc[p].source \in 0..Len(ledger)
    BY DEF Places, PlaceOK
  <2> QED
    BY <1>2, <1>4, <2>1 DEF PlaceOK, Within, Ingesting
<1>6. ledger' \in Seq(Events) /\ Grown(ledger, ledger')
  BY HereFacts, Stays
<1>7. Lawful(p) /\ proc'[p] = to
  BY <1>2, <1>3, <1>5, <1>6, Going
<1> QED
  BY <1>2, <1>7 DEF Advanced

LEMMA RecordMove ==
  ASSUME TypeOK, Places, NEW p \in Procs, RecordSource(p)
  PROVE  /\ Lawful(p) /\ claims' = claims /\ cut' = cut /\ torn' = torn
         /\ proc[p].at \in Waiting /\ proc'[p].at = "chunk"
         /\ proc'[p].source \in SourceIds(ledger')
         /\ SourceIds(ledger') = SourceIds(ledger) \cup {proc'[p].source}
         /\ proc'[p].rest = ledger'[proc'[p].source].doc
<1> DEFINE s == Len(ledger) + 1
<1>1. PICK docs \in Arriving(p) :
        /\ ledger' = Append(ledger, Source(proc[p].url, Head(docs)))
        /\ Go(p, [proc[p] EXCEPT !.at = "chunk", !.docs = docs, !.source = s, !.rest = Head(docs)])
  BY DEF RecordSource
<1>2. /\ proc[p].at \in {"fetch", "record"} /\ fresh' = fresh \cup {s}
      /\ UNCHANGED <<store, asked, history, budget>>
  BY DEF RecordSource
<1>3. proc[p] \in Calls /\ PlaceOK(proc[p], ledger, claims)
  BY HereFacts DEF Places
<1>4. docs \in Seq(Seq(Texts)) /\ docs # <<>>
  <2>1. CASE proc[p].at = "fetch"
    <3>1. PICK doc \in Documents : docs = <<doc>>
      BY <2>1 DEF Arriving
    <3>2. doc \in Seq(Texts)
      BY StudyAssumption
    <3> QED
      BY <3>1, <3>2
  <2>2. CASE proc[p].at = "record"
    BY <1>3, <2>2 DEF Arriving, PlaceOK, Calls
  <2> QED
    BY <1>2, <2>1, <2>2
<1>5. Head(docs) \in Seq(Texts)
  BY <1>4, RestOf
<1> DEFINE e == Source(proc[p].url, Head(docs))
<1>6. e \in Events /\ e.kind = "source" /\ e.doc = Head(docs)
  BY <1>3, <1>5 DEF Source, Events, Calls
<1>7. ledger' = Append(ledger, e)
  BY <1>1
<1> HIDE DEF e
<1>8. /\ ledger' \in Seq(Events) /\ Grown(ledger, ledger') /\ Len(ledger') = s /\ s \in Nat /\ s # 0
      /\ DOMAIN ledger' = DOMAIN ledger \cup {s} /\ ledger'[s] = e /\ s \notin DOMAIN ledger
  <2>1. Len(ledger) \in Nat /\ Len(ledger') = s
    BY <1>6, <1>7, Recorded
  <2> QED
    BY <1>6, <1>7, <2>1, Recorded
<1> DEFINE to == [proc[p] EXCEPT !.at = "chunk", !.docs = docs, !.source = s, !.rest = Head(docs)]
<1>9. Go(p, to)
  BY <1>1
<1> HIDE DEF s
<1>10. /\ to \in Calls /\ to.at = "chunk" /\ to.docs = docs /\ to.source = s /\ to.rest = Head(docs)
  BY <1>3, <1>4, <1>5, <1>8 DEF Calls, States
<1> HIDE DEF to
<1>11. SourceIds(ledger') = SourceIds(ledger) \cup {s}
  BY <1>6, <1>8 DEF SourceIds, IdsOfKind, Grown
<1>12. /\ RestTyped /\ claims' = claims /\ claims' \in Seq(Claims) /\ Lasting(claims, claims')
       /\ cut' = cut /\ torn' = torn
  BY <1>2, <1>8, HereFacts, Stays DEF RestTyped, store, history
<1>13. to.rest = ledger'[s].doc
  BY <1>6, <1>8, <1>10
<1>14. PlaceOK(to, ledger', claims')
  <2>1. Taking(to, ledger')
    BY <1>4, <1>10, <1>11, <1>13 DEF Taking
  <2>2. s \in 0..Len(ledger')
    BY <1>8
  <2> QED
    BY <1>10, <2>1, <2>2 DEF PlaceOK, Within, Ingesting
<1>15. Lawful(p) /\ proc'[p] = to
  BY <1>8, <1>9, <1>10, <1>12, <1>14, Going
<1> QED
  BY <1>2, <1>10, <1>11, <1>12, <1>13, <1>15 DEF Waiting

\* What a text is said to be corroborated or contradicted by.
LEMMA EvidenceFacts ==
  ASSUME TypeOK, NEW t \in Texts
  PROVE  /\ Contradicted(t) # {} => First(t, Contradicted(t)) \in DOMAIN claims
         /\ Corroborated(t) # {} => /\ First(t, Corroborated(t)) \in DOMAIN claims
                                    /\ Resembles(t, claims[First(t, Corroborated(t))].origin)
<1>1. Recalled(t) \subseteq DOMAIN claims
  BY DEF Recalled, VisibleClaims
<1>2. Contradicted(t) \subseteq DOMAIN claims /\ Corroborated(t) \subseteq DOMAIN claims
  BY <1>1 DEF Contradicted, Corroborated
<1>3. \A i \in Corroborated(t) : Resembles(t, claims[i].origin)
  <2> SUFFICES ASSUME NEW i \in Corroborated(t) PROVE Resembles(t, claims[i].origin)
    OBVIOUS
  <2>1. Overlaps(t, i, 5)
    BY DEF Corroborated
  <2> QED
    BY <2>1 DEF Overlaps, Shared, Resembles
<1>4. Contradicted(t) # {} => First(t, Contradicted(t)) \in Contradicted(t)
  BY <1>2, FirstIn
<1>5. Corroborated(t) # {} => First(t, Corroborated(t)) \in Corroborated(t)
  BY <1>2, FirstIn
<1> QED
  BY <1>2, <1>3, <1>4, <1>5

LEMMA EvaluateMove ==
  ASSUME TypeOK, Places, NEW p \in Procs, Evaluate(p)
  PROVE  /\ Lawful(p) /\ Onward(p) /\ claims' = claims /\ cut' = cut
         /\ proc[p].at = "chunk" /\ proc[p].rest # <<>>
         /\ proc'[p].at \in {"contradict", "affirm", "propose"}
<1> DEFINE t == Chunk(p)
<1>1. /\ proc[p].at = "chunk" /\ proc[p].rest # <<>>
      /\ UNCHANGED <<ledger, fresh, store, asked, history, budget>>
  BY DEF Evaluate, AtChunk
<1>2. Go(p, IF Contradicted(t) # {} /\ Credible(t)
              THEN [proc[p] EXCEPT !.at = "contradict", !.claim = First(t, Contradicted(t))]
            ELSE IF Corroborated(t) # {}
              THEN [proc[p] EXCEPT !.at = "affirm", !.claim = First(t, Corroborated(t))]
            ELSE [proc[p] EXCEPT !.at = "propose"])
  BY DEF Evaluate
<1>3. /\ proc[p] \in Calls /\ Taking(proc[p], ledger) /\ t \in Texts /\ t = Head(proc[p].rest)
      /\ proc[p].source \in SourceIds(ledger) /\ proc[p].source # 0
  BY <1>1, ChunkPlace, HereFacts DEF Ingesting, Within, SourceIds, IdsOfKind
<1> HIDE DEF t
<1>4. PICK to \in Calls :
        /\ Go(p, to) /\ to.source = proc[p].source /\ to.docs = proc[p].docs /\ to.rest = proc[p].rest
        /\ \/ to.at = "contradict" /\ to.claim \in DOMAIN claims
           \/ to.at = "affirm" /\ to.claim \in DOMAIN claims /\ Resembles(t, claims[to.claim].origin)
           \/ to.at = "propose"
  <2>1. CASE Contradicted(t) # {} /\ Credible(t)
    <3> DEFINE i == First(t, Contradicted(t))
               to == [proc[p] EXCEPT !.at = "contradict", !.claim = i]
    <3>1. i \in DOMAIN claims /\ i \in Nat
      BY <1>3, <2>1, EvidenceFacts, HereFacts
    <3>2. Go(p, to)
      BY <1>2, <2>1
    <3> HIDE DEF i
    <3>3. /\ to \in Calls /\ to.source = proc[p].source /\ to.docs = proc[p].docs
          /\ to.rest = proc[p].rest /\ to.at = "contradict" /\ to.claim = i
      BY <1>3, <3>1 DEF Calls, States
    <3> QED
      BY <3>1, <3>2, <3>3
  <2>2. CASE ~(Contradicted(t) # {} /\ Credible(t)) /\ Corroborated(t) # {}
    <3> DEFINE i == First(t, Corroborated(t))
               to == [proc[p] EXCEPT !.at = "affirm", !.claim = i]
    <3>1. i \in DOMAIN claims /\ i \in Nat /\ Resembles(t, claims[i].origin)
      BY <1>3, <2>2, EvidenceFacts, HereFacts
    <3>2. Go(p, to)
      BY <1>2, <2>2
    <3> HIDE DEF i
    <3>3. /\ to \in Calls /\ to.source = proc[p].source /\ to.docs = proc[p].docs
          /\ to.rest = proc[p].rest /\ to.at = "affirm" /\ to.claim = i
      BY <1>3, <3>1 DEF Calls, States
    <3> QED
      BY <3>1, <3>2, <3>3
  <2>3. CASE ~(Contradicted(t) # {} /\ Credible(t)) /\ Corroborated(t) = {}
    <3> DEFINE to == [proc[p] EXCEPT !.at = "propose"]
    <3>1. Go(p, to)
      BY <1>2, <2>3
    <3>2. /\ to \in Calls /\ to.source = proc[p].source /\ to.docs = proc[p].docs
          /\ to.rest = proc[p].rest /\ to.at = "propose"
      BY <1>3 DEF Calls, States
    <3> QED
      BY <3>1, <3>2
  <2> QED
    BY <2>1, <2>2, <2>3
<1>5. /\ RestTyped /\ ledger' = ledger /\ claims' = claims /\ cut' = cut /\ torn' = torn
      /\ ledger' \in Seq(Events) /\ claims' \in Seq(Claims)
      /\ Grown(ledger, ledger') /\ Lasting(claims, claims')
  BY <1>1, HereFacts, Stays DEF RestTyped, store, history
<1>6. Taking(to, ledger)
  BY <1>3, <1>4 DEF Taking
<1>7. to.at = "affirm" => Affirming(to, ledger, claims)
  BY <1>1, <1>3, <1>4, <1>6 DEF Affirming
<1>8. PlaceOK(to, ledger', claims')
  <2>1. proc[p].source \in 0..Len(ledger)
    BY DEF Places, PlaceOK
  <2> QED
    BY <1>1, <1>4, <1>5, <1>6, <1>7, <2>1 DEF PlaceOK, Within, Ingesting
<1>9. Lawful(p) /\ proc'[p] = to
  BY <1>4, <1>5, <1>8, Going
<1> QED
  BY <1>1, <1>4, <1>5, <1>9 DEF Onward

LEMMA ProposeMove ==
  ASSUME TypeOK, Places, NEW p \in Procs, ProposeClaim(p)
  PROVE  /\ Lawful(p) /\ Advanced(p) /\ cut' = cut
         /\ proc[p].at = "propose" /\ proc[p].rest # <<>>
         /\ Added(claims, claims', Chunk(p), proc[p].source)
<1>1. /\ proc[p].at = "propose" /\ Insert(Chunk(p), proc[p].source) /\ Go(p, NextChunk(p))
      /\ UNCHANGED <<ledger, fresh, asked, history, budget>>
  BY DEF ProposeClaim
<1>2. proc[p].rest # <<>> /\ proc[p].at \in Ingesting
  BY <1>1 DEF Places, PlaceOK, Within, Ingesting
<1>3. Chunk(p) \in Origins /\ proc[p].source \in Nat
  BY <1>2, ChunkPlace DEF Origins
<1>4. /\ claims' \in Seq(Claims) /\ Lasting(claims, claims') /\ recent' \subseteq Nat
      /\ Added(claims, claims', Chunk(p), proc[p].source)
  BY <1>1, <1>3, Inserting
<1>5. RestTyped /\ ledger' = ledger /\ cut' = cut /\ torn' = torn
  BY <1>1, <1>4, HereFacts DEF RestTyped, history
<1> QED
  BY <1>1, <1>2, <1>4, <1>5, Advancing

LEMMA ReadMove ==
  ASSUME TypeOK, Places, NEW p \in Procs, ReadAffirmed(p)
  PROVE  /\ Lawful(p) /\ claims' = claims
         /\ proc[p].at = "affirm" /\ proc[p].claim \in DOMAIN claims
         /\ \/ GivenUp(p)
            \/ /\ Onward(p) /\ cut' = cut /\ proc'[p].at = "write" /\ proc'[p].claim = proc[p].claim
               /\ proc'[p].sources = claims[proc[p].claim].sources \cup {proc[p].source}
<1> DEFINE i == proc[p].claim
           to == [proc[p] EXCEPT !.at = "write", !.sources = claims[i].sources \cup {proc[p].source}]
<1>1. /\ proc[p].at = "affirm" /\ UNCHANGED <<ledger, fresh, asked, torn, budget>>
      /\ \/ Refused(p)
         \/ Go(p, to) /\ UNCHANGED <<cut, store>>
  BY DEF ReadAffirmed
<1>2. proc[p] \in Calls /\ PlaceOK(proc[p], ledger, claims) /\ proc[p].source \in Nat
  BY HereFacts DEF Places, Calls
<1>3. i \in DOMAIN claims /\ claims[i] \in Claims
  BY <1>1, <1>2, HereFacts DEF PlaceOK
<1>4. CASE Refused(p)
  BY <1>1, <1>3, <1>4, RefusedMove DEF Ingesting, GivenUp
<1>5. ASSUME Go(p, to), UNCHANGED <<cut, store>>
      PROVE  /\ Lawful(p) /\ claims' = claims
             /\ Onward(p) /\ cut' = cut /\ proc'[p].at = "write" /\ proc'[p].claim = i
             /\ proc'[p].sources = claims[i].sources \cup {proc[p].source}
  <2> DEFINE srcs == claims[i].sources \cup {proc[p].source}
  <2>1. srcs \in SUBSET Nat /\ proc[p].source \in srcs
    BY <1>2, <1>3 DEF Claims
  <2>2. Go(p, to)
    BY <1>5
  <2> HIDE DEF srcs
  <2>3. /\ to \in Calls /\ to.source = proc[p].source /\ to.docs = proc[p].docs
        /\ to.rest = proc[p].rest /\ to.at = "write" /\ to.claim = i /\ to.sources = srcs
    BY <1>2, <2>1 DEF Calls, States, srcs
  <2> HIDE DEF to
  <2>4. /\ RestTyped /\ ledger' = ledger /\ claims' = claims
        /\ ledger' \in Seq(Events) /\ claims' \in Seq(Claims)
        /\ Grown(ledger, ledger') /\ Lasting(claims, claims')
    BY <1>1, <1>5, HereFacts, Stays DEF RestTyped, store
  <2>5. Affirming(to, ledger, claims)
    BY <1>1, <1>2, <2>3 DEF PlaceOK, Affirming, Taking
  <2>6. PlaceOK(to, ledger', claims')
    BY <1>1, <1>2, <2>1, <2>3, <2>4, <2>5 DEF PlaceOK, Within, Ingesting
  <2>7. Lawful(p) /\ proc'[p] = to
    BY <2>2, <2>3, <2>4, <2>6, Going
  <2> QED
    BY <1>1, <1>5, <2>3, <2>4, <2>7 DEF Onward, srcs
<1> QED
  BY <1>1, <1>3, <1>4, <1>5

LEMMA WriteMove ==
  ASSUME TypeOK, Places, NEW p \in Procs, WriteAffirmed(p)
  PROVE  /\ Lawful(p)
         /\ proc[p].at = "write" /\ proc[p].claim \in DOMAIN claims
         /\ Rewritten(claims, claims', proc[p].claim, proc[p].sources)
         /\ cut' = cut \cup (claims[proc[p].claim].sources \ proc[p].sources)
         /\ ledger' = ledger /\ torn' = torn
         /\ IF proc[p].rest = <<>> THEN proc'[p].at = "idle" /\ proc'[p].source = 0 ELSE Advanced(p)
<1> DEFINE i == proc[p].claim
<1>1. /\ proc[p].at = "write"
      /\ claims' = WriteSources(claims, i, proc[p].sources) /\ recent' = recent \cup {i}
      /\ cut' = cut \cup (claims[i].sources \ proc[p].sources)
      /\ Go(p, IF proc[p].rest = <<>> THEN Idle ELSE NextChunk(p))
      /\ UNCHANGED <<ledger, fresh, asked, torn, budget>>
  BY DEF WriteAffirmed
<1>2. proc[p] \in Calls /\ PlaceOK(proc[p], ledger, claims) /\ proc[p].sources \in SUBSET Nat
  BY HereFacts DEF Places, Calls
<1>3. i \in DOMAIN claims /\ i \in Nat /\ claims[i] \in Claims /\ claims[i].sources \subseteq Nat
  <2>1. i \in DOMAIN claims
    BY <1>1, <1>2 DEF PlaceOK
  <2>2. i \in Nat /\ claims[i] \in Claims
    BY <2>1, HereFacts
  <2> QED
    BY <2>1, <2>2 DEF Claims
<1>4. claims' \in Seq(Claims) /\ Lasting(claims, claims') /\ Rewritten(claims, claims', i, proc[p].sources)
  BY <1>1, <1>2, <1>3, WriteSourcesFacts
<1>5. RestTyped /\ ledger' = ledger /\ torn' = torn /\ ledger' \in Seq(Events) /\ Grown(ledger, ledger')
  BY <1>1, <1>3, HereFacts, Stays DEF RestTyped
<1>6. CASE proc[p].rest = <<>>
  <2>1. Lawful(p) /\ proc'[p] = Idle
    BY <1>1, <1>4, <1>5, <1>6, IdleFacts, GoingToWait DEF Waiting
  <2> QED
    BY <1>1, <1>3, <1>4, <1>5, <1>6, <2>1, IdleFacts
<1>7. CASE proc[p].rest # <<>>
  <2>1. Lawful(p) /\ Advanced(p)
    BY <1>1, <1>4, <1>5, <1>7, Advancing DEF Ingesting
  <2> QED
    BY <1>1, <1>3, <1>4, <1>5, <1>7, <2>1
<1> QED
  BY <1>6, <1>7

LEMMA AgainstMove ==
  ASSUME TypeOK, Places, NEW p \in Procs, ProposeAgainst(p)
  PROVE  /\ Lawful(p) /\ proc[p].at = "contradict" /\ proc[p].rest # <<>>
         /\ \/ GivenUp(p)
            \/ /\ Onward(p) /\ cut' = cut /\ proc'[p].at = "replace"
               /\ Added(claims, claims', Chunk(p), proc[p].source)
<1> DEFINE to == [proc[p] EXCEPT !.at = "replace", !.new = Len(claims) + 1]
<1>1. /\ proc[p].at = "contradict" /\ UNCHANGED <<ledger, fresh, asked, torn, budget>>
      /\ \/ Refused(p)
         \/ Insert(Chunk(p), proc[p].source) /\ Go(p, to) /\ UNCHANGED cut
  BY DEF ProposeAgainst
<1>2. proc[p].rest # <<>> /\ proc[p].at \in Ingesting /\ PlaceOK(proc[p], ledger, claims)
  BY <1>1 DEF Places, PlaceOK, Within, Ingesting
<1>3. Chunk(p) \in Origins /\ proc[p].source \in Nat /\ proc[p] \in Calls
  BY <1>2, ChunkPlace DEF Origins
<1>4. CASE Refused(p)
  BY <1>1, <1>2, <1>4, RefusedMove
<1>5. ASSUME Insert(Chunk(p), proc[p].source), Go(p, to), UNCHANGED cut
      PROVE  /\ Lawful(p) /\ Onward(p) /\ cut' = cut /\ proc'[p].at = "replace"
             /\ Added(claims, claims', Chunk(p), proc[p].source)
  <2>1. /\ claims' \in Seq(Claims) /\ Lasting(claims, claims') /\ recent' \subseteq Nat
        /\ Added(claims, claims', Chunk(p), proc[p].source)
        /\ Len(claims) + 1 \in Nat /\ Len(claims) + 1 \in DOMAIN claims'
    BY <1>3, <1>5, Inserting
  <2>2. Go(p, to)
    BY <1>5
  <2>3. /\ to \in Calls /\ to.source = proc[p].source /\ to.docs = proc[p].docs
        /\ to.rest = proc[p].rest /\ to.at = "replace" /\ to.claim = proc[p].claim
        /\ to.new = Len(claims) + 1
    BY <1>3, <2>1 DEF Calls, States
  <2> HIDE DEF to
  <2>4. /\ RestTyped /\ ledger' = ledger /\ ledger' \in Seq(Events) /\ Grown(ledger, ledger')
    BY <1>1, <1>5, <2>1, HereFacts, Stays DEF RestTyped
  <2>5. Taking(to, ledger)
    BY <1>1, <1>2, <2>3 DEF PlaceOK, Within, Taking
  <2>6. to.claim \in DOMAIN claims'
    BY <1>1, <1>2, <2>1, <2>3 DEF PlaceOK, Lasting
  <2>7. PlaceOK(to, ledger', claims')
    BY <1>2, <2>1, <2>3, <2>4, <2>5, <2>6 DEF PlaceOK, Within, Ingesting
  <2>8. Lawful(p) /\ proc'[p] = to
    BY <2>1, <2>2, <2>3, <2>4, <2>7, Going
  <2> QED
    BY <1>1, <1>5, <2>1, <2>3, <2>8 DEF Onward
<1> QED
  BY <1>1, <1>2, <1>4, <1>5

LEMMA ContradictedMove ==
  ASSUME TypeOK, Places, NEW p \in Procs, ReplaceContradicted(p)
  PROVE  /\ Lawful(p) /\ Advanced(p) /\ cut' = cut /\ Marked(claims, claims')
         /\ proc[p].at = "replace" /\ proc[p].rest # <<>>
<1>1. /\ proc[p].at = "replace" /\ claims' = Replace(claims, proc[p].claim, "contradicted", proc[p].new)
      /\ recent' = recent \cup {proc[p].claim} /\ Go(p, NextChunk(p))
      /\ UNCHANGED <<ledger, fresh, asked, history, budget>>
  BY DEF ReplaceContradicted
<1>2. /\ proc[p].rest # <<>> /\ proc[p].at \in Ingesting
      /\ proc[p].claim \in DOMAIN claims /\ proc[p].new \in DOMAIN claims
  BY <1>1 DEF Places, PlaceOK, Within, Ingesting
<1>3. claims' \in Seq(Claims) /\ Lasting(claims, claims') /\ Marked(claims, claims')
  BY <1>1, <1>2, ReplaceFacts DEF Replacing
<1>4. recent' \subseteq Nat
  BY <1>1, <1>2, HereFacts
<1>5. RestTyped /\ ledger' = ledger /\ cut' = cut /\ torn' = torn
  BY <1>1, <1>4, HereFacts DEF RestTyped, history
<1> QED
  BY <1>1, <1>2, <1>3, <1>5, Advancing

LEMMA EndMove ==
  ASSUME TypeOK, Places, NEW p \in Procs, EndDocument(p)
  PROVE  /\ Lawful(p) /\ ledger' = ledger /\ claims' = claims /\ cut' = cut /\ torn' = torn
         /\ proc[p].at = "chunk" /\ proc[p].rest = <<>>
         /\ proc'[p].at \in Waiting /\ proc'[p].source = 0
<1> DEFINE known == IF proc[p].url = ApiUrl THEN {}
                    ELSE WordsOf({claims[i].origin : i \in VisibleClaims} \cap Texts)
           novel == proc[p].novel \cup (WordsOf(ToSet(Head(proc[p].docs))) \ known)
           docs  == Tail(proc[p].docs)
           to == [Idle EXCEPT !.at = IF docs = <<>> THEN "ask" ELSE "record", !.docs = docs, !.novel = novel]
<1>1. /\ proc[p].at = "chunk" /\ proc[p].rest = <<>> /\ Go(p, to)
      /\ UNCHANGED <<ledger, fresh, store, asked, history, budget>>
  BY DEF EndDocument
<1>2. proc[p] \in Calls /\ proc[p].docs # <<>> /\ proc[p].docs \in Seq(Seq(Texts))
  BY <1>1, HereFacts DEF Places, PlaceOK, Taking, Within, Calls
<1>3. Head(proc[p].docs) \in Seq(Texts) /\ docs \in Seq(Seq(Texts))
  BY <1>2, RestOf
<1>4. novel \in SUBSET Nat
  <2>1. ToSet(Head(proc[p].docs)) \subseteq Texts
    BY <1>3 DEF ToSet
  <2>2. WordsOf(ToSet(Head(proc[p].docs))) \subseteq Nat
    BY <2>1, StudyAssumption DEF WordsOf
  <2>3. proc[p].novel \subseteq Nat
    BY <1>2 DEF Calls
  <2> QED
    BY <2>2, <2>3
<1> HIDE DEF novel, docs
<1>5. /\ to \in Calls /\ to.at \in Waiting /\ to.source = 0 /\ to.at # "refresh"
      /\ to.at = "record" => to.docs # <<>>
  <2>1. CASE docs = <<>>
    BY <1>3, <1>4, <2>1, IdleFacts DEF Calls, States, Waiting
  <2>2. CASE docs # <<>>
    BY <1>3, <1>4, <2>2, IdleFacts DEF Calls, States, Waiting
  <2> QED
    BY <2>1, <2>2
<1> HIDE DEF to
<1>6. /\ RestTyped /\ ledger' = ledger /\ claims' = claims /\ cut' = cut /\ torn' = torn
      /\ ledger' \in Seq(Events) /\ claims' \in Seq(Claims)
      /\ Grown(ledger, ledger') /\ Lasting(claims, claims')
  BY <1>1, HereFacts, Stays DEF RestTyped, store, history
<1>7. Lawful(p) /\ proc'[p] = to
  BY <1>1, <1>5, <1>6, GoingToWait
<1> QED
  BY <1>1, <1>5, <1>6, <1>7

LEMMA CrashMove ==
  ASSUME TypeOK, Places, NEW p \in Procs, Crash(p)
  PROVE  /\ Lawful(p) /\ ledger' = ledger /\ claims' = claims
         /\ cut' = cut \cup ({proc[p].source} \ {0})
         /\ torn' = IF proc[p].at = "doubt" THEN torn \cup {proc[p].claim} ELSE torn
         /\ proc'[p].at = "idle" /\ proc'[p].source = 0
<1>1. /\ budget.upsets > 0 /\ budget' = [budget EXCEPT !.upsets = @ - 1]
      /\ cut' = cut \cup ({proc[p].source} \ {0})
      /\ torn' = IF proc[p].at = "doubt" THEN torn \cup {proc[p].claim} ELSE torn
      /\ Go(p, Idle)
      /\ UNCHANGED <<ledger, fresh, store, asked>>
  BY DEF Crash
<1>2. proc[p].source \in Nat /\ proc[p].claim \in Nat /\ cut \subseteq Nat /\ torn \subseteq Nat
  BY HereFacts DEF Calls
<1>3. cut' \subseteq Nat /\ torn' \subseteq Nat
  BY <1>1, <1>2
<1>4. budget' \in [calls : Nat, upsets : Nat]
  <2>1. budget.upsets \in Nat /\ budget.upsets - 1 \in Nat
    BY <1>1, HereFacts
  <2> QED
    BY <1>1, <2>1, HereFacts
<1>5. RestTyped /\ claims' = claims
  BY <1>1, <1>3, <1>4, HereFacts DEF RestTyped, store
<1>6. Lawful(p) /\ proc'[p] = Idle
  BY <1>1, <1>5, HereFacts, Stays, IdleFacts, GoingToWait DEF Waiting
<1> QED
  BY <1>1, <1>5, <1>6, IdleFacts

\* The steps of no process.
LEMMA WorldMove ==
  ASSUME TypeOK, Keep \/ TimePasses
  PROVE  /\ TypeOK' /\ ledger' = ledger /\ proc' = proc /\ cut' = cut /\ torn' = torn
         /\ Marked(claims, claims')
<1>1. /\ ledger \in Seq(Events) /\ claims \in Seq(Claims) /\ fresh \subseteq Nat /\ recent \subseteq Nat
      /\ budget \in [calls : Nat, upsets : Nat]
  BY DEF TypeOK
<1>2. ASSUME Keep
      PROVE  /\ TypeOK' /\ ledger' = ledger /\ proc' = proc /\ cut' = cut /\ torn' = torn
             /\ Marked(claims, claims')
  <2>1. /\ budget.calls > 0 /\ budget' = [budget EXCEPT !.calls = @ - 1]
        /\ UNCHANGED <<ledger, fresh, asked, proc, history>>
    BY <1>2 DEF Keep
  <2>2. PICK i \in DOMAIN claims, to \in Kept : Write(i, to)
    BY <1>2 DEF Keep
  <2>3. to \in ClaimStatus /\ to # "active"
    BY StudyAssumption DEF ClaimStatus
  <2>4. claims' \in Seq(Claims) /\ Marked(claims, claims') /\ recent' \subseteq Nat
    BY <2>2, <2>3, Writing
  <2>5. budget' \in [calls : Nat, upsets : Nat]
    <3>1. budget.calls \in Nat /\ budget.calls - 1 \in Nat
      BY <1>1, <2>1
    <3> QED
      BY <1>1, <2>1, <3>1
  <2> QED
    BY <2>1, <2>4, <2>5 DEF TypeOK, history
<1>3. ASSUME TimePasses
      PROVE  /\ TypeOK' /\ ledger' = ledger /\ proc' = proc /\ cut' = cut /\ torn' = torn
             /\ Marked(claims, claims')
  <2>1. /\ budget.upsets > 0 /\ budget' = [budget EXCEPT !.upsets = @ - 1]
        /\ fresh' = {} /\ recent' \in {recent, {}}
        /\ UNCHANGED <<ledger, claims, asked, proc, history>>
    BY <1>3 DEF TimePasses
  <2>2. budget' \in [calls : Nat, upsets : Nat]
    <3>1. budget.upsets \in Nat /\ budget.upsets - 1 \in Nat
      BY <1>1, <2>1
    <3> QED
      BY <1>1, <2>1, <3>1
  <2>3. Marked(claims, claims')
    BY <2>1, MarkedSelf
  <2> QED
    BY <1>1, <2>1, <2>2, <2>3 DEF TypeOK, history
<1> QED
  BY <1>2, <1>3

\* Every step of a process is lawful.
LEMMA ProcessStep ==
  ASSUME TypeOK, Places, NEW p \in Procs,
         Ingest(p) \/ Learn(p) \/ StartRefresh(p) \/ Refresh(p) \/ Crash(p)
  PROVE  Lawful(p)
<1>1. CASE StartAcquire(p) \/ FetchFails(p) \/ StartQuery(p) \/ QueryFails(p) \/ Ask(p) \/ EndAsk(p) \/ StartRefresh(p)
  BY <1>1, WaitingMove
<1>2. CASE Evaluate(p) \/ ProposeClaim(p) \/ ReadAffirmed(p) \/ WriteAffirmed(p)
  BY <1>2, EvaluateMove, ProposeMove, ReadMove, WriteMove
<1>3. CASE ProposeAgainst(p) \/ ReplaceContradicted(p) \/ EndDocument(p) \/ RecordSource(p)
  BY <1>3, AgainstMove, ContradictedMove, EndMove, RecordMove
<1>4. CASE Sight(p) \/ Adopt(p) \/ ProposeCandidate(p) \/ Doubt(p)
  BY <1>4, SightMove, AdoptMove, CandidateMove, DoubtMove
<1>5. CASE Correct(p) \/ Supersede(p) \/ Refresh(p) \/ Crash(p)
  BY <1>5, CorrectMove, SupersedeMove, SweepMove, CrashMove
<1> QED
  BY <1>1, <1>2, <1>3, <1>4, <1>5 DEF Ingest, Learn

LEMMA PlacesInit ==
  ASSUME Init
  PROVE  TypeOK /\ Places
<1>1. /\ <<>> \in Seq(Events) /\ <<>> \in Seq(Claims) /\ DOMAIN <<>> = {}
  OBVIOUS
<1>2. proc \in [Procs -> Calls] /\ \A p \in Procs : proc[p] = Idle
  BY IdleFacts DEF Init
<1>3. budget \in [calls : Nat, upsets : Nat]
  BY StudyAssumption DEF Init
<1>4. TypeOK
  BY <1>1, <1>2, <1>3 DEF Init, TypeOK
<1>5. ASSUME NEW p \in Procs PROVE PlaceOK(proc[p], ledger, claims)
  BY <1>2, <1>4, IdleFacts, WaitingPlace DEF Waiting, TypeOK
<1> QED
  BY <1>4, <1>5 DEF Places

LEMMA PlacesStep ==
  ASSUME TypeOK, Places, [Next]_vars
  PROVE  TypeOK' /\ Places'
<1>1. ASSUME NEW p \in Procs, Lawful(p) PROVE TypeOK' /\ Places'
  <2>1. ASSUME NEW q \in Procs PROVE PlaceOK(proc'[q], ledger', claims')
    <3>1. CASE q = p
      BY <1>1, <3>1 DEF Lawful
    <3>2. CASE q # p
      <4>1. /\ proc'[q] = proc[q] /\ proc[q] \in Calls /\ PlaceOK(proc[q], ledger, claims)
            /\ ledger \in Seq(Events) /\ ledger' \in Seq(Events)
            /\ claims \in Seq(Claims) /\ claims' \in Seq(Claims)
            /\ Grown(ledger, ledger') /\ Lasting(claims, claims')
        BY <1>1, <3>2 DEF Lawful, Others, Places, TypeOK
      <4> QED
        BY <4>1, PlaceStable
    <3> QED
      BY <3>1, <3>2
  <2> QED
    BY <1>1, <2>1 DEF Lawful, Places
<1>2. ASSUME Keep \/ TimePasses PROVE TypeOK' /\ Places'
  <2>1. TypeOK' /\ ledger' = ledger /\ proc' = proc /\ Marked(claims, claims')
    BY <1>2, WorldMove
  <2>2. Grown(ledger, ledger') /\ Lasting(claims, claims')
    BY <2>1, Stays, MarkedKept
  <2>3. ASSUME NEW q \in Procs PROVE PlaceOK(proc'[q], ledger', claims')
    <3>1. /\ proc'[q] = proc[q] /\ proc[q] \in Calls /\ PlaceOK(proc[q], ledger, claims)
          /\ ledger \in Seq(Events) /\ ledger' \in Seq(Events)
          /\ claims \in Seq(Claims) /\ claims' \in Seq(Claims)
      BY <2>1 DEF Places, TypeOK
    <3> QED
      BY <2>2, <3>1, PlaceStable
  <2> QED
    BY <2>1, <2>3 DEF Places
<1>3. CASE UNCHANGED vars
  BY <1>3 DEF vars, TypeOK, Places
<1> QED
  BY <1>1, <1>2, <1>3, ProcessStep DEF Next

\* Every variable keeps its type, and every process is where its call can be.
THEOREM TypeCorrect == Spec => [](TypeOK /\ Places)
BY PlacesInit, PlacesStep, PTL DEF Spec

-----------------------------------------------------------------------------
(* What claims name as their sources.  A process that has read a claim to    *)
(* affirm it carries the sources it is about to write back.                  *)

SaysAll(sources, origin, log) ==
  \A s \in sources :
    /\ s \in DOMAIN log
    /\ s \in SourceIds(log) => \E t \in ToSet(log[s].doc) : Resembles(t, origin)

SayInv ==
  /\ \A i \in DOMAIN claims : SaysAll(claims[i].sources, claims[i].origin, ledger)
  /\ \A p \in Procs : proc[p].at = "write" =>
       SaysAll(proc[p].sources, claims[proc[p].claim].origin, ledger)

LEMMA SaysStable ==
  ASSUME NEW log, NEW log2, Grown(log, log2), NEW sources, NEW origin, SaysAll(sources, origin, log)
  PROVE  SaysAll(sources, origin, log2)
BY DEF SaysAll, Grown, SourceIds, IdsOfKind

\* What the table says stays so under each kind of commit.
LEMMA SaysMarked ==
  ASSUME Grown(ledger, ledger'), Marked(claims, claims') \/ claims' = claims,
         NEW i \in DOMAIN claims', SayInv
  PROVE  SaysAll(claims'[i].sources, claims'[i].origin, ledger')
<1>1. /\ i \in DOMAIN claims
      /\ claims'[i].sources = claims[i].sources /\ claims'[i].origin = claims[i].origin
  BY DEF Marked
<1>2. SaysAll(claims[i].sources, claims[i].origin, ledger)
  BY <1>1 DEF SayInv
<1>3. SaysAll(claims[i].sources, claims[i].origin, ledger')
  BY <1>2, SaysStable
<1> QED
  BY <1>1, <1>3

LEMMA SaysAdded ==
  ASSUME Grown(ledger, ledger'), NEW origin, NEW source, Added(claims, claims', origin, source),
         SaysAll({source}, origin, ledger'), NEW i \in DOMAIN claims', SayInv
  PROVE  SaysAll(claims'[i].sources, claims'[i].origin, ledger')
<1>1. CASE i \in DOMAIN claims
  <2>1. SaysAll(claims[i].sources, claims[i].origin, ledger) /\ claims'[i] = claims[i]
    BY <1>1 DEF SayInv, Added
  <2>2. SaysAll(claims[i].sources, claims[i].origin, ledger')
    BY <2>1, SaysStable
  <2> QED
    BY <2>1, <2>2
<1>2. CASE i = Len(claims) + 1
  <2>1. claims'[i].sources = {source} /\ claims'[i].origin = origin
    BY <1>2 DEF Added
  <2> QED
    BY <2>1
<1> QED
  BY <1>1, <1>2 DEF Added

LEMMA SaysRewritten ==
  ASSUME Grown(ledger, ledger'), NEW id \in DOMAIN claims, NEW sources,
         Rewritten(claims, claims', id, sources),
         SaysAll(sources, claims[id].origin, ledger), NEW i \in DOMAIN claims', SayInv
  PROVE  SaysAll(claims'[i].sources, claims'[i].origin, ledger')
<1>1. i \in DOMAIN claims /\ claims'[i].origin = claims[i].origin
  BY DEF Rewritten
<1>2. CASE i = id
  <2>1. claims'[i].sources = sources
    BY <1>1, <1>2 DEF Rewritten
  <2>2. SaysAll(sources, claims[id].origin, ledger')
    BY SaysStable
  <2> QED
    BY <1>1, <1>2, <2>1, <2>2
<1>3. CASE i # id
  <2>1. claims'[i].sources = claims[i].sources
    BY <1>1, <1>3 DEF Rewritten
  <2>2. SaysAll(claims[i].sources, claims[i].origin, ledger)
    BY <1>1 DEF SayInv
  <2>3. SaysAll(claims[i].sources, claims[i].origin, ledger')
    BY <2>2, SaysStable
  <2> QED
    BY <1>1, <2>1, <2>3
<1> QED
  BY <1>2, <1>3

\* A chunk that becomes a claim, or is affirmed by one, is of its document.
LEMMA ChunkSays ==
  ASSUME TypeOK, Places, NEW p \in Procs, proc[p].at \in Ingesting, proc[p].rest # <<>>, NEW origin,
         Resembles(Chunk(p), origin)
  PROVE  SaysAll({proc[p].source}, origin, ledger)
<1>1. /\ Chunk(p) \in ToSet(ledger[proc[p].source].doc) /\ proc[p].source \in DOMAIN ledger
  BY ChunkPlace
<1> QED
  BY <1>1 DEF SaysAll

LEMMA NotedSays ==
  ASSUME NEW origin, NEW source, Noted(claims, claims', origin, source, ledger')
  PROVE  SaysAll({source}, origin, ledger')
BY DEF Noted, SaysAll

LEMMA SayInit ==
  ASSUME Init
  PROVE  SayInv
<1>1. DOMAIN claims = {} /\ \A p \in Procs : proc[p].at = "idle"
  BY IdleFacts DEF Init
<1> QED
  BY <1>1 DEF SayInv

LEMMA SayStep ==
  ASSUME TypeOK, Places, SayInv, [Next]_vars
  PROVE  SayInv'
<1> DEFINE Told == \A i \in DOMAIN claims' : SaysAll(claims'[i].sources, claims'[i].origin, ledger')
           Carried(p) == proc'[p].at = "write" =>
             SaysAll(proc'[p].sources, claims'[proc'[p].claim].origin, ledger')
<1>1. ASSUME NEW p \in Procs, Lawful(p), Told, Carried(p)
      PROVE  SayInv'
  <2>1. ASSUME NEW q \in Procs, q # p, proc'[q].at = "write" PROVE Carried(q)
    <3>1. proc'[q] = proc[q] /\ proc[q].at = "write"
      BY <1>1, <2>1 DEF Lawful, Others
    <3>2. proc[q].claim \in DOMAIN claims /\ SaysAll(proc[q].sources, claims[proc[q].claim].origin, ledger)
      BY <3>1 DEF Places, PlaceOK, SayInv
    <3>3. claims'[proc[q].claim].origin = claims[proc[q].claim].origin /\ Grown(ledger, ledger')
      BY <1>1, <3>2 DEF Lawful, Lasting
    <3>4. SaysAll(proc[q].sources, claims[proc[q].claim].origin, ledger')
      BY <3>2, <3>3, SaysStable
    <3> QED
      BY <3>1, <3>3, <3>4
  <2>2. \A q \in Procs : Carried(q)
    BY <1>1, <2>1
  <2> QED
    BY <1>1, <2>2 DEF SayInv
<1>2. ASSUME NEW p \in Procs, Lawful(p), Marked(claims, claims') \/ claims' = claims,
             proc'[p].at # "write"
      PROVE  SayInv'
  <2>1. Grown(ledger, ledger')
    BY <1>2 DEF Lawful
  <2>2. Told
    BY <1>2, <2>1, SaysMarked
  <2> QED
    BY <1>1, <1>2, <2>2
<1>3. ASSUME NEW p \in Procs, Lawful(p), NEW origin, NEW source,
             Added(claims, claims', origin, source), SaysAll({source}, origin, ledger'),
             proc'[p].at # "write"
      PROVE  SayInv'
  <2>1. Grown(ledger, ledger')
    BY <1>3 DEF Lawful
  <2>2. Told
    BY <1>3, <2>1, SaysAdded
  <2> QED
    BY <1>1, <1>3, <2>2
<1>4. ASSUME NEW p \in Procs,
             StartAcquire(p) \/ FetchFails(p) \/ StartQuery(p) \/ QueryFails(p) \/ Ask(p) \/ EndAsk(p) \/ StartRefresh(p)
      PROVE  SayInv'
  BY <1>2, <1>4, WaitingMove DEF Waiting
<1>5. ASSUME NEW p \in Procs, RecordSource(p) \/ Evaluate(p) \/ EndDocument(p)
      PROVE  SayInv'
  BY <1>2, <1>5, RecordMove, EvaluateMove, EndMove DEF Waiting
<1>6. ASSUME NEW p \in Procs, ProposeClaim(p) PROVE SayInv'
  <2>1. /\ Lawful(p) /\ Advanced(p) /\ proc[p].at \in Ingesting /\ proc[p].rest # <<>>
        /\ Added(claims, claims', Chunk(p), proc[p].source)
    BY <1>6, ProposeMove DEF Ingesting, Within
  <2>2. SaysAll({proc[p].source}, Chunk(p), ledger')
    BY <2>1, ChunkSays DEF Resembles, Advanced
  <2> QED
    BY <1>3, <2>1, <2>2 DEF Advanced
<1>7. ASSUME NEW p \in Procs, ReadAffirmed(p) PROVE SayInv'
  <2>1. /\ Lawful(p) /\ claims' = claims /\ proc[p].at = "affirm" /\ proc[p].claim \in DOMAIN claims
        /\ \/ GivenUp(p)
           \/ /\ Onward(p) /\ proc'[p].at = "write" /\ proc'[p].claim = proc[p].claim
              /\ proc'[p].sources = claims[proc[p].claim].sources \cup {proc[p].source}
    BY <1>7, ReadMove
  <2>2. CASE GivenUp(p)
    BY <1>2, <2>1, <2>2 DEF GivenUp
  <2>3. CASE /\ Onward(p) /\ proc'[p].at = "write" /\ proc'[p].claim = proc[p].claim
             /\ proc'[p].sources = claims[proc[p].claim].sources \cup {proc[p].source}
    <3> DEFINE i == proc[p].claim
    <3>1. SaysAll(claims[i].sources, claims[i].origin, ledger)
      BY <2>1 DEF SayInv
    <3>2. SaysAll({proc[p].source}, claims[i].origin, ledger)
      <4>1. Affirming(proc[p], ledger, claims) /\ proc[p].source \in 0..Len(ledger)
            /\ ledger \in Seq(Events)
        BY <2>1 DEF Places, PlaceOK, TypeOK
      <4>2. CASE proc[p].rest = <<>>
        <5>1. proc[p].source \in DOMAIN ledger /\ proc[p].source \notin SourceIds(ledger)
          BY <4>1, <4>2 DEF Affirming
        <5> QED
          BY <5>1 DEF SaysAll
      <4>3. CASE proc[p].rest # <<>>
        <5>1. proc[p].at \in Ingesting /\ Resembles(Chunk(p), claims[i].origin)
          BY <2>1, <4>1, <4>3 DEF Affirming, Chunk, Ingesting
        <5> QED
          BY <4>3, <5>1, ChunkSays
      <4> QED
        BY <4>2, <4>3
    <3>3. SaysAll(claims[i].sources \cup {proc[p].source}, claims[i].origin, ledger)
      BY <3>1, <3>2 DEF SaysAll
    <3>4. ledger' = ledger
      BY <2>3 DEF Onward
    <3>5. Grown(ledger, ledger')
      BY <2>1 DEF Lawful
    <3>6. Told
      BY <2>1, <3>5, SaysMarked
    <3> QED
      BY <1>1, <2>1, <2>3, <3>3, <3>4, <3>6
  <2> QED
    BY <2>1, <2>2, <2>3
<1>8. ASSUME NEW p \in Procs, WriteAffirmed(p) PROVE SayInv'
  <2>1. /\ Lawful(p) /\ proc[p].at = "write" /\ proc[p].claim \in DOMAIN claims
        /\ Rewritten(claims, claims', proc[p].claim, proc[p].sources)
        /\ proc'[p].at # "write"
    BY <1>8, WriteMove DEF Advanced
  <2>2. SaysAll(proc[p].sources, claims[proc[p].claim].origin, ledger)
    BY <2>1 DEF SayInv
  <2>3. Told
    <3>1. Grown(ledger, ledger')
      BY <2>1 DEF Lawful
    <3> QED
      BY <2>1, <2>2, <3>1, SaysRewritten
  <2> QED
    BY <1>1, <2>1, <2>3
<1>9. ASSUME NEW p \in Procs, ProposeAgainst(p) PROVE SayInv'
  <2>1. /\ Lawful(p) /\ proc[p].at \in Ingesting /\ proc[p].rest # <<>>
        /\ \/ GivenUp(p)
           \/ /\ Onward(p) /\ proc'[p].at = "replace"
              /\ Added(claims, claims', Chunk(p), proc[p].source)
    BY <1>9, AgainstMove DEF Ingesting, Within
  <2>2. CASE GivenUp(p)
    BY <1>2, <2>1, <2>2 DEF GivenUp
  <2>3. CASE /\ Onward(p) /\ proc'[p].at = "replace"
             /\ Added(claims, claims', Chunk(p), proc[p].source)
    <3>1. SaysAll({proc[p].source}, Chunk(p), ledger')
      BY <2>1, <2>3, ChunkSays DEF Resembles, Onward
    <3> QED
      BY <1>3, <2>1, <2>3, <3>1
  <2> QED
    BY <2>1, <2>2, <2>3
<1>10. ASSUME NEW p \in Procs, ReplaceContradicted(p) \/ Supersede(p) \/ Doubt(p) \/ Refresh(p)
       PROVE  SayInv'
  <2>1. Lawful(p) /\ Marked(claims, claims') /\ proc'[p].at # "write"
    BY <1>10, ContradictedMove, SupersedeMove, DoubtMove, SweepMove DEF Advanced, Waiting
  <2> QED
    BY <1>2, <2>1
<1>11. ASSUME NEW p \in Procs, Sight(p) \/ Crash(p)
       PROVE  SayInv'
  BY <1>2, <1>11, SightMove, CrashMove
<1>12. ASSUME NEW p \in Procs, Adopt(p) \/ ProposeCandidate(p)
       PROVE  SayInv'
  <2>1. /\ Lawful(p) /\ Noted(claims, claims', proc[p].tag, proc[p].source, ledger')
        /\ proc'[p].at # "write"
    BY <1>12, AdoptMove, CandidateMove DEF Waiting
  <2>2. Added(claims, claims', proc[p].tag, proc[p].source) /\ SaysAll({proc[p].source}, proc[p].tag, ledger')
    BY <2>1, NotedSays DEF Noted
  <2> QED
    BY <1>3, <2>1, <2>2
<1>13. ASSUME NEW p \in Procs, Correct(p)
       PROVE  SayInv'
  <2>1. Lawful(p) /\ proc'[p].at = "supersede"
    BY <1>13, CorrectMove
  <2>2. PICK s \in Nat : Noted(claims, claims', Corrected, s, ledger')
    BY <1>13, CorrectMove
  <2>3. Added(claims, claims', Corrected, s) /\ SaysAll({s}, Corrected, ledger')
    BY <2>2, NotedSays DEF Noted
  <2> QED
    BY <1>3, <2>1, <2>3
<1>14. ASSUME Keep \/ TimePasses PROVE SayInv'
  <2>1. TypeOK' /\ ledger' = ledger /\ proc' = proc /\ Marked(claims, claims')
    BY <1>14, WorldMove
  <2>2. Grown(ledger, ledger')
    BY <2>1, Stays
  <2>3. Told
    BY <2>1, <2>2, SaysMarked
  <2>4. ASSUME NEW p \in Procs, proc[p].at = "write"
        PROVE  SaysAll(proc[p].sources, claims'[proc[p].claim].origin, ledger')
    <3>1. proc[p].claim \in DOMAIN claims /\ SaysAll(proc[p].sources, claims[proc[p].claim].origin, ledger)
      BY <2>4 DEF Places, PlaceOK, SayInv
    <3> QED
      BY <2>1, <3>1 DEF Marked
  <2> QED
    BY <2>1, <2>3, <2>4 DEF SayInv
<1>15. CASE UNCHANGED vars
  BY <1>15 DEF vars, SayInv
<1> QED
  BY <1>4, <1>5, <1>6, <1>7, <1>8, <1>9, <1>10, <1>11, <1>12, <1>13, <1>14, <1>15
  DEF Next, Ingest, Learn

LEMMA AlikeFacts ==
  ASSUME NEW t \in Texts, NEW i \in DOMAIN claims
  PROVE  Alike(t, i) <=> Resembles(t, claims[i].origin)
BY DEF Alike, Overlaps, Shared, Resembles

LEMMA DocTexts ==
  ASSUME TypeOK, NEW s \in DOMAIN ledger
  PROVE  ToSet(ledger[s].doc) \subseteq Texts
<1>1. ledger[s].doc \in Seq(Texts)
  <2>1. ledger[s] \in Events
    BY DEF TypeOK
  <2> QED
    BY <2>1 DEF Events
<1> QED
  BY <1>1 DEF ToSet

\* However many documents are taken in at once, whoever affirms, contradicts or
\* supersedes a claim meanwhile, and wherever a process dies: no claim names a
\* source that says nothing of the kind.
THEOREM SourcesAreHonest == Spec => []SourcesSay
<1>1. TypeOK /\ SayInv => SourcesSay
  <2> SUFFICES ASSUME TypeOK, SayInv, NEW i \in DOMAIN claims, NEW s \in claims[i].sources \cap Sources
               PROVE  \E t \in ToSet(ledger[s].doc) : Alike(t, i)
    BY DEF SourcesSay
  <2>1. s \in DOMAIN ledger /\ s \in SourceIds(ledger)
    BY DEF Sources, SourceIds, IdsOfKind
  <2>2. PICK t \in ToSet(ledger[s].doc) : Resembles(t, claims[i].origin)
    BY <2>1 DEF SayInv, SaysAll
  <2>3. t \in Texts
    BY <2>1, DocTexts
  <2> QED
    BY <2>2, <2>3, AlikeFacts
<1> QED
  BY <1>1, SayInit, SayStep, TypeCorrect, PTL DEF Spec

-----------------------------------------------------------------------------
(* What is behind a document.  All but the rest of what a process is taking  *)
(* in is covered already, and the chunk at hand too once its claim is in.    *)

Covered(table, s, t) ==
  \E i \in DOMAIN table : s \in table[i].sources /\ Resembles(t, table[i].origin)
Handled(table, log, s, rest) == \A t \in ToSet(log[s].doc) \ ToSet(rest) : Covered(table, s, t)

TakenIn(r, log, table, gone) ==
  (r.at \in Ingesting /\ r.source \in SourceIds(log) /\ r.source \notin gone) =>
    /\ Handled(table, log, r.source, r.rest)
    /\ r.at = "replace" => Covered(table, r.source, Head(r.rest))

CoverInv ==
  /\ \A p \in Procs : TakenIn(proc[p], ledger, claims, cut)
  /\ \A s \in SourceIds(ledger) :
       s \in cut \/ (\E p \in Procs : proc[p].source = s) \/ \A t \in ToSet(ledger[s].doc) : Covered(claims, s, t)

\* A source that no longer is behind a claim has been cut.
Withdrawn(table, table2, gone) ==
  \A i \in DOMAIN table : \A s \in table[i].sources : s \in table2[i].sources \/ s \in gone

LEMMA CoveredStable ==
  ASSUME NEW table, NEW table2, NEW gone, Lasting(table, table2), Withdrawn(table, table2, gone),
         NEW s, s \notin gone, NEW t, Covered(table, s, t)
  PROVE  Covered(table2, s, t)
BY DEF Covered, Lasting, Withdrawn

LEMMA WithdrawnFacts ==
  ASSUME NEW gone
  PROVE  /\ claims' = claims \/ Marked(claims, claims') => Withdrawn(claims, claims', gone)
         /\ \A origin, source : Added(claims, claims', origin, source) => Withdrawn(claims, claims', gone)
BY DEF Withdrawn, Marked, Added

\* What a step of p does to what is covered.
Accounts(p) ==
  /\ cut \subseteq cut' /\ Withdrawn(claims, claims', cut')
  /\ TakenIn(proc'[p], ledger', claims', cut')
  /\ SourceIds(ledger') \subseteq SourceIds(ledger) \cup {proc'[p].source}
  /\ proc[p].source \in SourceIds(ledger) =>
       \/ proc'[p].source = proc[p].source \/ proc[p].source \in cut'
       \/ \A t \in ToSet(ledger[proc[p].source].doc) : Covered(claims', proc[p].source, t)

LEMMA TakenInStable ==
  ASSUME NEW log, NEW log2, Grown(log, log2), NEW table, NEW table2, NEW gone, NEW gone2,
         gone \subseteq gone2, Lasting(table, table2), Withdrawn(table, table2, gone2),
         NEW r, TakenIn(r, log, table, gone), r.source \in SourceIds(log2) => r.source \in SourceIds(log)
  PROVE  TakenIn(r, log2, table2, gone2)
<1> SUFFICES ASSUME r.at \in Ingesting, r.source \in SourceIds(log2), r.source \notin gone2
             PROVE  /\ Handled(table2, log2, r.source, r.rest)
                    /\ r.at = "replace" => Covered(table2, r.source, Head(r.rest))
  BY DEF TakenIn
<1>1. /\ Handled(table, log, r.source, r.rest)
      /\ r.at = "replace" => Covered(table, r.source, Head(r.rest))
  BY DEF TakenIn
<1>2. log2[r.source] = log[r.source]
  BY DEF Grown, SourceIds, IdsOfKind
<1>3. Handled(table2, log2, r.source, r.rest)
  BY <1>1, <1>2, CoveredStable DEF Handled
<1> QED
  BY <1>1, <1>3, CoveredStable

LEMMA AccountsStep ==
  ASSUME TypeOK, Places, CoverInv, NEW p \in Procs, Lawful(p), Accounts(p)
  PROVE  CoverInv'
<1>1. Grown(ledger, ledger') /\ Lasting(claims, claims') /\ Others(p)
  BY DEF Lawful
<1>2. ASSUME NEW q \in Procs PROVE TakenIn(proc'[q], ledger', claims', cut')
  <2>1. CASE q = p
    BY <2>1 DEF Accounts
  <2>2. CASE q # p
    <3>1. proc'[q] = proc[q] /\ TakenIn(proc[q], ledger, claims, cut)
      BY <1>1, <2>2 DEF Others, CoverInv
    <3>2. proc[q].source \in SourceIds(ledger') => proc[q].source \in SourceIds(ledger)
      <4>1. proc[q].source \in 0..Len(ledger) /\ ledger \in Seq(Events) /\ ledger' \in Seq(Events)
        BY DEF Places, PlaceOK, TypeOK, Lawful
      <4>2. proc[q].source = 0 \/ proc[q].source \in DOMAIN ledger
        BY <4>1
      <4>3. 0 \notin DOMAIN ledger'
        BY <4>1
      <4> QED
        BY <1>1, <4>2, <4>3 DEF SourceIds, IdsOfKind, Grown
    <3> QED
      BY <1>1, <3>1, <3>2, TakenInStable DEF Accounts
  <2> QED
    BY <2>1, <2>2
<1>3. ASSUME NEW s \in SourceIds(ledger'), s \notin cut', \A q \in Procs : proc'[q].source # s,
             NEW t \in ToSet(ledger'[s].doc)
      PROVE  Covered(claims', s, t)
  <2>1. s \in SourceIds(ledger) /\ s \notin cut
    BY <1>3 DEF Accounts
  <2>2. t \in ToSet(ledger[s].doc)
    BY <1>1, <1>3, <2>1 DEF Grown, SourceIds, IdsOfKind
  <2>3. CASE proc[p].source = s
    BY <1>3, <2>1, <2>2, <2>3 DEF Accounts
  <2>4. CASE proc[p].source # s
    <3>1. \A q \in Procs : proc[q].source # s
      BY <1>1, <1>3, <2>4 DEF Others
    <3>2. Covered(claims, s, t)
      BY <2>1, <2>2, <3>1 DEF CoverInv
    <3> QED
      BY <1>1, <1>3, <3>2, CoveredStable DEF Accounts
  <2> QED
    BY <2>3, <2>4
<1> QED
  BY <1>2, <1>3 DEF CoverInv

\* The steps that are about no source.
LEMMA QuietAccounts ==
  ASSUME TypeOK, Places, NEW p \in Procs, Lawful(p), Quietly(p), proc'[p].source \notin SourceIds(ledger'),
         claims' = claims \/ Marked(claims, claims')
           \/ \E origin \in Origins, source \in Nat : Added(claims, claims', origin, source)
  PROVE  Accounts(p)
<1>1. proc[p].source \notin SourceIds(ledger)
  BY DEF Places, PlaceOK, Quietly
<1>2. Withdrawn(claims, claims', cut')
  BY WithdrawnFacts
<1> QED
  BY <1>1, <1>2 DEF Accounts, Quietly, TakenIn

\* Elsewhere than in an ingestion a process has no source.
LEMMA Outside ==
  ASSUME NEW p \in Procs, Lawful(p), proc'[p].at \notin Ingesting
  PROVE  proc'[p].source \notin SourceIds(ledger')
BY DEF Lawful, PlaceOK

\* The next chunk, once this one is behind a claim.
LEMMA AdvancedAccounts ==
  ASSUME TypeOK, Places, CoverInv, NEW p \in Procs, Lawful(p), Advanced(p),
         proc[p].at \in Ingesting, proc[p].rest # <<>>,
         cut \subseteq cut', Withdrawn(claims, claims', cut'),
         proc[p].source \notin cut' => Covered(claims', proc[p].source, Chunk(p))
  PROVE  Accounts(p)
<1> DEFINE s == proc[p].source
<1>1. s \in SourceIds(ledger) /\ ToSet(proc[p].rest) = {Chunk(p)} \cup ToSet(Tail(proc[p].rest))
  BY ChunkPlace
<1>2. ASSUME s \notin cut' PROVE Handled(claims', ledger, s, Tail(proc[p].rest))
  <2> SUFFICES ASSUME NEW t \in ToSet(ledger[s].doc), t \notin ToSet(Tail(proc[p].rest))
               PROVE  Covered(claims', s, t)
    BY DEF Handled
  <2>1. CASE t = Chunk(p)
    BY <1>2, <2>1
  <2>2. CASE t # Chunk(p)
    <3>1. TakenIn(proc[p], ledger, claims, cut) /\ s \notin cut
      BY <1>2 DEF CoverInv
    <3>2. Covered(claims, s, t)
      BY <1>1, <2>2, <3>1 DEF TakenIn, Handled
    <3> QED
      BY <1>2, <3>2, CoveredStable DEF Lawful
  <2> QED
    BY <2>1, <2>2
<1>3. TakenIn(proc'[p], ledger', claims', cut')
  BY <1>2 DEF TakenIn, Advanced
<1> QED
  BY <1>3 DEF Accounts, Advanced

\* Another step within the same chunk.
LEMMA OnwardAccounts ==
  ASSUME TypeOK, Places, CoverInv, NEW p \in Procs, Lawful(p), Onward(p), proc[p].at \in Ingesting,
         cut' = cut, Withdrawn(claims, claims', cut'),
         proc'[p].at = "replace" => Covered(claims', proc[p].source, Head(proc[p].rest))
  PROVE  Accounts(p)
<1> DEFINE s == proc[p].source
<1>1. ASSUME s \in SourceIds(ledger), s \notin cut PROVE Handled(claims', ledger, s, proc[p].rest)
  <2>1. Handled(claims, ledger, s, proc[p].rest)
    BY <1>1 DEF CoverInv, TakenIn
  <2> QED
    BY <1>1, <2>1, CoveredStable DEF Handled, Lawful
<1>2. TakenIn(proc'[p], ledger', claims', cut')
  BY <1>1 DEF TakenIn, Onward
<1> QED
  BY <1>2 DEF Accounts, Onward

LEMMA GivenUpAccounts ==
  ASSUME TypeOK, Places, NEW p \in Procs, Lawful(p), GivenUp(p)
  PROVE  Accounts(p)
<1>1. Withdrawn(claims, claims', cut')
  BY WithdrawnFacts DEF GivenUp
<1> QED
  BY <1>1 DEF Accounts, GivenUp, TakenIn, Ingesting, Within

\* The claim just added is behind its chunk.
LEMMA AddedCovers ==
  ASSUME NEW t, NEW s, Added(claims, claims', t, s)
  PROVE  Covered(claims', s, t)
<1>1. Len(claims) + 1 \in DOMAIN claims'
  BY DEF Added
<1> QED
  BY <1>1 DEF Covered, Added, Resembles

LEMMA CoverInit ==
  ASSUME Init
  PROVE  CoverInv
<1>1. SourceIds(ledger) = {}
  BY DEF Init, SourceIds, IdsOfKind
<1> QED
  BY <1>1 DEF CoverInv, TakenIn

LEMMA CoverStep ==
  ASSUME TypeOK, Places, CoverInv, [Next]_vars
  PROVE  CoverInv'
<1>1. ASSUME NEW p \in Procs,
             StartAcquire(p) \/ FetchFails(p) \/ StartQuery(p) \/ QueryFails(p) \/ Ask(p) \/ EndAsk(p) \/ StartRefresh(p)
      PROVE  Lawful(p) /\ Accounts(p)
  <2>1. Lawful(p) /\ Quietly(p) /\ claims' = claims /\ proc'[p].at \notin Ingesting
    BY <1>1, WaitingMove DEF Waiting, Ingesting, Within
  <2> QED
    BY <2>1, Outside, QuietAccounts
<1>2. ASSUME NEW p \in Procs, Supersede(p) \/ Doubt(p) \/ Refresh(p)
      PROVE  Lawful(p) /\ Accounts(p)
  <2>1. Lawful(p) /\ Quietly(p) /\ Marked(claims, claims') /\ proc'[p].at \notin Ingesting
    BY <1>2, SupersedeMove, DoubtMove, SweepMove DEF Waiting, Ingesting, Within
  <2> QED
    BY <2>1, Outside, QuietAccounts
<1>3. ASSUME NEW p \in Procs, Adopt(p) \/ ProposeCandidate(p)
      PROVE  Lawful(p) /\ Accounts(p)
  <2>1. /\ Lawful(p) /\ Quietly(p) /\ Added(claims, claims', proc[p].tag, proc[p].source)
        /\ proc[p].tag \in Origins /\ proc[p].source \in Nat /\ proc'[p].at \notin Ingesting
    BY <1>3, AdoptMove, CandidateMove, HereFacts DEF Waiting, Ingesting, Within, Noted, Origins, Calls
  <2> QED
    BY <2>1, Outside, QuietAccounts
<1>4. ASSUME NEW p \in Procs, Correct(p)
      PROVE  Lawful(p) /\ Accounts(p)
  <2>1. Lawful(p) /\ Quietly(p) /\ proc'[p].at \notin Ingesting
    BY <1>4, CorrectMove DEF Ingesting, Within
  <2>2. PICK s \in Nat : Added(claims, claims', Corrected, s)
    BY <1>4, CorrectMove DEF Noted
  <2>3. Corrected \in Origins
    BY DEF Origins
  <2> QED
    BY <2>1, <2>2, <2>3, Outside, QuietAccounts
<1>5. ASSUME NEW p \in Procs, Sight(p)
      PROVE  Lawful(p) /\ Accounts(p)
  BY <1>5, SightMove, QuietAccounts
<1>6. ASSUME NEW p \in Procs, RecordSource(p)
      PROVE  Lawful(p) /\ Accounts(p)
  <2>1. /\ Lawful(p) /\ claims' = claims /\ cut' = cut /\ proc'[p].at = "chunk"
        /\ SourceIds(ledger') = SourceIds(ledger) \cup {proc'[p].source}
        /\ proc'[p].rest = ledger'[proc'[p].source].doc /\ proc[p].at \notin Ingesting
    BY <1>6, RecordMove DEF Waiting, Ingesting, Within
  <2>2. proc[p].source \notin SourceIds(ledger)
    BY <2>1 DEF Places, PlaceOK
  <2>3. TakenIn(proc'[p], ledger', claims', cut')
    BY <2>1 DEF TakenIn, Handled
  <2>4. Withdrawn(claims, claims', cut')
    BY <2>1, WithdrawnFacts
  <2> QED
    BY <2>1, <2>2, <2>3, <2>4 DEF Accounts
<1>7. ASSUME NEW p \in Procs, Evaluate(p)
      PROVE  Lawful(p) /\ Accounts(p)
  <2>1. /\ Lawful(p) /\ Onward(p) /\ claims' = claims /\ cut' = cut /\ proc[p].at \in Ingesting
        /\ proc'[p].at # "replace"
    BY <1>7, EvaluateMove DEF Ingesting, Within
  <2> QED
    BY <2>1, WithdrawnFacts, OnwardAccounts
<1>8. ASSUME NEW p \in Procs, ProposeClaim(p)
      PROVE  Lawful(p) /\ Accounts(p)
  <2>1. /\ Lawful(p) /\ Advanced(p) /\ cut' = cut /\ proc[p].at \in Ingesting /\ proc[p].rest # <<>>
        /\ Added(claims, claims', Chunk(p), proc[p].source)
    BY <1>8, ProposeMove DEF Ingesting, Within
  <2>2. Covered(claims', proc[p].source, Chunk(p)) /\ Withdrawn(claims, claims', cut')
    BY <2>1, AddedCovers, WithdrawnFacts
  <2> QED
    BY <2>1, <2>2, AdvancedAccounts
<1>9. ASSUME NEW p \in Procs, ReadAffirmed(p)
      PROVE  Lawful(p) /\ Accounts(p)
  <2>1. /\ Lawful(p) /\ claims' = claims /\ proc[p].at \in Ingesting
        /\ GivenUp(p) \/ (Onward(p) /\ cut' = cut /\ proc'[p].at # "replace")
    BY <1>9, ReadMove DEF Ingesting, Within
  <2>2. Withdrawn(claims, claims', cut')
    BY <2>1, WithdrawnFacts
  <2> QED
    BY <2>1, <2>2, GivenUpAccounts, OnwardAccounts
<1>10. ASSUME NEW p \in Procs, WriteAffirmed(p)
       PROVE  Lawful(p) /\ Accounts(p)
  <2> DEFINE i == proc[p].claim
             s == proc[p].source
  <2>1. /\ Lawful(p) /\ proc[p].at = "write" /\ i \in DOMAIN claims
        /\ Rewritten(claims, claims', i, proc[p].sources)
        /\ cut' = cut \cup (claims[i].sources \ proc[p].sources) /\ ledger' = ledger
        /\ IF proc[p].rest = <<>> THEN proc'[p].at = "idle" ELSE Advanced(p)
    BY <1>10, WriteMove
  <2>2. /\ Affirming(proc[p], ledger, claims) /\ s \in proc[p].sources
    BY <2>1 DEF Places, PlaceOK
  <2>3. Withdrawn(claims, claims', cut')
    BY <2>1 DEF Withdrawn, Rewritten
  <2>4. CASE proc[p].rest = <<>>
    <3>1. s \notin SourceIds(ledger) /\ proc'[p].at \notin Ingesting
      BY <2>1, <2>2, <2>4 DEF Affirming, Ingesting, Within
    <3>2. TakenIn(proc'[p], ledger', claims', cut')
      BY <3>1 DEF TakenIn
    <3> QED
      BY <2>1, <2>3, <3>1, <3>2 DEF Accounts
  <2>5. CASE proc[p].rest # <<>>
    <3>1. Resembles(Chunk(p), claims[i].origin)
      BY <2>2, <2>5 DEF Affirming, Chunk
    <3>2. /\ i \in DOMAIN claims' /\ claims'[i].origin = claims[i].origin
          /\ claims'[i].sources = proc[p].sources
      BY <2>1 DEF Rewritten
    <3>3. Covered(claims', s, Chunk(p))
      BY <2>2, <3>1, <3>2 DEF Covered
    <3>4. Advanced(p) /\ proc[p].at \in Ingesting /\ cut \subseteq cut'
      BY <2>1, <2>5 DEF Ingesting
    <3> QED
      BY <2>1, <2>3, <2>5, <3>3, <3>4, AdvancedAccounts
  <2> QED
    BY <2>4, <2>5
<1>11. ASSUME NEW p \in Procs, ProposeAgainst(p)
       PROVE  Lawful(p) /\ Accounts(p)
  <2>1. /\ Lawful(p) /\ proc[p].at \in Ingesting
        /\ \/ GivenUp(p)
           \/ /\ Onward(p) /\ cut' = cut /\ Added(claims, claims', Chunk(p), proc[p].source)
    BY <1>11, AgainstMove DEF Ingesting, Within
  <2>2. ASSUME Onward(p), cut' = cut, Added(claims, claims', Chunk(p), proc[p].source)
        PROVE  Accounts(p)
    <3>1. Covered(claims', proc[p].source, Head(proc[p].rest)) /\ Withdrawn(claims, claims', cut')
      BY <2>2, AddedCovers, WithdrawnFacts DEF Chunk
    <3> QED
      BY <2>1, <2>2, <3>1, OnwardAccounts
  <2> QED
    BY <2>1, <2>2, GivenUpAccounts
<1>12. ASSUME NEW p \in Procs, ReplaceContradicted(p)
       PROVE  Lawful(p) /\ Accounts(p)
  <2>1. /\ Lawful(p) /\ Advanced(p) /\ cut' = cut /\ Marked(claims, claims')
        /\ proc[p].at = "replace" /\ proc[p].at \in Ingesting /\ proc[p].rest # <<>>
    BY <1>12, ContradictedMove DEF Ingesting, Within
  <2>2. Withdrawn(claims, claims', cut')
    BY <2>1, WithdrawnFacts
  <2>3. ASSUME proc[p].source \notin cut' PROVE Covered(claims', proc[p].source, Chunk(p))
    <3>1. proc[p].source \in SourceIds(ledger)
      BY <2>1, ChunkPlace
    <3>2. Covered(claims, proc[p].source, Chunk(p))
      BY <2>1, <2>3, <3>1 DEF CoverInv, TakenIn, Chunk
    <3> QED
      BY <2>1, <2>2, <2>3, <3>2, CoveredStable DEF Lawful
  <2> QED
    BY <2>1, <2>2, <2>3, AdvancedAccounts
<1>13. ASSUME NEW p \in Procs, EndDocument(p)
       PROVE  Lawful(p) /\ Accounts(p)
  <2> DEFINE s == proc[p].source
  <2>1. /\ Lawful(p) /\ ledger' = ledger /\ claims' = claims /\ cut' = cut
        /\ proc[p].at = "chunk" /\ proc[p].rest = <<>> /\ proc'[p].at \notin Ingesting
    BY <1>13, EndMove DEF Waiting, Ingesting, Within
  <2>2. ToSet(proc[p].rest) = {}
    BY <2>1 DEF ToSet
  <2>3. ASSUME s \in SourceIds(ledger), s \notin cut
        PROVE  \A t \in ToSet(ledger[s].doc) : Covered(claims', s, t)
    <3>1. Handled(claims, ledger, s, proc[p].rest)
      BY <2>1, <2>3 DEF CoverInv, TakenIn, Ingesting, Within
    <3> QED
      BY <2>1, <2>2, <3>1 DEF Handled
  <2>4. Withdrawn(claims, claims', cut') /\ TakenIn(proc'[p], ledger', claims', cut')
    BY <2>1, WithdrawnFacts DEF TakenIn
  <2> QED
    BY <2>1, <2>3, <2>4 DEF Accounts
<1>14. ASSUME NEW p \in Procs, Crash(p)
       PROVE  Lawful(p) /\ Accounts(p)
  <2>1. /\ Lawful(p) /\ ledger' = ledger /\ claims' = claims
        /\ cut' = cut \cup ({proc[p].source} \ {0}) /\ proc'[p].at \notin Ingesting
    BY <1>14, CrashMove DEF Ingesting, Within
  <2>2. 0 \notin SourceIds(ledger)
    BY HereFacts DEF SourceIds, IdsOfKind
  <2>3. Withdrawn(claims, claims', cut') /\ TakenIn(proc'[p], ledger', claims', cut')
    BY <2>1, WithdrawnFacts DEF TakenIn
  <2> QED
    BY <2>1, <2>2, <2>3 DEF Accounts
<1>15. ASSUME NEW p \in Procs, Ingest(p) \/ Learn(p) \/ StartRefresh(p) \/ Refresh(p) \/ Crash(p)
       PROVE  CoverInv'
  <2>1. Lawful(p) /\ Accounts(p)
    BY <1>1, <1>2, <1>3, <1>4, <1>5, <1>6, <1>7, <1>8, <1>9, <1>10, <1>11, <1>12, <1>13, <1>14, <1>15
    DEF Ingest, Learn
  <2> QED
    BY <2>1, AccountsStep
<1>16. ASSUME Keep \/ TimePasses PROVE CoverInv'
  <2>1. /\ ledger' = ledger /\ proc' = proc /\ cut' = cut /\ Marked(claims, claims')
    BY <1>16, WorldMove
  <2>2. Withdrawn(claims, claims', cut') /\ Lasting(claims, claims') /\ Grown(ledger, ledger')
    BY <2>1, WithdrawnFacts, MarkedKept, Stays
  <2>3. \A s, t : s \notin cut' /\ Covered(claims, s, t) => Covered(claims', s, t)
    BY <2>2, CoveredStable
  <2>4. \A p \in Procs : TakenIn(proc'[p], ledger', claims', cut')
    BY <2>1, <2>3 DEF CoverInv, TakenIn, Handled
  <2>5. ASSUME NEW s \in SourceIds(ledger), s \notin cut, \A p \in Procs : proc[p].source # s,
               NEW t \in ToSet(ledger[s].doc)
        PROVE  Covered(claims', s, t)
    BY <2>1, <2>3, <2>5 DEF CoverInv
  <2> QED
    BY <2>1, <2>4, <2>5 DEF CoverInv
<1>17. CASE UNCHANGED vars
  BY <1>17 DEF vars, CoverInv
<1> QED
  BY <1>15, <1>16, <1>17 DEF Next

\* Whatever other processes do to the store while a document is taken in, it
\* ends with every chunk of it behind a claim that says as much and names it,
\* unless a crash, a refused chunk or an overwritten affirmation cut it short.
THEOREM DocumentsAreCovered == Spec => []DocumentCovered
<1>1. TypeOK /\ CoverInv => DocumentCovered
  <2> SUFFICES ASSUME TypeOK, CoverInv, NEW s \in Sources, s \notin cut,
                      \A p \in Procs : proc[p].source # s, NEW t \in ToSet(ledger[s].doc)
               PROVE  \E i \in DOMAIN claims : s \in claims[i].sources /\ Alike(t, i)
    BY DEF DocumentCovered
  <2>1. s \in DOMAIN ledger /\ s \in SourceIds(ledger)
    BY DEF Sources, SourceIds, IdsOfKind
  <2>2. Covered(claims, s, t)
    BY <2>1 DEF CoverInv
  <2>3. t \in Texts
    BY <2>1, DocTexts
  <2> QED
    BY <2>2, <2>3, AlikeFacts DEF Covered
<1> QED
  BY <1>1, CoverInit, CoverStep, TypeCorrect, PTL DEF Spec

-----------------------------------------------------------------------------
(* Preferences.  A process about to adopt one has seen it sighted often      *)
(* enough, and what is about a tag stays so, whatever becomes of it.         *)

About(table, ids, tag) == {j \in ids : table[j].origin = tag}

\* What holds of an active claim about a tag.
Sighted(table, ps, lost, i) ==
  \/ i \in lost
  \/ \E p \in Procs : ps[p].at = "doubt" /\ ps[p].claim = i
  \/ Cardinality(About(table, 1..i, table[i].origin)) >= Threshold

AdoptInv ==
  /\ \A i \in DOMAIN claims :
       (claims[i].status = "active" /\ claims[i].origin \in Tags) => Sighted(claims, proc, torn, i)
  /\ \A p \in Procs : proc[p].at = "adopt" =>
       Cardinality(About(claims, DOMAIN claims, proc[p].tag)) + 1 >= Threshold

\* What is about a tag is finite, and becomes no less.
LEMMA AboutFacts ==
  ASSUME NEW table \in Seq(Claims), NEW ids, ids \subseteq DOMAIN table, NEW tag
  PROVE  /\ IsFiniteSet(About(table, ids, tag))
         /\ Cardinality(About(table, ids, tag)) \in Nat
<1>1. DOMAIN table = 1..Len(table) /\ Len(table) \in Nat
  OBVIOUS
<1>2. IsFiniteSet(1..Len(table))
  BY <1>1, FS_Interval
<1>3. About(table, ids, tag) \subseteq 1..Len(table)
  BY <1>1 DEF About
<1>4. IsFiniteSet(About(table, ids, tag))
  BY <1>2, <1>3, FS_Subset
<1> QED
  BY <1>4, FS_CardinalityType

LEMMA AboutGrows ==
  ASSUME NEW table \in Seq(Claims), NEW table2 \in Seq(Claims), Lasting(table, table2), NEW tag
  PROVE  Cardinality(About(table, DOMAIN table, tag)) <= Cardinality(About(table2, DOMAIN table2, tag))
<1>1. About(table, DOMAIN table, tag) \subseteq About(table2, DOMAIN table2, tag)
  BY DEF About, Lasting
<1>2. IsFiniteSet(About(table2, DOMAIN table2, tag))
  BY AboutFacts
<1> QED
  BY <1>1, <1>2, FS_Subset

\* No claim becomes active again.
Fading(table, table2) ==
  \A i \in DOMAIN table : table2[i].status = "active" => table[i].status = "active"

LEMMA FadingFacts ==
  /\ claims' = claims \/ Marked(claims, claims') => Fading(claims, claims')
  /\ \A id, sources : Rewritten(claims, claims', id, sources) => Fading(claims, claims')
  /\ \A origin, source : Added(claims, claims', origin, source) => Fading(claims, claims')
BY DEF Fading, Marked, Rewritten, Added

\* The claims there were before the step of p: a candidate leaves "doubt" for
\* the worse or into a crash.
LEMMA OldSighted ==
  ASSUME TypeOK, NEW p \in Procs, Lawful(p), Fading(claims, claims'), torn \subseteq torn',
         proc[p].at = "doubt" =>
           proc[p].claim \in torn' \/ claims'[proc[p].claim].status # "active",
         NEW i \in DOMAIN claims, claims'[i].status = "active",
         Sighted(claims, proc, torn, i)
  PROVE  Sighted(claims', proc', torn', i)
<1>1. Lasting(claims, claims') /\ Others(p)
  BY DEF Lawful
<1>2. About(claims', 1..i, claims'[i].origin) = About(claims, 1..i, claims[i].origin)
  <2>1. 1..i \subseteq DOMAIN claims /\ i \in 1..i
    BY DEF TypeOK
  <2> QED
    BY <1>1, <2>1 DEF About, Lasting
<1>3. CASE i \in torn
  BY <1>3 DEF Sighted
<1>4. CASE \E q \in Procs : proc[q].at = "doubt" /\ proc[q].claim = i
  <2>1. PICK q \in Procs : proc[q].at = "doubt" /\ proc[q].claim = i
    BY <1>4
  <2>2. CASE q = p
    BY <2>1, <2>2 DEF Sighted
  <2>3. CASE q # p
    <3>1. proc'[q] = proc[q]
      BY <1>1, <2>3 DEF Others
    <3> QED
      BY <2>1, <3>1 DEF Sighted
  <2> QED
    BY <2>2, <2>3
<1>5. CASE Cardinality(About(claims, 1..i, claims[i].origin)) >= Threshold
  BY <1>2, <1>5 DEF Sighted
<1> QED
  BY <1>3, <1>4, <1>5 DEF Sighted

LEMMA AdoptedAfter ==
  ASSUME TypeOK, AdoptInv, NEW p \in Procs, Lawful(p), Fading(claims, claims'), torn \subseteq torn',
         proc[p].at = "doubt" =>
           proc[p].claim \in torn' \/ claims'[proc[p].claim].status # "active",
         \A i \in DOMAIN claims' \ DOMAIN claims : claims'[i].origin \in Tags => Sighted(claims', proc', torn', i),
         proc'[p].at = "adopt" =>
           Cardinality(About(claims', DOMAIN claims', proc'[p].tag)) + 1 >= Threshold
  PROVE  AdoptInv'
<1>1. ASSUME NEW i \in DOMAIN claims', claims'[i].status = "active", claims'[i].origin \in Tags
      PROVE  Sighted(claims', proc', torn', i)
  <2>1. CASE i \in DOMAIN claims
    <3>1. claims[i].status = "active" /\ claims[i].origin \in Tags
      BY <1>1, <2>1 DEF Fading, Lawful, Lasting
    <3>2. Sighted(claims, proc, torn, i)
      BY <2>1, <3>1 DEF AdoptInv
    <3> QED
      BY <1>1, <2>1, <3>2, OldSighted
  <2>2. CASE i \notin DOMAIN claims
    BY <1>1, <2>2
  <2> QED
    BY <2>1, <2>2
<1>2. ASSUME NEW q \in Procs, proc'[q].at = "adopt"
      PROVE  Cardinality(About(claims', DOMAIN claims', proc'[q].tag)) + 1 >= Threshold
  <2>1. CASE q = p
    BY <1>2, <2>1
  <2>2. CASE q # p
    <3>1. proc'[q] = proc[q]
      BY <2>2 DEF Lawful, Others
    <3> DEFINE tag == proc[q].tag
               few == Cardinality(About(claims, DOMAIN claims, tag))
               more == Cardinality(About(claims', DOMAIN claims', tag))
    <3>2. /\ claims \in Seq(Claims) /\ claims' \in Seq(Claims) /\ Lasting(claims, claims')
      BY DEF TypeOK, Lawful
    <3>3. few <= more /\ few \in Nat /\ more \in Nat
      BY <3>2, AboutGrows, AboutFacts
    <3>4. few + 1 >= Threshold
      BY <1>2, <3>1 DEF AdoptInv
    <3> HIDE DEF few, more
    <3>5. more + 1 >= Threshold
      BY <3>3, <3>4, StudyAssumption
    <3> QED
      BY <3>1, <3>5 DEF more
  <2> QED
    BY <2>1, <2>2
<1> QED
  BY <1>1, <1>2 DEF AdoptInv

\* The steps that are about no preference.
LEMMA OtherAfter ==
  ASSUME TypeOK, AdoptInv, NEW p \in Procs, Lawful(p), torn' = torn,
         proc[p].at # "doubt", proc'[p].at # "adopt",
         \/ claims' = claims \/ Marked(claims, claims')
         \/ \E id, sources : Rewritten(claims, claims', id, sources)
         \/ \E origin \in Texts \cup {Corrected} : \E source : Added(claims, claims', origin, source)
  PROVE  AdoptInv'
<1>1. Fading(claims, claims')
  BY FadingFacts
<1>2. ASSUME NEW i \in DOMAIN claims' \ DOMAIN claims PROVE claims'[i].origin \notin Tags
  <2>1. PICK origin \in Texts \cup {Corrected} : \E source : Added(claims, claims', origin, source)
    BY <1>2 DEF Marked, Rewritten
  <2>2. PICK source : Added(claims, claims', origin, source)
    BY <2>1
  <2>3. claims'[i].origin = origin
    BY <1>2, <2>2 DEF Added
  <2> QED
    BY <2>3, StudyAssumption
<1> QED
  BY <1>1, <1>2, AdoptedAfter

LEMMA AdoptInit ==
  ASSUME Init
  PROVE  AdoptInv
<1>1. DOMAIN claims = {} /\ \A p \in Procs : proc[p].at = "idle"
  BY IdleFacts DEF Init
<1> QED
  BY <1>1 DEF AdoptInv

LEMMA AdoptStep ==
  ASSUME TypeOK, Places, AdoptInv, [Next]_vars
  PROVE  AdoptInv'
<1>1. ASSUME NEW p \in Procs,
             StartAcquire(p) \/ FetchFails(p) \/ StartQuery(p) \/ QueryFails(p) \/ Ask(p) \/ EndAsk(p) \/ StartRefresh(p)
      PROVE  AdoptInv'
  <2>1. Lawful(p) /\ Quietly(p) /\ claims' = claims /\ proc[p].at \in Waiting /\ proc'[p].at \in Waiting
    BY <1>1, WaitingMove
  <2> QED
    BY <2>1, OtherAfter DEF Quietly, Waiting
<1>2. ASSUME NEW p \in Procs, RecordSource(p) \/ Evaluate(p) \/ EndDocument(p) \/ ReadAffirmed(p)
      PROVE  AdoptInv'
  <2>1. Lawful(p) /\ claims' = claims /\ torn' = torn /\ proc[p].at # "doubt" /\ proc'[p].at # "adopt"
    BY <1>2, RecordMove, EvaluateMove, EndMove, ReadMove DEF Waiting, Onward, GivenUp
  <2> QED
    BY <2>1, OtherAfter
<1>3. ASSUME NEW p \in Procs, ProposeClaim(p) \/ ProposeAgainst(p)
      PROVE  AdoptInv'
  <2>1. /\ Lawful(p) /\ torn' = torn /\ proc[p].at \in Ingesting /\ proc[p].rest # <<>>
        /\ proc[p].at # "doubt" /\ proc'[p].at # "adopt"
        /\ claims' = claims \/ Added(claims, claims', Chunk(p), proc[p].source)
    BY <1>3, ProposeMove, AgainstMove DEF Advanced, Onward, GivenUp, Ingesting, Within
  <2>2. Chunk(p) \in Texts
    BY <2>1, ChunkPlace
  <2> QED
    BY <2>1, <2>2, OtherAfter
<1>4. ASSUME NEW p \in Procs, WriteAffirmed(p)
      PROVE  AdoptInv'
  <2>1. /\ Lawful(p) /\ torn' = torn /\ proc[p].at # "doubt" /\ proc'[p].at # "adopt"
        /\ Rewritten(claims, claims', proc[p].claim, proc[p].sources)
    BY <1>4, WriteMove DEF Advanced
  <2> QED
    BY <2>1, OtherAfter
<1>5. ASSUME NEW p \in Procs, ReplaceContradicted(p) \/ Supersede(p) \/ Refresh(p)
      PROVE  AdoptInv'
  <2>1. /\ Lawful(p) /\ torn' = torn /\ proc[p].at # "doubt" /\ proc'[p].at # "adopt"
        /\ Marked(claims, claims')
    BY <1>5, ContradictedMove, SupersedeMove, SweepMove DEF Advanced, Quietly, Waiting
  <2> QED
    BY <2>1, OtherAfter
<1>6. ASSUME NEW p \in Procs, Correct(p)
      PROVE  AdoptInv'
  <2>1. Lawful(p) /\ torn' = torn /\ proc[p].at # "doubt" /\ proc'[p].at # "adopt"
    BY <1>6, CorrectMove DEF Quietly
  <2>2. \E s : Added(claims, claims', Corrected, s)
    BY <1>6, CorrectMove DEF Noted
  <2> QED
    BY <2>1, <2>2, OtherAfter
<1>7. ASSUME NEW p \in Procs, Sight(p)
      PROVE  AdoptInv'
  <2>1. /\ Lawful(p) /\ torn' = torn /\ proc[p].at # "doubt" /\ claims' = claims
        /\ proc'[p].at = "adopt" => Enough(proc'[p].tag)
    BY <1>7, SightMove DEF Quietly
  <2>2. ASSUME NEW tag, Enough(tag)
        PROVE  Cardinality(About(claims, DOMAIN claims, tag)) + 1 >= Threshold
    <3> DEFINE few == Cardinality(Sightings(tag))
               more == Cardinality(About(claims, DOMAIN claims, tag))
    <3>1. Sightings(tag) \subseteq About(claims, DOMAIN claims, tag)
      BY DEF Sightings, VisibleClaims, About
    <3>2. IsFiniteSet(About(claims, DOMAIN claims, tag)) /\ more \in Nat
      BY AboutFacts DEF TypeOK
    <3>3. few <= more /\ few \in Nat
      BY <3>1, <3>2, FS_Subset, FS_CardinalityType
    <3>4. few + 1 >= Threshold
      BY <2>2 DEF Enough
    <3> HIDE DEF few, more
    <3>5. more + 1 >= Threshold
      BY <3>2, <3>3, <3>4, StudyAssumption
    <3> QED
      BY <3>5 DEF more
  <2>3. Fading(claims, claims')
    BY <2>1, FadingFacts
  <2> QED
    BY <2>1, <2>2, <2>3, AdoptedAfter
<1>8. ASSUME NEW p \in Procs, Adopt(p)
      PROVE  AdoptInv'
  <2> DEFINE tag == proc[p].tag
             last == Len(claims) + 1
             before == About(claims, DOMAIN claims, tag)
             after == About(claims', 1..last, tag)
  <2>1. /\ Lawful(p) /\ torn' = torn /\ proc[p].at = "adopt" /\ proc'[p].at # "adopt"
        /\ Added(claims, claims', tag, proc[p].source)
    BY <1>8, AdoptMove DEF Quietly, Waiting, Noted
  <2>2. DOMAIN claims = 1..Len(claims) /\ Len(claims) \in Nat /\ claims \in Seq(Claims)
    BY DEF TypeOK
  <2>3. 1..last = DOMAIN claims \cup {last} /\ last \notin DOMAIN claims
    BY <2>2
  <2>4. after = before \cup {last} /\ last \notin before
    BY <2>1, <2>3 DEF About, Added
  <2>5. IsFiniteSet(before) /\ Cardinality(before) \in Nat
    BY <2>2, AboutFacts
  <2>6. Cardinality(after) = Cardinality(before) + 1
    BY <2>4, <2>5, FS_AddElement
  <2>7. Cardinality(before) + 1 >= Threshold
    BY <2>1 DEF AdoptInv
  <2>8. DOMAIN claims' \ DOMAIN claims = {last} /\ claims'[last].origin = tag
    BY <2>1 DEF Added
  <2> HIDE DEF tag, last
  <2>9. Sighted(claims', proc', torn', last)
    BY <2>6, <2>7, <2>8 DEF Sighted
  <2>10. Fading(claims, claims')
    BY <2>1, FadingFacts
  <2> QED
    BY <2>1, <2>8, <2>9, <2>10, AdoptedAfter
<1>9. ASSUME NEW p \in Procs, ProposeCandidate(p)
      PROVE  AdoptInv'
  <2>1. /\ Lawful(p) /\ torn' = torn /\ proc[p].at = "candidate"
        /\ proc'[p].at = "doubt" /\ proc'[p].claim = Len(claims) + 1
        /\ Added(claims, claims', proc[p].tag, proc[p].source)
    BY <1>9, CandidateMove DEF Quietly, Noted
  <2>2. DOMAIN claims' \ DOMAIN claims = {Len(claims) + 1}
    BY <2>1 DEF Added
  <2>3. Sighted(claims', proc', torn', Len(claims) + 1)
    BY <2>1 DEF Sighted
  <2>4. Fading(claims, claims')
    BY <2>1, FadingFacts
  <2> QED
    BY <2>1, <2>2, <2>3, <2>4, AdoptedAfter
<1>10. ASSUME NEW p \in Procs, Doubt(p)
       PROVE  AdoptInv'
  <2>1. /\ Lawful(p) /\ torn' = torn /\ proc'[p].at # "adopt" /\ Marked(claims, claims')
        /\ claims'[proc[p].claim].status # "active"
    BY <1>10, DoubtMove DEF Quietly, Waiting
  <2>2. Fading(claims, claims') /\ DOMAIN claims' = DOMAIN claims
    BY <2>1, FadingFacts DEF Marked
  <2> QED
    BY <2>1, <2>2, AdoptedAfter
<1>11. ASSUME NEW p \in Procs, Crash(p)
       PROVE  AdoptInv'
  <2>1. /\ Lawful(p) /\ claims' = claims /\ proc'[p].at # "adopt" /\ torn \subseteq torn'
        /\ proc[p].at = "doubt" => proc[p].claim \in torn'
    BY <1>11, CrashMove
  <2>2. Fading(claims, claims')
    BY <2>1, FadingFacts
  <2> QED
    BY <2>1, <2>2, AdoptedAfter
<1>12. ASSUME Keep \/ TimePasses PROVE AdoptInv'
  <2>1. proc' = proc /\ torn' = torn /\ Marked(claims, claims')
    BY <1>12, WorldMove
  <2>2. /\ DOMAIN claims' = DOMAIN claims
        /\ \A i \in DOMAIN claims : /\ claims'[i].origin = claims[i].origin
                                    /\ claims'[i].status = "active" => claims[i].status = "active"
    BY <2>1 DEF Marked
  <2>3. \A ids, tag : ids \subseteq DOMAIN claims => About(claims', ids, tag) = About(claims, ids, tag)
    BY <2>2 DEF About
  <2>4. ASSUME NEW i \in DOMAIN claims', claims'[i].status = "active", claims'[i].origin \in Tags
        PROVE  Sighted(claims', proc', torn', i)
    <3>1. Sighted(claims, proc, torn, i)
      BY <2>2, <2>4 DEF AdoptInv
    <3>2. i \in DOMAIN claims /\ 1..i \subseteq DOMAIN claims
      BY <2>2 DEF TypeOK
    <3>3. About(claims', 1..i, claims'[i].origin) = About(claims, 1..i, claims[i].origin)
      BY <2>2, <2>3, <3>2
    <3> QED
      BY <2>1, <3>1, <3>3 DEF Sighted
  <2>5. \A p \in Procs : proc'[p].at = "adopt" =>
          Cardinality(About(claims', DOMAIN claims', proc'[p].tag)) + 1 >= Threshold
    <3>1. \A tag : About(claims', DOMAIN claims', tag) = About(claims, DOMAIN claims, tag)
      BY <2>2, <2>3
    <3> QED
      BY <2>1, <3>1 DEF AdoptInv
  <2> QED
    BY <2>4, <2>5 DEF AdoptInv
<1>13. CASE UNCHANGED vars
  BY <1>13 DEF vars, AdoptInv
<1> QED
  BY <1>1, <1>2, <1>3, <1>4, <1>5, <1>6, <1>7, <1>8, <1>9, <1>10, <1>11, <1>12, <1>13
  DEF Next, Ingest, Learn

\* A preference is believed without reserve only after enough sightings, in
\* whichever order processes sight, doubt and correct, unless one died between
\* making a candidate and marking it.
THEOREM PreferencesAreSighted == Spec => []AdoptedOnSightings
<1>1. AdoptInv => AdoptedOnSightings
  BY DEF AdoptInv, AdoptedOnSightings, Sighted, About
<1> QED
  BY <1>1, AdoptInit, AdoptStep, TypeCorrect, PTL DEF Spec
=============================================================================
