--------------------------- MODULE LearningProofs ---------------------------
(* Machine-checked facts about Learning, for every value of its constants    *)
(* and, unless a theorem says otherwise, any number of processes.            *)
EXTENDS Learning, FiniteSetTheorems, WellFoundedInduction, TLAPS

-----------------------------------------------------------------------------
(* What the tables hold. *)

RowStatus == {"candidate", "uncertain", "contradicted", "established"}
Rows == [object : Objects, support : Seq(Nat), contra : Seq(Nat), confidence : Int,
         status : RowStatus, claim : Nat]
Origins == Objects \cup {ByEvent, ByCaller}
Claims == [origin : Origins, sources : SUBSET Nat, status : ClaimStatus, old : Nat]

\* The events that speak for an object, and against it.
ForIds(log, object) ==
  {e \in DOMAIN log :
     /\ log[e].kind \in MinedKinds
     /\ IF object = Strategy THEN log[e].kind = "experience" /\ log[e].result = "success"
        ELSE log[e].result = object}

AgainstIds(log, object) ==
  {e \in DOMAIN log :
     \/ log[e].kind = "reflection"
     \/ /\ log[e].kind \in MinedKinds
        /\ IF object = Strategy THEN log[e].kind = "experience" /\ log[e].result = "failure"
           ELSE log[e].result # object}

\* A list of evidence: each once.
Lists(s, ids) == s \in Seq(Nat) /\ IsInjective(s) /\ \A k \in DOMAIN s : s[k] \in ids

\* What is for an object speaks for it; what is against it is on the ledger,
\* since a correction may name anything.
Sided(log, row) ==
  /\ Lists(row.support, ForIds(log, row.object))
  /\ row.contra \in Seq(Nat) /\ \A k \in DOMAIN row.contra : row.contra[k] \in DOMAIN log

HasRow(table, object) == \E i \in DOMAIN table : table[i].object = object

-----------------------------------------------------------------------------
(* The operators of the model. *)

LEMMA MaxOfTwo ==
  ASSUME NEW a \in Int, NEW b \in Int
  PROVE  Max({a, b}) \in {a, b} /\ Max({a, b}) >= a /\ Max({a, b}) >= b
<1>1. \E x \in {a, b} : \A y \in {a, b} : x >= y
  OBVIOUS
<1> QED BY <1>1 DEF Max

LEMMA MinOfTwo ==
  ASSUME NEW a \in Int, NEW b \in Int
  PROVE  Min({a, b}) \in {a, b}
<1>1. \E x \in {a, b} : \A y \in {a, b} : x <= y
  OBVIOUS
<1> QED BY <1>1 DEF Min

LEMMA ClampedType ==
  ASSUME NEW low \in Int, NEW x \in Int, NEW high \in Int
  PROVE  Clamped(low, x, high) \in Int
<1>1. Min({x, high}) \in Int
  BY MinOfTwo
<1> QED BY <1>1, MaxOfTwo DEF Clamped

LEMMA RangeFinite ==
  ASSUME NEW s \in Seq(Nat)
  PROVE  IsFiniteSet(ToSet(s)) /\ Cardinality(ToSet(s)) \in Nat
<1>1. s \in Surjection(1..Len(s), ToSet(s))
  BY DEF Surjection, ToSet
<1>2. IsFiniteSet(1..Len(s))
  BY FS_Interval
<1>3. IsFiniteSet(ToSet(s))
  BY <1>1, <1>2, FS_Surjection
<1> QED BY <1>3, FS_CardinalityType

\* A list without repetition has as many members as places.
LEMMA RangeOfInjective ==
  ASSUME NEW s \in Seq(Nat), IsInjective(s)
  PROVE  Cardinality(ToSet(s)) = Len(s)
<1>1. s \in Surjection(1..Len(s), ToSet(s)) /\ s \in Injection(1..Len(s), ToSet(s))
  BY DEF Surjection, Injection, ToSet, IsInjective
<1>2. IsFiniteSet(1..Len(s)) /\ Cardinality(1..Len(s)) = Len(s)
  <2> DEFINE n == Len(s)
  <2>1. n \in Nat
    OBVIOUS
  <2> HIDE DEF n
  <2>2. IsFiniteSet(1..n) /\ Cardinality(1..n) = IF 1 <= n THEN n - 1 + 1 ELSE 0
    BY <2>1, FS_Interval
  <2>3. Cardinality(1..n) = n
    BY <2>1, <2>2
  <2> QED BY <2>2, <2>3 DEF n
<1>3. Cardinality(ToSet(s)) = Cardinality(1..Len(s)) <=> s \in Injection(1..Len(s), ToSet(s))
  BY <1>1, <1>2, FS_Surjection
<1> QED BY <1>1, <1>2, <1>3

LEMMA ConfidenceType ==
  ASSUME NEW s \in Seq(Nat), NEW c \in Seq(Nat)
  PROVE  Confidence(s, c) \in Int
<1> DEFINE both == ToSet(s) \cup ToSet(c)
           evidence == Rounded(4000 * (Len(s) - Len(c)), Len(s) + Len(c) + 4)
           diversity == Min({1000, 200 * Cardinality(both)})
           sum == 5000 + evidence + diversity + 300
<1>1. Cardinality(both) \in Nat
  BY RangeFinite, FS_Union, FS_CardinalityType
<1>2. ASSUME NEW n \in Int, NEW d \in Nat \ {0} PROVE Rounded(n, d) \in Int
  BY DEF Rounded
<1>3. 4000 * (Len(s) - Len(c)) \in Int /\ Len(s) + Len(c) + 4 \in Nat \ {0}
  OBVIOUS
<1>4. evidence \in Int
  <2> DEFINE n == 4000 * (Len(s) - Len(c))
             d == Len(s) + Len(c) + 4
  <2>1. n \in Int /\ d \in Nat \ {0}
    BY <1>3
  <2> HIDE DEF n, d
  <2>2. Rounded(n, d) \in Int
    BY <1>2, <2>1
  <2> QED BY <2>2 DEF n, d
<1> HIDE DEF both, evidence
<1>5. diversity \in Int
  BY SMTT(30), <1>1, MinOfTwo
<1> HIDE DEF diversity
<1>6. sum \in Int
  BY <1>4, <1>5
<1>7. Confidence(s, c) = Clamped(500, sum, 9500)
  BY DEF Confidence, both, evidence, diversity
<1> HIDE DEF sum
<1>8. Clamped(500, sum, 9500) \in Int
  BY <1>6, ClampedType
<1> QED BY <1>7, <1>8

LEMMA StatusForType ==
  ASSUME NEW s \in Seq(Nat), NEW c \in Seq(Nat), NEW n \in Int
  PROVE  /\ StatusFor(s, c, n) \in RowStatus
         /\ StatusFor(s, c, n) = "established" => Len(s) >= MinSupport
BY MinSupportAssumption DEF StatusFor, RowStatus

LEMMA Concat ==
  ASSUME NEW s \in Seq(Nat), NEW c \in Seq(Nat)
  PROVE  /\ Len(s \o c) = Len(s) + Len(c) /\ DOMAIN (s \o c) = 1..(Len(s) + Len(c))
         /\ \A k \in 1..Len(s) : (s \o c)[k] = s[k]
         /\ \A k \in 1..Len(c) : (s \o c)[Len(s) + k] = c[k]
OBVIOUS

LEMMA ContainsConcat ==
  ASSUME NEW s \in Seq(Nat), NEW c \in Seq(Nat), NEW e
  PROVE  Contains(s \o c, e) <=> Contains(s, e) \/ Contains(c, e)
<1> DEFINE t == s \o c
<1>1. /\ Len(s) \in Nat /\ Len(c) \in Nat /\ Len(t) = Len(s) + Len(c)
      /\ \A k \in 1..Len(s) : t[k] = s[k]
      /\ \A k \in 1..Len(c) : t[Len(s) + k] = c[k]
  BY Concat
<1> HIDE DEF t
<1>2. ASSUME Contains(t, e) PROVE Contains(s, e) \/ Contains(c, e)
  <2>1. PICK k \in 1..(Len(s) + Len(c)) : t[k] = e
    BY <1>1, <1>2 DEF Contains
  <2>2. CASE k <= Len(s)
    <3>1. k \in 1..Len(s) /\ s[k] = e
      BY <1>1, <2>1, <2>2
    <3> QED BY <3>1 DEF Contains
  <2>3. CASE k > Len(s)
    <3>1. k - Len(s) \in 1..Len(c) /\ k = Len(s) + (k - Len(s))
      BY <1>1, <2>1, <2>3
    <3>2. t[Len(s) + (k - Len(s))] = c[k - Len(s)]
      BY <1>1, <3>1
    <3>3. c[k - Len(s)] = e
      BY <2>1, <3>1, <3>2
    <3> QED BY <3>1, <3>3 DEF Contains
  <2> QED BY <1>1, <2>1, <2>2, <2>3
<1>3. ASSUME Contains(s, e) PROVE Contains(t, e)
  <2>1. PICK k \in 1..Len(s) : s[k] = e
    BY <1>3 DEF Contains
  <2>2. k \in 1..Len(t) /\ t[k] = e
    BY <1>1, <2>1
  <2> QED BY <2>2 DEF Contains
<1>4. ASSUME Contains(c, e) PROVE Contains(t, e)
  <2>1. PICK k \in 1..Len(c) : c[k] = e
    BY <1>4 DEF Contains
  <2>2. Len(s) + k \in 1..Len(t) /\ t[Len(s) + k] = e
    BY <1>1, <2>1
  <2> QED BY <2>2 DEF Contains
<1> QED BY <1>2, <1>3, <1>4 DEF t

LEMMA CountedIs ==
  ASSUME NEW row, row.support \in Seq(Nat), row.contra \in Seq(Nat), NEW e
  PROVE  Counted(row, e) <=> Contains(row.support, e) \/ Contains(row.contra, e)
BY ContainsConcat DEF Counted

LEMMA AppendLists ==
  ASSUME NEW s, NEW ids, Lists(s, ids), NEW e \in Nat, e \in ids, ~Contains(s, e)
  PROVE  Lists(Append(s, e), ids)
BY DEF Lists, IsInjective, Contains

LEMMA ListsMore ==
  ASSUME NEW s, NEW A, NEW B, Lists(s, A), A \subseteq B
  PROVE  Lists(s, B)
BY DEF Lists

LEMMA RowOfIs ==
  ASSUME learned \in Seq(Rows), NEW o
  PROVE  \/ RowOf(o) = 0 /\ ~HasRow(learned, o)
         \/ RowOf(o) \in DOMAIN learned /\ RowOf(o) # 0 /\ learned[RowOf(o)].object = o
BY DEF RowOf, HasRow


-----------------------------------------------------------------------------
(* Where a process and a caller can be, given the ledger, the table of       *)
(* objects and the table of claims.                                          *)

Deciding == {"affirm", "affirming", "demote", "demoting", "link"}
Promotion == {"promote"} \cup Deciding
States == {"idle", "claim", "start"} \cup Miners \cup Promotion

Sightings == [object : Objects, event : Nat, against : BOOLEAN]
Procs == [pc : States, events : SUBSET Nat, calls : SUBSET Sightings, known : SUBSET Objects,
          touched : SUBSET Objects, call : Sightings \cup {NoCall}, held : Rows \cup {NoRow},
          rows : Seq(Rows), at : Nat, sources : SUBSET Nat, claim : Nat, spent : Nat,
          seen : Nat, clean : BOOLEAN]
Ops == [cmd : Commands \cup {"none"}, id : Nat, held : Rows \cup {NoRow}, event : Nat, new : Nat]

TypeOK ==
  /\ ledger \in Seq(Events) /\ learned \in Seq(Rows) /\ claims \in Seq(Claims)
  /\ proc \in [Processes -> Procs] /\ op \in Ops
  /\ budget \in [passes : Nat, commands : Nat, crashes : 0..MaxCrashes]

\* What a sighting says is so, and a claim is about the object that links to it.
Apt(log, call) ==
  call.event \in IF call.against THEN AgainstIds(log, call.object) ELSE ForIds(log, call.object)

LinkOK(row, base) ==
  row.claim # 0 => row.claim \in DOMAIN base /\ base[row.claim].origin = row.object

TablesOK(log, table, base) ==
  /\ \A i, j \in DOMAIN table : table[i].object = table[j].object => i = j
  /\ \A i \in DOMAIN table : Sided(log, table[i]) /\ LinkOK(table[i], base)
  /\ \A i \in DOMAIN base :
       base[i].origin \in Objects => base[i].sources \subseteq ForIds(log, base[i].origin)

\* The miners call observe for what they read, and hold the row they found.
CallsOK(s, log, table) ==
  /\ s.calls # {} => s.pc \in Miners
  /\ \A call \in s.calls :
       /\ Apt(log, call)
       /\ s.pc = "patterns" => call.object # Strategy /\ ~call.against
       /\ s.pc = "siblings" => call.object # Strategy /\ HasRow(table, call.object)
       /\ s.pc = "strategies" => call.object = Strategy
  /\ \A o \in s.known \cup s.touched : HasRow(table, o)
  /\ s.pc \in {"claim", "start"} => s.touched = {}
  /\ s.pc = "patterns" =>
       Strategy \notin s.known \cup s.touched /\ \A e \in s.events : log[e].kind \in MinedKinds
  /\ s.call # NoCall => s.call \in s.calls
  /\ s.held # NoRow =>
       /\ s.call # NoCall /\ s.held.object = s.call.object /\ HasRow(table, s.call.object)
       /\ Sided(log, s.held) /\ ~Counted(s.held, s.call.event)

\* Promotion goes over rows that were read, which stay where they were.
RowsOK(s, log, table, base) ==
  /\ s.at <= Len(s.rows) /\ Len(s.rows) <= Len(table)
  /\ \A i \in DOMAIN s.rows :
       s.rows[i].object = table[i].object /\ Sided(log, s.rows[i]) /\ LinkOK(s.rows[i], base)
  /\ s.pc \in Deciding =>
       s.at # 0 /\ s.claim \in DOMAIN base /\ base[s.claim].origin = s.rows[s.at].object
  /\ s.pc \in {"affirm", "affirming"} => s.sources \subseteq ForIds(log, s.rows[s.at].object)

PlaceOK(s, log, table, base) ==
  /\ s.events \subseteq DOMAIN log /\ s.seen <= Len(log)
  /\ CallsOK(s, log, table) /\ RowsOK(s, log, table, base)

CallerOK(o, log, table, base) ==
  /\ o # Quiet => o.cmd # "none"
  /\ o.cmd \in ObjectCommands =>
       o.id \in DOMAIN table /\ o.held.object = table[o.id].object /\ Sided(log, o.held)
  /\ o.cmd = "correct" => o.event \in DOMAIN log
  /\ o.cmd \notin ObjectCommands \cup {"none"} => o.id \in DOMAIN base
  /\ o.new # 0 => o.new \in DOMAIN base

Places ==
  /\ TablesOK(ledger, learned, claims)
  /\ \A p \in Processes : PlaceOK(proc[p], ledger, learned, claims)
  /\ CallerOK(op, ledger, learned, claims)

-----------------------------------------------------------------------------
(* What a step may do to the ledger and the tables, and what stays true of   *)
(* everyone else's place while it does.                                      *)

LogKept(log, later) == later = log \/ \E event \in Events : later = Append(log, event)

TableKept(table, later) ==
  Len(table) <= Len(later) /\ \A i \in DOMAIN table : later[i].object = table[i].object

BaseKept(base, later) ==
  Len(base) <= Len(later) /\ \A i \in DOMAIN base : later[i].origin = base[i].origin

LEMMA LogGrows ==
  ASSUME NEW log \in Seq(Events), NEW later, LogKept(log, later)
  PROVE  /\ later \in Seq(Events) /\ Len(log) <= Len(later) /\ DOMAIN log \subseteq DOMAIN later
         /\ \A e \in DOMAIN log : later[e] = log[e]
BY DEF LogKept

LEMMA IdsGrow ==
  ASSUME NEW log \in Seq(Events), NEW later, LogKept(log, later), NEW o
  PROVE  ForIds(log, o) \subseteq ForIds(later, o) /\ AgainstIds(log, o) \subseteq AgainstIds(later, o)
BY LogGrows DEF ForIds, AgainstIds

LEMMA SidedStays ==
  ASSUME NEW log \in Seq(Events), NEW later, LogKept(log, later), NEW row, Sided(log, row)
  PROVE  Sided(later, row)
<1>1. /\ ForIds(log, row.object) \subseteq ForIds(later, row.object)
      /\ DOMAIN log \subseteq DOMAIN later
  BY IdsGrow, LogGrows
<1>2. Lists(row.support, ForIds(later, row.object))
  BY <1>1, ListsMore DEF Sided
<1> QED BY <1>1, <1>2 DEF Sided

LEMMA AptStays ==
  ASSUME NEW log \in Seq(Events), NEW later, LogKept(log, later), NEW call, Apt(log, call)
  PROVE  Apt(later, call)
<1>1. /\ ForIds(log, call.object) \subseteq ForIds(later, call.object)
      /\ AgainstIds(log, call.object) \subseteq AgainstIds(later, call.object)
  BY IdsGrow
<1> QED BY <1>1 DEF Apt

LEMMA HasRowStays ==
  ASSUME NEW table \in Seq(Rows), NEW later \in Seq(Rows), TableKept(table, later),
         NEW o, HasRow(table, o)
  PROVE  HasRow(later, o)
BY DEF TableKept, HasRow

LEMMA LinkStays ==
  ASSUME NEW base \in Seq(Claims), NEW later \in Seq(Claims), BaseKept(base, later),
         NEW row, LinkOK(row, base)
  PROVE  LinkOK(row, later)
BY DEF BaseKept, LinkOK

LEMMA CallsStay ==
  ASSUME NEW log \in Seq(Events), NEW log2, LogKept(log, log2),
         NEW table \in Seq(Rows), NEW table2 \in Seq(Rows), TableKept(table, table2),
         NEW s, s.events \subseteq DOMAIN log, CallsOK(s, log, table)
  PROVE  CallsOK(s, log2, table2)
<1>1. /\ s.calls # {} => s.pc \in Miners
      /\ s.pc \in {"claim", "start"} => s.touched = {}
      /\ s.pc = "patterns" => Strategy \notin s.known \cup s.touched
  BY DEF CallsOK
<1>6. s.pc = "patterns" => \A e \in s.events : log2[e].kind \in MinedKinds
  BY LogGrows DEF CallsOK
<1>2. ASSUME NEW call \in s.calls
      PROVE  /\ Apt(log2, call)
             /\ s.pc = "patterns" => call.object # Strategy /\ ~call.against
             /\ s.pc = "siblings" => call.object # Strategy /\ HasRow(table2, call.object)
             /\ s.pc = "strategies" => call.object = Strategy
  BY AptStays, HasRowStays DEF CallsOK
<1>3. \A o \in s.known \cup s.touched : HasRow(table2, o)
  BY HasRowStays DEF CallsOK
<1>4. s.call # NoCall => s.call \in s.calls
  BY DEF CallsOK
<1>5. ASSUME s.held # NoRow
      PROVE  /\ s.call # NoCall /\ s.held.object = s.call.object /\ HasRow(table2, s.call.object)
             /\ Sided(log2, s.held) /\ ~Counted(s.held, s.call.event)
  BY <1>5, SidedStays, HasRowStays DEF CallsOK
<1> QED BY <1>1, <1>2, <1>3, <1>4, <1>5, <1>6 DEF CallsOK

LEMMA RowsStay ==
  ASSUME NEW log \in Seq(Events), NEW log2, LogKept(log, log2),
         NEW table \in Seq(Rows), NEW table2 \in Seq(Rows), TableKept(table, table2),
         NEW base \in Seq(Claims), NEW base2 \in Seq(Claims), BaseKept(base, base2),
         NEW s \in Procs, RowsOK(s, log, table, base)
  PROVE  RowsOK(s, log2, table2, base2)
<1>0. s.rows \in Seq(Rows) /\ s.at \in Nat
  BY DEF Procs
<1>1. s.at <= Len(s.rows) /\ Len(s.rows) <= Len(table) /\ Len(s.rows) <= Len(table2)
  BY <1>0 DEF RowsOK, TableKept
<1>2. ASSUME NEW i \in DOMAIN s.rows
      PROVE  s.rows[i].object = table2[i].object /\ Sided(log2, s.rows[i]) /\ LinkOK(s.rows[i], base2)
  <2>1. i \in DOMAIN table /\ s.rows[i].object = table[i].object
    BY <1>0, <1>1 DEF RowsOK
  <2>2. Sided(log, s.rows[i]) /\ LinkOK(s.rows[i], base)
    BY DEF RowsOK
  <2> QED BY <2>1, <2>2, SidedStays, LinkStays DEF TableKept
<1>3. ASSUME s.pc \in Deciding
      PROVE  s.at # 0 /\ s.claim \in DOMAIN base2 /\ base2[s.claim].origin = s.rows[s.at].object
  BY <1>3 DEF RowsOK, BaseKept
<1>4. ASSUME s.pc \in {"affirm", "affirming"}
      PROVE  s.sources \subseteq ForIds(log2, s.rows[s.at].object)
  <2>1. s.sources \subseteq ForIds(log, s.rows[s.at].object)
    BY <1>4 DEF RowsOK
  <2> QED BY <2>1, IdsGrow
<1> QED BY <1>1, <1>2, <1>3, <1>4 DEF RowsOK

LEMMA PlaceStays ==
  ASSUME NEW log \in Seq(Events), NEW log2, LogKept(log, log2),
         NEW table \in Seq(Rows), NEW table2 \in Seq(Rows), TableKept(table, table2),
         NEW base \in Seq(Claims), NEW base2 \in Seq(Claims), BaseKept(base, base2),
         NEW s \in Procs, PlaceOK(s, log, table, base)
  PROVE  PlaceOK(s, log2, table2, base2)
<1>1. s.events \subseteq DOMAIN log2 /\ s.seen <= Len(log2)
  <2>1. s.events \subseteq DOMAIN log /\ s.seen <= Len(log) /\ s.seen \in Nat
    BY DEF PlaceOK, Procs
  <2>2. DOMAIN log \subseteq DOMAIN log2 /\ Len(log) <= Len(log2) /\ log2 \in Seq(Events)
    BY LogGrows
  <2> QED BY <2>1, <2>2
<1> QED BY <1>1, CallsStay, RowsStay DEF PlaceOK

\* Being disturbed moves nobody.
LEMMA DirtiedPlace ==
  ASSUME NEW s \in Procs, NEW log, NEW table, NEW base, PlaceOK(s, log, table, base)
  PROVE  /\ [s EXCEPT !.clean = FALSE] \in Procs
         /\ PlaceOK([s EXCEPT !.clean = FALSE], log, table, base)
<1> DEFINE t == [s EXCEPT !.clean = FALSE]
<1>1. t \in Procs
  BY DEF Procs
<1>2. /\ t.pc = s.pc /\ t.events = s.events /\ t.calls = s.calls /\ t.known = s.known
      /\ t.touched = s.touched /\ t.call = s.call /\ t.held = s.held /\ t.rows = s.rows
      /\ t.at = s.at /\ t.sources = s.sources /\ t.claim = s.claim /\ t.seen = s.seen
  BY DEF Procs
<1> HIDE DEF t
<1>3. CallsOK(t, log, table)
  BY <1>2 DEF PlaceOK, CallsOK
<1>4. RowsOK(t, log, table, base)
  BY <1>2 DEF PlaceOK, RowsOK
<1> QED BY <1>1, <1>2, <1>3, <1>4 DEF PlaceOK, t

LEMMA CallerStays ==
  ASSUME NEW log \in Seq(Events), NEW log2, LogKept(log, log2),
         NEW table \in Seq(Rows), NEW table2 \in Seq(Rows), TableKept(table, table2),
         NEW base \in Seq(Claims), NEW base2 \in Seq(Claims), BaseKept(base, base2),
         NEW o, CallerOK(o, log, table, base)
  PROVE  CallerOK(o, log2, table2, base2)
<1>1. ASSUME o.cmd \in ObjectCommands
      PROVE  o.id \in DOMAIN table2 /\ o.held.object = table2[o.id].object /\ Sided(log2, o.held)
  BY <1>1, SidedStays DEF CallerOK, TableKept
<1>2. ASSUME o.cmd = "correct"
      PROVE  o.event \in DOMAIN log2
  BY <1>2, LogGrows DEF CallerOK
<1>3. DOMAIN base \subseteq DOMAIN base2
  BY DEF BaseKept
<1> QED BY <1>1, <1>2, <1>3 DEF CallerOK

-----------------------------------------------------------------------------
(* The tables stay in order whatever one statement does to them. *)

LEMMA TablesOnMoreLog ==
  ASSUME NEW log \in Seq(Events), NEW log2, LogKept(log, log2),
         NEW table, NEW base, TablesOK(log, table, base)
  PROVE  TablesOK(log2, table, base)
<1>1. \A i \in DOMAIN table : Sided(log2, table[i])
  BY SidedStays DEF TablesOK
<1>2. ASSUME NEW i \in DOMAIN base, base[i].origin \in Objects
      PROVE  base[i].sources \subseteq ForIds(log2, base[i].origin)
  BY <1>2, IdsGrow DEF TablesOK
<1> QED BY <1>1, <1>2 DEF TablesOK

\* The UPDATE of a row, which leaves its claim alone.
LEMMA RowWritten ==
  ASSUME NEW log \in Seq(Events), NEW table \in Seq(Rows), NEW base, TablesOK(log, table, base),
         NEW i \in DOMAIN table, NEW row \in Rows, Sided(log, row),
         row.object = table[i].object, row.claim = table[i].claim
  PROVE  /\ [table EXCEPT ![i] = row] \in Seq(Rows)
         /\ TableKept(table, [table EXCEPT ![i] = row])
         /\ TablesOK(log, [table EXCEPT ![i] = row], base)
<1> DEFINE later == [table EXCEPT ![i] = row]
<1>1. /\ later \in Seq(Rows) /\ DOMAIN later = DOMAIN table /\ Len(later) = Len(table)
      /\ later[i] = row /\ \A j \in DOMAIN table \ {i} : later[j] = table[j]
  OBVIOUS
<1> HIDE DEF later
<1>2. \A j \in DOMAIN table : later[j].object = table[j].object /\ later[j].claim = table[j].claim
  BY <1>1
<1>3. TableKept(table, later)
  BY <1>1, <1>2 DEF TableKept
<1>4. ASSUME NEW j \in DOMAIN later PROVE Sided(log, later[j]) /\ LinkOK(later[j], base)
  <2>1. Sided(log, later[j])
    BY <1>1 DEF TablesOK
  <2>2. LinkOK(table[j], base)
    BY <1>1 DEF TablesOK
  <2> QED BY <1>1, <1>2, <2>1, <2>2 DEF LinkOK
<1>5. \A j, k \in DOMAIN later : later[j].object = later[k].object => j = k
  BY <1>1, <1>2 DEF TablesOK
<1> QED BY <1>1, <1>3, <1>4, <1>5 DEF TablesOK, later

\* The INSERT of an object that has no row.
LEMMA RowAdded ==
  ASSUME NEW log \in Seq(Events), NEW table \in Seq(Rows), NEW base, TablesOK(log, table, base),
         NEW row \in Rows, Sided(log, row), ~HasRow(table, row.object), row.claim = 0
  PROVE  /\ Append(table, row) \in Seq(Rows)
         /\ TableKept(table, Append(table, row))
         /\ TablesOK(log, Append(table, row), base)
         /\ HasRow(Append(table, row), row.object)
<1> DEFINE later == Append(table, row)
<1>1. /\ later \in Seq(Rows) /\ DOMAIN later = 1..Len(table) + 1 /\ Len(later) = Len(table) + 1
      /\ later[Len(table) + 1] = row /\ \A j \in DOMAIN table : later[j] = table[j]
      /\ DOMAIN table = 1..Len(table) /\ Len(table) \in Nat
  OBVIOUS
<1> HIDE DEF later
<1>2. TableKept(table, later)
  BY <1>1 DEF TableKept
<1>3. ASSUME NEW j \in DOMAIN later PROVE Sided(log, later[j]) /\ LinkOK(later[j], base)
  <2>1. CASE j \in DOMAIN table
    BY <1>1, <2>1 DEF TablesOK
  <2>2. CASE j = Len(table) + 1
    BY <1>1, <2>2 DEF LinkOK
  <2> QED BY <1>1, <2>1, <2>2
<1>4. ASSUME NEW j \in DOMAIN later, NEW k \in DOMAIN later, later[j].object = later[k].object
      PROVE  j = k
  <2>1. \A l \in DOMAIN table : table[l].object # row.object
    BY DEF HasRow
  <2> QED BY <1>1, <1>4, <2>1 DEF TablesOK
<1>5. HasRow(later, row.object)
  BY <1>1 DEF HasRow
<1> QED BY <1>1, <1>2, <1>3, <1>4, <1>5 DEF TablesOK, later

\* link_knowledge.
LEMMA RowLinked ==
  ASSUME NEW log \in Seq(Events), NEW table \in Seq(Rows), NEW base \in Seq(Claims),
         TablesOK(log, table, base),
         NEW i \in DOMAIN table, NEW c \in DOMAIN base, base[c].origin = table[i].object
  PROVE  /\ [table EXCEPT ![i].claim = c] \in Seq(Rows)
         /\ TableKept(table, [table EXCEPT ![i].claim = c])
         /\ TablesOK(log, [table EXCEPT ![i].claim = c], base)
<1> DEFINE later == [table EXCEPT ![i].claim = c]
<1>0. c \in Nat /\ table[i] \in Rows
  OBVIOUS
<1>1. /\ later \in Seq(Rows) /\ DOMAIN later = DOMAIN table /\ Len(later) = Len(table)
      /\ later[i] = [table[i] EXCEPT !.claim = c] /\ \A j \in DOMAIN table \ {i} : later[j] = table[j]
  <2> DEFINE row == [table[i] EXCEPT !.claim = c]
  <2>1. row \in Rows
    BY <1>0 DEF Rows
  <2>2. later = [table EXCEPT ![i] = row]
    OBVIOUS
  <2> HIDE DEF row, later
  <2>3. /\ later \in Seq(Rows) /\ DOMAIN later = DOMAIN table /\ Len(later) = Len(table)
        /\ later[i] = row /\ \A j \in DOMAIN table \ {i} : later[j] = table[j]
    BY <2>1, <2>2
  <2> QED BY <2>3 DEF row
<1>2. /\ later[i].object = table[i].object /\ later[i].support = table[i].support
      /\ later[i].contra = table[i].contra /\ later[i].claim = c
  BY <1>0, <1>1 DEF Rows
<1> HIDE DEF later
<1>3. \A j \in DOMAIN table : later[j].object = table[j].object
  BY <1>1, <1>2
<1>4. TableKept(table, later)
  BY <1>1, <1>3 DEF TableKept
<1>5. ASSUME NEW j \in DOMAIN later PROVE Sided(log, later[j]) /\ LinkOK(later[j], base)
  <2>1. CASE j = i
    <3>1. Sided(log, table[i])
      BY DEF TablesOK
    <3> QED BY <1>2, <2>1, <3>1 DEF Sided, LinkOK
  <2>2. CASE j # i
    BY <1>1, <2>2 DEF TablesOK
  <2> QED BY <2>1, <2>2
<1>6. \A j, k \in DOMAIN later : later[j].object = later[k].object => j = k
  BY <1>1, <1>3 DEF TablesOK
<1> QED BY <1>1, <1>4, <1>5, <1>6 DEF TablesOK, later

\* A table of claims whose claims keep what they are about, and rest on nothing
\* that does not speak for it.
LEMMA ClaimsWritten ==
  ASSUME NEW log \in Seq(Events), NEW table \in Seq(Rows), NEW base \in Seq(Claims),
         TablesOK(log, table, base), NEW later \in Seq(Claims), BaseKept(base, later),
         \A i \in DOMAIN later :
           \/ i \in DOMAIN base /\ later[i].sources = base[i].sources
           \/ later[i].origin \in Objects => later[i].sources \subseteq ForIds(log, later[i].origin)
  PROVE  TablesOK(log, table, later)
<1>1. \A i \in DOMAIN table : Sided(log, table[i]) /\ LinkOK(table[i], later)
  BY LinkStays DEF TablesOK
<1>2. ASSUME NEW i \in DOMAIN later, later[i].origin \in Objects
      PROVE  later[i].sources \subseteq ForIds(log, later[i].origin)
  <2>1. CASE i \in DOMAIN base /\ later[i].sources = base[i].sources
    BY <1>2, <2>1 DEF TablesOK, BaseKept
  <2>2. CASE ~(i \in DOMAIN base /\ later[i].sources = base[i].sources)
    BY <1>2, <2>2
  <2> QED BY <2>1, <2>2
<1> QED BY <1>1, <1>2 DEF TablesOK

\* propose.
LEMMA ClaimAdded ==
  ASSUME NEW base \in Seq(Claims), NEW origin \in Origins, NEW sources \in SUBSET Nat
  PROVE  LET later == Propose(base, origin, sources)
         IN  /\ later \in Seq(Claims) /\ BaseKept(base, later)
             /\ Len(later) = Len(base) + 1 /\ DOMAIN later = 1..Len(base) + 1
             /\ \A i \in DOMAIN base : later[i] = base[i]
             /\ LET new == later[Len(base) + 1]
                IN  /\ new.origin = origin /\ new.sources = sources
                    /\ new.status = "active" /\ new.old = 0
<1> DEFINE new == [origin |-> origin, sources |-> sources, status |-> "active", old |-> 0]
<1>1. new \in Claims /\ new.origin = origin /\ new.sources = sources /\ new.status = "active" /\ new.old = 0
  BY DEF Claims, ClaimStatus
<1>2. Propose(base, origin, sources) = Append(base, new)
  BY DEF Propose
<1> HIDE DEF new
<1> QED BY <1>1, <1>2 DEF BaseKept

LEMMA StatusWritten ==
  ASSUME NEW base \in Seq(Claims), NEW id \in DOMAIN base, NEW status \in ClaimStatus
  PROVE  LET later == WriteStatus(base, id, status)
         IN  /\ later \in Seq(Claims) /\ BaseKept(base, later)
             /\ Len(later) = Len(base) /\ DOMAIN later = DOMAIN base
             /\ \A i \in DOMAIN base : /\ later[i].sources = base[i].sources
                                       /\ later[i].origin = base[i].origin
                                       /\ later[i].old = base[i].old
                                       /\ i # id => later[i] = base[i]
             /\ later[id].status = status
<1>1. base[id] \in Claims
  OBVIOUS
<1> QED BY <1>1 DEF WriteStatus, BaseKept, Claims

LEMMA SourcesWritten ==
  ASSUME NEW base \in Seq(Claims), NEW id \in DOMAIN base, NEW sources \in SUBSET Nat
  PROVE  LET later == WriteSources(base, id, sources)
         IN  /\ later \in Seq(Claims) /\ BaseKept(base, later)
             /\ Len(later) = Len(base) /\ DOMAIN later = DOMAIN base
             /\ \A i \in DOMAIN base : /\ later[i].status = base[i].status
                                       /\ later[i].origin = base[i].origin
                                       /\ later[i].old = base[i].old
                                       /\ i # id => later[i] = base[i]
             /\ later[id].sources = sources
<1>1. base[id] \in Claims
  OBVIOUS
<1> QED BY <1>1 DEF WriteSources, BaseKept, Claims

Successor(base, later, id, status, new) ==
  /\ later \in Seq(Claims) /\ BaseKept(base, later)
  /\ Len(later) = Len(base) /\ DOMAIN later = DOMAIN base
  /\ \A i \in DOMAIN base : /\ later[i].sources = base[i].sources
                            /\ later[i].origin = base[i].origin
                            /\ i # id => later[i].status = base[i].status
                            /\ i # new => later[i].old = base[i].old
  /\ later[id].status = status /\ later[new].old = id

LEMMA Replaced ==
  ASSUME NEW base \in Seq(Claims), NEW id \in DOMAIN base, NEW status \in ClaimStatus,
         NEW new \in DOMAIN base
  PROVE  Successor(base, Replace(base, id, status, new), id, status, new)
<1> DEFINE mid == WriteStatus(base, id, status)
<1>1. /\ mid \in Seq(Claims) /\ DOMAIN mid = DOMAIN base /\ Len(mid) = Len(base)
      /\ \A i \in DOMAIN base : /\ mid[i].sources = base[i].sources
                                /\ mid[i].origin = base[i].origin
                                /\ mid[i].old = base[i].old
                                /\ i # id => mid[i] = base[i]
      /\ mid[id].status = status
  BY StatusWritten
<1>2. Replace(base, id, status, new) = [mid EXCEPT ![new].old = id]
  BY DEF Replace
<1>3. mid[new] \in Claims /\ id \in Nat
  BY <1>1
<1> DEFINE later == [mid EXCEPT ![new].old = id]
<1> HIDE DEF mid
<1>4. later \in Seq(Claims) /\ Len(later) = Len(base) /\ DOMAIN later = DOMAIN base
  <2> DEFINE claim == [mid[new] EXCEPT !.old = id]
  <2>1. claim \in Claims
    BY <1>3 DEF Claims
  <2>2. later = [mid EXCEPT ![new] = claim]
    OBVIOUS
  <2> HIDE DEF claim, later
  <2> QED BY <1>1, <2>1, <2>2
<1>5. /\ \A i \in DOMAIN base : i # new => later[i] = mid[i]
      /\ later[new].sources = mid[new].sources /\ later[new].origin = mid[new].origin
      /\ later[new].status = mid[new].status /\ later[new].old = id
  BY <1>1, <1>3 DEF Claims
<1> HIDE DEF later
<1>6. \A i \in DOMAIN base : /\ later[i].sources = mid[i].sources
                             /\ later[i].origin = mid[i].origin
                             /\ later[i].status = mid[i].status
                             /\ i # new => later[i].old = mid[i].old
  BY <1>5
<1>7. Successor(base, later, id, status, new)
  BY <1>1, <1>4, <1>5, <1>6 DEF Successor, BaseKept
<1> QED BY <1>2, <1>7 DEF later

-----------------------------------------------------------------------------
(* The rows that observe, apply_correction and apply_decay write. *)

\* Nothing establishes before it has enough support.
Enough(row) == row.status = "established" => Len(row.support) >= MinSupport

LEMMA ReassessedRow ==
  ASSUME NEW row \in Rows, NEW s \in Seq(Nat), NEW c \in Seq(Nat)
  PROVE  LET new == Reassessed(row, s, c)
         IN  /\ new \in Rows /\ new.object = row.object /\ new.claim = row.claim
             /\ new.support = row.support /\ new.contra = row.contra
             /\ new.status = "established" => Len(s) >= MinSupport
<1>1. Confidence(s, c) \in Int
  BY ConfidenceType
<1>2. /\ StatusFor(s, c, Confidence(s, c)) \in RowStatus
      /\ StatusFor(s, c, Confidence(s, c)) = "established" => Len(s) >= MinSupport
  BY <1>1, StatusForType
<1> QED BY <1>1, <1>2 DEF Reassessed, Rows

LEMMA ObservedRow ==
  ASSUME NEW log \in Seq(Events), NEW row \in Rows, NEW held \in Rows, NEW call \in Sightings,
         Sided(log, held), Apt(log, call), held.object = call.object, row.object = call.object,
         ~Counted(held, call.event)
  PROVE  LET new == Observed(row, held, call.event, call.against)
         IN  /\ new \in Rows /\ new.object = row.object /\ new.claim = row.claim
             /\ Sided(log, new) /\ Enough(new)
             /\ new.support = IF call.against THEN held.support ELSE Append(held.support, call.event)
             /\ new.contra = IF call.against THEN Append(held.contra, call.event) ELSE held.contra
<1> DEFINE e == call.event
           s == IF call.against THEN held.support ELSE Append(held.support, e)
           c == IF call.against THEN Append(held.contra, e) ELSE held.contra
           again == Reassessed(row, s, c)
           new == Observed(row, held, call.event, call.against)
<1>1. e \in Nat /\ held.support \in Seq(Nat) /\ held.contra \in Seq(Nat)
  BY DEF Sightings, Rows
<1>2. ~Contains(held.support, e) /\ ~Contains(held.contra, e)
  BY <1>1, CountedIs
<1>3. /\ Lists(held.support, ForIds(log, row.object))
      /\ \A k \in DOMAIN held.contra : held.contra[k] \in DOMAIN log
  BY DEF Sided
<1>4. e \in DOMAIN log /\ (call.against \/ e \in ForIds(log, row.object))
  BY DEF Apt, ForIds, AgainstIds
<1>5. Lists(s, ForIds(log, row.object))
  BY <1>1, <1>2, <1>3, <1>4, AppendLists
<1>6. c \in Seq(Nat) /\ \A k \in DOMAIN c : c[k] \in DOMAIN log
  BY <1>1, <1>3, <1>4
<1>7. new = [again EXCEPT !.support = s, !.contra = c]
  BY DEF Observed
<1> HIDE DEF s, c, new
<1>8. s \in Seq(Nat) /\ c \in Seq(Nat)
  BY <1>5, <1>6 DEF Lists
<1>9. /\ again \in Rows /\ again.object = row.object /\ again.claim = row.claim
      /\ again.status = "established" => Len(s) >= MinSupport
  BY <1>8, ReassessedRow
<1> HIDE DEF again
<1>10. /\ new \in Rows /\ new.object = row.object /\ new.claim = row.claim
       /\ new.support = s /\ new.contra = c /\ new.status = again.status
  BY <1>7, <1>8, <1>9 DEF Rows
<1>11. Sided(log, new)
  BY <1>5, <1>6, <1>10 DEF Sided
<1>12. Enough(new)
  BY <1>9, <1>10 DEF Enough
<1> QED BY <1>10, <1>11, <1>12 DEF new, s, c

LEMMA CorrectedRow ==
  ASSUME NEW log \in Seq(Events), NEW row \in Rows, NEW held \in Rows, NEW event \in DOMAIN log,
         Sided(log, row), Sided(log, held), held.object = row.object
  PROVE  LET new == Corrected(row, held, event)
         IN  /\ new \in Rows /\ new.object = row.object /\ new.claim = row.claim
             /\ Sided(log, new) /\ Enough(new) /\ new.support = row.support
             /\ new.contra = Append(held.contra, event)
<1> DEFINE c == Append(held.contra, event)
           again == Reassessed(row, held.support, c)
           next == [again EXCEPT !.contra = c]
           new == Corrected(row, held, event)
<1>1. event \in Nat /\ held.support \in Seq(Nat) /\ held.contra \in Seq(Nat)
  BY DEF Rows
<1>2. \A k \in DOMAIN held.contra : held.contra[k] \in DOMAIN log
  BY DEF Sided
<1>3. /\ c \in Seq(Nat) /\ \A k \in DOMAIN c : c[k] \in DOMAIN log
      /\ Lists(row.support, ForIds(log, row.object))
  BY <1>1, <1>2 DEF Sided
<1>4. new = IF next.status = "established" THEN [next EXCEPT !.status = "uncertain"] ELSE next
  BY DEF Corrected
<1> HIDE DEF c, new
<1>5. c \in Seq(Nat)
  BY <1>3
<1>6. /\ again \in Rows /\ again.object = row.object /\ again.claim = row.claim
      /\ again.support = row.support
  BY <1>1, <1>5, ReassessedRow
<1> HIDE DEF again
<1>7. /\ next \in Rows /\ next.object = row.object /\ next.claim = row.claim
      /\ next.support = row.support /\ next.contra = c
  BY <1>5, <1>6 DEF Rows
<1> HIDE DEF next
<1>8. /\ new \in Rows /\ new.object = row.object /\ new.claim = row.claim
      /\ new.support = row.support /\ new.contra = c /\ new.status # "established"
  BY <1>4, <1>7 DEF Rows, RowStatus
<1> QED BY <1>3, <1>8 DEF new, c, Sided, Enough

LEMMA DecayedRow ==
  ASSUME NEW log, NEW row \in Rows, NEW held \in Rows, Sided(log, row), held.object = row.object
  PROVE  LET new == Decayed(row, held)
         IN  /\ new \in Rows /\ new.object = row.object /\ new.claim = row.claim
             /\ Sided(log, new) /\ new.support = row.support /\ new.contra = row.contra
             /\ Len(held.support) <= Len(row.support) => Enough(new)
<1> DEFINE n == Max({500, held.confidence - 1000})
           status == IF held.status = "contradicted" THEN "contradicted"
                     ELSE StatusFor(held.support, held.contra, n)
           new == Decayed(row, held)
<1>1. held.support \in Seq(Nat) /\ held.contra \in Seq(Nat) /\ held.confidence - 1000 \in Int
      /\ row.support \in Seq(Nat)
  BY DEF Rows
<1>2. n \in Int
  <2>1. \A a \in Int : \A b \in Int : Max({a, b}) \in Int
    <3> SUFFICES ASSUME NEW a \in Int, NEW b \in Int PROVE Max({a, b}) \in Int
      OBVIOUS
    <3>1. Max({a, b}) \in {a, b}
      BY MaxOfTwo
    <3> QED BY <3>1
  <2> DEFINE low == 500
             x == held.confidence - 1000
  <2>2. low \in Int /\ x \in Int /\ n = Max({low, x})
    BY <1>1
  <2> HIDE DEF low, x, n
  <2>3. Max({low, x}) \in Int
    BY <2>1, <2>2
  <2> QED BY <2>2, <2>3
<1> HIDE DEF n
<1>3. status \in RowStatus /\ (status = "established" => Len(held.support) >= MinSupport)
  BY <1>1, <1>2, StatusForType DEF RowStatus
<1>4. new = [row EXCEPT !.confidence = n, !.status = status]
  BY DEF Decayed, n
<1> HIDE DEF status, new
<1>5. /\ new \in Rows /\ new.object = row.object /\ new.claim = row.claim
      /\ new.support = row.support /\ new.contra = row.contra /\ new.status = status
  BY <1>2, <1>3, <1>4 DEF Rows
<1>6. Len(held.support) \in Nat /\ Len(row.support) \in Nat
  BY <1>1
<1> QED BY <1>3, <1>5, <1>6, MinSupportAssumption DEF new, Sided, Enough

LEMMA FirstRow ==
  ASSUME NEW log \in Seq(Events), NEW call \in Sightings, Apt(log, call)
  PROVE  LET new == FirstSighting(call.object, call.event, call.against)
         IN  /\ new \in Rows /\ new.object = call.object /\ new.claim = 0
             /\ Sided(log, new) /\ Enough(new)
             /\ new.support = IF call.against THEN <<>> ELSE <<call.event>>
             /\ new.contra = IF call.against THEN <<call.event>> ELSE <<>>
<1> DEFINE new == FirstSighting(call.object, call.event, call.against)
<1>1. call.event \in Nat /\ call.object \in Objects /\ call.against \in BOOLEAN
  BY DEF Sightings
<1>2. /\ new.object = call.object /\ new.claim = 0 /\ new.status = "candidate"
      /\ new.support = IF call.against THEN <<>> ELSE <<call.event>>
      /\ new.contra = IF call.against THEN <<call.event>> ELSE <<>>
  BY DEF FirstSighting
<1>3. new \in Rows
  BY <1>1 DEF FirstSighting, Rows, RowStatus
<1> HIDE DEF new
<1>4. Lists(new.support, ForIds(log, call.object))
  BY <1>1, <1>2 DEF Apt, Lists, IsInjective
<1>5. new.contra \in Seq(Nat) /\ \A k \in DOMAIN new.contra : new.contra[k] \in DOMAIN log
  BY <1>1, <1>2 DEF Apt, ForIds, AgainstIds
<1> QED BY <1>2, <1>3, <1>4, <1>5 DEF Sided, Enough, new

-----------------------------------------------------------------------------
(* A step of a process: what it leaves, and how it leaves the others. *)

Lawful(p) ==
  /\ LogKept(ledger, ledger')
  /\ learned' \in Seq(Rows) /\ TableKept(learned, learned')
  /\ claims' \in Seq(Claims) /\ BaseKept(claims, claims')
  /\ TablesOK(ledger', learned', claims')
  /\ op' = op /\ budget' \in [passes : Nat, commands : Nat, crashes : 0..MaxCrashes]
  /\ proc' = [q \in Processes |-> proc'[q]]
  /\ \A q \in Processes \ {p} : proc'[q] \in {proc[q], Dirtied(q)}
  /\ proc'[p] \in Procs /\ PlaceOK(proc'[p], ledger', learned', claims')

\* It wrote to no table and disturbed nobody, or it disturbed everyone else.
Quietly(p) ==
  learned' = learned /\ claims' = claims /\ \A q \in Processes \ {p} : proc'[q] = proc[q]
Loudly(p) == \A q \in Processes \ {p} : ~proc'[q].clean

LEMMA HereFacts ==
  ASSUME TypeOK, Places, NEW p \in Processes
  PROVE  /\ ledger \in Seq(Events) /\ learned \in Seq(Rows) /\ claims \in Seq(Claims)
         /\ proc \in [Processes -> Procs] /\ proc[p] \in Procs
         /\ TablesOK(ledger, learned, claims) /\ PlaceOK(proc[p], ledger, learned, claims)
         /\ CallsOK(proc[p], ledger, learned) /\ RowsOK(proc[p], ledger, learned, claims)
         /\ budget \in [passes : Nat, commands : Nat, crashes : 0..MaxCrashes]
BY DEF TypeOK, Places, PlaceOK

LEMMA Stays ==
  ASSUME TypeOK
  PROVE  LogKept(ledger, ledger) /\ TableKept(learned, learned) /\ BaseKept(claims, claims)
BY DEF TypeOK, LogKept, TableKept, BaseKept

LEMMA GoLawful ==
  ASSUME TypeOK, Places, NEW p \in Processes, NEW to \in Procs, Go(p, to),
         PlaceOK(to, ledger, learned, claims), UNCHANGED <<ledger, learned, claims, op>>,
         budget' \in [passes : Nat, commands : Nat, crashes : 0..MaxCrashes]
  PROVE  Lawful(p) /\ Quietly(p) /\ proc'[p] = to
<1>1. proc' = [proc EXCEPT ![p] = to] /\ proc \in [Processes -> Procs]
  BY HereFacts DEF Go
<1>2. proc'[p] = to /\ proc' = [q \in Processes |-> proc'[q]] /\ \A q \in Processes \ {p} : proc'[q] = proc[q]
  BY <1>1
<1> QED BY <1>2, Stays, HereFacts DEF Lawful, Quietly

LEMMA WriteLawful ==
  ASSUME TypeOK, Places, NEW p \in Processes, NEW to \in Procs, Write(p, to),
         PlaceOK(to, ledger, learned', claims'), UNCHANGED <<ledger, op, budget>>,
         learned' \in Seq(Rows), TableKept(learned, learned'),
         claims' \in Seq(Claims), BaseKept(claims, claims'),
         TablesOK(ledger, learned', claims')
  PROVE  Lawful(p) /\ Loudly(p) /\ proc'[p] = to
<1>1. proc' = [q \in Processes |-> IF q = p THEN to ELSE Dirtied(q)]
  BY DEF Write
<1>2. proc'[p] = to /\ \A q \in Processes \ {p} : proc'[q] = Dirtied(q)
  BY <1>1
<1>3. proc' = [q \in Processes |-> proc'[q]]
  BY <1>1
<1>4. \A q \in Processes \ {p} : ~proc'[q].clean
  <2>1. \A q \in Processes : proc[q] \in Procs
    BY HereFacts
  <2> QED BY <1>2, <2>1 DEF Dirtied, Procs
<1> QED BY <1>2, <1>3, <1>4, Stays, HereFacts DEF Lawful, Loudly

LEMMA LawfulStep ==
  ASSUME TypeOK, Places, NEW p \in Processes, Lawful(p)
  PROVE  TypeOK' /\ Places'
<1>1. \A q \in Processes : /\ proc[q] \in Procs /\ PlaceOK(proc[q], ledger, learned, claims)
                           /\ ledger \in Seq(Events) /\ learned \in Seq(Rows) /\ claims \in Seq(Claims)
  BY HereFacts
<1>2. ASSUME NEW q \in Processes
      PROVE  proc'[q] \in Procs /\ PlaceOK(proc'[q], ledger', learned', claims')
  <2>1. CASE q = p
    BY <2>1 DEF Lawful
  <2>2. CASE q # p
    <3>1. PlaceOK(proc[q], ledger', learned', claims')
      BY <1>1, PlaceStays DEF Lawful
    <3>2. Dirtied(q) \in Procs /\ PlaceOK(Dirtied(q), ledger', learned', claims')
      BY <1>1, <3>1, DirtiedPlace DEF Dirtied
    <3> QED BY <1>1, <2>2, <3>1, <3>2 DEF Lawful
  <2> QED BY <2>1, <2>2
<1>3. ledger' \in Seq(Events)
  BY <1>1, LogGrows DEF Lawful
<1>4. CallerOK(op', ledger', learned', claims')
  BY <1>1, CallerStays DEF Lawful, Places
<1>5. proc' \in [Processes -> Procs]
  BY <1>2 DEF Lawful
<1> QED BY <1>2, <1>3, <1>4, <1>5 DEF TypeOK, Places, Lawful

-----------------------------------------------------------------------------
(* Each step of a pass. *)

\* What is left of the bounds, and one less.
LEMMA Spending ==
  ASSUME budget \in [passes : Nat, commands : Nat, crashes : 0..MaxCrashes]
  PROVE  /\ budget.commands > 0 =>
              /\ [budget EXCEPT !.commands = @ - 1] \in [passes : Nat, commands : Nat, crashes : 0..MaxCrashes]
              /\ [budget EXCEPT !.commands = @ - 1].crashes = budget.crashes
         /\ budget.crashes > 0 =>
              /\ [budget EXCEPT !.crashes = @ - 1] \in [passes : Nat, commands : Nat, crashes : 0..MaxCrashes]
              /\ [budget EXCEPT !.crashes = @ - 1].crashes = budget.crashes - 1
<1>1. MaxCrashes \in Nat
  BY LearningAssumption
<1>2. ASSUME budget.commands > 0
      PROVE  /\ [budget EXCEPT !.commands = @ - 1] \in [passes : Nat, commands : Nat, crashes : 0..MaxCrashes]
             /\ [budget EXCEPT !.commands = @ - 1].crashes = budget.crashes
  <2> DEFINE n == budget.commands - 1
  <2>1. n \in Nat
    BY <1>2
  <2> HIDE DEF n
  <2>2. /\ [budget EXCEPT !.commands = n] \in [passes : Nat, commands : Nat, crashes : 0..MaxCrashes]
        /\ [budget EXCEPT !.commands = n].crashes = budget.crashes
    BY <2>1
  <2> QED BY <2>2 DEF n
<1>3. ASSUME budget.crashes > 0
      PROVE  /\ [budget EXCEPT !.crashes = @ - 1] \in [passes : Nat, commands : Nat, crashes : 0..MaxCrashes]
             /\ [budget EXCEPT !.crashes = @ - 1].crashes = budget.crashes - 1
  <2> DEFINE n == budget.crashes - 1
  <2>1. n \in 0..MaxCrashes
    BY <1>1, <1>3
  <2> HIDE DEF n
  <2>2. /\ [budget EXCEPT !.crashes = n] \in [passes : Nat, commands : Nat, crashes : 0..MaxCrashes]
        /\ [budget EXCEPT !.crashes = n].crashes = n
    BY <2>1
  <2> QED BY <2>2 DEF n
<1> QED BY <1>2, <1>3

LEMMA IdleFacts ==
  /\ Idle \in Procs /\ Idle.pc = "idle" /\ Idle.events = {} /\ Idle.calls = {} /\ Idle.known = {}
  /\ Idle.touched = {} /\ Idle.call = NoCall /\ Idle.held = NoRow /\ Idle.rows = <<>>
  /\ Idle.at = 0 /\ Idle.sources = {} /\ Idle.claim = 0 /\ Idle.spent = 0 /\ Idle.seen = 0
  /\ Idle.clean = FALSE
BY DEF Idle, Procs, States

\* With nothing in hand a process is fine anywhere.
LEMMA BarePlace ==
  ASSUME NEW log \in Seq(Events), NEW table \in Seq(Rows), NEW base, NEW s \in Procs,
         s.events \subseteq DOMAIN log, s.seen = 0, s.calls = {}, s.known = {}, s.touched = {},
         s.call = NoCall, s.held = NoRow, s.rows = <<>>, s.at = 0,
         s.pc \notin Deciding \cup {"patterns"}
  PROVE  PlaceOK(s, log, table, base)
<1>1. CallsOK(s, log, table)
  BY DEF CallsOK
<1>2. RowsOK(s, log, table, base)
  BY DEF RowsOK, Deciding
<1> QED BY <1>1, <1>2 DEF PlaceOK

LEMMA IdlePlace ==
  ASSUME TypeOK
  PROVE  PlaceOK(Idle, ledger, learned, claims)
BY IdleFacts, BarePlace DEF TypeOK, Deciding

LEMMA BeginMove ==
  ASSUME TypeOK, Places, NEW p \in Processes, Begin(p)
  PROVE  Lawful(p) /\ Quietly(p) /\ proc'[p].pc = "claim" /\ ~proc'[p].clean /\ proc'[p].rows = <<>>
         /\ proc'[p].held = NoRow
<1> DEFINE to == [Idle EXCEPT !.pc = "claim", !.events = Uncovered]
<1>1. Go(p, to) /\ UNCHANGED <<ledger, learned, claims, op>> /\ budget.passes > 0
      /\ budget' = [budget EXCEPT !.passes = @ - 1]
  BY DEF Begin
<1>2. Uncovered \subseteq DOMAIN ledger /\ Uncovered \in SUBSET Nat
  BY DEF TypeOK, Uncovered, Ids, IdsOfKind
<1>3. /\ to \in Procs /\ to.pc = "claim" /\ to.events = Uncovered /\ to.calls = {} /\ to.known = {}
      /\ to.touched = {} /\ to.call = NoCall /\ to.held = NoRow /\ to.rows = <<>>
      /\ to.at = 0 /\ to.seen = 0 /\ to.clean = FALSE
  <2> DEFINE s == Idle  events == Uncovered
  <2>1. to = [s EXCEPT !.pc = "claim", !.events = events]
    OBVIOUS
  <2>2. s \in Procs /\ events \in SUBSET Nat /\ "claim" \in States
    BY <1>2, IdleFacts DEF States
  <2> HIDE DEF to, s, events
  <2>3. to \in Procs /\ to.pc = "claim" /\ to.events = events
    BY <2>1, <2>2 DEF Procs
  <2>4. /\ to.calls = s.calls /\ to.known = s.known /\ to.touched = s.touched /\ to.call = s.call
        /\ to.held = s.held /\ to.rows = s.rows /\ to.at = s.at /\ to.seen = s.seen
        /\ to.clean = s.clean
    BY <2>1, <2>2 DEF Procs
  <2> QED BY <2>3, <2>4, IdleFacts DEF s, events
<1> HIDE DEF to
<1>4. PlaceOK(to, ledger, learned, claims)
  BY <1>2, <1>3, BarePlace DEF TypeOK, Deciding
<1>5. budget' \in [passes : Nat, commands : Nat, crashes : 0..MaxCrashes]
  BY SMTT(30), <1>1, HereFacts
<1> QED BY <1>1, <1>3, <1>4, <1>5, GoLawful

LEMMA ClaimMove ==
  ASSUME TypeOK, Places, NEW p \in Processes, NEW event \in proc[p].events, ClaimEvent(p, event)
  PROVE  /\ Lawful(p) /\ Loudly(p) /\ learned' = learned /\ ledger' = ledger /\ budget' = budget
         /\ claims' = Propose(claims, ByEvent, {event}) /\ {event} \in SUBSET Nat
         /\ proc[p].pc = "claim" /\ proc'[p] = [proc[p] EXCEPT !.events = @ \ {event}]
<1> DEFINE to == [proc[p] EXCEPT !.events = @ \ {event}]
<1>1. /\ proc[p].pc = "claim" /\ claims' = Propose(claims, ByEvent, {event}) /\ Write(p, to)
      /\ UNCHANGED <<ledger, learned, op, budget>>
  BY DEF ClaimEvent
<1>2. /\ to \in Procs /\ to.pc = "claim" /\ to.events = proc[p].events \ {event}
      /\ to.calls = proc[p].calls /\ to.known = proc[p].known /\ to.touched = proc[p].touched
      /\ to.call = proc[p].call /\ to.held = proc[p].held /\ to.rows = proc[p].rows
      /\ to.at = proc[p].at /\ to.seen = proc[p].seen
  <2> DEFINE s == proc[p]
  <2>1. s \in Procs /\ s.pc = "claim" /\ to = [s EXCEPT !.events = @ \ {event}]
    BY <1>1, HereFacts
  <2> HIDE DEF s, to
  <2>2. to \in Procs /\ to.pc = "claim" /\ to.events = s.events \ {event}
    BY <2>1 DEF Procs
  <2>3. /\ to.calls = s.calls /\ to.known = s.known /\ to.touched = s.touched /\ to.call = s.call
        /\ to.held = s.held /\ to.rows = s.rows /\ to.at = s.at /\ to.seen = s.seen
    BY <2>1 DEF Procs
  <2> QED BY <2>2, <2>3 DEF s
<1>3. {event} \in SUBSET Nat /\ ByEvent \in Origins /\ ByEvent \notin Objects
  <2>1. event \in Nat
    BY HereFacts DEF Procs
  <2> QED BY <2>1 DEF Origins, ByEvent, Objects, Outcomes, Strategy
<1>4. /\ claims' \in Seq(Claims) /\ BaseKept(claims, claims')
      /\ DOMAIN claims' = 1..Len(claims) + 1 /\ \A i \in DOMAIN claims : claims'[i] = claims[i]
      /\ claims'[Len(claims) + 1].origin = ByEvent
  <2> DEFINE one == {event}  origin == ByEvent  later == claims'
  <2>1. /\ one \in SUBSET Nat /\ origin \in Origins /\ claims \in Seq(Claims)
        /\ later = Propose(claims, origin, one)
    BY <1>1, <1>3, HereFacts
  <2> HIDE DEF one, origin, later
  <2>2. /\ later \in Seq(Claims) /\ BaseKept(claims, later)
        /\ DOMAIN later = 1..Len(claims) + 1 /\ \A i \in DOMAIN claims : later[i] = claims[i]
        /\ later[Len(claims) + 1].origin = origin
    BY <2>1, ClaimAdded
  <2> QED BY <2>2 DEF origin, later
<1>5. TablesOK(ledger, learned, claims')
  <2>1. \A i \in DOMAIN claims' : \/ i \in DOMAIN claims /\ claims'[i].sources = claims[i].sources
                                  \/ claims'[i].origin \notin Objects
    BY <1>3, <1>4, HereFacts
  <2> QED BY <1>4, <2>1, HereFacts, ClaimsWritten
<1> HIDE DEF to
<1>6. PlaceOK(to, ledger, learned, claims)
  <2>1. CallsOK(to, ledger, learned)
    BY <1>1, <1>2, HereFacts DEF CallsOK, Miners
  <2>2. RowsOK(to, ledger, learned, claims)
    BY <1>2, HereFacts DEF RowsOK, Deciding
  <2> QED BY <1>2, <2>1, <2>2, HereFacts DEF PlaceOK
<1>7. PlaceOK(to, ledger, learned, claims')
  BY <1>2, <1>4, <1>6, HereFacts, Stays, PlaceStays
<1>8. Lawful(p) /\ Loudly(p) /\ proc'[p] = to
  BY <1>1, <1>2, <1>4, <1>5, <1>7, HereFacts, Stays, WriteLawful
<1> QED BY <1>1, <1>3, <1>8 DEF to

LEMMA AskMove ==
  ASSUME TypeOK, Places, NEW p \in Processes, AskDue(p)
  PROVE  /\ Lawful(p) /\ Quietly(p) /\ ledger' = ledger /\ budget' = budget
         /\ proc'[p].pc \in {"idle", "start"} /\ ~proc'[p].clean /\ proc'[p].rows = <<>>
         /\ proc'[p].held = NoRow
<1> DEFINE to == IF Due THEN [Idle EXCEPT !.pc = "start"] ELSE Idle
<1>1. Go(p, to) /\ UNCHANGED <<ledger, learned, claims, op, budget>>
  BY DEF AskDue
<1>2. /\ to \in Procs /\ to.pc \in {"idle", "start"} /\ to.events = {} /\ to.calls = {} /\ to.known = {}
      /\ to.touched = {} /\ to.call = NoCall /\ to.held = NoRow /\ to.rows = <<>>
      /\ to.at = 0 /\ to.seen = 0 /\ to.clean = FALSE
  <2>1. CASE Due
    BY <2>1, IdleFacts DEF Procs, States
  <2>2. CASE ~Due
    BY <2>2, IdleFacts
  <2> QED BY <2>1, <2>2
<1> HIDE DEF to
<1>3. PlaceOK(to, ledger, learned, claims)
  BY <1>2, BarePlace DEF TypeOK, Deciding
<1> QED BY <1>1, <1>2, <1>3, HereFacts, GoLawful

\* The rows of a pass are as fine as they were while nothing is decided.
LEMMA RowsIdle ==
  ASSUME NEW log, NEW table, NEW base, NEW s, RowsOK(s, log, table, base),
         NEW t, t.rows = s.rows, t.at = s.at, t.pc \notin Deciding
  PROVE  RowsOK(t, log, table, base)
BY DEF RowsOK, Deciding

LEMMA HandsFree ==
  ASSUME TypeOK, Places, NEW p \in Processes, proc[p].pc \notin Miners \/ proc[p].calls = {}
  PROVE  proc[p].calls = {} /\ proc[p].call = NoCall /\ proc[p].held = NoRow
BY HereFacts DEF CallsOK

LEMMA KindFacts ==
  ASSUME TypeOK, NEW kinds, NEW e \in Ids(kinds)
  PROVE  /\ e \in DOMAIN ledger /\ e \in Nat /\ e <= Len(ledger) /\ ledger[e] \in Events
         /\ ledger[e].kind \in kinds /\ ledger[e].result \in Outcomes
<1>1. e \in DOMAIN ledger /\ ledger[e].kind \in kinds
  BY DEF Ids, IdsOfKind
<1>2. ledger \in Seq(Events)
  BY DEF TypeOK
<1>3. e \in Nat /\ e <= Len(ledger) /\ ledger[e] \in Events
  BY <1>1, <1>2
<1> QED BY <1>1, <1>3 DEF Events

LEMMA MinedFacts ==
  ASSUME TypeOK, NEW e \in Ids(MinedKinds)
  PROVE  /\ e \in DOMAIN ledger /\ e \in Nat /\ e <= Len(ledger) /\ ledger[e] \in Events
         /\ ledger[e].kind \in MinedKinds /\ ledger[e].result \in Outcomes
BY KindFacts

LEMMA SupportingCalls ==
  ASSUME TypeOK, NEW events, events \subseteq Ids(MinedKinds), NEW call \in Supporting(events)
  PROVE  /\ call \in Sightings /\ Apt(ledger, call) /\ call.object # Strategy /\ ~call.against
         /\ call.event \in events /\ call.object = ledger[call.event].result
<1>1. PICK e \in events : call = Sighting(ledger[e].result, e, FALSE)
  BY DEF Supporting
<1>2. /\ e \in DOMAIN ledger /\ e \in Nat /\ ledger[e].kind \in MinedKinds
      /\ ledger[e].result \in Outcomes
  BY MinedFacts
<1>3. call.object = ledger[e].result /\ call.event = e /\ call.against = FALSE
  BY <1>1 DEF Sighting
<1>4. ledger[e].result # Strategy /\ ledger[e].result \in Objects
  BY <1>2 DEF Outcomes, Strategy, Objects
<1>5. call \in Sightings
  BY <1>1, <1>2, <1>4 DEF Sighting, Sightings
<1>6. e \in ForIds(ledger, call.object)
  BY <1>2, <1>3, <1>4 DEF ForIds
<1> QED BY <1>3, <1>4, <1>5, <1>6 DEF Apt

LEMMA StrategyCalls ==
  ASSUME TypeOK, NEW call \in StrategySightings
  PROVE  /\ call \in Sightings /\ Apt(ledger, call) /\ call.object = Strategy
<1>1. PICK e \in Ids({"experience"}) : /\ ledger[e].result # "unknown"
                                       /\ call = Sighting(Strategy, e, ledger[e].result = "failure")
  BY DEF StrategySightings
<1>2. /\ e \in DOMAIN ledger /\ e \in Nat /\ ledger[e].kind = "experience"
      /\ ledger[e].result \in {"success", "failure"}
  <2>1. e \in DOMAIN ledger /\ e \in Nat /\ ledger[e].kind \in {"experience"} /\ ledger[e].result \in Outcomes
    BY KindFacts
  <2> QED BY <1>1, <2>1 DEF Outcomes
<1>3. call.object = Strategy /\ call.event = e /\ call.against = (ledger[e].result = "failure")
  BY <1>1 DEF Sighting
<1>4. call \in Sightings
  BY <1>1, <1>2 DEF Sighting, Sightings, Objects
<1>5. CASE ledger[e].result = "failure"
  <2>1. e \in AgainstIds(ledger, Strategy)
    BY <1>2, <1>5 DEF AgainstIds, MinedKinds
  <2> QED BY <1>3, <1>4, <1>5, <2>1 DEF Apt
<1>6. CASE ledger[e].result = "success"
  <2>1. e \in ForIds(ledger, Strategy)
    BY <1>2, <1>6 DEF ForIds, MinedKinds
  <2> QED BY <1>3, <1>4, <1>6, <2>1 DEF Apt
<1> QED BY <1>2, <1>5, <1>6

LEMMA ContradictingCalls ==
  ASSUME TypeOK, NEW events, events \subseteq Ids(MinedKinds),
         NEW known, known \subseteq Outcomes, NEW call \in Contradicting(events, known)
  PROVE  /\ call \in Sightings /\ Apt(ledger, call) /\ call.object # Strategy /\ call.against
         /\ call.object \in known /\ call.event \in events
<1>1. /\ call \in [object : known, event : events, against : {TRUE}]
      /\ call.object # ledger[call.event].result
  BY DEF Contradicting
<1>2. /\ call.event \in DOMAIN ledger /\ call.event \in Nat /\ ledger[call.event].kind \in MinedKinds
  BY <1>1, MinedFacts
<1>3. call.object # Strategy /\ call.object \in Objects /\ call.against = TRUE
  BY <1>1 DEF Outcomes, Strategy, Objects
<1>4. call \in Sightings
  BY <1>1, <1>2, <1>3 DEF Sightings
<1>5. call.event \in AgainstIds(ledger, call.object)
  BY <1>1, <1>2, <1>3 DEF AgainstIds
<1> QED BY <1>1, <1>3, <1>4, <1>5 DEF Apt

LEMMA PatternsMove ==
  ASSUME TypeOK, Places, NEW p \in Processes, StartPatterns(p)
  PROVE  /\ Lawful(p) /\ Quietly(p) /\ ledger' = ledger /\ budget' = budget /\ proc[p].pc = "start"
         /\ proc'[p] = [proc[p] EXCEPT !.pc = "patterns", !.events = PatternEvents,
                          !.calls = Supporting(PatternEvents), !.known = KnownPatterns,
                          !.seen = Len(ledger), !.clean = TRUE]
<1> DEFINE to == [proc[p] EXCEPT !.pc = "patterns", !.events = PatternEvents,
                    !.calls = Supporting(PatternEvents), !.known = KnownPatterns,
                    !.seen = Len(ledger), !.clean = TRUE]
<1>1. proc[p].pc = "start" /\ Go(p, to) /\ UNCHANGED <<ledger, learned, claims, op, budget>>
  BY DEF StartPatterns
<1>2. PatternEvents \subseteq Ids(MinedKinds)
  BY DEF PatternEvents
<1>3. \A e \in PatternEvents : e \in DOMAIN ledger /\ e \in Nat /\ ledger[e].kind \in MinedKinds
  BY <1>2, MinedFacts
<1>4. \A call \in Supporting(PatternEvents) :
        /\ call \in Sightings /\ Apt(ledger, call) /\ call.object # Strategy /\ ~call.against
  BY <1>2, SupportingCalls
<1>5. KnownPatterns \subseteq Outcomes /\ \A o \in KnownPatterns : HasRow(learned, o)
  <2>1. \A o \in KnownPatterns : o \in Outcomes /\ RowOf(o) # 0
    BY DEF KnownPatterns
  <2> QED BY <2>1, HereFacts, RowOfIs DEF HasRow
<1>6. proc[p].call = NoCall /\ proc[p].held = NoRow /\ proc[p].touched = {}
  BY <1>1, HereFacts, HandsFree DEF Miners, CallsOK
<1>7. /\ to \in Procs /\ to.pc = "patterns" /\ to.events = PatternEvents
      /\ to.calls = Supporting(PatternEvents) /\ to.known = KnownPatterns /\ to.touched = {}
      /\ to.call = NoCall /\ to.held = NoRow /\ to.rows = proc[p].rows
      /\ to.at = proc[p].at /\ to.seen = Len(ledger)
  <2>1. /\ PatternEvents \in SUBSET Nat /\ Supporting(PatternEvents) \in SUBSET Sightings
        /\ KnownPatterns \in SUBSET Objects /\ Len(ledger) \in Nat /\ "patterns" \in States
        /\ proc[p] \in Procs
    BY <1>3, <1>4, <1>5, HereFacts DEF Objects, States, Miners
  <2> DEFINE s == proc[p]  events == PatternEvents  calls == Supporting(PatternEvents)
             known == KnownPatterns  seen == Len(ledger)
  <2>2. to = [s EXCEPT !.pc = "patterns", !.events = events, !.calls = calls, !.known = known,
                !.seen = seen, !.clean = TRUE]
    OBVIOUS
  <2>3. /\ s \in Procs /\ events \in SUBSET Nat /\ calls \in SUBSET Sightings
        /\ known \in SUBSET Objects /\ seen \in Nat /\ "patterns" \in States
    BY <2>1
  <2> HIDE DEF to, s, events, calls, known, seen
  <2>4. /\ to \in Procs /\ to.pc = "patterns" /\ to.events = events /\ to.calls = calls
        /\ to.known = known /\ to.seen = seen
    BY <2>2, <2>3 DEF Procs
  <2>5. /\ to.touched = s.touched /\ to.call = s.call /\ to.held = s.held
        /\ to.rows = s.rows /\ to.at = s.at
    BY <2>2, <2>3 DEF Procs
  <2> QED BY <1>6, <2>4, <2>5 DEF s, events, calls, known, seen
<1> HIDE DEF to
<1>8. CallsOK(to, ledger, learned)
  <2>1. Strategy \notin Outcomes
    BY DEF Strategy, Outcomes
  <2> QED BY <1>3, <1>4, <1>5, <1>7, <2>1 DEF CallsOK, Miners
<1>9. RowsOK(to, ledger, learned, claims)
  BY <1>7, HereFacts, RowsIdle DEF Deciding
<1>10. PlaceOK(to, ledger, learned, claims)
  BY <1>3, <1>7, <1>8, <1>9, HereFacts DEF PlaceOK
<1> QED BY <1>1, <1>7, <1>10, HereFacts, GoLawful DEF to

LEMMA FailMove ==
  ASSUME TypeOK, Places, NEW p \in Processes, MinerFails(p)
  PROVE  /\ Lawful(p) /\ Quietly(p) /\ ledger' = ledger /\ budget' = budget
         /\ proc[p].pc \in Miners /\ proc[p].call # NoCall /\ proc[p].held = NoRow
         /\ HasRow(learned, proc[p].call.object)
         /\ proc'[p] = [proc[p] EXCEPT !.pc = IF @ = "patterns" THEN "siblings" ELSE @,
                          !.calls = {}, !.call = NoCall, !.held = NoRow, !.touched = {}]
<1> DEFINE to == [proc[p] EXCEPT !.pc = IF @ = "patterns" THEN "siblings" ELSE @,
                    !.calls = {}, !.call = NoCall, !.held = NoRow, !.touched = {}]
<1>1. /\ proc[p].pc \in Miners /\ proc[p].call # NoCall /\ proc[p].held = NoRow
      /\ RowOf(proc[p].call.object) # 0
      /\ Go(p, to) /\ UNCHANGED <<ledger, learned, claims, op, budget>>
  BY DEF MinerFails
<1>2. HasRow(learned, proc[p].call.object)
  BY <1>1, HereFacts, RowOfIs DEF HasRow
<1>3. /\ to \in Procs /\ to.pc \in {"siblings", "strategies"} /\ to.events = proc[p].events
      /\ to.calls = {} /\ to.known = proc[p].known /\ to.touched = {}
      /\ to.call = NoCall /\ to.held = NoRow /\ to.rows = proc[p].rows
      /\ to.at = proc[p].at /\ to.seen = proc[p].seen
  <2> DEFINE pc == IF proc[p].pc = "patterns" THEN "siblings" ELSE proc[p].pc
  <2>1. pc \in {"siblings", "strategies"} /\ pc \in States
    BY <1>1 DEF Miners, States
  <2>2. to = [proc[p] EXCEPT !.pc = pc, !.calls = {}, !.call = NoCall, !.held = NoRow, !.touched = {}]
    OBVIOUS
  <2> DEFINE s == proc[p]
  <2>3. to = [s EXCEPT !.pc = pc, !.calls = {}, !.call = NoCall, !.held = NoRow, !.touched = {}]
    BY <2>2
  <2>4. s \in Procs
    BY HereFacts
  <2> HIDE DEF pc, to, s
  <2>5. /\ to \in Procs /\ to.pc = pc /\ to.calls = {} /\ to.touched = {}
        /\ to.call = NoCall /\ to.held = NoRow
    BY <2>1, <2>3, <2>4 DEF Procs
  <2>6. /\ to.events = s.events /\ to.known = s.known /\ to.rows = s.rows /\ to.at = s.at
        /\ to.seen = s.seen
    BY <2>1, <2>3, <2>4 DEF Procs
  <2> QED BY <2>1, <2>5, <2>6 DEF s
<1> HIDE DEF to
<1>4. CallsOK(to, ledger, learned)
  BY <1>3, HereFacts DEF CallsOK
<1>5. RowsOK(to, ledger, learned, claims)
  BY <1>3, HereFacts, RowsIdle DEF Deciding
<1>6. PlaceOK(to, ledger, learned, claims)
  BY <1>3, <1>4, <1>5, HereFacts DEF PlaceOK
<1> QED BY <1>1, <1>2, <1>3, <1>6, HereFacts, GoLawful DEF to

LEMMA SiblingsMove ==
  ASSUME TypeOK, Places, NEW p \in Processes, StartSiblings(p)
  PROVE  /\ Lawful(p) /\ Quietly(p) /\ ledger' = ledger /\ budget' = budget
         /\ proc[p].pc = "patterns" /\ proc[p].calls = {}
         /\ proc'[p] = [proc[p] EXCEPT !.pc = "siblings",
              !.calls = Contradicting(proc[p].events, proc[p].known \cup proc[p].touched)]
<1> DEFINE both == proc[p].known \cup proc[p].touched
           calls == Contradicting(proc[p].events, both)
           to == [proc[p] EXCEPT !.pc = "siblings", !.calls = calls]
<1>1. /\ proc[p].pc = "patterns" /\ proc[p].calls = {} /\ Go(p, to)
      /\ UNCHANGED <<ledger, learned, claims, op, budget>>
  BY DEF StartSiblings
<1>2. proc[p].events \subseteq Ids(MinedKinds)
  <2>1. proc[p].events \subseteq DOMAIN ledger /\ \A e \in proc[p].events : ledger[e].kind \in MinedKinds
    BY <1>1, HereFacts DEF PlaceOK, CallsOK
  <2> QED BY <2>1 DEF Ids, IdsOfKind
<1>3. both \subseteq Outcomes /\ \A o \in both : HasRow(learned, o)
  <2>1. both \subseteq Objects
    BY HereFacts DEF Procs
  <2> QED BY <1>1, <2>1, HereFacts DEF CallsOK, Objects
<1> HIDE DEF both
<1>4. \A call \in calls : /\ call \in Sightings /\ Apt(ledger, call) /\ call.object # Strategy
                          /\ HasRow(learned, call.object)
  BY <1>2, <1>3, ContradictingCalls
<1> HIDE DEF calls
<1>5. proc[p].call = NoCall /\ proc[p].held = NoRow
  BY <1>1, HandsFree
<1>6. /\ to \in Procs /\ to.pc = "siblings" /\ to.events = proc[p].events
      /\ to.calls = calls /\ to.known = proc[p].known /\ to.touched = proc[p].touched
      /\ to.call = NoCall /\ to.held = NoRow /\ to.rows = proc[p].rows
      /\ to.at = proc[p].at /\ to.seen = proc[p].seen
  <2> DEFINE s == proc[p]
  <2>1. calls \in SUBSET Sightings /\ "siblings" \in States /\ s \in Procs
    BY <1>4, HereFacts DEF Miners, States
  <2>2. to = [s EXCEPT !.pc = "siblings", !.calls = calls]
    OBVIOUS
  <2> HIDE DEF to, s
  <2>3. to \in Procs /\ to.pc = "siblings" /\ to.calls = calls
    BY <2>1, <2>2 DEF Procs
  <2>4. /\ to.events = s.events /\ to.known = s.known /\ to.touched = s.touched
        /\ to.call = s.call /\ to.held = s.held /\ to.rows = s.rows /\ to.at = s.at
        /\ to.seen = s.seen
    BY <2>1, <2>2 DEF Procs
  <2> QED BY <1>5, <2>3, <2>4 DEF s
<1> HIDE DEF to
<1>7. CallsOK(to, ledger, learned)
  BY <1>4, <1>6, HereFacts DEF CallsOK, Miners
<1>8. RowsOK(to, ledger, learned, claims)
  BY <1>6, HereFacts, RowsIdle DEF Deciding
<1>9. PlaceOK(to, ledger, learned, claims)
  BY <1>6, <1>7, <1>8, HereFacts DEF PlaceOK
<1> QED BY <1>1, <1>6, <1>9, HereFacts, GoLawful DEF to, calls, both

LEMMA SpentType ==
  ASSUME TypeOK, NEW p \in Processes
  PROVE  Spent(p) \in Nat
<1>1. proc[p].spent \in Nat /\ proc[p].touched \subseteq Objects
  BY DEF TypeOK, Procs
<1>2. IsFiniteSet({"success", "failure", "unknown", Strategy})
  <2> DEFINE two == {"success"} \cup {"failure"}
             all == two \cup {"unknown"} \cup {Strategy}
  <2>1. IsFiniteSet(two)
    BY FS_Singleton, FS_Union
  <2>2. IsFiniteSet(all)
    BY <2>1, FS_Singleton, FS_Union
  <2>3. all = {"success", "failure", "unknown", Strategy}
    OBVIOUS
  <2> QED BY <2>2, <2>3
<1>3. IsFiniteSet(proc[p].touched)
  <2>1. proc[p].touched \subseteq {"success", "failure", "unknown", Strategy}
    BY <1>1 DEF Objects, Outcomes
  <2> QED BY <1>2, <2>1, FS_Subset
<1>4. Cardinality(proc[p].touched) \in Nat
  BY <1>3, FS_CardinalityType
<1> QED BY <1>1, <1>4 DEF Spent

LEMMA StrategiesMove ==
  ASSUME TypeOK, Places, NEW p \in Processes, StartStrategies(p)
  PROVE  /\ Lawful(p) /\ Quietly(p) /\ ledger' = ledger /\ budget' = budget
         /\ proc[p].pc = "siblings" /\ proc[p].calls = {}
         /\ proc'[p] = [proc[p] EXCEPT !.pc = "strategies", !.events = {},
              !.calls = StrategySightings, !.spent = Spent(p), !.known = {}, !.touched = {}]
<1> DEFINE to == [proc[p] EXCEPT !.pc = "strategies", !.events = {},
                    !.calls = StrategySightings, !.spent = Spent(p), !.known = {}, !.touched = {}]
<1>1. /\ proc[p].pc = "siblings" /\ proc[p].calls = {} /\ Go(p, to)
      /\ UNCHANGED <<ledger, learned, claims, op, budget>>
  BY DEF StartStrategies
<1>2. \A call \in StrategySightings : call \in Sightings /\ Apt(ledger, call) /\ call.object = Strategy
  BY StrategyCalls
<1>3. proc[p].call = NoCall /\ proc[p].held = NoRow
  BY <1>1, HandsFree
<1>4. /\ to \in Procs /\ to.pc = "strategies" /\ to.events = {}
      /\ to.calls = StrategySightings /\ to.known = {} /\ to.touched = {}
      /\ to.call = NoCall /\ to.held = NoRow /\ to.rows = proc[p].rows
      /\ to.at = proc[p].at /\ to.seen = proc[p].seen
  <2> DEFINE s == proc[p]  calls == StrategySightings  spent == Spent(p)
  <2>1. /\ calls \in SUBSET Sightings /\ spent \in Nat /\ "strategies" \in States
        /\ s \in Procs
    BY <1>2, SpentType, HereFacts DEF Miners, States
  <2>2. to = [s EXCEPT !.pc = "strategies", !.events = {}, !.calls = calls, !.spent = spent,
                !.known = {}, !.touched = {}]
    OBVIOUS
  <2> HIDE DEF to, s, calls, spent
  <2>3. /\ to \in Procs /\ to.pc = "strategies" /\ to.events = {} /\ to.calls = calls
        /\ to.known = {} /\ to.touched = {}
    BY <2>1, <2>2 DEF Procs
  <2>4. /\ to.call = s.call /\ to.held = s.held /\ to.rows = s.rows /\ to.at = s.at
        /\ to.seen = s.seen
    BY <2>1, <2>2 DEF Procs
  <2> QED BY <1>3, <2>3, <2>4 DEF s, calls
<1> HIDE DEF to
<1>5. CallsOK(to, ledger, learned)
  BY <1>2, <1>4 DEF CallsOK, Miners
<1>6. RowsOK(to, ledger, learned, claims)
  BY <1>4, HereFacts, RowsIdle DEF Deciding
<1>7. PlaceOK(to, ledger, learned, claims)
  BY <1>4, <1>5, <1>6, HereFacts DEF PlaceOK
<1> QED BY <1>1, <1>4, <1>7, HereFacts, GoLawful DEF to

\* What a step from one stage of mining to the next does to a process's locals.
LEMMA StageBegins ==
  ASSUME TypeOK, Places, NEW p \in Processes
  PROVE  /\ StartPatterns(p) \/ MinerFails(p) \/ StartSiblings(p) \/ StartStrategies(p) =>
              proc'[p].rows = proc[p].rows
         /\ StartPatterns(p) \/ StartSiblings(p) \/ StartStrategies(p) =>
              proc'[p].call = proc[p].call /\ proc'[p].held = proc[p].held
         /\ StartPatterns(p) => proc'[p].pc = "patterns"
         /\ StartSiblings(p) => proc'[p].pc = "siblings"
         /\ StartStrategies(p) => proc'[p].pc = "strategies"
         /\ MinerFails(p) => proc'[p].pc \in {"siblings", "strategies"} /\ proc'[p].held = NoRow
<1> DEFINE s == proc[p]
           t == proc'[p]
<1>0. s \in Procs
  BY HereFacts
<1>1. ASSUME StartPatterns(p)
      PROVE  t.pc = "patterns" /\ t.rows = s.rows /\ t.call = s.call /\ t.held = s.held
  <2> DEFINE events == PatternEvents  calls == Supporting(PatternEvents)  known == KnownPatterns
             n == Len(ledger)
  <2>1. t = [s EXCEPT !.pc = "patterns", !.events = events, !.calls = calls, !.known = known,
               !.seen = n, !.clean = TRUE]
    BY <1>1, PatternsMove
  <2> HIDE DEF s, t, events, calls, known, n
  <2> QED BY <1>0, <2>1 DEF Procs
<1>2. ASSUME StartSiblings(p)
      PROVE  t.pc = "siblings" /\ t.rows = s.rows /\ t.call = s.call /\ t.held = s.held
  <2> DEFINE calls == Contradicting(proc[p].events, proc[p].known \cup proc[p].touched)
  <2>1. t = [s EXCEPT !.pc = "siblings", !.calls = calls]
    BY <1>2, SiblingsMove
  <2> HIDE DEF s, t, calls
  <2> QED BY <1>0, <2>1 DEF Procs
<1>3. ASSUME StartStrategies(p)
      PROVE  t.pc = "strategies" /\ t.rows = s.rows /\ t.call = s.call /\ t.held = s.held
  <2> DEFINE calls == StrategySightings  n == Spent(p)
  <2>1. t = [s EXCEPT !.pc = "strategies", !.events = {}, !.calls = calls, !.spent = n,
               !.known = {}, !.touched = {}]
    BY <1>3, StrategiesMove
  <2> HIDE DEF s, t, calls, n
  <2> QED BY <1>0, <2>1 DEF Procs
<1>4. ASSUME MinerFails(p)
      PROVE  t.pc \in {"siblings", "strategies"} /\ t.rows = s.rows /\ t.held = NoRow
  <2>1. /\ s.pc \in Miners
        /\ t = [s EXCEPT !.pc = IF @ = "patterns" THEN "siblings" ELSE @,
                  !.calls = {}, !.call = NoCall, !.held = NoRow, !.touched = {}]
    BY <1>4, FailMove
  <2> HIDE DEF s, t
  <2>2. /\ t.pc = IF s.pc = "patterns" THEN "siblings" ELSE s.pc
        /\ t.rows = s.rows /\ t.held = NoRow
    BY <1>0, <2>1 DEF Procs
  <2> QED BY <2>1, <2>2 DEF Miners
<1> QED BY <1>1, <1>2, <1>3, <1>4

LEMMA NoneIsNoObject == "none" \notin Objects
BY DEF Objects, Outcomes, Strategy

LEMMA CallIsReal ==
  /\ \A call \in Sightings : call # NoCall
  /\ \A row \in Rows : row # NoRow
  /\ NoRow.support = <<>> /\ NoRow.contra = <<>> /\ NoRow.object = "none" /\ NoRow.claim = 0
<1>1. NoCall.object = "none"
  BY DEF NoCall, Sighting
<1>2. NoRow.object = "none" /\ NoRow.support = <<>> /\ NoRow.contra = <<>> /\ NoRow.claim = 0
  BY DEF NoRow, FirstSighting
<1> QED BY <1>1, <1>2, NoneIsNoObject DEF Sightings, Rows

\* When observe returns, the object has a row.
LEMMA ObservePlace ==
  ASSUME TypeOK, NEW p \in Processes, proc[p].pc \in Miners, NEW call \in proc[p].calls,
         NEW table \in Seq(Rows), HasRow(table, call.object),
         PlaceOK(proc[p], ledger, table, claims)
  PROVE  Observe(p, call) \in Procs /\ PlaceOK(Observe(p, call), ledger, table, claims)
<1> DEFINE s == proc[p]
           to == Observe(p, call)
<1>1. s \in Procs /\ call \in Sightings
  BY DEF TypeOK, Procs
<1>2. /\ to \in Procs /\ to.pc = s.pc /\ to.events = s.events /\ to.calls = s.calls \ {call}
      /\ to.known = s.known /\ to.touched = s.touched \cup {call.object}
      /\ to.call = NoCall /\ to.held = NoRow /\ to.rows = s.rows /\ to.at = s.at /\ to.seen = s.seen
  BY <1>1 DEF Observe, Procs, Sightings
<1> HIDE DEF to
<1>3. CallsOK(to, ledger, table)
  <2>1. CallsOK(s, ledger, table)
    BY DEF PlaceOK
  <2>2. s.pc \notin {"claim", "start"} /\ (s.pc = "patterns" => call.object # Strategy)
    BY <2>1 DEF CallsOK, Miners
  <2> QED BY <1>2, <2>1, <2>2 DEF CallsOK
<1>4. RowsOK(to, ledger, table, claims)
  BY <1>2, RowsIdle DEF PlaceOK, Deciding, Miners
<1> QED BY <1>2, <1>3, <1>4 DEF PlaceOK, to

LEMMA ReadMove ==
  ASSUME TypeOK, Places, NEW p \in Processes, NEW call \in proc[p].calls, ObserveRead(p, call)
  PROVE  /\ Lawful(p) /\ Quietly(p) /\ ledger' = ledger /\ budget' = budget
         /\ proc[p].pc \in Miners /\ proc[p].call = NoCall
         /\ \/ /\ proc'[p] = Observe(p, call)
               /\ \E i \in DOMAIN learned :
                    learned[i].object = call.object /\ Counted(learned[i], call.event)
            \/ /\ proc'[p] = [proc[p] EXCEPT !.call = call, !.held = NoRow]
               /\ ~HasRow(learned, call.object)
            \/ \E i \in DOMAIN learned :
                 /\ learned[i].object = call.object /\ RowOf(call.object) = i
                 /\ proc'[p] = [proc[p] EXCEPT !.call = call, !.held = learned[i]]
                 /\ ~Counted(learned[i], call.event)
<1> DEFINE id == RowOf(call.object)
           row == IF id = 0 THEN NoRow ELSE learned[id]
           s == proc[p]
           took == [proc[p] EXCEPT !.call = call, !.held = row]
           to == IF Counted(row, call.event) THEN Observe(p, call) ELSE took
<1>1. /\ s.pc \in Miners /\ s.call = NoCall /\ Go(p, to)
      /\ UNCHANGED <<ledger, learned, claims, op, budget>>
  BY DEF ObserveRead
<1>2. call \in Sightings /\ s \in Procs
  BY HereFacts DEF Procs
<1>3. \/ id = 0 /\ ~HasRow(learned, call.object)
      \/ id \in DOMAIN learned /\ id # 0 /\ learned[id].object = call.object
  BY HereFacts, RowOfIs
<1> HIDE DEF id
<1>4. CASE Counted(row, call.event)
  <2>1. id \in DOMAIN learned /\ learned[id].object = call.object /\ Counted(learned[id], call.event)
    <3>1. ~Counted(NoRow, call.event)
      <4>1. NoRow.support \in Seq(Nat) /\ NoRow.contra \in Seq(Nat)
        BY CallIsReal
      <4>2. ~Contains(NoRow.support, call.event) /\ ~Contains(NoRow.contra, call.event)
        BY CallIsReal DEF Contains
      <4> QED BY <4>1, <4>2, CountedIs
    <3> QED BY <1>3, <1>4, <3>1
  <2>2. HasRow(learned, call.object)
    BY <2>1 DEF HasRow
  <2>3. Observe(p, call) \in Procs /\ PlaceOK(Observe(p, call), ledger, learned, claims)
    BY <1>1, <2>2, HereFacts, ObservePlace
  <2>4. Go(p, Observe(p, call))
    BY <1>1, <1>4
  <2>5. Lawful(p) /\ Quietly(p) /\ proc'[p] = Observe(p, call)
    BY <1>1, <2>3, <2>4, HereFacts, GoLawful
  <2> QED BY <1>1, <2>1, <2>5
<1>5. CASE ~Counted(row, call.event)
  <2>1. row \in Rows \cup {NoRow}
    BY <1>3, HereFacts
  <2>2. /\ took \in Procs /\ took.pc = s.pc /\ took.events = s.events /\ took.calls = s.calls
        /\ took.known = s.known /\ took.touched = s.touched
        /\ took.call = call /\ took.held = row /\ took.rows = s.rows /\ took.at = s.at
        /\ took.seen = s.seen
    BY <1>2, <2>1 DEF Procs
  <2>3. Go(p, took)
    BY <1>1, <1>5
  <2>4. ASSUME row # NoRow
        PROVE  /\ id \in DOMAIN learned /\ row = learned[id] /\ row.object = call.object
               /\ HasRow(learned, call.object) /\ Sided(ledger, row)
    BY <1>3, <2>4, HereFacts DEF HasRow, TablesOK
  <2> HIDE DEF took, row
  <2>5. CallsOK(took, ledger, learned)
    BY <1>2, <1>5, <2>2, <2>4, HereFacts, CallIsReal DEF CallsOK
  <2>6. RowsOK(took, ledger, learned, claims)
    BY <1>1, <2>2, HereFacts, RowsIdle DEF Deciding, Miners
  <2>7. PlaceOK(took, ledger, learned, claims)
    BY <2>2, <2>5, <2>6, HereFacts DEF PlaceOK
  <2>8. Lawful(p) /\ Quietly(p) /\ proc'[p] = took
    BY <1>1, <2>2, <2>3, <2>7, HereFacts, GoLawful
  <2>9. \/ id = 0 /\ row = NoRow /\ ~HasRow(learned, call.object)
        \/ id \in DOMAIN learned /\ row = learned[id] /\ learned[id].object = call.object
    BY <1>3 DEF row
  <2> QED BY <1>1, <1>5, <2>8, <2>9 DEF took, id
<1> QED BY <1>4, <1>5

LEMMA UpdateMove ==
  ASSUME TypeOK, Places, NEW p \in Processes, ObserveUpdate(p)
  PROVE  /\ Lawful(p) /\ Loudly(p) /\ ledger' = ledger /\ budget' = budget /\ claims' = claims
         /\ proc[p].pc \in Miners /\ proc[p].call \in proc[p].calls /\ proc[p].held \in Rows
         /\ proc'[p] = Observe(p, proc[p].call)
         /\ RowOf(proc[p].call.object) \in DOMAIN learned
         /\ LET i == RowOf(proc[p].call.object)
                held == proc[p].held
                e == proc[p].call.event
                against == proc[p].call.against
            IN  /\ learned[i].object = proc[p].call.object
                /\ learned' = [learned EXCEPT ![i] = learned'[i]] /\ learned'[i] \in Rows
                /\ learned'[i].object = learned[i].object /\ learned'[i].claim = learned[i].claim
                /\ Enough(learned'[i])
                /\ learned'[i].support = IF against THEN held.support ELSE Append(held.support, e)
                /\ learned'[i].contra = IF against THEN Append(held.contra, e) ELSE held.contra
<1> DEFINE s == proc[p]
           call == s.call
           i == RowOf(call.object)
           new == Observed(learned[i], s.held, call.event, call.against)
<1>1. /\ s.pc \in Miners /\ call # NoCall /\ s.held # NoRow
      /\ learned' = [learned EXCEPT ![i] = new] /\ Write(p, Observe(p, call))
      /\ UNCHANGED <<ledger, claims, op, budget>>
  BY DEF ObserveUpdate
<1>2. call \in s.calls /\ call \in Sightings /\ s.held \in Rows
  BY <1>1, HereFacts DEF CallsOK, Procs
<1>3. /\ s.held.object = call.object /\ HasRow(learned, call.object) /\ Sided(ledger, s.held)
      /\ ~Counted(s.held, call.event) /\ Apt(ledger, call)
  BY <1>1, <1>2, HereFacts DEF CallsOK
<1>4. i \in DOMAIN learned /\ learned[i].object = call.object /\ learned[i] \in Rows
  BY <1>3, HereFacts, RowOfIs
<1> HIDE DEF i
<1>5. /\ new \in Rows /\ new.object = learned[i].object /\ new.claim = learned[i].claim
      /\ Sided(ledger, new) /\ Enough(new)
      /\ new.support = IF call.against THEN s.held.support ELSE Append(s.held.support, call.event)
      /\ new.contra = IF call.against THEN Append(s.held.contra, call.event) ELSE s.held.contra
  BY <1>2, <1>3, <1>4, HereFacts, ObservedRow
<1> HIDE DEF new
<1>6. learned' \in Seq(Rows) /\ TableKept(learned, learned') /\ TablesOK(ledger, learned', claims)
  BY <1>1, <1>4, <1>5, HereFacts, RowWritten
<1>7. HasRow(learned', call.object)
  BY <1>3, <1>6, HereFacts, HasRowStays
<1>8. PlaceOK(proc[p], ledger, learned', claims)
  BY <1>6, HereFacts, Stays, PlaceStays
<1>9. Observe(p, call) \in Procs /\ PlaceOK(Observe(p, call), ledger, learned', claims)
  BY <1>1, <1>2, <1>6, <1>7, <1>8, ObservePlace
<1>10. Lawful(p) /\ Loudly(p) /\ proc'[p] = Observe(p, call)
  BY <1>1, <1>6, <1>9, HereFacts, Stays, WriteLawful
<1>11. learned'[i] = new
  BY <1>1, <1>4, HereFacts
<1> QED BY <1>1, <1>2, <1>4, <1>5, <1>10, <1>11 DEF i

LEMMA InsertMove ==
  ASSUME TypeOK, Places, NEW p \in Processes, ObserveInsert(p)
  PROVE  /\ Lawful(p) /\ Loudly(p) /\ ledger' = ledger /\ budget' = budget /\ claims' = claims
         /\ proc[p].pc \in Miners /\ proc[p].call \in proc[p].calls
         /\ proc'[p] = Observe(p, proc[p].call)
         /\ ~HasRow(learned, proc[p].call.object)
         /\ LET new == FirstSighting(proc[p].call.object, proc[p].call.event, proc[p].call.against)
            IN  /\ learned' = Append(learned, new) /\ new \in Rows
                /\ new.object = proc[p].call.object /\ new.claim = 0 /\ Enough(new)
                /\ new.support = IF proc[p].call.against THEN <<>> ELSE <<proc[p].call.event>>
                /\ new.contra = IF proc[p].call.against THEN <<proc[p].call.event>> ELSE <<>>
<1> DEFINE s == proc[p]
           call == s.call
           new == FirstSighting(call.object, call.event, call.against)
<1>1. /\ s.pc \in Miners /\ call # NoCall /\ RowOf(call.object) = 0
      /\ learned' = Append(learned, new) /\ Write(p, Observe(p, call))
      /\ UNCHANGED <<ledger, claims, op, budget>>
  BY DEF ObserveInsert
<1>2. call \in s.calls /\ call \in Sightings /\ Apt(ledger, call)
  BY <1>1, HereFacts DEF CallsOK, Procs
<1>3. ~HasRow(learned, call.object)
  BY <1>1, HereFacts, RowOfIs
<1>4. /\ new \in Rows /\ new.object = call.object /\ new.claim = 0
      /\ Sided(ledger, new) /\ Enough(new)
      /\ new.support = IF call.against THEN <<>> ELSE <<call.event>>
      /\ new.contra = IF call.against THEN <<call.event>> ELSE <<>>
  BY <1>2, HereFacts, FirstRow
<1> HIDE DEF new
<1>5. /\ learned' \in Seq(Rows) /\ TableKept(learned, learned') /\ TablesOK(ledger, learned', claims)
      /\ HasRow(learned', call.object)
  BY <1>1, <1>3, <1>4, HereFacts, RowAdded
<1>6. PlaceOK(proc[p], ledger, learned', claims)
  BY <1>5, HereFacts, Stays, PlaceStays
<1>7. Observe(p, call) \in Procs /\ PlaceOK(Observe(p, call), ledger, learned', claims)
  BY <1>1, <1>2, <1>5, <1>6, ObservePlace
<1>8. Lawful(p) /\ Loudly(p) /\ proc'[p] = Observe(p, call)
  BY <1>1, <1>5, <1>7, HereFacts, Stays, WriteLawful
<1> QED BY <1>1, <1>2, <1>3, <1>4, <1>8 DEF new

-----------------------------------------------------------------------------
(* The steps of promotion. *)

LEMMA MaxOfIndices ==
  ASSUME NEW n \in Nat, NEW S, S \subseteq 1..n, S # {}
  PROVE  Max(S) \in S
<1> DEFINE T == {m \in Nat : \E x \in S : m = n - x}
           R == OpToRel(<, Nat)
<1>1. T \subseteq Nat /\ T # {}
  <2>1. PICK x \in S : TRUE
    OBVIOUS
  <2>2. n - x \in T
    BY <2>1
  <2> QED BY <2>2
<1>2. IsWellFoundedOn(R, Nat)
  BY NatLessThanWellFounded
<1>3. \A x, y \in Nat : x < y => <<x, y>> \in R
  BY DEF OpToRel
<1> HIDE DEF R
<1>4. PICK m \in T : \A y \in T : ~(<<y, m>> \in R)
  BY <1>1, <1>2, WFMin
<1>5. \A y \in T : y >= m
  <2> HIDE DEF T
  <2>1. \A y \in T : y \in Nat /\ ~(y < m) /\ m \in Nat
    BY <1>1, <1>3, <1>4
  <2> QED BY <2>1
<1>6. PICK x \in S : m = n - x
  BY <1>4
<1>7. ASSUME NEW y \in S PROVE x >= y
  <2>1. n - y \in T
    OBVIOUS
  <2>2. n - y >= n - x
    BY <1>5, <1>6, <2>1
  <2>3. x \in Int /\ y \in Int
    BY <1>6
  <2> QED BY <2>2, <2>3
<1>8. \E z \in S : \A y \in S : z >= y
  BY <1>6, <1>7
<1> QED BY <1>8 DEF Max

LEMMA PromotingFacts ==
  ASSUME TypeOK, Places, NEW p \in Processes, proc[p].pc \in Promotion, proc[p].at # 0
  PROVE  /\ proc[p].at \in DOMAIN proc[p].rows /\ proc[p].at \in DOMAIN learned
         /\ CurrentRow(p) = proc[p].rows[proc[p].at] /\ CurrentRow(p) \in Rows
         /\ learned[proc[p].at].object = CurrentRow(p).object
         /\ Sided(ledger, CurrentRow(p)) /\ LinkOK(CurrentRow(p), claims)
         /\ proc[p].call = NoCall /\ proc[p].held = NoRow /\ proc[p].calls = {}
         /\ proc[p].at - 1 \in Nat
<1>1. /\ proc[p].rows \in Seq(Rows) /\ proc[p].at \in Nat /\ learned \in Seq(Rows)
      /\ proc[p].at <= Len(proc[p].rows) /\ Len(proc[p].rows) <= Len(learned)
  BY HereFacts DEF Procs, RowsOK
<1>2. proc[p].at \in DOMAIN proc[p].rows /\ proc[p].at \in DOMAIN learned
  BY <1>1
<1>3. proc[p].call = NoCall /\ proc[p].held = NoRow /\ proc[p].calls = {}
  BY HandsFree DEF Promotion, Deciding, Miners
<1> QED BY <1>1, <1>2, <1>3, HereFacts DEF CurrentRow, RowsOK

\* What promotion leaves of a process's locals.
Same(s, t) ==
  /\ t.events = s.events /\ t.calls = s.calls /\ t.known = s.known /\ t.touched = s.touched
  /\ t.call = s.call /\ t.held = s.held /\ t.rows = s.rows /\ t.seen = s.seen /\ t.clean = s.clean

LEMMA MovedOn ==
  ASSUME NEW log, NEW table, NEW base, NEW s \in Procs, PlaceOK(s, log, table, base),
         s.pc \in Promotion, NEW t \in Procs, t.pc \in Promotion, Same(s, t), t.at <= s.at,
         t.pc \in Deciding =>
           t.at # 0 /\ t.claim \in DOMAIN base /\ base[t.claim].origin = t.rows[t.at].object,
         t.pc \in {"affirm", "affirming"} => t.sources \subseteq ForIds(log, t.rows[t.at].object),
         table \in Seq(Rows)
  PROVE  PlaceOK(t, log, table, base)
<1>1. CallsOK(t, log, table)
  BY DEF PlaceOK, CallsOK, Same, Promotion, Deciding, Miners
<1>2. RowsOK(t, log, table, base)
  <2>1. t.at <= Len(t.rows)
    BY DEF PlaceOK, RowsOK, Same, Procs
  <2> QED BY <2>1 DEF PlaceOK, RowsOK, Same
<1> QED BY <1>1, <1>2 DEF PlaceOK, Same

\* Done with a row.
LEMMA NextRowPlace ==
  ASSUME TypeOK, Places, NEW p \in Processes, proc[p].pc \in Promotion, proc[p].at # 0,
         NEW cost \in Nat, NEW table \in Seq(Rows), NEW base \in Seq(Claims),
         PlaceOK(proc[p], ledger, table, base)
  PROVE  /\ NextRow(p, cost) \in Procs /\ PlaceOK(NextRow(p, cost), ledger, table, base)
         /\ NextRow(p, cost).pc = "promote" /\ NextRow(p, cost).at = proc[p].at - 1
         /\ Same(proc[p], NextRow(p, cost))
<1> DEFINE t == NextRow(p, cost)
<1>1. proc[p] \in Procs /\ proc[p].at - 1 \in Nat /\ "promote" \in States
  BY HereFacts, PromotingFacts DEF States, Promotion
<1>2. t \in Procs /\ t.pc = "promote" /\ t.at = proc[p].at - 1 /\ Same(proc[p], t)
  <2> DEFINE at == proc[p].at - 1
             spent == proc[p].spent + cost
  <2>1. at \in Nat /\ spent \in Nat
    BY <1>1 DEF Procs
  <2>2. t = [proc[p] EXCEPT !.pc = "promote", !.at = at, !.spent = spent, !.sources = {}, !.claim = 0]
    BY <1>1 DEF NextRow
  <2> HIDE DEF at, spent, t
  <2>3. t \in Procs /\ t.pc = "promote" /\ t.at = at /\ Same(proc[p], t)
    BY <1>1, <2>1, <2>2 DEF Procs, Same
  <2> QED BY <2>3 DEF at
<1>3. t.at <= proc[p].at
  BY <1>1, <1>2 DEF Procs
<1> HIDE DEF t
<1>4. PlaceOK(t, ledger, table, base)
  BY <1>1, <1>2, <1>3, MovedOn DEF Promotion, Deciding
<1> QED BY <1>2, <1>4 DEF t

LEMMA PromotionMove ==
  ASSUME TypeOK, Places, NEW p \in Processes, StartPromotion(p)
  PROVE  /\ Lawful(p) /\ Quietly(p) /\ ledger' = ledger /\ budget' = budget
         /\ proc[p].pc = "strategies" /\ proc[p].calls = {}
         /\ proc'[p] = [proc[p] EXCEPT !.pc = "promote", !.rows = learned, !.at = Len(learned),
                          !.spent = Spent(p), !.touched = {}]
<1> DEFINE to == [proc[p] EXCEPT !.pc = "promote", !.rows = learned, !.at = Len(learned),
                    !.spent = Spent(p), !.touched = {}]
<1>1. /\ proc[p].pc = "strategies" /\ proc[p].calls = {} /\ Go(p, to)
      /\ UNCHANGED <<ledger, learned, claims, op, budget>>
  BY DEF StartPromotion
<1>2. proc[p].call = NoCall /\ proc[p].held = NoRow
  BY <1>1, HandsFree
<1>3. /\ Spent(p) \in Nat /\ "promote" \in States /\ Len(learned) \in Nat
      /\ learned \in Seq(Rows) /\ proc[p] \in Procs
  BY SpentType, HereFacts DEF States, Promotion
<1>4. /\ to \in Procs /\ to.pc = "promote" /\ to.events = proc[p].events
      /\ to.calls = {} /\ to.known = proc[p].known /\ to.touched = {}
      /\ to.call = NoCall /\ to.held = NoRow /\ to.rows = learned
      /\ to.at = Len(learned) /\ to.seen = proc[p].seen
  <2> DEFINE s == proc[p]  rows == learned  at == Len(learned)  spent == Spent(p)
  <2>1. to = [s EXCEPT !.pc = "promote", !.rows = rows, !.at = at, !.spent = spent, !.touched = {}]
    OBVIOUS
  <2>2. /\ s \in Procs /\ rows \in Seq(Rows) /\ at \in Nat /\ spent \in Nat /\ "promote" \in States
    BY <1>3
  <2> HIDE DEF to, s, rows, at, spent
  <2>3. /\ to \in Procs /\ to.pc = "promote" /\ to.touched = {} /\ to.rows = rows /\ to.at = at
    BY <2>1, <2>2 DEF Procs
  <2>4. /\ to.events = s.events /\ to.calls = s.calls /\ to.known = s.known
        /\ to.call = s.call /\ to.held = s.held /\ to.seen = s.seen
    BY <2>1, <2>2 DEF Procs
  <2> QED BY <1>1, <1>2, <2>3, <2>4 DEF s, rows, at, spent
<1> HIDE DEF to
<1>5. CallsOK(to, ledger, learned)
  BY <1>4, HereFacts DEF CallsOK
<1>6. RowsOK(to, ledger, learned, claims)
  BY <1>4, HereFacts DEF RowsOK, Deciding, TablesOK
<1>7. PlaceOK(to, ledger, learned, claims)
  BY <1>4, <1>5, <1>6, HereFacts DEF PlaceOK
<1> QED BY <1>1, <1>4, <1>7, HereFacts, GoLawful DEF to

LEMMA AffirmDecision ==
  ASSUME TypeOK, Places, NEW p \in Processes, DecideAffirm(p)
  PROVE  /\ Lawful(p) /\ Quietly(p) /\ ledger' = ledger /\ budget' = budget
         /\ proc[p].pc = "promote" /\ proc[p].at # 0
         /\ Ready(CurrentRow(p)) /\ Believed(CurrentRow(p))
         /\ proc'[p].pc = "affirm" /\ proc'[p].claim = CurrentRow(p).claim
         /\ proc'[p].at = proc[p].at /\ Same(proc[p], proc'[p])
<1> DEFINE row == CurrentRow(p)
           e == row.support[Max(Fresh(row))]
           to == [proc[p] EXCEPT !.pc = "affirm", !.claim = row.claim, !.sources = {e}]
<1>1. /\ proc[p].pc = "promote" /\ proc[p].at > 0 /\ Ready(row) /\ Believed(row) /\ Fresh(row) # {}
      /\ Go(p, to) /\ UNCHANGED <<ledger, learned, claims, op, budget>>
  BY DEF DecideAffirm, Promoting
<1>2. /\ proc[p].pc \in Promotion /\ proc[p].at # 0 /\ proc[p] \in Procs
  BY <1>1, HereFacts DEF Promotion, Procs
<1>3. /\ row = proc[p].rows[proc[p].at] /\ row \in Rows /\ Sided(ledger, row) /\ LinkOK(row, claims)
  BY <1>2, PromotingFacts
<1>4. e \in ForIds(ledger, row.object) /\ e \in Nat
  <2>1. row.support \in Seq(Nat) /\ Fresh(row) \subseteq 1..Len(row.support)
    BY SMTT(30), <1>3 DEF Rows, Fresh
  <2>2. Max(Fresh(row)) \in Fresh(row)
    <3> DEFINE n == Len(row.support)
               S == Fresh(row)
    <3>1. n \in Nat /\ S \subseteq 1..n /\ S # {}
      BY <1>1, <2>1
    <3> HIDE DEF n, S
    <3>2. Max(S) \in S
      BY <3>1, MaxOfIndices
    <3> QED BY <3>2 DEF S
  <2>3. \A k \in DOMAIN row.support : row.support[k] \in ForIds(ledger, row.object)
    BY <1>3 DEF Sided, Lists
  <2> DEFINE list == row.support
             k == Max(Fresh(row))
  <2>4. list \in Seq(Nat) /\ k \in 1..Len(list) /\ e = list[k]
    BY <2>1, <2>2
  <2>5. \A j \in DOMAIN list : list[j] \in ForIds(ledger, row.object)
    BY <2>3
  <2> HIDE DEF list, k, row, e
  <2> QED BY <2>4, <2>5
<1>5. row.claim \in DOMAIN claims /\ claims[row.claim].origin = row.object /\ row.claim \in Nat
  BY <1>1, <1>3, HereFacts DEF Believed, LinkOK, Rows
<1> HIDE DEF row, e
<1>6. /\ to \in Procs /\ to.pc = "affirm" /\ to.claim = row.claim /\ to.sources = {e}
      /\ to.at = proc[p].at /\ to.rows = proc[p].rows /\ Same(proc[p], to)
  BY <1>2, <1>4, <1>5 DEF Procs, States, Promotion, Deciding, Same
<1> HIDE DEF to
<1>7. PlaceOK(to, ledger, learned, claims)
  <2>1. to.at <= proc[p].at /\ to.pc \in Promotion
    BY <1>2, <1>6 DEF Procs, Promotion, Deciding
  <2> QED BY <1>2, <1>3, <1>4, <1>5, <1>6, <2>1, HereFacts, MovedOn
<1>8. Lawful(p) /\ Quietly(p) /\ proc'[p] = to
  BY <1>1, <1>6, <1>7, HereFacts, GoLawful
<1> QED BY <1>1, <1>2, <1>6, <1>8 DEF row

LEMMA DemoteDecision ==
  ASSUME TypeOK, Places, NEW p \in Processes, DecideDemote(p)
  PROVE  /\ Lawful(p) /\ Quietly(p) /\ ledger' = ledger /\ budget' = budget
         /\ proc[p].pc = "promote" /\ proc[p].at # 0
         /\ CurrentRow(p).status = "contradicted" /\ Believed(CurrentRow(p))
         /\ proc'[p].pc = "demote" /\ proc'[p].claim = CurrentRow(p).claim
         /\ proc'[p].at = proc[p].at /\ Same(proc[p], proc'[p])
<1> DEFINE row == CurrentRow(p)
           to == [proc[p] EXCEPT !.pc = "demote", !.claim = row.claim]
<1>1. /\ proc[p].pc = "promote" /\ proc[p].at > 0 /\ row.status = "contradicted" /\ Believed(row)
      /\ Go(p, to) /\ UNCHANGED <<ledger, learned, claims, op, budget>>
  BY DEF DecideDemote, Promoting
<1>2. /\ proc[p].pc \in Promotion /\ proc[p].at # 0 /\ proc[p] \in Procs
  BY <1>1, HereFacts DEF Promotion, Procs
<1>3. row = proc[p].rows[proc[p].at] /\ row \in Rows /\ LinkOK(row, claims)
  BY <1>2, PromotingFacts
<1>4. row.claim \in DOMAIN claims /\ claims[row.claim].origin = row.object /\ row.claim \in Nat
  BY <1>1, <1>3, HereFacts DEF Believed, LinkOK, Rows
<1> HIDE DEF row
<1>5. /\ to \in Procs /\ to.pc = "demote" /\ to.claim = row.claim
      /\ to.at = proc[p].at /\ to.rows = proc[p].rows /\ Same(proc[p], to)
  BY <1>2, <1>4 DEF Procs, States, Promotion, Deciding, Same
<1> HIDE DEF to
<1>6. PlaceOK(to, ledger, learned, claims)
  <2>1. to.at <= proc[p].at /\ to.pc \in Promotion
    BY <1>2, <1>5 DEF Procs, Promotion, Deciding
  <2> QED BY <1>2, <1>3, <1>4, <1>5, <2>1, HereFacts, MovedOn
<1>7. Lawful(p) /\ Quietly(p) /\ proc'[p] = to
  BY <1>1, <1>5, <1>6, HereFacts, GoLawful
<1> QED BY <1>1, <1>2, <1>5, <1>7 DEF row

LEMMA LeaveMove ==
  ASSUME TypeOK, Places, NEW p \in Processes, LeaveAlone(p)
  PROVE  /\ Lawful(p) /\ Quietly(p) /\ ledger' = ledger /\ budget' = budget
         /\ proc[p].pc = "promote" /\ proc[p].at # 0
         /\ Ready(CurrentRow(p)) => Believed(CurrentRow(p))
         /\ CurrentRow(p).status = "contradicted" => ~Believed(CurrentRow(p))
         /\ proc'[p] = NextRow(p, 1)
<1>1. /\ proc[p].pc = "promote" /\ proc[p].at > 0 /\ Go(p, NextRow(p, 1))
      /\ Ready(CurrentRow(p)) => Believed(CurrentRow(p))
      /\ CurrentRow(p).status = "contradicted" => ~Believed(CurrentRow(p))
      /\ UNCHANGED <<ledger, learned, claims, op, budget>>
  BY DEF LeaveAlone, Promoting
<1>2. proc[p].pc \in Promotion /\ proc[p].at # 0
  BY <1>1, HereFacts DEF Promotion, Procs
<1>3. NextRow(p, 1) \in Procs /\ PlaceOK(NextRow(p, 1), ledger, learned, claims)
  BY <1>2, HereFacts, NextRowPlace
<1> QED BY <1>1, <1>2, <1>3, HereFacts, GoLawful

LEMMA ProposeMove ==
  ASSUME TypeOK, Places, NEW p \in Processes, ProposeClaim(p)
  PROVE  /\ Lawful(p) /\ Loudly(p) /\ ledger' = ledger /\ budget' = budget /\ learned' = learned
         /\ proc[p].pc = "promote" /\ proc[p].at # 0
         /\ Ready(CurrentRow(p)) /\ ~Believed(CurrentRow(p)) /\ CurrentRow(p) \in Rows
         /\ Sided(ledger, CurrentRow(p))
         /\ claims' = Propose(claims, CurrentRow(p).object, ToSet(CurrentRow(p).support))
         /\ CurrentRow(p).object \in Origins /\ ToSet(CurrentRow(p).support) \in SUBSET Nat
         /\ proc'[p].pc = "link" /\ proc'[p].claim = Len(claims) + 1 /\ Len(claims) + 1 \in DOMAIN claims'
         /\ proc'[p].at = proc[p].at /\ Same(proc[p], proc'[p])
<1> DEFINE row == CurrentRow(p)
           sources == ToSet(row.support)
           to == [proc[p] EXCEPT !.pc = "link", !.claim = Len(claims')]
<1>1. /\ proc[p].pc = "promote" /\ proc[p].at > 0 /\ Ready(row) /\ ~Believed(row)
      /\ claims' = Propose(claims, row.object, sources)
      /\ Write(p, to) /\ UNCHANGED <<ledger, learned, op, budget>>
  BY DEF ProposeClaim, Promoting
<1>2. /\ proc[p].pc \in Promotion /\ proc[p].at # 0 /\ proc[p] \in Procs
  BY <1>1, HereFacts DEF Promotion, Procs
<1>3. row = proc[p].rows[proc[p].at] /\ row \in Rows /\ Sided(ledger, row)
  BY <1>2, PromotingFacts
<1>4. /\ row.object \in Origins /\ sources \in SUBSET Nat /\ sources \subseteq ForIds(ledger, row.object)
  <2>1. row.object \in Origins /\ row.support \in Seq(Nat)
    BY <1>3 DEF Rows, Origins
  <2>2. \A k \in DOMAIN row.support : row.support[k] \in ForIds(ledger, row.object)
    BY <1>3 DEF Sided, Lists
  <2> HIDE DEF row
  <2> QED BY <2>1, <2>2 DEF ToSet
<1> HIDE DEF row, sources
<1>5. /\ claims' \in Seq(Claims) /\ BaseKept(claims, claims') /\ Len(claims') = Len(claims) + 1
      /\ DOMAIN claims' = 1..Len(claims) + 1 /\ \A i \in DOMAIN claims : claims'[i] = claims[i]
      /\ claims'[Len(claims) + 1].origin = row.object /\ claims'[Len(claims) + 1].sources = sources
  BY <1>1, <1>4, HereFacts, ClaimAdded
<1>6. Len(claims) \in Nat /\ Len(claims) + 1 \in DOMAIN claims' /\ DOMAIN claims = 1..Len(claims)
  BY <1>5, HereFacts
<1>7. TablesOK(ledger, learned, claims')
  <2>1. ASSUME NEW i \in DOMAIN claims'
        PROVE  \/ i \in DOMAIN claims /\ claims'[i].sources = claims[i].sources
               \/ claims'[i].origin \in Objects => claims'[i].sources \subseteq ForIds(ledger, claims'[i].origin)
    <3>1. i \in DOMAIN claims \/ i = Len(claims) + 1
      BY <1>5, <1>6
    <3> QED BY <1>4, <1>5, <3>1
  <2> QED BY <1>5, <2>1, HereFacts, ClaimsWritten
<1>8. /\ to \in Procs /\ to.pc = "link" /\ to.claim = Len(claims) + 1
      /\ to.at = proc[p].at /\ to.rows = proc[p].rows /\ Same(proc[p], to)
  <2> DEFINE n == Len(claims')
  <2>1. n = Len(claims) + 1 /\ n \in Nat /\ "link" \in States
    BY <1>5, <1>6 DEF States, Promotion, Deciding
  <2> HIDE DEF n
  <2>2. to = [proc[p] EXCEPT !.pc = "link", !.claim = n]
    BY DEF n
  <2> HIDE DEF to
  <2> QED BY <1>2, <2>1, <2>2 DEF Procs, Same
<1> HIDE DEF to
<1>9. PlaceOK(to, ledger, learned, claims')
  <2>1. to.at <= proc[p].at /\ to.pc \in Promotion
    BY <1>2, <1>8 DEF Procs, Promotion, Deciding
  <2>2. PlaceOK(proc[p], ledger, learned, claims')
    BY <1>5, HereFacts, Stays, PlaceStays
  <2> QED BY <1>2, <1>3, <1>5, <1>6, <1>8, <2>1, <2>2, HereFacts, MovedOn
<1>10. Lawful(p) /\ Loudly(p) /\ proc'[p] = to
  BY <1>1, <1>5, <1>7, <1>8, <1>9, HereFacts, Stays, WriteLawful
<1> QED BY <1>1, <1>2, <1>3, <1>4, <1>6, <1>8, <1>10 DEF row, sources

LEMMA DecidedFacts ==
  ASSUME TypeOK, Places, NEW p \in Processes, proc[p].pc \in Deciding
  PROVE  /\ proc[p].pc \in Promotion /\ proc[p].at # 0 /\ proc[p].claim \in DOMAIN claims
         /\ CurrentRow(p) = proc[p].rows[proc[p].at]
         /\ claims[proc[p].claim].origin = CurrentRow(p).object
         /\ CurrentRow(p) \in Rows /\ proc[p].at \in DOMAIN learned
         /\ learned[proc[p].at].object = CurrentRow(p).object
<1>1. proc[p].pc \in Promotion /\ proc[p].at # 0 /\ proc[p].claim \in DOMAIN claims
  BY HereFacts DEF Promotion, RowsOK
<1> QED BY <1>1, HereFacts, PromotingFacts DEF RowsOK

LEMMA LinkMove ==
  ASSUME TypeOK, Places, NEW p \in Processes, LinkClaim(p)
  PROVE  /\ Lawful(p) /\ Loudly(p) /\ ledger' = ledger /\ budget' = budget /\ claims' = claims
         /\ proc[p].pc = "link" /\ proc[p].at \in DOMAIN learned
         /\ learned' = [learned EXCEPT ![proc[p].at].claim = proc[p].claim]
         /\ proc'[p] = NextRow(p, 1)
<1>1. /\ proc[p].pc = "link" /\ learned' = [learned EXCEPT ![proc[p].at].claim = proc[p].claim]
      /\ Write(p, NextRow(p, 1)) /\ UNCHANGED <<ledger, claims, op, budget>>
  BY DEF LinkClaim
<1>2. /\ proc[p].pc \in Promotion /\ proc[p].at # 0 /\ proc[p].claim \in DOMAIN claims
      /\ proc[p].at \in DOMAIN learned
      /\ claims[proc[p].claim].origin = learned[proc[p].at].object
  BY <1>1, DecidedFacts DEF Deciding
<1>3. learned' \in Seq(Rows) /\ TableKept(learned, learned') /\ TablesOK(ledger, learned', claims)
  BY <1>1, <1>2, HereFacts, RowLinked
<1>4. PlaceOK(proc[p], ledger, learned', claims)
  BY <1>3, HereFacts, Stays, PlaceStays
<1>5. NextRow(p, 1) \in Procs /\ PlaceOK(NextRow(p, 1), ledger, learned', claims)
  BY <1>2, <1>3, <1>4, HereFacts, NextRowPlace
<1> QED BY <1>1, <1>2, <1>3, <1>5, HereFacts, Stays, WriteLawful

LEMMA ReadClaimMove ==
  ASSUME TypeOK, Places, NEW p \in Processes, ReadClaim(p)
  PROVE  /\ Lawful(p) /\ Quietly(p) /\ ledger' = ledger /\ budget' = budget
         /\ proc[p].pc \in {"affirm", "demote"} /\ proc[p].claim \in DOMAIN claims
         /\ \/ claims[proc[p].claim].status # "active" /\ proc'[p] = NextRow(p, 0)
            \/ /\ claims[proc[p].claim].status = "active"
               /\ proc'[p].pc = IF proc[p].pc = "affirm" THEN "affirming" ELSE "demoting"
               /\ proc'[p].claim = proc[p].claim /\ proc'[p].at = proc[p].at
               /\ proc'[p].sources = proc[p].sources \cup claims[proc[p].claim].sources
               /\ Same(proc[p], proc'[p])
<1> DEFINE claim == claims[proc[p].claim]
           on == [proc[p] EXCEPT !.sources = @ \cup claim.sources,
                    !.pc = IF @ = "affirm" THEN "affirming" ELSE "demoting"]
           to == IF claim.status # "active" THEN NextRow(p, 0) ELSE on
<1>1. /\ proc[p].pc \in {"affirm", "demote"} /\ Go(p, to)
      /\ UNCHANGED <<ledger, learned, claims, op, budget>>
  BY DEF ReadClaim
<1>2. /\ proc[p].pc \in Promotion /\ proc[p].at # 0 /\ proc[p].claim \in DOMAIN claims
      /\ claim \in Claims /\ claim.origin = CurrentRow(p).object /\ CurrentRow(p) \in Rows
      /\ CurrentRow(p) = proc[p].rows[proc[p].at] /\ proc[p] \in Procs
  BY <1>1, HereFacts, DecidedFacts DEF Deciding
<1>3. CASE claim.status # "active"
  <2>1. NextRow(p, 0) \in Procs /\ PlaceOK(NextRow(p, 0), ledger, learned, claims)
    BY <1>2, HereFacts, NextRowPlace
  <2>2. Go(p, NextRow(p, 0))
    BY <1>1, <1>3
  <2>3. Lawful(p) /\ Quietly(p) /\ proc'[p] = NextRow(p, 0)
    BY <1>1, <2>1, <2>2, HereFacts, GoLawful
  <2> QED BY <1>1, <1>2, <1>3, <2>3
<1>4. CASE claim.status = "active"
  <2>1. claim.sources \subseteq ForIds(ledger, CurrentRow(p).object) /\ claim.sources \in SUBSET Nat
    BY <1>2, HereFacts DEF TablesOK, Rows, Claims
  <2>2. Go(p, on)
    BY <1>1, <1>4
  <2> HIDE DEF claim
  <2>3. /\ on \in Procs /\ on.pc = (IF proc[p].pc = "affirm" THEN "affirming" ELSE "demoting")
        /\ on.claim = proc[p].claim /\ on.at = proc[p].at /\ on.rows = proc[p].rows
        /\ on.sources = proc[p].sources \cup claim.sources /\ Same(proc[p], on)
    BY <1>1, <1>2, <2>1 DEF Procs, States, Promotion, Deciding, Same
  <2> HIDE DEF on
  <2>4. on.pc \in Promotion /\ on.at <= proc[p].at /\ on.pc # "affirm"
    BY <1>1, <1>2, <2>3 DEF Promotion, Deciding, Procs
  <2>5. on.pc = "affirming" => on.sources \subseteq ForIds(ledger, on.rows[on.at].object)
    BY <1>1, <1>2, <2>1, <2>3, HereFacts DEF RowsOK
  <2>6. PlaceOK(on, ledger, learned, claims)
    BY <1>2, <2>3, <2>4, <2>5, HereFacts, MovedOn DEF claim
  <2>7. Lawful(p) /\ Quietly(p) /\ proc'[p] = on
    BY <1>1, <2>2, <2>3, <2>6, HereFacts, GoLawful
  <2> QED BY <1>1, <1>2, <1>4, <2>3, <2>7 DEF claim
<1> QED BY <1>3, <1>4

LEMMA AffirmMove ==
  ASSUME TypeOK, Places, NEW p \in Processes, AffirmClaim(p)
  PROVE  /\ Lawful(p) /\ Loudly(p) /\ ledger' = ledger /\ budget' = budget /\ learned' = learned
         /\ proc[p].pc = "affirming" /\ proc[p].claim \in DOMAIN claims
         /\ proc[p].sources \in SUBSET Nat
         /\ claims' = WriteSources(claims, proc[p].claim, proc[p].sources)
         /\ proc'[p] = NextRow(p, 1)
<1> DEFINE id == proc[p].claim
           sources == proc[p].sources
<1>1. /\ proc[p].pc = "affirming" /\ claims' = WriteSources(claims, id, sources)
      /\ Write(p, NextRow(p, 1)) /\ UNCHANGED <<ledger, learned, op, budget>>
  BY DEF AffirmClaim
<1>2. /\ proc[p].pc \in Promotion /\ proc[p].at # 0 /\ id \in DOMAIN claims
      /\ claims[id].origin = CurrentRow(p).object /\ CurrentRow(p) = proc[p].rows[proc[p].at]
      /\ sources \in SUBSET Nat
  BY <1>1, HereFacts, DecidedFacts DEF Deciding, Procs
<1>3. sources \subseteq ForIds(ledger, claims[id].origin)
  BY <1>1, <1>2, HereFacts DEF RowsOK
<1> HIDE DEF id, sources
<1>4. /\ claims' \in Seq(Claims) /\ BaseKept(claims, claims') /\ DOMAIN claims' = DOMAIN claims
      /\ \A i \in DOMAIN claims : claims'[i].origin = claims[i].origin /\ (i # id => claims'[i] = claims[i])
      /\ claims'[id].sources = sources
  BY <1>1, <1>2, HereFacts, SourcesWritten
<1>5. TablesOK(ledger, learned, claims')
  <2>1. ASSUME NEW i \in DOMAIN claims'
        PROVE  \/ i \in DOMAIN claims /\ claims'[i].sources = claims[i].sources
               \/ claims'[i].origin \in Objects => claims'[i].sources \subseteq ForIds(ledger, claims'[i].origin)
    BY <1>2, <1>3, <1>4
  <2> QED BY <1>4, <2>1, HereFacts, ClaimsWritten
<1>6. PlaceOK(proc[p], ledger, learned, claims')
  BY <1>4, HereFacts, Stays, PlaceStays
<1>7. NextRow(p, 1) \in Procs /\ PlaceOK(NextRow(p, 1), ledger, learned, claims')
  BY <1>2, <1>4, <1>6, HereFacts, NextRowPlace
<1>8. Lawful(p) /\ Loudly(p) /\ proc'[p] = NextRow(p, 1)
  BY <1>1, <1>4, <1>5, <1>7, HereFacts, Stays, WriteLawful
<1> QED BY <1>1, <1>2, <1>8 DEF id, sources

LEMMA DemoteMove ==
  ASSUME TypeOK, Places, NEW p \in Processes, DemoteClaim(p)
  PROVE  /\ Lawful(p) /\ Loudly(p) /\ ledger' = ledger /\ budget' = budget /\ learned' = learned
         /\ proc[p].pc = "demoting" /\ proc[p].claim \in DOMAIN claims
         /\ claims' = WriteStatus(claims, proc[p].claim, "uncertain")
         /\ proc'[p] = NextRow(p, 1)
<1>1. /\ proc[p].pc = "demoting" /\ claims' = WriteStatus(claims, proc[p].claim, "uncertain")
      /\ Write(p, NextRow(p, 1)) /\ UNCHANGED <<ledger, learned, op, budget>>
  BY DEF DemoteClaim
<1>2. proc[p].pc \in Promotion /\ proc[p].at # 0 /\ proc[p].claim \in DOMAIN claims
  BY <1>1, DecidedFacts DEF Deciding
<1>3. /\ claims' \in Seq(Claims) /\ BaseKept(claims, claims') /\ DOMAIN claims' = DOMAIN claims
      /\ \A i \in DOMAIN claims : claims'[i].sources = claims[i].sources
  <2> DEFINE id == proc[p].claim
             status == "uncertain"
  <2>1. id \in DOMAIN claims /\ status \in ClaimStatus /\ claims' = WriteStatus(claims, id, status)
    BY <1>1, <1>2 DEF ClaimStatus
  <2> HIDE DEF id, status
  <2> QED BY <2>1, HereFacts, StatusWritten
<1>4. TablesOK(ledger, learned, claims')
  BY <1>3, HereFacts, ClaimsWritten
<1>5. PlaceOK(proc[p], ledger, learned, claims')
  BY <1>3, HereFacts, Stays, PlaceStays
<1>6. NextRow(p, 1) \in Procs /\ PlaceOK(NextRow(p, 1), ledger, learned, claims')
  BY <1>2, <1>3, <1>5, HereFacts, NextRowPlace
<1>7. Lawful(p) /\ Loudly(p) /\ proc'[p] = NextRow(p, 1)
  BY <1>1, <1>3, <1>4, <1>6, HereFacts, Stays, WriteLawful
<1> QED BY <1>1, <1>2, <1>7

LEMMA EndMove ==
  ASSUME TypeOK, Places, NEW p \in Processes, EndPass(p)
  PROVE  Lawful(p) /\ Quietly(p) /\ ledger' = ledger /\ budget' = budget /\ proc'[p] = Idle
BY IdleFacts, IdlePlace, HereFacts, GoLawful DEF EndPass

LEMMA CrashMove ==
  ASSUME TypeOK, Places, NEW p \in Processes, Crash(p)
  PROVE  /\ Lawful(p) /\ Quietly(p) /\ ledger' = ledger /\ proc'[p] = Idle
         /\ budget.crashes > 0 /\ budget'.crashes = budget.crashes - 1
<1>1. /\ Go(p, Idle) /\ budget.crashes > 0 /\ budget' = [budget EXCEPT !.crashes = @ - 1]
      /\ UNCHANGED <<ledger, learned, claims, op>>
  BY DEF Crash
<1>2. /\ budget' \in [passes : Nat, commands : Nat, crashes : 0..MaxCrashes]
      /\ budget'.crashes = budget.crashes - 1
  BY <1>1, HereFacts, Spending
<1> QED BY <1>1, <1>2, IdleFacts, IdlePlace, HereFacts, GoLawful

-----------------------------------------------------------------------------
(* The steps of callers, and of the world. *)

LawfulOutside ==
  /\ LogKept(ledger, ledger')
  /\ learned' \in Seq(Rows) /\ TableKept(learned, learned')
  /\ claims' \in Seq(Claims) /\ BaseKept(claims, claims')
  /\ TablesOK(ledger', learned', claims')
  /\ op' \in Ops /\ CallerOK(op', ledger', learned', claims')
  /\ budget' \in [passes : Nat, commands : Nat, crashes : 0..MaxCrashes]
  /\ proc' = [q \in Processes |-> proc'[q]]
  /\ \A q \in Processes : proc'[q] \in {proc[q], Dirtied(q)}

QuietOutside == learned' = learned /\ claims' = claims /\ proc' = proc
LoudOutside == \A q \in Processes : ~proc'[q].clean

LEMMA OutsideStep ==
  ASSUME TypeOK, Places, LawfulOutside
  PROVE  TypeOK' /\ Places'
<1>1. /\ ledger \in Seq(Events) /\ learned \in Seq(Rows) /\ claims \in Seq(Claims)
      /\ \A q \in Processes : proc[q] \in Procs /\ PlaceOK(proc[q], ledger, learned, claims)
  BY DEF TypeOK, Places
<1>2. ASSUME NEW q \in Processes
      PROVE  proc'[q] \in Procs /\ PlaceOK(proc'[q], ledger', learned', claims')
  <2>1. PlaceOK(proc[q], ledger', learned', claims')
    BY <1>1, PlaceStays DEF LawfulOutside
  <2>2. Dirtied(q) \in Procs /\ PlaceOK(Dirtied(q), ledger', learned', claims')
    BY <1>1, <2>1, DirtiedPlace DEF Dirtied
  <2> QED BY <1>1, <2>1, <2>2 DEF LawfulOutside
<1>3. ledger' \in Seq(Events)
  BY <1>1, LogGrows DEF LawfulOutside
<1>4. proc' \in [Processes -> Procs]
  BY <1>2 DEF LawfulOutside
<1> QED BY <1>2, <1>3, <1>4 DEF TypeOK, Places, LawfulOutside

LEMMA OutsideFacts ==
  ASSUME TypeOK, Places
  PROVE  /\ ledger \in Seq(Events) /\ learned \in Seq(Rows) /\ claims \in Seq(Claims)
         /\ proc \in [Processes -> Procs] /\ op \in Ops
         /\ TablesOK(ledger, learned, claims) /\ CallerOK(op, ledger, learned, claims)
         /\ budget \in [passes : Nat, commands : Nat, crashes : 0..MaxCrashes]
         /\ proc = [q \in Processes |-> proc[q]]
         /\ LogKept(ledger, ledger) /\ TableKept(learned, learned) /\ BaseKept(claims, claims)
BY Stays DEF TypeOK, Places

LEMMA AllDirtied ==
  ASSUME TypeOK, proc' = [q \in Processes |-> Dirtied(q)]
  PROVE  /\ proc' = [q \in Processes |-> proc'[q]] /\ LoudOutside
         /\ \A q \in Processes : proc'[q] = Dirtied(q)
<1>1. \A q \in Processes : proc'[q] = Dirtied(q) /\ proc[q] \in Procs
  BY DEF TypeOK
<1>2. LoudOutside
  BY <1>1 DEF LoudOutside, Dirtied, Procs
<1> QED BY <1>1, <1>2

LEMMA QuietFacts ==
  /\ Quiet \in Ops /\ Quiet.cmd = "none" /\ Quiet.id = 0 /\ Quiet.held = NoRow
  /\ Quiet.event = 0 /\ Quiet.new = 0
BY DEF Quiet, Ops

LEMMA CommandFacts ==
  ASSUME NEW cmd \in Commands
  PROVE  /\ cmd # "none" /\ cmd \in ObjectCommands \cup (ClaimStatus \ {"active"})
         /\ cmd \notin ObjectCommands => cmd \in ClaimStatus \ {"active"}
BY LearningAssumption DEF AllCommands, ObjectCommands, ClaimStatus

LEMMA QuietCaller ==
  ASSUME NEW log, NEW table, NEW base
  PROVE  CallerOK(Quiet, log, table, base)
BY QuietFacts DEF CallerOK, ObjectCommands

LEMMA RecordMove ==
  ASSUME TypeOK, Places, NEW event \in Arrivals, Record(event)
  PROVE  LawfulOutside /\ QuietOutside /\ op' = op /\ budget' = budget
<1>1. /\ ledger' = Append(ledger, event) /\ UNCHANGED <<learned, claims, proc, op, budget>>
  BY DEF Record
<1>2. LogKept(ledger, ledger')
  BY <1>1, LearningAssumption DEF LogKept
<1>3. TablesOK(ledger', learned, claims)
  BY <1>2, OutsideFacts, TablesOnMoreLog
<1>4. CallerOK(op, ledger', learned, claims)
  BY <1>2, OutsideFacts, CallerStays
<1> QED BY <1>1, <1>2, <1>3, <1>4, OutsideFacts DEF LawfulOutside, QuietOutside

LEMMA CommandClaimMove ==
  ASSUME TypeOK, Places, NEW cmd \in Commands, NEW id \in DOMAIN claims, CommandClaim(cmd, id)
  PROVE  /\ LawfulOutside /\ QuietOutside /\ op'.new = 0 /\ budget'.crashes = budget.crashes
         /\ op'.cmd # "decay"
<1> DEFINE to == [Quiet EXCEPT !.cmd = cmd, !.id = id]
<1>1. /\ budget.commands > 0 /\ cmd \notin ObjectCommands /\ op' = to
      /\ budget' = [budget EXCEPT !.commands = @ - 1] /\ UNCHANGED <<ledger, learned, claims, proc>>
  BY DEF CommandClaim
<1>2. id \in Nat
  BY OutsideFacts
<1>3. /\ to \in Ops /\ to.cmd = cmd /\ to.id = id /\ to.new = 0 /\ to.event = 0
  BY <1>2, QuietFacts DEF Ops
<1> HIDE DEF to
<1>4. CallerOK(to, ledger, learned, claims)
  BY <1>1, <1>3, CommandFacts DEF CallerOK, ObjectCommands
<1>5. /\ budget' \in [passes : Nat, commands : Nat, crashes : 0..MaxCrashes]
      /\ budget'.crashes = budget.crashes
  BY <1>1, OutsideFacts, Spending
<1> QED BY <1>1, <1>3, <1>4, <1>5, OutsideFacts DEF LawfulOutside, QuietOutside, ObjectCommands

LEMMA CommandObjectMove ==
  ASSUME TypeOK, Places, NEW cmd \in Commands, NEW id \in DOMAIN learned,
         NEW event \in {0} \cup DOMAIN ledger, CommandObject(cmd, id, event)
  PROVE  /\ LawfulOutside /\ QuietOutside /\ budget'.crashes = budget.crashes
         /\ op'.cmd = cmd /\ op'.id = id /\ op'.held = learned[id] /\ op'.new = 0
<1> DEFINE to == [Quiet EXCEPT !.cmd = cmd, !.id = id, !.held = learned[id], !.event = event]
<1>1. /\ budget.commands > 0 /\ cmd \in ObjectCommands /\ (cmd = "decay" <=> event = 0) /\ op' = to
      /\ budget' = [budget EXCEPT !.commands = @ - 1] /\ UNCHANGED <<ledger, learned, claims, proc>>
  BY DEF CommandObject
<1>2. id \in Nat /\ event \in Nat /\ learned[id] \in Rows
  BY OutsideFacts
<1>3. /\ to \in Ops /\ to.cmd = cmd /\ to.id = id /\ to.new = 0 /\ to.event = event
      /\ to.held = learned[id]
  BY <1>2, QuietFacts DEF Ops
<1> HIDE DEF to
<1>4. Sided(ledger, learned[id])
  BY OutsideFacts DEF TablesOK
<1>5. cmd = "correct" => event \in DOMAIN ledger
  BY <1>1
<1>6. CallerOK(to, ledger, learned, claims)
  BY <1>1, <1>3, <1>4, <1>5, CommandFacts DEF CallerOK, ObjectCommands
<1>7. /\ budget' \in [passes : Nat, commands : Nat, crashes : 0..MaxCrashes]
      /\ budget'.crashes = budget.crashes
  BY <1>1, OutsideFacts, Spending
<1> QED BY <1>1, <1>3, <1>6, <1>7, OutsideFacts DEF LawfulOutside, QuietOutside

LEMMA InsteadMove ==
  ASSUME TypeOK, Places, NEW event \in DOMAIN ledger, ProposeInstead(event)
  PROVE  /\ LawfulOutside /\ LoudOutside /\ budget' = budget /\ learned' = learned
         /\ claims' = Propose(claims, ByCaller, {event}) /\ {event} \in SUBSET Nat
         /\ ByCaller \in Origins
         /\ op.cmd \in Replacing /\ op'.cmd = op.cmd /\ op'.id = op.id /\ op'.held = op.held
         /\ op'.new = Len(claims) + 1
<1> DEFINE to == [op EXCEPT !.new = Len(claims')]
<1>1. /\ op.cmd \in Replacing /\ claims' = Propose(claims, ByCaller, {event}) /\ op' = to
      /\ proc' = [q \in Processes |-> Dirtied(q)] /\ UNCHANGED <<ledger, learned, budget>>
  BY DEF ProposeInstead
<1>2. {event} \in SUBSET Nat /\ ByCaller \in Origins /\ ByCaller \notin Objects
  BY OutsideFacts DEF Origins, ByCaller, Objects, Outcomes, Strategy
<1>3. /\ claims' \in Seq(Claims) /\ BaseKept(claims, claims') /\ Len(claims') = Len(claims) + 1
      /\ DOMAIN claims' = 1..Len(claims) + 1 /\ \A i \in DOMAIN claims : claims'[i] = claims[i]
      /\ claims'[Len(claims) + 1].origin = ByCaller
  BY <1>1, <1>2, OutsideFacts, ClaimAdded
<1>4. Len(claims) \in Nat /\ Len(claims) + 1 \in DOMAIN claims' /\ DOMAIN claims = 1..Len(claims)
  BY <1>3, OutsideFacts
<1>5. TablesOK(ledger, learned, claims')
  <2>1. ASSUME NEW i \in DOMAIN claims'
        PROVE  \/ i \in DOMAIN claims /\ claims'[i].sources = claims[i].sources
               \/ claims'[i].origin \notin Objects
    <3>1. i \in DOMAIN claims \/ i = Len(claims) + 1
      BY <1>3, <1>4
    <3> QED BY <1>2, <1>3, <3>1
  <2> QED BY <1>3, <2>1, OutsideFacts, ClaimsWritten
<1>6. /\ to \in Ops /\ to.cmd = op.cmd /\ to.id = op.id /\ to.held = op.held /\ to.event = op.event
      /\ to.new = Len(claims) + 1
  <2> DEFINE n == Len(claims')
  <2>1. n = Len(claims) + 1 /\ n \in Nat /\ op \in Ops
    BY <1>3, <1>4, OutsideFacts
  <2>2. to = [op EXCEPT !.new = n]
    OBVIOUS
  <2> HIDE DEF n, to
  <2> QED BY <2>1, <2>2 DEF Ops
<1> HIDE DEF to
<1>7. CallerOK(to, ledger, learned, claims')
  <2>1. CallerOK(op, ledger, learned, claims')
    BY <1>3, OutsideFacts, CallerStays
  <2>2. op.cmd # "none"
    BY <1>1 DEF Replacing
  <2> QED BY <1>4, <1>6, <2>1, <2>2 DEF CallerOK
<1> QED BY <1>1, <1>2, <1>3, <1>5, <1>6, <1>7, OutsideFacts, AllDirtied DEF LawfulOutside

LEMMA CrashCallerMove ==
  ASSUME TypeOK, Places, CrashCaller
  PROVE  /\ LawfulOutside /\ QuietOutside /\ op' = Quiet
         /\ budget.crashes > 0 /\ budget'.crashes = budget.crashes - 1
<1>1. /\ op' = Quiet /\ budget.crashes > 0 /\ budget' = [budget EXCEPT !.crashes = @ - 1]
      /\ UNCHANGED <<ledger, learned, claims, proc>>
  BY DEF CrashCaller
<1>2. /\ budget' \in [passes : Nat, commands : Nat, crashes : 0..MaxCrashes]
      /\ budget'.crashes = budget.crashes - 1
  BY <1>1, OutsideFacts, Spending
<1> QED BY <1>1, <1>2, OutsideFacts, QuietFacts, QuietCaller DEF LawfulOutside, QuietOutside

\* The last commit of a command: of a correction or a decay, of a replacement,
\* or of another change to a claim.
LEMMA SaveMove ==
  ASSUME TypeOK, Places, SaveCommand
  PROVE  /\ LawfulOutside /\ LoudOutside /\ op' = Quiet /\ budget' = budget
         /\ \/ /\ op.cmd \in ObjectCommands /\ claims' = claims /\ op.id \in DOMAIN learned
               /\ learned' = [learned EXCEPT ![op.id] = learned'[op.id]] /\ learned'[op.id] \in Rows
               /\ learned'[op.id].object = learned[op.id].object
               /\ learned'[op.id].claim = learned[op.id].claim
               /\ learned'[op.id].support = learned[op.id].support
               /\ learned'[op.id].contra = IF op.cmd = "correct" THEN Append(op.held.contra, op.event)
                                          ELSE learned[op.id].contra
               /\ \/ op.cmd = "correct" \/ Len(op.held.support) <= Len(learned[op.id].support)
                  => Enough(learned'[op.id])
            \/ /\ op.cmd \in Replacing /\ learned' = learned /\ op.id \in DOMAIN claims
               /\ op.new \in DOMAIN claims /\ op.new # 0
               /\ claims' = Replace(claims, op.id, op.cmd, op.new)
            \/ /\ op.cmd \in ClaimStatus \ (Replacing \cup {"active"}) /\ learned' = learned
               /\ op.id \in DOMAIN claims
               /\ claims' = WriteStatus(claims, op.id, op.cmd)
<1>1. /\ op # Quiet /\ (op.cmd \in Replacing => op.new # 0) /\ op' = Quiet
      /\ claims' = IF op.cmd \in ObjectCommands THEN claims
                   ELSE IF op.cmd \in Replacing THEN Replace(claims, op.id, op.cmd, op.new)
                   ELSE WriteStatus(claims, op.id, op.cmd)
      /\ proc' = [q \in Processes |-> Dirtied(q)] /\ UNCHANGED <<ledger, budget>>
  BY DEF SaveCommand
<1>2. /\ op.cmd = "correct" => learned' = [learned EXCEPT ![op.id] = Corrected(@, op.held, op.event)]
      /\ op.cmd = "decay" => learned' = [learned EXCEPT ![op.id] = Decayed(@, op.held)]
      /\ op.cmd \notin ObjectCommands => learned' = learned
  BY DEF SaveCommand, ObjectCommands
<1>3. op.cmd \in Commands /\ op.held \in Rows \cup {NoRow}
  BY <1>1, OutsideFacts DEF CallerOK, Ops
<1>4. LoudOutside /\ proc' = [q \in Processes |-> proc'[q]] /\ \A q \in Processes : proc'[q] = Dirtied(q)
  BY <1>1, AllDirtied
<1>5. CallerOK(Quiet, ledger', learned', claims') /\ Quiet \in Ops
  BY QuietCaller, QuietFacts
<1>6. CASE op.cmd \in ObjectCommands
  <2> DEFINE row == learned[op.id]
             new == IF op.cmd = "correct" THEN Corrected(row, op.held, op.event) ELSE Decayed(row, op.held)
  <2>1. /\ op.id \in DOMAIN learned /\ row \in Rows /\ op.held.object = row.object
        /\ Sided(ledger, op.held) /\ Sided(ledger, row) /\ row.object \in Objects
    <3>1. op.id \in DOMAIN learned /\ op.held.object = row.object /\ Sided(ledger, op.held)
      BY <1>6, OutsideFacts DEF CallerOK
    <3>2. row \in Rows /\ Sided(ledger, row)
      BY <3>1, OutsideFacts DEF TablesOK
    <3> QED BY <3>1, <3>2 DEF Rows
  <2>2. op.held \in Rows
    BY <1>3, <2>1, CallIsReal, NoneIsNoObject
  <2>3. learned' = [learned EXCEPT ![op.id] = new]
    BY <1>2, <1>6 DEF ObjectCommands
  <2>4. /\ new \in Rows /\ new.object = row.object /\ new.claim = row.claim /\ Sided(ledger, new)
        /\ new.support = row.support
        /\ new.contra = IF op.cmd = "correct" THEN Append(op.held.contra, op.event) ELSE row.contra
        /\ op.cmd = "correct" \/ Len(op.held.support) <= Len(row.support) => Enough(new)
    <3>1. CASE op.cmd = "correct"
      <4>1. op.event \in DOMAIN ledger
        BY <3>1, OutsideFacts DEF CallerOK
      <4>2. new = Corrected(row, op.held, op.event)
        BY <3>1
      <4> HIDE DEF new, row
      <4>3. /\ new \in Rows /\ new.object = row.object /\ new.claim = row.claim
            /\ Sided(ledger, new) /\ Enough(new) /\ new.support = row.support
            /\ new.contra = Append(op.held.contra, op.event)
        BY <2>1, <2>2, <4>1, <4>2, OutsideFacts, CorrectedRow
      <4> QED BY <3>1, <4>3
    <3>2. CASE op.cmd # "correct"
      <4>1. new = Decayed(row, op.held)
        BY <3>2
      <4> QED BY <2>1, <2>2, <3>2, <4>1, DecayedRow
    <3> QED BY <3>1, <3>2
  <2> HIDE DEF new
  <2>5. learned' \in Seq(Rows) /\ TableKept(learned, learned') /\ TablesOK(ledger, learned', claims)
    BY <2>1, <2>3, <2>4, OutsideFacts, RowWritten
  <2>6. claims' = claims /\ learned'[op.id] = new
    BY <1>1, <1>6, <2>1, <2>3, OutsideFacts
  <2>7. LawfulOutside
    BY <1>1, <1>4, <1>5, <2>5, <2>6, OutsideFacts DEF LawfulOutside
  <2> QED BY <1>1, <1>4, <1>6, <2>1, <2>3, <2>4, <2>6, <2>7
<1>7. CASE op.cmd \in Replacing
  <2>1. op.cmd \in ClaimStatus /\ op.cmd \notin ObjectCommands /\ op.cmd # "none"
    BY <1>7 DEF Replacing, ClaimStatus, ObjectCommands
  <2>2. op.id \in DOMAIN claims /\ op.new \in DOMAIN claims /\ op.new # 0
    BY <1>1, <1>7, <2>1, OutsideFacts DEF CallerOK
  <2>3. learned' = learned /\ claims' = Replace(claims, op.id, op.cmd, op.new)
    BY <1>1, <1>2, <1>7, <2>1
  <2>4. /\ claims' \in Seq(Claims) /\ BaseKept(claims, claims') /\ DOMAIN claims' = DOMAIN claims
        /\ \A i \in DOMAIN claims : claims'[i].sources = claims[i].sources
    <3> DEFINE id == op.id
               new == op.new
               status == op.cmd
    <3>1. /\ id \in DOMAIN claims /\ new \in DOMAIN claims /\ status \in ClaimStatus
          /\ claims' = Replace(claims, id, status, new)
      BY <2>1, <2>2, <2>3
    <3> HIDE DEF id, new, status
    <3>2. claims \in Seq(Claims)
      BY OutsideFacts
    <3>3. Successor(claims, claims', id, status, new)
      BY <3>1, <3>2, Replaced
    <3> QED BY <3>3 DEF Successor
  <2>5. TablesOK(ledger, learned, claims')
    BY <2>4, OutsideFacts, ClaimsWritten
  <2>6. LawfulOutside
    BY <1>1, <1>4, <1>5, <2>3, <2>4, <2>5, OutsideFacts DEF LawfulOutside
  <2> QED BY <1>1, <1>4, <1>7, <2>2, <2>3, <2>6
<1>8. CASE op.cmd \notin ObjectCommands \cup Replacing
  <2>1. op.cmd \in ClaimStatus \ (Replacing \cup {"active"}) /\ op.cmd # "none"
    BY <1>3, <1>8, CommandFacts
  <2>2. op.id \in DOMAIN claims
    BY <1>8, <2>1, OutsideFacts DEF CallerOK
  <2>3. learned' = learned /\ claims' = WriteStatus(claims, op.id, op.cmd)
    BY <1>1, <1>2, <1>8
  <2>4. /\ claims' \in Seq(Claims) /\ BaseKept(claims, claims') /\ DOMAIN claims' = DOMAIN claims
        /\ \A i \in DOMAIN claims : claims'[i].sources = claims[i].sources
    BY <2>1, <2>2, <2>3, OutsideFacts, StatusWritten
  <2>5. TablesOK(ledger, learned, claims')
    BY <2>4, OutsideFacts, ClaimsWritten
  <2>6. LawfulOutside
    BY <1>1, <1>4, <1>5, <2>3, <2>4, <2>5, OutsideFacts DEF LawfulOutside
  <2> QED BY <1>1, <1>4, <2>1, <2>2, <2>3, <2>6
<1> QED BY <1>6, <1>7, <1>8

-----------------------------------------------------------------------------
(* Every reachable state is well typed and everyone in it is at a place the  *)
(* code can be at: what the other theorems rest on.                          *)

LEMMA InitialPlaces ==
  ASSUME Init
  PROVE  TypeOK /\ Places
<1>1. /\ ledger = Earlier /\ learned = <<>> /\ claims = <<>>
      /\ proc = [p \in Processes |-> Idle] /\ op = Quiet
      /\ budget = [passes |-> MaxPasses, commands |-> MaxCommands, crashes |-> MaxCrashes]
  BY DEF Init
<1>2. TypeOK
  BY <1>1, IdleFacts, QuietFacts, LearningAssumption DEF TypeOK
<1>3. TablesOK(ledger, learned, claims)
  BY <1>1 DEF TablesOK
<1> QED BY <1>1, <1>2, <1>3, IdlePlace, QuietCaller DEF Places

LEMMA PassIsLawful ==
  ASSUME TypeOK, Places, NEW p \in Processes, Pass(p) \/ Crash(p)
  PROVE  Lawful(p)
<1>1. CASE Begin(p)
  BY <1>1, BeginMove
<1>2. CASE \E event \in proc[p].events : ClaimEvent(p, event)
  BY <1>2, ClaimMove
<1>3. CASE AskDue(p)
  BY <1>3, AskMove
<1>4. CASE Mine(p)
  BY <1>4, PatternsMove, ReadMove, UpdateMove, InsertMove, FailMove, SiblingsMove, StrategiesMove DEF Mine
<1>5. CASE Promote(p)
  BY <1>5, PromotionMove, AffirmDecision, DemoteDecision, LeaveMove, ProposeMove, LinkMove,
     ReadClaimMove, AffirmMove, DemoteMove, EndMove DEF Promote
<1>6. CASE Crash(p)
  BY <1>6, CrashMove
<1> QED BY <1>1, <1>2, <1>3, <1>4, <1>5, <1>6 DEF Pass

LEMMA OutsideIsLawful ==
  ASSUME TypeOK, Places, (\E event \in Arrivals : Record(event)) \/ Caller \/ CrashCaller
  PROVE  LawfulOutside
<1>1. CASE \E event \in Arrivals : Record(event)
  BY <1>1, RecordMove
<1>2. CASE Caller
  BY <1>2, CommandClaimMove, CommandObjectMove, InsteadMove, SaveMove DEF Caller
<1>3. CASE CrashCaller
  BY <1>3, CrashCallerMove
<1> QED BY <1>1, <1>2, <1>3

LEMMA PlacesStep ==
  ASSUME TypeOK, Places, [Next]_vars
  PROVE  TypeOK' /\ Places'
<1>1. CASE Next
  <2>1. CASE \E p \in Processes : Pass(p) \/ Crash(p)
    BY <2>1, PassIsLawful, LawfulStep
  <2>2. CASE (\E event \in Arrivals : Record(event)) \/ Caller \/ CrashCaller
    BY <2>2, OutsideIsLawful, OutsideStep
  <2> QED BY <1>1, <2>1, <2>2 DEF Next
<1>2. CASE UNCHANGED vars
  BY <1>2 DEF vars, TypeOK, Places
<1> QED BY <1>1, <1>2

\* However many processes run the end of a run at once, and whatever callers
\* and crashes fall between their commits: the tables keep their types, a list
\* of evidence holds events that speak its way and each once, a row links only
\* to a claim about its own object, and a promoted claim's sources all happened
\* the way it says (learned.py, knowledge.py, consolidation.py).
THEOREM TypeCorrect == Spec => [](TypeOK /\ Places)
<1>1. Init => TypeOK /\ Places
  BY InitialPlaces
<1>2. (TypeOK /\ Places) /\ [Next]_vars => (TypeOK /\ Places)'
  BY PlacesStep
<1> QED BY <1>1, <1>2, PTL DEF Spec

-----------------------------------------------------------------------------
(* Evidence is counted once. *)

LEMMA SidesApart ==
  ASSUME NEW log, NEW object, object # Strategy \/ object = Strategy
  PROVE  ForIds(log, object) \cap AgainstIds(log, object) = {}
BY DEF ForIds, AgainstIds, MinedKinds

LEMMA TimesType ==
  ASSUME NEW S, NEW s \in Seq(S), NEW x
  PROVE  IsFiniteSet({k \in DOMAIN s : s[k] = x}) /\ Times(s, x) \in Nat
<1>1. {k \in DOMAIN s : s[k] = x} \subseteq 1..Len(s) /\ Len(s) \in Nat
  OBVIOUS
<1>2. IsFiniteSet(1..Len(s))
  BY <1>1, FS_Interval
<1> QED BY <1>1, <1>2, FS_Subset, FS_CardinalityType DEF Times

LEMMA TimesAppend ==
  ASSUME NEW S, NEW s \in Seq(S), NEW y \in S, NEW x
  PROVE  Times(Append(s, y), x) = IF y = x THEN Times(s, x) + 1 ELSE Times(s, x)
<1> DEFINE at == {k \in DOMAIN s : s[k] = x}
           t == Append(s, y)
           n == Len(s) + 1
<1>1. /\ DOMAIN t = DOMAIN s \cup {n} /\ n \notin DOMAIN s /\ t[n] = y
      /\ \A k \in DOMAIN s : t[k] = s[k]
  OBVIOUS
<1> HIDE DEF t, n
<1>2. {k \in DOMAIN t : t[k] = x} = IF y = x THEN at \cup {n} ELSE at
  BY <1>1
<1>3. IsFiniteSet(at) /\ n \notin at
  BY <1>1, TimesType
<1>4. Cardinality(at \cup {n}) = Cardinality(at) + 1
  BY <1>3, FS_AddElement
<1> QED BY <1>2, <1>4 DEF Times, t

LEMMA OnceMore ==
  ASSUME NEW c \in Seq(Nat), NEW e \in Nat, NEW x
  PROVE  Times(Append(c, e), x) = IF e = x THEN Times(c, x) + 1 ELSE Times(c, x)
BY TimesAppend

LEMMA TimesNone ==
  ASSUME NEW S, NEW s \in Seq(S), NEW x, ~Contains(s, x)
  PROVE  Times(s, x) = 0
<1>1. {k \in DOMAIN s : s[k] = x} = {}
  BY DEF Contains
<1> QED BY <1>1, FS_EmptySet DEF Times

LEMMA TimesOnce ==
  ASSUME NEW S, NEW s \in Seq(S), IsInjective(s), NEW x
  PROVE  Times(s, x) <= 1
<1>1. CASE Contains(s, x)
  <2>1. PICK k \in DOMAIN s : s[k] = x
    BY <1>1 DEF Contains
  <2>2. {j \in DOMAIN s : s[j] = x} = {k}
    BY <2>1 DEF IsInjective
  <2>3. Cardinality({k}) = 1
    BY FS_Singleton
  <2>4. Times(s, x) = 1
    BY <2>2, <2>3 DEF Times
  <2> QED BY <2>4
<1>2. CASE ~Contains(s, x)
  BY <1>2, TimesNone
<1> QED BY <1>1, <1>2

\* What is held against an object was mined against it once, and was named by
\* corrections the other times.
Tallied(row, log, notes) ==
  \A e \in Nat :
    Times(row.contra, e)
      <= Times(notes, <<row.object, e>>) + (IF e \in AgainstIds(log, row.object) THEN 1 ELSE 0)

NotesKept(notes, later) ==
  later = notes \/ \E note \in Objects \X Nat : later = Append(notes, note)

TallyInv ==
  /\ corrections \in Seq(Objects \X Nat)
  /\ \A i \in DOMAIN learned : Tallied(learned[i], ledger, corrections)
  /\ \A p \in Processes : proc[p].held # NoRow => Tallied(proc[p].held, ledger, corrections)
  /\ op.cmd \in ObjectCommands => Tallied(op.held, ledger, corrections)

LEMMA NotesGrow ==
  ASSUME NEW notes \in Seq(Objects \X Nat), NEW later, NotesKept(notes, later), NEW x
  PROVE  /\ later \in Seq(Objects \X Nat) /\ Times(notes, x) \in Nat /\ Times(later, x) \in Nat
         /\ Times(notes, x) <= Times(later, x)
<1>1. later \in Seq(Objects \X Nat)
  BY DEF NotesKept
<1>2. Times(notes, x) \in Nat /\ Times(later, x) \in Nat
  BY <1>1, TimesType
<1>3. ASSUME NEW note \in Objects \X Nat, later = Append(notes, note)
      PROVE  Times(notes, x) <= Times(later, x)
  <2>1. Times(later, x) = IF note = x THEN Times(notes, x) + 1 ELSE Times(notes, x)
    BY <1>3, TimesAppend
  <2> QED BY <1>2, <2>1
<1> QED BY <1>1, <1>2, <1>3 DEF NotesKept

\* A tally depends on the object and on what is held against it.
LEMMA TalliedStays ==
  ASSUME NEW log \in Seq(Events), NEW log2, LogKept(log, log2),
         NEW notes \in Seq(Objects \X Nat), NEW notes2, NotesKept(notes, notes2),
         NEW row, row.contra \in Seq(Nat), Tallied(row, log, notes),
         NEW row2, row2.object = row.object, row2.contra = row.contra
  PROVE  Tallied(row2, log2, notes2)
<1> SUFFICES ASSUME NEW e \in Nat
             PROVE  Times(row.contra, e)
                      <= Times(notes2, <<row.object, e>>)
                         + (IF e \in AgainstIds(log2, row.object) THEN 1 ELSE 0)
  BY DEF Tallied
<1> DEFINE a == Times(row.contra, e)
           b == Times(notes, <<row.object, e>>)
           c == Times(notes2, <<row.object, e>>)
<1>1. a \in Nat /\ b \in Nat /\ c \in Nat /\ b <= c
  BY NotesGrow, TimesType
<1>2. e \in AgainstIds(log, row.object) => e \in AgainstIds(log2, row.object)
  BY IdsGrow
<1>3. a <= b + (IF e \in AgainstIds(log, row.object) THEN 1 ELSE 0)
  BY DEF Tallied
<1> HIDE DEF a, b, c
<1>4. a <= c + (IF e \in AgainstIds(log2, row.object) THEN 1 ELSE 0)
  BY <1>1, <1>2, <1>3
<1> QED BY <1>4 DEF a, c

\* The rows that observe and apply_correction write.
LEMMA TalliedMined ==
  ASSUME NEW log \in Seq(Events), NEW notes \in Seq(Objects \X Nat),
         NEW held, held.contra \in Seq(Nat), Tallied(held, log, notes),
         NEW e \in Nat, e \in AgainstIds(log, held.object), ~Contains(held.contra, e),
         NEW row, row.object = held.object, row.contra = Append(held.contra, e)
  PROVE  Tallied(row, log, notes)
<1> SUFFICES ASSUME NEW x \in Nat
             PROVE  Times(row.contra, x)
                      <= Times(notes, <<held.object, x>>)
                         + (IF x \in AgainstIds(log, held.object) THEN 1 ELSE 0)
  BY DEF Tallied
<1>1. Times(row.contra, x) = IF e = x THEN Times(held.contra, x) + 1 ELSE Times(held.contra, x)
  BY OnceMore
<1>2. Times(notes, <<held.object, x>>) \in Nat
  BY TimesType
<1>3. CASE e = x
  <2>1. Times(held.contra, x) = 0
    BY <1>3, TimesNone
  <2> QED BY <1>1, <1>2, <1>3, <2>1
<1>4. CASE e # x
  BY <1>1, <1>4 DEF Tallied
<1> QED BY <1>3, <1>4

LEMMA TalliedCorrected ==
  ASSUME NEW log \in Seq(Events), NEW notes \in Seq(Objects \X Nat),
         NEW held, held.object \in Objects, held.contra \in Seq(Nat), Tallied(held, log, notes),
         NEW e \in Nat,
         NEW row, row.object = held.object, row.contra = Append(held.contra, e)
  PROVE  Tallied(row, log, Append(notes, <<held.object, e>>))
<1> DEFINE later == Append(notes, <<held.object, e>>)
<1> SUFFICES ASSUME NEW x \in Nat
             PROVE  Times(row.contra, x)
                      <= Times(later, <<held.object, x>>)
                         + (IF x \in AgainstIds(log, held.object) THEN 1 ELSE 0)
  BY DEF Tallied
<1> DEFINE a == Times(held.contra, x)
           b == Times(notes, <<held.object, x>>)
           m == IF x \in AgainstIds(log, held.object) THEN 1 ELSE 0
<1>1. Times(row.contra, x) = IF e = x THEN a + 1 ELSE a
  BY OnceMore
<1>2. Times(later, <<held.object, x>>) = IF e = x THEN b + 1 ELSE b
  <2> DEFINE note == <<held.object, e>>
             at == <<held.object, x>>
  <2>1. note \in Objects \X Nat /\ (note = at <=> e = x)
    OBVIOUS
  <2> HIDE DEF note, at
  <2>2. Times(Append(notes, note), at) = IF note = at THEN Times(notes, at) + 1 ELSE Times(notes, at)
    BY <2>1, TimesAppend
  <2> QED BY <2>1, <2>2 DEF note, at
<1>3. a \in Nat /\ b \in Nat /\ m \in Nat
  BY TimesType
<1>4. a <= b + m
  BY DEF Tallied
<1> HIDE DEF a, b, m, later
<1>5. CASE e = x
  <2>1. a + 1 <= b + 1 + m
    BY <1>3, <1>4
  <2> QED BY <1>1, <1>2, <1>5, <2>1 DEF m
<1>6. CASE e # x
  BY <1>1, <1>2, <1>4, <1>6 DEF m
<1> QED BY <1>5, <1>6

\* Where the row comes from that a process holds after a step of its own.
LEMMA HeldWhence ==
  ASSUME TypeOK, Places, NEW p \in Processes, Pass(p) \/ Crash(p)
  PROVE  /\ \/ proc'[p].held \in {NoRow, proc[p].held}
            \/ \E i \in DOMAIN learned : proc'[p].held = learned[i]
         /\ corrections' = corrections
<1>0. proc[p] \in Procs /\ proc \in [Processes -> Procs] /\ Idle.held = NoRow
  BY HereFacts, IdleFacts DEF Idle
<1>1. CASE Begin(p) \/ AskDue(p) \/ EndPass(p) \/ Crash(p)
  <2>1. proc'[p].held = NoRow /\ corrections' = corrections
    BY <1>0, <1>1 DEF Begin, AskDue, EndPass, Crash, Go, Idle
  <2> QED BY <2>1
<1>2. CASE \/ \E event \in proc[p].events : ClaimEvent(p, event)
           \/ StartPatterns(p)
           \/ StartSiblings(p)
           \/ StartStrategies(p)
           \/ StartPromotion(p)
           \/ DecideAffirm(p)
           \/ DecideDemote(p)
           \/ ProposeClaim(p)
           \/ LeaveAlone(p)
           \/ LinkClaim(p)
           \/ ReadClaim(p)
           \/ AffirmClaim(p)
           \/ DemoteClaim(p)
  <2>1. CASE \E event \in proc[p].events : ClaimEvent(p, event)
    BY <1>0, <2>1 DEF ClaimEvent, Write, Procs
  <2>2. CASE StartPatterns(p)
    BY <1>0, <2>2 DEF StartPatterns, Go, Procs
  <2>3. CASE StartSiblings(p)
    BY <1>0, <2>3 DEF StartSiblings, Go, Procs
  <2>4. CASE StartStrategies(p)
    BY <1>0, <2>4 DEF StartStrategies, Go, Procs
  <2>5. CASE StartPromotion(p)
    BY <1>0, <2>5 DEF StartPromotion, Go, Procs
  <2>6. CASE DecideAffirm(p)
    BY <1>0, <2>6 DEF DecideAffirm, Go, Procs
  <2>7. CASE DecideDemote(p)
    BY <1>0, <2>7 DEF DecideDemote, Go, Procs
  <2>8. CASE ProposeClaim(p)
    BY <1>0, <2>8 DEF ProposeClaim, Write, Procs
  <2>9. CASE LeaveAlone(p)
    BY <1>0, <2>9 DEF LeaveAlone, NextRow, Go, Procs
  <2>10. CASE LinkClaim(p)
    BY <1>0, <2>10 DEF LinkClaim, NextRow, Write, Procs
  <2>11. CASE ReadClaim(p)
    BY <1>0, <2>11 DEF ReadClaim, NextRow, Go, Procs
  <2>12. CASE AffirmClaim(p)
    BY <1>0, <2>12 DEF AffirmClaim, NextRow, Write, Procs
  <2>13. CASE DemoteClaim(p)
    BY <1>0, <2>13 DEF DemoteClaim, NextRow, Write, Procs
  <2> QED BY <1>2, <2>1, <2>2, <2>3, <2>4, <2>5, <2>6, <2>7, <2>8, <2>9, <2>10, <2>11, <2>12, <2>13
<1>3. CASE ObserveUpdate(p)
  BY <1>0, <1>3 DEF ObserveUpdate, Observe, Write, Procs
<1>4. CASE ObserveInsert(p)
  BY <1>0, <1>4 DEF ObserveInsert, Observe, Write, Procs
<1>6. CASE MinerFails(p)
  BY <1>0, <1>6 DEF MinerFails, Go, Procs
<1>5. CASE \E call \in proc[p].calls : ObserveRead(p, call)
  <2>1. PICK call \in proc[p].calls : ObserveRead(p, call)
    BY <1>5
  <2>2. corrections' = corrections
    BY <2>1 DEF ObserveRead
  <2>3. \/ proc'[p] = Observe(p, call)
        \/ proc'[p] = [proc[p] EXCEPT !.call = call, !.held = NoRow]
        \/ \E i \in DOMAIN learned : proc'[p] = [proc[p] EXCEPT !.call = call, !.held = learned[i]]
    <3>1. \/ proc'[p] = Observe(p, call)
          \/ proc'[p] = [proc[p] EXCEPT !.call = call, !.held = NoRow]
          \/ \E i \in DOMAIN learned :
               /\ learned[i].object = call.object /\ RowOf(call.object) = i
               /\ proc'[p] = [proc[p] EXCEPT !.call = call, !.held = learned[i]]
               /\ ~Counted(learned[i], call.event)
      BY <2>1, ReadMove
    <3> QED BY <3>1
  <2>4. \/ proc'[p].held = NoRow
        \/ \E i \in DOMAIN learned : proc'[p].held = learned[i]
    BY <1>0, <2>3 DEF Observe, Procs
  <2> QED BY <2>2, <2>4
<1> QED BY <1>1, <1>2, <1>3, <1>4, <1>5, <1>6 DEF Pass, Mine, Promote

LEMMA TalliedFirst ==
  ASSUME NEW log \in Seq(Events), NEW notes \in Seq(Objects \X Nat), NEW o \in Objects,
         NEW row, row.object = o,
         \/ row.contra = <<>>
         \/ \E e \in Nat : e \in AgainstIds(log, o) /\ row.contra = <<e>>
  PROVE  Tallied(row, log, notes)
<1> DEFINE none == [object |-> o, contra |-> <<>>]
<1>1. none.object = o /\ none.contra = <<>> /\ none.contra \in Seq(Nat)
  OBVIOUS
<1> HIDE DEF none
<1>2. \A x \in Nat : Times(none.contra, x) = 0 /\ Times(notes, <<o, x>>) \in Nat
  <2> TAKE x \in Nat
  <2>1. ~Contains(none.contra, x)
    BY <1>1 DEF Contains
  <2> QED BY <1>1, <2>1, TimesNone, TimesType
<1>3. Tallied(none, log, notes)
  BY <1>1, <1>2 DEF Tallied
<1>4. CASE row.contra = <<>>
  BY <1>1, <1>2, <1>4 DEF Tallied
<1>5. CASE \E e \in Nat : e \in AgainstIds(log, o) /\ row.contra = <<e>>
  <2>1. PICK e \in Nat : e \in AgainstIds(log, o) /\ row.contra = <<e>>
    BY <1>5
  <2>2. row.contra = Append(none.contra, e) /\ ~Contains(none.contra, e)
    BY <1>1, <2>1 DEF Contains
  <2> QED BY <1>1, <1>3, <2>1, <2>2, TalliedMined
<1> QED BY <1>4, <1>5

LEMMA HeldTypes ==
  ASSUME TypeOK, Places
  PROVE  /\ \A i \in DOMAIN learned : learned[i].contra \in Seq(Nat) /\ learned[i].object \in Objects
         /\ \A p \in Processes : proc[p].held # NoRow =>
              proc[p].held.contra \in Seq(Nat) /\ proc[p].held.object \in Objects
         /\ op.cmd \in ObjectCommands =>
              /\ op.held.contra \in Seq(Nat) /\ op.held.object \in Objects
              /\ op.id \in DOMAIN learned /\ op.held.object = learned[op.id].object
<1>1. \A row \in Rows : row.contra \in Seq(Nat) /\ row.object \in Objects
  BY DEF Rows
<1>2. \A i \in DOMAIN learned : learned[i] \in Rows
  BY OutsideFacts
<1>3. ASSUME NEW p \in Processes, proc[p].held # NoRow PROVE proc[p].held \in Rows
  BY <1>3, HereFacts DEF Procs
<1>4. ASSUME op.cmd \in ObjectCommands
      PROVE  /\ op.held \in Rows /\ op.id \in DOMAIN learned
             /\ op.held.object = learned[op.id].object
  <2>1. op.id \in DOMAIN learned /\ op.held.object = learned[op.id].object
    BY <1>4, OutsideFacts DEF CallerOK
  <2>2. op.held.object \in Objects
    BY <1>1, <1>2, <2>1
  <2> QED BY <2>1, <2>2, OutsideFacts, CallIsReal, NoneIsNoObject DEF Ops
<1> QED BY <1>1, <1>2, <1>3, <1>4

LEMMA RowsTallied ==
  ASSUME TypeOK, Places, TallyInv, NEW p \in Processes, Pass(p) \/ Crash(p)
  PROVE  \A i \in DOMAIN learned' : Tallied(learned'[i], ledger, corrections)
<1>0. /\ ledger \in Seq(Events) /\ corrections \in Seq(Objects \X Nat) /\ learned \in Seq(Rows)
      /\ LogKept(ledger, ledger) /\ NotesKept(corrections, corrections)
      /\ \A i \in DOMAIN learned : Tallied(learned[i], ledger, corrections)
  BY HereFacts, Stays DEF TallyInv, NotesKept
<1>1. CASE learned' = learned
  BY <1>0, <1>1
<1>2. CASE ObserveUpdate(p)
  <2> DEFINE i == RowOf(proc[p].call.object)
             held == proc[p].held
             call == proc[p].call
  <2>1. /\ call \in proc[p].calls /\ held \in Rows /\ i \in DOMAIN learned
        /\ learned[i].object = call.object /\ learned' = [learned EXCEPT ![i] = learned'[i]]
        /\ learned'[i].object = learned[i].object
        /\ learned'[i].contra = IF call.against THEN Append(held.contra, call.event) ELSE held.contra
    BY <1>2, UpdateMove
  <2>2. held # NoRow
    BY <2>1, CallIsReal
  <2>3. /\ held.object = call.object /\ Apt(ledger, call) /\ ~Counted(held, call.event)
        /\ held.contra \in Seq(Nat) /\ held.support \in Seq(Nat) /\ call.event \in Nat
    <3>1. held.object = call.object /\ Apt(ledger, call) /\ ~Counted(held, call.event)
      BY <2>1, <2>2, HereFacts DEF CallsOK
    <3>2. call \in Sightings
      BY <2>1, HereFacts DEF Procs
    <3> QED BY <2>1, <3>1, <3>2 DEF Rows, Sightings
  <2>4. ~Contains(held.contra, call.event)
    BY <2>3, CountedIs
  <2>5. Tallied(held, ledger, corrections)
    BY <2>2 DEF TallyInv
  <2>6. DOMAIN learned' = DOMAIN learned /\ \A j \in DOMAIN learned : j # i => learned'[j] = learned[j]
    BY <1>0, <2>1
  <2> HIDE DEF i, held, call
  <2>7. CASE call.against
    <3>1. call.event \in AgainstIds(ledger, held.object)
      BY <2>3, <2>7 DEF Apt
    <3>2. learned'[i].contra = Append(held.contra, call.event) /\ learned'[i].object = held.object
      BY <2>1, <2>3, <2>7
    <3>3. Tallied(learned'[i], ledger, corrections)
      BY <1>0, <2>3, <2>4, <2>5, <3>1, <3>2, TalliedMined
    <3> QED BY <1>0, <2>6, <3>3
  <2>8. CASE ~call.against
    <3>1. learned'[i].contra = held.contra /\ learned'[i].object = held.object
      BY <2>1, <2>3, <2>8
    <3>2. Tallied(learned'[i], ledger, corrections)
      BY <1>0, <2>3, <2>5, <3>1, TalliedStays
    <3> QED BY <1>0, <2>6, <3>2
  <2> QED BY <2>7, <2>8
<1>3. CASE ObserveInsert(p)
  <2> DEFINE call == proc[p].call
             new == FirstSighting(proc[p].call.object, proc[p].call.event, proc[p].call.against)
  <2>1. /\ call \in proc[p].calls /\ learned' = Append(learned, new) /\ new.object = call.object
        /\ new.contra = IF call.against THEN <<call.event>> ELSE <<>>
    BY <1>3, InsertMove
  <2>2. Apt(ledger, call) /\ call.event \in Nat /\ call.object \in Objects
    <3>1. Apt(ledger, call)
      BY <2>1, HereFacts DEF CallsOK
    <3>2. call \in Sightings
      BY <2>1, HereFacts DEF Procs
    <3> QED BY <3>1, <3>2 DEF Sightings
  <2> HIDE DEF call, new
  <2>3. Tallied(new, ledger, corrections)
    BY <1>0, <2>1, <2>2, TalliedFirst DEF Apt
  <2> QED BY <1>0, <2>1, <2>3
<1>4. CASE LinkClaim(p)
  <2> DEFINE k == proc[p].at
             c == proc[p].claim
  <2>1. k \in DOMAIN learned /\ learned' = [learned EXCEPT ![k].claim = c]
    BY <1>4, LinkMove
  <2> HIDE DEF k, c
  <2>2. /\ DOMAIN learned' = DOMAIN learned /\ \A j \in DOMAIN learned : j # k => learned'[j] = learned[j]
        /\ learned'[k] = [learned[k] EXCEPT !.claim = c] /\ learned[k] \in Rows
    BY <1>0, <2>1
  <2>3. learned'[k].object = learned[k].object /\ learned'[k].contra = learned[k].contra
    BY <2>2 DEF Rows
  <2>4. Tallied(learned'[k], ledger, corrections)
    BY <1>0, <2>1, <2>3, HeldTypes, TalliedStays
  <2> QED BY <1>0, <2>2, <2>4
<1>5. \/ learned' = learned \/ ObserveUpdate(p) \/ ObserveInsert(p) \/ LinkClaim(p)
  BY DEF Pass, Mine, Promote, Begin, ClaimEvent, AskDue, StartPatterns, ObserveRead, MinerFails,
     StartSiblings, StartStrategies, StartPromotion, DecideAffirm, DecideDemote, LeaveAlone,
     ProposeClaim, ReadClaim, AffirmClaim, DemoteClaim, EndPass, Crash
<1> QED BY <1>1, <1>2, <1>3, <1>4, <1>5

\* What nobody writes of keeps its tally while the ledger and the notes grow.
LEMMA TallyLater ==
  ASSUME TypeOK, Places, TallyInv, LogKept(ledger, ledger'), NotesKept(corrections, corrections')
  PROVE  /\ \A i \in DOMAIN learned : Tallied(learned[i], ledger', corrections')
         /\ \A p \in Processes : proc[p].held # NoRow => Tallied(proc[p].held, ledger', corrections')
         /\ op.cmd \in ObjectCommands => Tallied(op.held, ledger', corrections')
<1>1. ledger \in Seq(Events) /\ corrections \in Seq(Objects \X Nat)
  BY OutsideFacts DEF TallyInv
<1>2. ASSUME NEW row, row.contra \in Seq(Nat), Tallied(row, ledger, corrections)
      PROVE  Tallied(row, ledger', corrections')
  BY <1>1, <1>2, TalliedStays
<1> QED BY <1>2, HeldTypes DEF TallyInv

LEMMA TallyStep ==
  ASSUME TypeOK, Places, TallyInv, [Next]_vars
  PROVE  TallyInv'
<1>0. /\ LogKept(ledger, ledger) /\ NotesKept(corrections, corrections)
      /\ corrections \in Seq(Objects \X Nat)
      /\ \A q \in Processes : Dirtied(q).held = proc[q].held
  <2>1. \A q \in Processes : proc[q] \in Procs
    BY HereFacts
  <2>2. \A q \in Processes : Dirtied(q).held = proc[q].held
    BY <2>1 DEF Dirtied, Procs
  <2> QED BY <2>2, Stays DEF NotesKept, TallyInv
<1>1. CASE \E p \in Processes : Pass(p) \/ Crash(p)
  <2>1. PICK p \in Processes : Pass(p) \/ Crash(p)
    BY <1>1
  <2>2. /\ Lawful(p) /\ LogKept(ledger, ledger') /\ corrections' = corrections
        /\ NotesKept(corrections, corrections') /\ op' = op
    BY <1>0, <2>1, PassIsLawful, HeldWhence DEF Lawful
  <2>3. ledger' = ledger
    BY <2>1 DEF Pass, Mine, Promote, Begin, ClaimEvent, AskDue, StartPatterns, ObserveRead, ObserveUpdate,
       ObserveInsert, MinerFails, StartSiblings, StartStrategies, StartPromotion, DecideAffirm,
       DecideDemote, LeaveAlone, ProposeClaim, LinkClaim, ReadClaim, AffirmClaim, DemoteClaim,
       EndPass, Crash
  <2>4. \A i \in DOMAIN learned' : Tallied(learned'[i], ledger', corrections')
    BY <2>1, <2>2, <2>3, RowsTallied
  <2>5. ASSUME NEW q \in Processes, proc'[q].held # NoRow
        PROVE  Tallied(proc'[q].held, ledger', corrections')
    <3>1. \/ proc'[q].held = proc[q].held
          \/ \E i \in DOMAIN learned : proc'[q].held = learned[i]
      <4>1. CASE q = p
        BY <2>1, <2>5, <4>1, HeldWhence
      <4>2. CASE q # p
        BY <1>0, <2>2, <4>2 DEF Lawful
      <4> QED BY <4>1, <4>2
    <3> QED BY <2>2, <2>3, <2>5, <3>1 DEF TallyInv
  <2> QED BY <1>0, <2>2, <2>3, <2>4, <2>5 DEF TallyInv
<1>2. CASE SaveCommand
  <2>1. /\ LogKept(ledger, ledger') /\ op' = Quiet /\ \A q \in Processes : proc'[q].held = proc[q].held
    <3>1. LawfulOutside /\ op' = Quiet
      BY <1>2, SaveMove
    <3> QED BY <1>0, <3>1 DEF LawfulOutside
  <2>2. op'.cmd \notin ObjectCommands
    BY <2>1, QuietFacts DEF ObjectCommands
  <2>3. CASE op.cmd \in ObjectCommands
    <3> DEFINE i == op.id
               note == <<learned[op.id].object, op.event>>
    <3>1. /\ i \in DOMAIN learned /\ learned' = [learned EXCEPT ![i] = learned'[i]]
          /\ learned'[i].object = learned[i].object
          /\ learned'[i].contra = IF op.cmd = "correct" THEN Append(op.held.contra, op.event)
                                  ELSE learned[i].contra
      BY <1>2, <2>3, SaveMove DEF Replacing, ObjectCommands, ClaimStatus
    <3>2. /\ op.held.object = learned[i].object /\ op.held.object \in Objects
          /\ op.held.contra \in Seq(Nat) /\ op.event \in Nat /\ learned[i].contra \in Seq(Nat)
          /\ Tallied(op.held, ledger, corrections) /\ Tallied(learned[i], ledger, corrections)
      BY <2>3, <3>1, HeldTypes, OutsideFacts DEF TallyInv, Ops
    <3>3. corrections' = IF op.cmd = "correct" THEN Append(corrections, note) ELSE corrections
      BY <1>2 DEF SaveCommand
    <3>4. NotesKept(corrections, corrections')
      BY <3>2, <3>3 DEF NotesKept
    <3>5. ledger' = ledger /\ ledger \in Seq(Events)
      BY <1>2, OutsideFacts DEF SaveCommand
    <3>6. /\ DOMAIN learned' = DOMAIN learned /\ learned \in Seq(Rows)
          /\ \A j \in DOMAIN learned : j # i => learned'[j] = learned[j]
      BY <3>1, OutsideFacts
    <3>7. Tallied(learned'[i], ledger, corrections')
      <4>1. CASE op.cmd = "correct"
        <5>1. /\ learned'[i].object = op.held.object
              /\ learned'[i].contra = Append(op.held.contra, op.event)
              /\ corrections' = Append(corrections, <<op.held.object, op.event>>)
          BY <3>1, <3>2, <3>3, <4>1
        <5>2. Tallied(learned'[i], ledger, Append(corrections, <<op.held.object, op.event>>))
          BY <1>0, <3>2, <3>5, <5>1, TalliedCorrected
        <5> QED BY <5>1, <5>2
      <4>2. CASE op.cmd # "correct"
        <5>1. learned'[i].contra = learned[i].contra /\ corrections' = corrections
          BY <3>1, <3>3, <4>2
        <5>2. ASSUME NEW row, row.object = learned[i].object, row.contra = learned[i].contra
              PROVE  Tallied(row, ledger, corrections)
          <6> HIDE DEF i
          <6> QED BY <1>0, <3>2, <3>5, <5>2, TalliedStays
        <5>3. Tallied(learned'[i], ledger, corrections)
          BY <3>1, <5>1, <5>2
        <5> QED BY <5>1, <5>3
      <4> QED BY <4>1, <4>2
    <3> HIDE DEF i
    <3>8. \A j \in DOMAIN learned' : Tallied(learned'[j], ledger', corrections')
      BY <2>1, <3>4, <3>5, <3>6, <3>7, TallyLater
    <3>9. \A q \in Processes : proc'[q].held # NoRow => Tallied(proc'[q].held, ledger', corrections')
      BY <2>1, <3>4, TallyLater
    <3>10. corrections' \in Seq(Objects \X Nat)
      BY <1>0, <3>4, NotesGrow
    <3> QED BY <2>2, <3>8, <3>9, <3>10 DEF TallyInv
  <2>4. CASE op.cmd \notin ObjectCommands
    <3>1. learned' = learned /\ corrections' = corrections
      BY <1>2, <2>4 DEF SaveCommand, ObjectCommands
    <3>2. /\ \A j \in DOMAIN learned' : Tallied(learned'[j], ledger', corrections')
          /\ \A q \in Processes : proc'[q].held # NoRow => Tallied(proc'[q].held, ledger', corrections')
      BY <1>0, <2>1, <3>1, TallyLater
    <3> QED BY <1>0, <2>2, <3>1, <3>2 DEF TallyInv
  <2> QED BY <2>3, <2>4
<1>3. CASE \E event \in DOMAIN ledger : ProposeInstead(event)
  <2>1. PICK event \in DOMAIN ledger : ProposeInstead(event)
    BY <1>3
  <2>2. /\ LawfulOutside /\ learned' = learned /\ op'.cmd = op.cmd /\ op'.held = op.held
    BY <2>1, InsteadMove
  <2>3. corrections' = corrections /\ LogKept(ledger, ledger') /\ \A q \in Processes : proc'[q].held = proc[q].held
    BY <1>0, <2>1, <2>2 DEF ProposeInstead, LawfulOutside
  <2> QED BY <1>0, <2>2, <2>3, TallyLater DEF TallyInv
<1>4. CASE \/ \E event \in Arrivals : Record(event)
           \/ CrashCaller
           \/ \E cmd \in Commands, id \in DOMAIN claims : CommandClaim(cmd, id)
  <2>1. /\ LogKept(ledger, ledger') /\ learned' = learned /\ proc' = proc /\ corrections' = corrections
        /\ op' = op \/ op'.cmd \notin ObjectCommands
    <3>1. LawfulOutside /\ QuietOutside
      BY <1>4, RecordMove, CrashCallerMove, CommandClaimMove
    <3>2. corrections' = corrections
      BY <1>4 DEF Record, CrashCaller, CommandClaim
    <3>3. op' = op \/ op'.cmd \notin ObjectCommands
      <4>1. CASE \E event \in Arrivals : Record(event)
        BY <4>1 DEF Record
      <4>2. CASE CrashCaller
        BY <4>2, QuietFacts DEF CrashCaller, ObjectCommands
      <4>3. ASSUME NEW cmd \in Commands, NEW id \in DOMAIN claims, CommandClaim(cmd, id)
            PROVE  op'.cmd \notin ObjectCommands
        BY <4>3 DEF CommandClaim, Quiet
      <4> QED BY <1>4, <4>1, <4>2, <4>3
    <3> QED BY <3>1, <3>2, <3>3 DEF LawfulOutside, QuietOutside
  <2> QED BY <1>0, <2>1, TallyLater DEF TallyInv
<1>5. CASE \E cmd \in Commands, id \in DOMAIN learned, event \in {0} \cup DOMAIN ledger :
             CommandObject(cmd, id, event)
  <2>1. PICK cmd \in Commands, id \in DOMAIN learned, event \in {0} \cup DOMAIN ledger :
               CommandObject(cmd, id, event)
    BY <1>5
  <2>2. LawfulOutside /\ QuietOutside /\ op'.held = learned[id]
    BY <2>1, CommandObjectMove
  <2>3. corrections' = corrections /\ ledger' = ledger
    BY <2>1 DEF CommandObject
  <2> QED BY <2>2, <2>3 DEF QuietOutside, TallyInv
<1>6. CASE UNCHANGED vars
  BY <1>6 DEF vars, TallyInv
<1> QED BY <1>1, <1>2, <1>3, <1>4, <1>5, <1>6 DEF Next, Caller

LEMMA NothingTallied ==
  ASSUME Init
  PROVE  TallyInv
<1>1. /\ learned = <<>> /\ corrections = <<>> /\ op = Quiet
      /\ \A p \in Processes : proc[p] = Idle
  BY DEF Init
<1>2. Idle.held = NoRow
  BY IdleFacts DEF Idle
<1>3. DOMAIN learned = {} /\ corrections \in Seq(Objects \X Nat)
  BY <1>1
<1>4. op.cmd \notin ObjectCommands
  BY <1>1, QuietFacts DEF ObjectCommands
<1> QED BY <1>1, <1>2, <1>3, <1>4 DEF TallyInv

\* Only a correction holds against an object what speaks for it.
LEMMA HeldAgainst ==
  ASSUME TypeOK, Places, TallyInv, NEW i \in DOMAIN learned, NEW e \in DOMAIN ledger,
         Contains(learned[i].contra, e), e \notin AgainstIds(ledger, learned[i].object)
  PROVE  Contains(corrections, <<learned[i].object, e>>)
<1> DEFINE c == learned[i].contra
           x == <<learned[i].object, e>>
<1>1. c \in Seq(Nat) /\ corrections \in Seq(Objects \X Nat) /\ e \in Nat
  BY OutsideFacts, HeldTypes DEF TallyInv
<1>2. Times(c, e) <= Times(corrections, x)
  <2>1. Times(c, e) <= Times(corrections, x) + 0
    BY <1>1 DEF TallyInv, Tallied
  <2>2. Times(corrections, x) \in Nat
    BY <1>1, TimesType
  <2> QED BY <2>1, <2>2
<1>3. Times(c, e) \in Nat /\ Times(c, e) # 0
  <2>1. PICK k \in DOMAIN c : c[k] = e
    BY <1>1 DEF Contains
  <2>2. IsFiniteSet({j \in DOMAIN c : c[j] = e}) /\ {j \in DOMAIN c : c[j] = e} # {}
    BY <1>1, <2>1, TimesType
  <2>3. Cardinality({j \in DOMAIN c : c[j] = e}) # 0
    BY <2>2, FS_EmptySet
  <2> QED BY <1>1, <2>3, TimesType DEF Times
<1>4. Times(corrections, x) # 0
  BY <1>1, <1>2, <1>3, TimesType
<1> HIDE DEF c, x
<1>5. Contains(corrections, x)
  BY <1>1, <1>4, TimesNone
<1> QED BY <1>5 DEF x

LEMMA TallyCounts ==
  ASSUME TypeOK, Places, TallyInv
  PROVE  CountedOnce
<1> SUFFICES ASSUME NEW i \in DOMAIN learned, NEW e \in DOMAIN ledger
             PROVE  /\ Times(learned[i].support, e) <= 1
                    /\ Times(learned[i].support, e) + Times(learned[i].contra, e)
                         <= 1 + Times(corrections, <<learned[i].object, e>>)
  BY DEF CountedOnce
<1> DEFINE row == learned[i]
           a == Times(row.support, e)
           b == Times(row.contra, e)
           c == Times(corrections, <<row.object, e>>)
<1>1. /\ row.support \in Seq(Nat) /\ IsInjective(row.support) /\ row.contra \in Seq(Nat) /\ e \in Nat
      /\ \A k \in DOMAIN row.support : row.support[k] \in ForIds(ledger, row.object)
      /\ corrections \in Seq(Objects \X Nat)
  BY OutsideFacts DEF TablesOK, Sided, Lists, TallyInv
<1>2. a \in Nat /\ b \in Nat /\ c \in Nat /\ a <= 1
  BY <1>1, TimesType, TimesOnce
<1>3. b <= c + (IF e \in AgainstIds(ledger, row.object) THEN 1 ELSE 0)
  BY <1>1 DEF TallyInv, Tallied
<1>4. e \in AgainstIds(ledger, row.object) => a = 0
  <2> SUFFICES ASSUME e \in AgainstIds(ledger, row.object) PROVE a = 0
    OBVIOUS
  <2>1. e \notin ForIds(ledger, row.object)
    BY SidesApart
  <2>2. ~Contains(row.support, e)
    BY <1>1, <2>1 DEF Contains
  <2> QED BY <1>1, <2>2, TimesNone
<1> HIDE DEF a, b, c
<1>5. a <= 1 /\ a + b <= 1 + c
  BY <1>2, <1>3, <1>4
<1> QED BY <1>5 DEF a, b, c

\* An event is evidence once, for any number of processes that count, correct,
\* decay and crash at once: each writes the lists it read (learned.py:156-171),
\* yet an object rests on no event twice, and what is held against it more than
\* once, or on both sides, was named by as many corrections, which append to
\* the list whatever it holds (learned.py:181).
THEOREM EvidenceCountedOnce == Spec => []CountedOnce
<1>1. Init => TallyInv
  BY NothingTallied
<1>2. (TypeOK /\ Places) /\ TallyInv /\ [Next]_vars => TallyInv'
  BY TallyStep
<1>3. (TypeOK /\ Places) /\ TallyInv => CountedOnce
  BY TallyCounts
<1> QED BY <1>1, <1>2, <1>3, TypeCorrect, PTL DEF Spec

-----------------------------------------------------------------------------
(* A replaced claim has a successor. *)

\* The claim a caller has proposed in place of another replaces nothing yet.
OldInv ==
  /\ ReplacedHasSuccessor
  /\ op.new # 0 => claims[op.new].old = 0

LEMMA ReplacingStep ==
  ASSUME TypeOK, Places, OldInv, [Next]_vars
  PROVE  OldInv'
<1> DEFINE Grown == \* claims as they were, then new ones that replace nothing
             /\ claims' \in Seq(Claims) /\ Len(claims) <= Len(claims')
             /\ \A i \in DOMAIN claims : claims'[i].old = claims[i].old
             /\ \A i \in DOMAIN claims' \ DOMAIN claims : claims'[i].old = 0
             /\ \A i \in DOMAIN claims' : claims'[i].status \in Replacing =>
                  i \in DOMAIN claims /\ claims[i].status \in Replacing
<1>0. claims \in Seq(Claims) /\ (op.new # 0 => op.new \in DOMAIN claims)
  BY OutsideFacts DEF CallerOK
<1>1. ASSUME claims' = claims PROVE Grown
  BY <1>0, <1>1
<1>2. ASSUME NEW origin \in Origins, NEW sources \in SUBSET Nat, claims' = Propose(claims, origin, sources)
      PROVE  Grown /\ claims'[Len(claims) + 1].old = 0
  <2>1. /\ claims' \in Seq(Claims) /\ Len(claims') = Len(claims) + 1 /\ DOMAIN claims' = 1..Len(claims) + 1
        /\ \A i \in DOMAIN claims : claims'[i] = claims[i]
        /\ claims'[Len(claims) + 1].status = "active" /\ claims'[Len(claims) + 1].old = 0
    BY <1>0, <1>2, ClaimAdded
  <2>2. \A i \in DOMAIN claims' : i \in DOMAIN claims \/ i = Len(claims) + 1
    BY <1>0, <2>1
  <2> QED BY <1>0, <2>1, <2>2 DEF Replacing
<1>3. ASSUME NEW id \in DOMAIN claims, NEW sources \in SUBSET Nat, claims' = WriteSources(claims, id, sources)
      PROVE  Grown
  BY <1>0, <1>3, SourcesWritten
<1>4. ASSUME NEW id \in DOMAIN claims, NEW status \in ClaimStatus \ Replacing,
             claims' = WriteStatus(claims, id, status)
      PROVE  Grown
  <2>1. /\ claims' \in Seq(Claims) /\ Len(claims') = Len(claims) /\ DOMAIN claims' = DOMAIN claims
        /\ \A i \in DOMAIN claims : claims'[i].old = claims[i].old /\ (i # id => claims'[i] = claims[i])
        /\ claims'[id].status = status
    BY <1>0, <1>4, StatusWritten
  <2> QED BY <1>0, <2>1
<1>5. ASSUME Grown, op'.new # 0 => op'.new \in DOMAIN claims' /\ (op'.new = op.new \/ op'.new \notin DOMAIN claims)
      PROVE  OldInv'
  <2>1. ReplacedHasSuccessor'
    BY SMTT(30), <1>0, <1>5 DEF OldInv, ReplacedHasSuccessor
  <2>2. op'.new # 0 => claims'[op'.new].old = 0
    BY <1>0, <1>5 DEF OldInv
  <2> QED BY <2>1, <2>2 DEF OldInv
<1>6. ASSUME Grown, op'.new \in {0, op.new} PROVE OldInv'
  BY <1>0, <1>5, <1>6
<1> HIDE DEF Grown
<1>7. ASSUME NEW p \in Processes, Pass(p) \/ Crash(p) PROVE Grown
  <2>1. CASE Begin(p) \/ AskDue(p) \/ Mine(p) \/ Crash(p)
    BY <1>1, <2>1 DEF Begin, AskDue, Mine, StartPatterns, ObserveRead, ObserveUpdate, ObserveInsert,
       MinerFails, StartSiblings, StartStrategies, Crash
  <2>2. CASE \E event \in proc[p].events : ClaimEvent(p, event)
    BY <1>2, <2>2, ClaimMove DEF Origins
  <2>3. CASE StartPromotion(p) \/ DecideAffirm(p) \/ DecideDemote(p) \/ LeaveAlone(p) \/ LinkClaim(p)
             \/ ReadClaim(p) \/ EndPass(p)
    BY <1>1, <2>3 DEF StartPromotion, DecideAffirm, DecideDemote, LeaveAlone, LinkClaim, ReadClaim, EndPass
  <2>4. CASE ProposeClaim(p)
    BY <1>2, <2>4, ProposeMove
  <2>5. CASE AffirmClaim(p)
    BY <1>3, <2>5, AffirmMove
  <2>6. CASE DemoteClaim(p)
    BY <1>4, <2>6, DemoteMove DEF ClaimStatus, Replacing
  <2> QED BY <1>7, <2>1, <2>2, <2>3, <2>4, <2>5, <2>6 DEF Pass, Promote
<1>8. CASE \E p \in Processes : Pass(p) \/ Crash(p)
  BY <1>6, <1>7, <1>8, PassIsLawful DEF Lawful
<1>9. CASE (\E event \in Arrivals : Record(event)) \/ CrashCaller
  BY <1>1, <1>6, <1>9, QuietFacts DEF Record, CrashCaller
<1>10. CASE \E cmd \in Commands : \/ \E id \in DOMAIN claims : CommandClaim(cmd, id)
                                  \/ \E id \in DOMAIN learned, event \in {0} \cup DOMAIN ledger : CommandObject(cmd, id, event)
  <2>1. claims' = claims /\ op'.new = 0
    BY <1>10, CommandClaimMove, CommandObjectMove DEF QuietOutside
  <2> QED BY <1>1, <1>6, <2>1
<1>11. CASE \E event \in DOMAIN ledger : ProposeInstead(event)
  <2>1. PICK event \in DOMAIN ledger : ProposeInstead(event)
    BY <1>11
  <2>2. /\ claims' = Propose(claims, ByCaller, {event}) /\ {event} \in SUBSET Nat /\ ByCaller \in Origins
        /\ op'.new = Len(claims) + 1
    BY <2>1, InsteadMove
  <2>3. Grown /\ claims'[Len(claims) + 1].old = 0
    BY <1>2, <2>2
  <2>4. op'.new \in DOMAIN claims' /\ op'.new \notin DOMAIN claims
    BY <1>0, <2>2, ClaimAdded
  <2> QED BY <1>5, <2>3, <2>4
<1>12. CASE SaveCommand
  <2>1. op'.new = 0
    BY <1>12, SaveMove, QuietFacts
  <2>2. CASE claims' = claims
    BY <1>1, <1>6, <2>1, <2>2
  <2>3. CASE /\ op.cmd \in ClaimStatus \ (Replacing \cup {"active"}) /\ op.id \in DOMAIN claims
             /\ claims' = WriteStatus(claims, op.id, op.cmd)
    BY <1>4, <1>6, <2>1, <2>3
  <2>4. CASE /\ op.cmd \in Replacing /\ op.id \in DOMAIN claims /\ op.new \in DOMAIN claims /\ op.new # 0
             /\ claims' = Replace(claims, op.id, op.cmd, op.new)
    <3>1. op.cmd \in ClaimStatus
      BY <2>4 DEF Replacing, ClaimStatus
    <3>2. /\ claims' \in Seq(Claims) /\ DOMAIN claims' = DOMAIN claims
          /\ \A i \in DOMAIN claims : /\ i # op.id => claims'[i].status = claims[i].status
                                      /\ i # op.new => claims'[i].old = claims[i].old
          /\ claims'[op.new].old = op.id
      <4> DEFINE id == op.id
                 new == op.new
                 status == op.cmd
      <4>1. /\ id \in DOMAIN claims /\ new \in DOMAIN claims /\ status \in ClaimStatus
            /\ claims' = Replace(claims, id, status, new)
        BY <2>4, <3>1
      <4> HIDE DEF id, new, status
      <4>2. /\ claims' \in Seq(Claims) /\ DOMAIN claims' = DOMAIN claims
            /\ \A i \in DOMAIN claims : /\ i # id => claims'[i].status = claims[i].status
                                        /\ i # new => claims'[i].old = claims[i].old
            /\ claims'[new].old = id
        <5>1. Successor(claims, claims', id, status, new)
          BY <1>0, <4>1, Replaced
        <5> QED BY <5>1 DEF Successor
      <4> QED BY <4>2 DEF id, new
    <3>3. claims[op.new].old = 0
      BY <2>4 DEF OldInv
    <3>4. ASSUME NEW i \in DOMAIN claims', claims'[i].status \in Replacing
          PROVE  \E j \in DOMAIN claims' : claims'[j].old = i
      <4>1. CASE i = op.id
        BY <2>4, <3>2, <4>1
      <4>2. CASE i # op.id
        <5>1. PICK j \in DOMAIN claims : claims[j].old = i
          BY <3>2, <3>4, <4>2 DEF OldInv, ReplacedHasSuccessor
        <5>2. j # op.new
          BY <1>0, <3>2, <3>3, <3>4, <5>1
        <5> QED BY <3>2, <5>1, <5>2
      <4> QED BY <4>1, <4>2
    <3> QED BY <2>1, <3>4 DEF OldInv, ReplacedHasSuccessor
  <2> QED BY <1>12, <2>2, <2>3, <2>4, SaveMove
<1>13. CASE UNCHANGED vars
  BY <1>13 DEF vars, OldInv, ReplacedHasSuccessor
<1> QED BY <1>8, <1>9, <1>10, <1>11, <1>12, <1>13 DEF Next, Caller

\* A claim that is superseded or contradicted is named by another one, in
\* every state: also when the caller dies between the two commits of the
\* replacement, or others change claims between them (knowledge.py:225-227).
THEOREM ReplacementExplained == Spec => []ReplacedHasSuccessor
<1>1. Init => OldInv
  BY QuietFacts DEF Init, OldInv, ReplacedHasSuccessor
<1>2. TypeOK /\ Places /\ OldInv /\ [Next]_vars => OldInv'
  BY ReplacingStep
<1>3. OldInv => ReplacedHasSuccessor
  BY DEF OldInv
<1> QED BY <1>1, <1>2, <1>3, TypeCorrect, PTL DEF Spec

-----------------------------------------------------------------------------
(* What is promoted rests on enough evidence. *)

RowsEnough(table) == \A i \in DOMAIN table : Enough(table[i])

RestsOn(base) == \A i \in DOMAIN base :
  base[i].origin \in Objects => Cardinality(base[i].sources) >= MinSupport

\* A pass goes by rows that have enough support, and affirms with enough.
Backed(s) ==
  /\ RowsEnough(s.rows)
  /\ s.pc = "affirming" => Cardinality(s.sources) >= MinSupport

\* A decay lowers what it read, which was no better supported than the row is;
\* observe writes back what it read, which is no less supported than the row.
DecayOK(o, table) == o.cmd = "decay" => Len(o.held.support) <= Len(table[o.id].support)

Ahead(s, table) ==
  s.held # NoRow => \A i \in DOMAIN table :
    table[i].object = s.call.object => Len(table[i].support) <= Len(s.held.support)

EvidenceInv ==
  /\ RowsEnough(learned) /\ RestsOn(claims) /\ \A p \in Processes : Backed(proc[p])
  /\ DecayOK(op, learned)
  /\ "decay" \in Commands => \A p \in Processes : Ahead(proc[p], learned)

\* A step of p in which no row's support changes.
EvidenceKept(p) ==
  /\ RowsEnough(learned') /\ RestsOn(claims') /\ Backed(proc'[p]) /\ DecayOK(op, learned')
  /\ "decay" \in Commands => Ahead(proc'[p], learned')

LEMMA FiniteSources ==
  ASSUME TypeOK, NEW S, NEW o, S \subseteq ForIds(ledger, o)
  PROVE  IsFiniteSet(S) /\ Cardinality(S) \in Nat
<1>1. S \subseteq 1..Len(ledger) /\ Len(ledger) \in Nat
  BY DEF TypeOK, ForIds
<1>2. IsFiniteSet(1..Len(ledger))
  BY <1>1, FS_Interval
<1> QED BY <1>1, <1>2, FS_Subset, FS_CardinalityType

LEMMA BackedRows ==
  ASSUME TypeOK, EvidenceInv, NEW p \in Processes, NEW s,
         s.rows \in {proc[p].rows, learned, <<>>}, s.pc # "affirming"
  PROVE  Backed(s)
BY DEF EvidenceInv, Backed, RowsEnough

LEMMA QuietlyKept ==
  ASSUME TypeOK, Places, EvidenceInv, NEW p \in Processes, Quietly(p), Backed(proc'[p]),
         "decay" \in Commands => Ahead(proc'[p], learned)
  PROVE  EvidenceKept(p)
BY DEF EvidenceInv, EvidenceKept, Quietly

\* Locals with nothing read: a step over them keeps the invariant.
LEMMA QuietlyFree ==
  ASSUME TypeOK, Places, EvidenceInv, NEW p \in Processes, Quietly(p),
         proc'[p].rows \in {proc[p].rows, learned, <<>>}, proc'[p].pc # "affirming",
         proc'[p].held \in {NoRow, proc[p].held}, proc'[p].held # NoRow => proc'[p].call = proc[p].call
  PROVE  EvidenceKept(p)
<1>1. Backed(proc'[p])
  BY BackedRows
<1>2. "decay" \in Commands => Ahead(proc'[p], learned)
  BY DEF EvidenceInv, Ahead
<1> QED BY <1>1, <1>2, QuietlyKept

LEMMA ObserveFacts ==
  ASSUME TypeOK, NEW p \in Processes, NEW call \in proc[p].calls
  PROVE  /\ Observe(p, call).held = NoRow /\ Observe(p, call).rows = proc[p].rows
         /\ Observe(p, call).pc = proc[p].pc /\ Observe(p, call).call = NoCall
         /\ Observe(p, call).calls = proc[p].calls \ {call}
         /\ Observe(p, call).events = proc[p].events /\ Observe(p, call).known = proc[p].known
         /\ Observe(p, call).touched = proc[p].touched \cup {call.object}
         /\ Observe(p, call).seen = proc[p].seen /\ Observe(p, call).clean = proc[p].clean
         /\ Observe(p, call).at = proc[p].at /\ Observe(p, call).claim = proc[p].claim
<1>1. proc[p] \in Procs
  BY DEF TypeOK
<1> QED BY <1>1 DEF Observe, Procs

LEMMA NextFacts ==
  ASSUME TypeOK, Places, NEW p \in Processes, proc[p].pc \in Promotion, proc[p].at # 0, NEW cost \in Nat
  PROVE  /\ NextRow(p, cost).pc = "promote" /\ NextRow(p, cost).at = proc[p].at - 1
         /\ Same(proc[p], NextRow(p, cost)) /\ proc[p].held = NoRow /\ proc[p].call = NoCall
BY HereFacts, NextRowPlace, PromotingFacts

LEMMA EvidenceMined ==
  ASSUME TypeOK, Places, EvidenceInv, NEW p \in Processes, Mine(p)
  PROVE  EvidenceKept(p)
<1>0. proc[p] \in Procs
  BY HereFacts
<1>1. CASE StartPatterns(p)
  <2>1. /\ Quietly(p) /\ proc'[p].rows = proc[p].rows /\ proc'[p].pc # "affirming"
        /\ proc'[p].held = proc[p].held /\ proc'[p].call = proc[p].call
    <3>1. Quietly(p) /\ proc'[p] = [proc[p] EXCEPT !.pc = "patterns", !.events = PatternEvents,
                          !.calls = Supporting(PatternEvents), !.known = KnownPatterns,
                          !.seen = Len(ledger), !.clean = TRUE]
      BY <1>1, PatternsMove
    <3> QED BY <1>0, <3>1 DEF Procs
  <2> QED BY <2>1, QuietlyFree
<1>2. CASE \E call \in proc[p].calls : ObserveRead(p, call)
  <2>1. PICK call \in proc[p].calls : ObserveRead(p, call)
    BY <1>2
  <2>2. Quietly(p) /\ proc[p].pc \in Miners
    BY <2>1, ReadMove
  <2>3. CASE proc'[p] = Observe(p, call)
    BY <2>2, <2>3, ObserveFacts, QuietlyFree DEF Miners
  <2>4. CASE proc'[p] = [proc[p] EXCEPT !.call = call, !.held = NoRow]
    BY <1>0, <2>2, <2>4, QuietlyFree DEF Procs, Miners
  <2>5. CASE \E i \in DOMAIN learned :
               /\ learned[i].object = call.object
               /\ proc'[p] = [proc[p] EXCEPT !.call = call, !.held = learned[i]]
    <3>1. PICK i \in DOMAIN learned :
                 /\ learned[i].object = call.object
                 /\ proc'[p] = [proc[p] EXCEPT !.call = call, !.held = learned[i]]
      BY <2>5
    <3>2. /\ proc'[p].rows = proc[p].rows /\ proc'[p].pc = proc[p].pc
          /\ proc'[p].call = call /\ proc'[p].held = learned[i]
      BY <1>0, <3>1 DEF Procs
    <3>3. Backed(proc'[p])
      BY <2>2, <3>2, BackedRows DEF Miners
    <3>4. ASSUME NEW j \in DOMAIN learned, learned[j].object = call.object
          PROVE  Len(learned[j].support) <= Len(learned[i].support)
      <4>1. j = i /\ learned[i] \in Rows
        BY <3>1, <3>4, HereFacts DEF TablesOK
      <4> QED BY <4>1 DEF Rows
    <3> QED BY <2>2, <3>2, <3>3, <3>4, QuietlyKept DEF Ahead
  <2>6. \/ proc'[p] = Observe(p, call)
        \/ proc'[p] = [proc[p] EXCEPT !.call = call, !.held = NoRow]
        \/ \E i \in DOMAIN learned :
             /\ learned[i].object = call.object
             /\ proc'[p] = [proc[p] EXCEPT !.call = call, !.held = learned[i]]
    <3>1. \/ /\ proc'[p] = Observe(p, call)
             /\ \E i \in DOMAIN learned :
                  learned[i].object = call.object /\ Counted(learned[i], call.event)
          \/ /\ proc'[p] = [proc[p] EXCEPT !.call = call, !.held = NoRow]
             /\ ~HasRow(learned, call.object)
          \/ \E i \in DOMAIN learned :
               /\ learned[i].object = call.object /\ RowOf(call.object) = i
               /\ proc'[p] = [proc[p] EXCEPT !.call = call, !.held = learned[i]]
               /\ ~Counted(learned[i], call.event)
      BY <2>1, ReadMove
    <3> QED BY <3>1
  <2> QED BY <2>3, <2>4, <2>5, <2>6
<1>3. CASE ObserveUpdate(p)
  <2> DEFINE i == RowOf(proc[p].call.object)
             held == proc[p].held
             e == proc[p].call.event
             against == proc[p].call.against
  <2>1. /\ claims' = claims /\ proc[p].pc \in Miners /\ proc[p].call \in proc[p].calls /\ held \in Rows
        /\ proc'[p] = Observe(p, proc[p].call) /\ i \in DOMAIN learned
        /\ learned[i].object = proc[p].call.object
        /\ learned' = [learned EXCEPT ![i] = learned'[i]] /\ Enough(learned'[i])
        /\ learned'[i].support = IF against THEN held.support ELSE Append(held.support, e)
    BY <1>3, UpdateMove
  <2> HIDE DEF i, against
  <2>2. Backed(proc'[p]) /\ proc'[p].held = NoRow
    BY <2>1, ObserveFacts, BackedRows DEF Miners
  <2>3. /\ DOMAIN learned' = DOMAIN learned /\ \A j \in DOMAIN learned : j # i => learned'[j] = learned[j]
        /\ held.support \in Seq(Nat) /\ e \in Nat
    <3>1. proc[p].call \in Sightings
      BY <1>0, <2>1 DEF Procs
    <3> QED BY <2>1, <3>1, HereFacts DEF Rows, Sightings
  <2>4. RowsEnough(learned')
    BY <2>1, <2>3 DEF EvidenceInv, RowsEnough
  <2>5. ASSUME op.cmd = "decay" PROVE Len(op.held.support) <= Len(learned'[op.id].support)
    <3>1. "decay" \in Commands /\ op.id \in DOMAIN learned /\ op.held.support \in Seq(Nat)
      BY <2>5, OutsideFacts, CallIsReal DEF CallerOK, Ops, ObjectCommands, Sided, Lists
    <3>2. Len(op.held.support) <= Len(learned[op.id].support)
      BY <2>5 DEF EvidenceInv, DecayOK
    <3>3. CASE op.id # i
      BY <2>3, <3>1, <3>2, <3>3
    <3>4. CASE op.id = i
      <4>1. Len(learned[i].support) <= Len(held.support)
        BY <2>1, <3>1, CallIsReal DEF EvidenceInv, Ahead
      <4>2. learned[i].support \in Seq(Nat)
        <5>1. learned[i] \in Rows
          BY <2>1, HereFacts
        <5> QED BY <5>1 DEF Rows
      <4>3. Len(held.support) <= Len(learned'[i].support)
        BY <2>1, <2>3
      <4>4. /\ Len(op.held.support) \in Nat /\ Len(learned[i].support) \in Nat /\ Len(held.support) \in Nat
            /\ Len(learned'[i].support) \in Nat
        BY <2>1, <2>3, <3>1, <4>2
      <4>5. Len(op.held.support) <= Len(learned[i].support)
        BY <3>2, <3>4
      <4>6. Len(op.held.support) <= Len(learned'[i].support)
        <5> DEFINE a == Len(op.held.support)
                   b == Len(learned[i].support)
                   c == Len(held.support)
                   d == Len(learned'[i].support)
        <5>1. a \in Nat /\ b \in Nat /\ c \in Nat /\ d \in Nat /\ a <= b /\ b <= c /\ c <= d
          BY <4>1, <4>3, <4>4, <4>5
        <5> HIDE DEF a, b, c, d
        <5>2. a <= d
          BY <5>1
        <5> QED BY <5>2 DEF a, d
      <4> QED BY <3>4, <4>6
    <3> QED BY <3>3, <3>4
  <2> QED BY <2>1, <2>2, <2>4, <2>5 DEF EvidenceKept, EvidenceInv, DecayOK, Ahead
<1>4. CASE ObserveInsert(p)
  <2> DEFINE new == FirstSighting(proc[p].call.object, proc[p].call.event, proc[p].call.against)
  <2>1. /\ claims' = claims /\ proc[p].pc \in Miners /\ proc[p].call \in proc[p].calls
        /\ proc'[p] = Observe(p, proc[p].call)
        /\ learned' = Append(learned, new) /\ new \in Rows /\ Enough(new)
    BY <1>4, InsertMove
  <2> HIDE DEF new
  <2>2. Backed(proc'[p]) /\ proc'[p].held = NoRow
    BY <2>1, ObserveFacts, BackedRows DEF Miners
  <2>3. /\ DOMAIN learned' = 1..Len(learned) + 1 /\ DOMAIN learned = 1..Len(learned)
        /\ \A j \in DOMAIN learned : learned'[j] = learned[j]
        /\ learned'[Len(learned) + 1] = new /\ Len(learned) \in Nat
    BY <2>1, HereFacts
  <2>4. RowsEnough(learned')
    BY <2>1, <2>3 DEF EvidenceInv, RowsEnough
  <2>5. ASSUME op.cmd = "decay" PROVE Len(op.held.support) <= Len(learned'[op.id].support)
    <3>1. op.id \in DOMAIN learned
      BY <2>5, OutsideFacts DEF CallerOK, ObjectCommands
    <3> QED BY <2>3, <2>5, <3>1 DEF EvidenceInv, DecayOK
  <2> QED BY <2>1, <2>2, <2>4, <2>5 DEF EvidenceKept, EvidenceInv, DecayOK, Ahead
<1>5. CASE MinerFails(p)
  <2>1. /\ Quietly(p) /\ proc'[p].rows = proc[p].rows /\ proc'[p].held = NoRow
        /\ proc'[p].pc \in {"siblings", "strategies"}
    BY <1>5, FailMove, StageBegins
  <2> QED BY <2>1, QuietlyFree
<1>6. CASE StartSiblings(p)
  <2>1. /\ Quietly(p) /\ proc'[p].rows = proc[p].rows /\ proc'[p].pc # "affirming"
        /\ proc'[p].held = proc[p].held /\ proc'[p].call = proc[p].call
    BY <1>6, SiblingsMove, StageBegins
  <2> QED BY <2>1, QuietlyFree
<1>7. CASE StartStrategies(p)
  <2>1. /\ Quietly(p) /\ proc'[p].rows = proc[p].rows /\ proc'[p].pc # "affirming"
        /\ proc'[p].held = proc[p].held /\ proc'[p].call = proc[p].call
    BY <1>7, StrategiesMove, StageBegins
  <2> QED BY <2>1, QuietlyFree
<1> QED BY <1>1, <1>2, <1>3, <1>4, <1>5, <1>6, <1>7 DEF Mine

LEMMA EvidencePromoted ==
  ASSUME TypeOK, Places, EvidenceInv, NEW p \in Processes, Promote(p)
  PROVE  EvidenceKept(p)
<1>0. proc[p] \in Procs
  BY HereFacts
<1>n. ASSUME proc[p].pc \in Promotion, proc[p].at # 0, NEW cost \in Nat, proc'[p] = NextRow(p, cost)
      PROVE  Backed(proc'[p]) /\ proc'[p].held = NoRow /\ proc'[p].rows = proc[p].rows
             /\ proc'[p].pc = "promote"
  BY <1>n, NextFacts, BackedRows DEF Same
<1>1. CASE StartPromotion(p)
  <2>1. Quietly(p) /\ proc'[p].rows = learned /\ proc'[p].pc # "affirming"
        /\ proc'[p].held = proc[p].held /\ proc'[p].call = proc[p].call
    <3>1. Quietly(p) /\ proc'[p] = [proc[p] EXCEPT !.pc = "promote", !.rows = learned,
                                      !.at = Len(learned), !.spent = Spent(p), !.touched = {}]
      BY <1>1, PromotionMove
    <3> QED BY <1>0, <3>1 DEF Procs
  <2> QED BY <2>1, QuietlyFree
<1>2. CASE DecideAffirm(p)
  BY <1>2, AffirmDecision, QuietlyFree DEF Same
<1>3. CASE DecideDemote(p)
  BY <1>3, DemoteDecision, QuietlyFree DEF Same
<1>4. CASE LeaveAlone(p)
  <2>1. Quietly(p) /\ proc[p].pc \in Promotion /\ proc[p].at # 0 /\ proc'[p] = NextRow(p, 1)
    BY <1>4, LeaveMove DEF Promotion
  <2>2. proc'[p].held = NoRow /\ proc'[p].rows = proc[p].rows /\ proc'[p].pc = "promote"
    BY <1>n, <2>1
  <2> QED BY <2>1, <2>2, QuietlyFree
<1>5. CASE ProposeClaim(p)
  <2> DEFINE row == CurrentRow(p)
             sources == ToSet(row.support)
  <2>1. /\ learned' = learned /\ proc[p].pc \in Promotion /\ proc[p].at # 0 /\ Ready(row)
        /\ claims' = Propose(claims, row.object, sources) /\ row.object \in Origins
        /\ sources \in SUBSET Nat /\ proc'[p].pc = "link" /\ Same(proc[p], proc'[p])
    BY <1>5, ProposeMove DEF Promotion
  <2>2. row \in Rows /\ row = proc[p].rows[proc[p].at] /\ proc[p].at \in DOMAIN proc[p].rows
        /\ Sided(ledger, row) /\ proc[p].held = NoRow
    BY <2>1, PromotingFacts
  <2>3. Enough(row)
    BY <2>2 DEF EvidenceInv, Backed, RowsEnough
  <2>4. Cardinality(sources) >= MinSupport
    <3>1. row.support \in Seq(Nat) /\ IsInjective(row.support)
      BY <2>2 DEF Sided, Lists
    <3>2. Cardinality(sources) = Len(row.support)
      BY <3>1, RangeOfInjective
    <3> QED BY <2>1, <2>3, <3>2 DEF Ready, Enough
  <2> HIDE DEF row, sources
  <2>5. /\ DOMAIN claims' = 1..Len(claims) + 1 /\ \A i \in DOMAIN claims : claims'[i] = claims[i]
        /\ claims'[Len(claims) + 1].sources = sources
    BY <2>1, HereFacts, ClaimAdded
  <2>6. RestsOn(claims')
    <3> SUFFICES ASSUME NEW i \in DOMAIN claims', claims'[i].origin \in Objects
                 PROVE  Cardinality(claims'[i].sources) >= MinSupport
      BY DEF RestsOn
    <3>1. i \in DOMAIN claims \/ i = Len(claims) + 1
      BY <2>5, HereFacts
    <3> QED BY <2>4, <2>5, <3>1 DEF EvidenceInv, RestsOn
  <2>7. Backed(proc'[p]) /\ proc'[p].held = NoRow
    BY <2>1, <2>2, BackedRows DEF Same
  <2> QED BY <2>1, <2>6, <2>7 DEF EvidenceKept, EvidenceInv, Ahead
<1>6. CASE LinkClaim(p)
  <2> DEFINE at == proc[p].at
             claim == proc[p].claim
  <2>1. /\ claims' = claims /\ proc[p].pc \in Deciding /\ at \in DOMAIN learned
        /\ learned' = [learned EXCEPT ![at].claim = claim] /\ proc'[p] = NextRow(p, 1)
    BY <1>6, LinkMove DEF Deciding
  <2>2. proc[p].pc \in Promotion /\ proc[p].at # 0
    BY <2>1, DecidedFacts
  <2>3. Backed(proc'[p]) /\ proc'[p].held = NoRow
    BY <1>n, <2>1, <2>2
  <2> HIDE DEF at, claim
  <2>4. /\ DOMAIN learned' = DOMAIN learned
        /\ \A i \in DOMAIN learned : /\ learned'[i].support = learned[i].support
                                     /\ learned'[i].status = learned[i].status
    <3>1. \A i \in DOMAIN learned : learned[i] \in Rows
      BY HereFacts
    <3> QED BY <2>1, <3>1 DEF Rows
  <2>5. RowsEnough(learned')
    BY <2>4 DEF EvidenceInv, RowsEnough, Enough
  <2>6. DecayOK(op, learned')
    <3>1. op.cmd = "decay" => op.id \in DOMAIN learned
      BY OutsideFacts DEF CallerOK, ObjectCommands
    <3> QED BY <2>4, <3>1 DEF EvidenceInv, DecayOK
  <2> QED BY <2>1, <2>3, <2>5, <2>6 DEF EvidenceKept, EvidenceInv, Ahead
<1>7. CASE ReadClaim(p)
  <2>1. /\ Quietly(p) /\ proc[p].pc \in Deciding /\ proc[p].claim \in DOMAIN claims
        /\ \/ proc'[p] = NextRow(p, 0)
           \/ /\ proc'[p].sources = proc[p].sources \cup claims[proc[p].claim].sources
              /\ Same(proc[p], proc'[p])
              /\ proc'[p].pc = IF proc[p].pc = "affirm" THEN "affirming" ELSE "demoting"
    BY <1>7, ReadClaimMove DEF Deciding
  <2>2. /\ proc[p].pc \in Promotion /\ proc[p].at # 0 /\ CurrentRow(p) = proc[p].rows[proc[p].at]
        /\ claims[proc[p].claim].origin = CurrentRow(p).object /\ CurrentRow(p) \in Rows
        /\ proc[p].held = NoRow
    BY <2>1, DecidedFacts, PromotingFacts
  <2>3. CASE proc'[p] = NextRow(p, 0)
    <3>1. Backed(proc'[p]) /\ proc'[p].held = NoRow
      BY <1>n, <2>2, <2>3
    <3> QED BY <2>1, <3>1, QuietlyKept DEF Ahead
  <2>4. CASE /\ proc'[p].sources = proc[p].sources \cup claims[proc[p].claim].sources
             /\ Same(proc[p], proc'[p])
             /\ proc'[p].pc = IF proc[p].pc = "affirm" THEN "affirming" ELSE "demoting"
    <3>1. ASSUME proc[p].pc = "affirm" PROVE Cardinality(proc'[p].sources) >= MinSupport
      <4> DEFINE old == claims[proc[p].claim].sources
                 all == proc[p].sources \cup old
                 object == CurrentRow(p).object
      <4>1. object \in Objects /\ old \subseteq ForIds(ledger, object) /\ Cardinality(old) >= MinSupport
        BY <2>1, <2>2, HereFacts DEF Rows, TablesOK, EvidenceInv, RestsOn
      <4>2. proc[p].sources \subseteq ForIds(ledger, object)
        BY <2>2, <3>1, HereFacts DEF RowsOK
      <4> HIDE DEF old, object
      <4>3. IsFiniteSet(all)
        BY <4>1, <4>2, FiniteSources
      <4>4. Cardinality(old) <= Cardinality(all) /\ Cardinality(old) \in Nat /\ Cardinality(all) \in Nat
        BY <4>3, FS_Subset, FS_CardinalityType
      <4>5. Cardinality(all) >= MinSupport
        BY <4>1, <4>4, MinSupportAssumption
      <4> QED BY <2>4, <4>5 DEF old
    <3>2. Backed(proc'[p])
      BY <2>4, <3>1 DEF EvidenceInv, Backed, Same
    <3> QED BY <2>1, <2>2, <2>4, <3>2, QuietlyKept DEF Ahead, Same
  <2> QED BY <2>1, <2>3, <2>4
<1>8. CASE AffirmClaim(p)
  <2> DEFINE id == proc[p].claim
             sources == proc[p].sources
  <2>1. /\ learned' = learned /\ proc[p].pc = "affirming" /\ id \in DOMAIN claims
        /\ sources \in SUBSET Nat /\ claims' = WriteSources(claims, id, sources)
        /\ proc'[p] = NextRow(p, 1)
    BY <1>8, AffirmMove
  <2>2. proc[p].pc \in Promotion /\ proc[p].at # 0
    BY <2>1, DecidedFacts DEF Deciding
  <2>3. Backed(proc'[p]) /\ proc'[p].held = NoRow
    BY <1>n, <2>1, <2>2
  <2>4. Cardinality(sources) >= MinSupport
    BY <2>1 DEF EvidenceInv, Backed
  <2> HIDE DEF id, sources
  <2>5. /\ DOMAIN claims' = DOMAIN claims
        /\ \A i \in DOMAIN claims : claims'[i].origin = claims[i].origin /\ (i # id => claims'[i] = claims[i])
        /\ claims'[id].sources = sources
    BY <2>1, HereFacts, SourcesWritten
  <2>6. RestsOn(claims')
    BY <2>4, <2>5 DEF EvidenceInv, RestsOn
  <2> QED BY <2>1, <2>3, <2>6 DEF EvidenceKept, EvidenceInv, Ahead
<1>9. CASE DemoteClaim(p)
  <2> DEFINE id == proc[p].claim
             status == "uncertain"
  <2>1. /\ learned' = learned /\ proc[p].pc \in Deciding /\ id \in DOMAIN claims
        /\ status \in ClaimStatus /\ claims' = WriteStatus(claims, id, status)
        /\ proc'[p] = NextRow(p, 1)
    BY <1>9, DemoteMove DEF Deciding, ClaimStatus
  <2>2. proc[p].pc \in Promotion /\ proc[p].at # 0
    BY <2>1, DecidedFacts
  <2>3. Backed(proc'[p]) /\ proc'[p].held = NoRow
    BY <1>n, <2>1, <2>2
  <2> HIDE DEF id, status
  <2>4. /\ DOMAIN claims' = DOMAIN claims
        /\ \A i \in DOMAIN claims : /\ claims'[i].origin = claims[i].origin
                                    /\ claims'[i].sources = claims[i].sources
    BY <2>1, HereFacts, StatusWritten
  <2>5. RestsOn(claims')
    BY <2>4 DEF EvidenceInv, RestsOn
  <2> QED BY <2>1, <2>3, <2>5 DEF EvidenceKept, EvidenceInv, Ahead
<1>10. CASE EndPass(p)
  BY <1>10, EndMove, IdleFacts, QuietlyFree
<1> QED BY <1>1, <1>2, <1>3, <1>4, <1>5, <1>6, <1>7, <1>8, <1>9, <1>10 DEF Promote

LEMMA EvidenceOutside ==
  ASSUME TypeOK, Places, EvidenceInv,
         (\E event \in Arrivals : Record(event)) \/ Caller \/ CrashCaller
  PROVE  /\ RowsEnough(learned') /\ RestsOn(claims') /\ DecayOK(op', learned')
         /\ DOMAIN learned' = DOMAIN learned
         /\ \A i \in DOMAIN learned : /\ learned'[i].support = learned[i].support
                                      /\ learned'[i].object = learned[i].object
<1> DEFINE Goal == /\ RowsEnough(learned') /\ RestsOn(claims') /\ DecayOK(op', learned')
                   /\ DOMAIN learned' = DOMAIN learned
                   /\ \A i \in DOMAIN learned : /\ learned'[i].support = learned[i].support
                                                /\ learned'[i].object = learned[i].object
<1>1. CASE (\E event \in Arrivals : Record(event)) \/ CrashCaller
  <2>1. learned' = learned /\ claims' = claims /\ (op' = op \/ op' = Quiet)
    BY <1>1 DEF Record, CrashCaller
  <2> QED BY <2>1, QuietFacts DEF EvidenceInv, DecayOK
<1>2. CASE \E cmd \in Commands, id \in DOMAIN claims : CommandClaim(cmd, id)
  <2>1. learned' = learned /\ claims' = claims /\ op'.cmd # "decay"
    BY <1>2, CommandClaimMove DEF QuietOutside
  <2> QED BY <2>1 DEF EvidenceInv, DecayOK
<1>3. CASE \E cmd \in Commands, id \in DOMAIN learned, event \in {0} \cup DOMAIN ledger : CommandObject(cmd, id, event)
  <2>1. PICK id \in DOMAIN learned : /\ learned' = learned /\ claims' = claims
                                     /\ op'.id = id /\ op'.held = learned[id]
    BY <1>3, CommandObjectMove DEF QuietOutside
  <2>2. learned[id] \in Rows
    BY OutsideFacts
  <2>3. Len(learned[id].support) <= Len(learned[id].support)
    BY <2>2 DEF Rows
  <2> QED BY <2>1, <2>3 DEF EvidenceInv, DecayOK
<1>4. CASE \E event \in DOMAIN ledger : ProposeInstead(event)
  <2>1. PICK event \in DOMAIN ledger :
          /\ claims' = Propose(claims, ByCaller, {event}) /\ {event} \in SUBSET Nat /\ ByCaller \in Origins
          /\ learned' = learned /\ op'.cmd \in Replacing
    BY <1>4, InsteadMove
  <2> DEFINE one == {event}
  <2>2. one \in SUBSET Nat /\ claims' = Propose(claims, ByCaller, one)
    BY <2>1
  <2> HIDE DEF one
  <2>3. /\ DOMAIN claims' = 1..Len(claims) + 1 /\ \A i \in DOMAIN claims : claims'[i] = claims[i]
        /\ claims'[Len(claims) + 1].origin = ByCaller
    BY <2>1, <2>2, OutsideFacts, ClaimAdded
  <2>4. RestsOn(claims')
    <3> SUFFICES ASSUME NEW i \in DOMAIN claims', claims'[i].origin \in Objects
                 PROVE  Cardinality(claims'[i].sources) >= MinSupport
      BY DEF RestsOn
    <3>1. i \in DOMAIN claims \/ i = Len(claims) + 1
      BY <2>3, OutsideFacts
    <3>2. ByCaller \notin Objects
      BY DEF ByCaller, Objects, Outcomes, Strategy
    <3> QED BY <2>3, <3>1, <3>2 DEF EvidenceInv, RestsOn
  <2> QED BY <2>1, <2>4 DEF EvidenceInv, DecayOK, Replacing
<1>5. CASE SaveCommand
  <2>1. op' = Quiet
    BY <1>5, SaveMove
  <2>2. CASE /\ op.cmd \in ObjectCommands /\ claims' = claims /\ op.id \in DOMAIN learned
             /\ learned' = [learned EXCEPT ![op.id] = learned'[op.id]] /\ learned'[op.id] \in Rows
             /\ learned'[op.id].object = learned[op.id].object
             /\ learned'[op.id].support = learned[op.id].support
             /\ \/ op.cmd = "correct" \/ Len(op.held.support) <= Len(learned[op.id].support)
                => Enough(learned'[op.id])
    <3>1. Enough(learned'[op.id])
      BY <2>2 DEF EvidenceInv, DecayOK, ObjectCommands
    <3> DEFINE id == op.id
               new == learned'[op.id]
    <3>2. /\ id \in DOMAIN learned /\ learned' = [learned EXCEPT ![id] = new] /\ Enough(new)
          /\ new.object = learned[id].object /\ new.support = learned[id].support
      BY <2>2, <3>1
    <3> HIDE DEF id, new
    <3>3. /\ DOMAIN learned' = DOMAIN learned
          /\ \A i \in DOMAIN learned : learned'[i] = IF i = id THEN new ELSE learned[i]
      BY <3>2, OutsideFacts
    <3>4. RowsEnough(learned')
      BY <3>2, <3>3 DEF EvidenceInv, RowsEnough
    <3> QED BY <2>1, <2>2, <3>2, <3>3, <3>4, QuietFacts DEF EvidenceInv, DecayOK
  <2>3. CASE /\ op.cmd \in Replacing /\ learned' = learned /\ op.id \in DOMAIN claims
             /\ op.new \in DOMAIN claims /\ claims' = Replace(claims, op.id, op.cmd, op.new)
    <3> DEFINE id == op.id
               new == op.new
               status == op.cmd
    <3>1. /\ id \in DOMAIN claims /\ new \in DOMAIN claims /\ status \in ClaimStatus
          /\ claims' = Replace(claims, id, status, new)
      BY <2>3 DEF Replacing, ClaimStatus
    <3> HIDE DEF id, new, status
    <3>2. Successor(claims, claims', id, status, new)
      BY <3>1, OutsideFacts, Replaced
    <3>3. RestsOn(claims')
      BY <3>2 DEF Successor, EvidenceInv, RestsOn
    <3> QED BY <2>1, <2>3, <3>3, QuietFacts DEF EvidenceInv, DecayOK
  <2>4. CASE /\ op.cmd \in ClaimStatus \ (Replacing \cup {"active"}) /\ learned' = learned
             /\ op.id \in DOMAIN claims /\ claims' = WriteStatus(claims, op.id, op.cmd)
    <3> DEFINE id == op.id
               status == op.cmd
    <3>1. id \in DOMAIN claims /\ status \in ClaimStatus /\ claims' = WriteStatus(claims, id, status)
      BY <2>4
    <3> HIDE DEF id, status
    <3>2. /\ DOMAIN claims' = DOMAIN claims
          /\ \A i \in DOMAIN claims : /\ claims'[i].origin = claims[i].origin
                                      /\ claims'[i].sources = claims[i].sources
      BY <3>1, OutsideFacts, StatusWritten
    <3>3. RestsOn(claims')
      BY <3>2 DEF EvidenceInv, RestsOn
    <3> QED BY <2>1, <2>4, <3>3, QuietFacts DEF EvidenceInv, DecayOK
  <2> QED BY <1>5, <2>2, <2>3, <2>4, SaveMove
<1> QED BY <1>1, <1>2, <1>3, <1>4, <1>5 DEF Caller

LEMMA EvidenceStep ==
  ASSUME TypeOK, Places, EvidenceInv, [Next]_vars,
         "decay" \in Commands => \E p \in Processes : Processes = {p}
  PROVE  EvidenceInv'
<1>1. ASSUME NEW s \in Procs, Backed(s) PROVE Backed([s EXCEPT !.clean = FALSE])
  BY <1>1 DEF Backed, Procs
<1>2. ASSUME NEW p \in Processes, Lawful(p), EvidenceKept(p) PROVE EvidenceInv'
  <2>1. ASSUME NEW q \in Processes PROVE Backed(proc'[q])
    <3>1. CASE q = p
      BY <1>2, <3>1 DEF EvidenceKept
    <3>2. CASE q # p
      <4>1. proc[q] \in Procs /\ proc'[q] \in {proc[q], Dirtied(q)} /\ Backed(proc[q])
        BY <1>2, <3>2, HereFacts DEF Lawful, EvidenceInv
      <4> QED BY <1>1, <4>1 DEF Dirtied
    <3> QED BY <3>1, <3>2
  <2>2. ASSUME "decay" \in Commands, NEW q \in Processes PROVE Ahead(proc'[q], learned')
    <3>1. q = p
      BY <2>2
    <3> QED BY <1>2, <2>2, <3>1 DEF EvidenceKept
  <2>3. op' = op
    BY <1>2 DEF Lawful
  <2> QED BY <1>2, <2>1, <2>2, <2>3 DEF EvidenceKept, EvidenceInv
<1>3. CASE \E p \in Processes : Pass(p) \/ Crash(p)
  <2>1. PICK p \in Processes : Pass(p) \/ Crash(p)
    BY <1>3
  <2>2. Lawful(p)
    BY <2>1, PassIsLawful
  <2>3. CASE Begin(p)
    <3>1. Quietly(p) /\ proc'[p].rows = <<>> /\ proc'[p].held = NoRow /\ proc'[p].pc = "claim"
      BY <2>3, BeginMove
    <3>2. EvidenceKept(p)
      BY <3>1, QuietlyFree
    <3> QED BY <1>2, <2>2, <3>2
  <2>4. CASE \E event \in proc[p].events : ClaimEvent(p, event)
    <3>1. PICK event \in proc[p].events : ClaimEvent(p, event)
      BY <2>4
    <3>2. /\ learned' = learned /\ claims' = Propose(claims, ByEvent, {event}) /\ {event} \in SUBSET Nat
          /\ proc[p].pc = "claim" /\ proc'[p] = [proc[p] EXCEPT !.events = @ \ {event}]
      BY <3>1, ClaimMove
    <3> DEFINE one == {event}
    <3>3. /\ proc'[p].rows = proc[p].rows /\ proc'[p].pc = "claim" /\ proc'[p].held = proc[p].held
          /\ proc'[p].call = proc[p].call /\ one \in SUBSET Nat
          /\ claims' = Propose(claims, ByEvent, one)
      BY <3>2, HereFacts DEF Procs
    <3>4. ByEvent \in Origins /\ ByEvent \notin Objects
      BY DEF Origins, ByEvent, Objects, Outcomes, Strategy
    <3> HIDE DEF one
    <3>5. /\ DOMAIN claims' = 1..Len(claims) + 1 /\ \A i \in DOMAIN claims : claims'[i] = claims[i]
          /\ claims'[Len(claims) + 1].origin = ByEvent
      <4> DEFINE origin == ByEvent
      <4>1. /\ claims \in Seq(Claims) /\ origin \in Origins /\ one \in SUBSET Nat
            /\ claims' = Propose(claims, origin, one)
        BY <3>3, <3>4, HereFacts
      <4> HIDE DEF origin
      <4>2. /\ DOMAIN claims' = 1..Len(claims) + 1 /\ \A i \in DOMAIN claims : claims'[i] = claims[i]
            /\ claims'[Len(claims) + 1].origin = origin
        BY <4>1, ClaimAdded
      <4> QED BY <4>2 DEF origin
    <3>6. RestsOn(claims')
      <4> SUFFICES ASSUME NEW i \in DOMAIN claims', claims'[i].origin \in Objects
                   PROVE  Cardinality(claims'[i].sources) >= MinSupport
        BY DEF RestsOn
      <4>1. i \in DOMAIN claims \/ i = Len(claims) + 1
        BY <3>5, HereFacts
      <4> QED BY <3>4, <3>5, <4>1 DEF EvidenceInv, RestsOn
    <3>7. EvidenceKept(p)
      <4>1. Backed(proc'[p])
        BY <3>3, BackedRows
      <4>2. "decay" \in Commands => Ahead(proc'[p], learned)
        BY <3>3 DEF EvidenceInv, Ahead
      <4> QED BY <3>2, <3>6, <4>1, <4>2 DEF EvidenceKept, EvidenceInv
    <3> QED BY <1>2, <2>2, <3>7
  <2>5. CASE AskDue(p)
    <3>1. Quietly(p) /\ proc'[p].rows = <<>> /\ proc'[p].held = NoRow /\ proc'[p].pc \in {"idle", "start"}
      BY <2>5, AskMove
    <3>2. EvidenceKept(p)
      BY <3>1, QuietlyFree
    <3> QED BY <1>2, <2>2, <3>2
  <2>6. CASE Mine(p) \/ Promote(p)
    BY <1>2, <2>2, <2>6, EvidenceMined, EvidencePromoted
  <2>7. CASE Crash(p)
    <3>1. EvidenceKept(p)
      BY <2>7, CrashMove, IdleFacts, QuietlyFree
    <3> QED BY <1>2, <2>2, <3>1
  <2> QED BY <2>1, <2>3, <2>4, <2>5, <2>6, <2>7 DEF Pass
<1>4. CASE (\E event \in Arrivals : Record(event)) \/ Caller \/ CrashCaller
  <2>1. /\ RowsEnough(learned') /\ RestsOn(claims') /\ DecayOK(op', learned')
        /\ DOMAIN learned' = DOMAIN learned
        /\ \A i \in DOMAIN learned : /\ learned'[i].support = learned[i].support
                                     /\ learned'[i].object = learned[i].object
    BY <1>4, EvidenceOutside
  <2>2. ASSUME NEW q \in Processes
        PROVE  /\ Backed(proc'[q]) /\ proc'[q].held = proc[q].held /\ proc'[q].call = proc[q].call
    <3>1. proc[q] \in Procs /\ proc'[q] \in {proc[q], Dirtied(q)} /\ Backed(proc[q])
      BY <1>4, OutsideIsLawful, HereFacts DEF LawfulOutside, EvidenceInv
    <3>2. Backed(Dirtied(q)) /\ Dirtied(q).held = proc[q].held /\ Dirtied(q).call = proc[q].call
      BY <1>1, <3>1 DEF Dirtied, Procs
    <3> QED BY <3>1, <3>2
  <2>3. ASSUME "decay" \in Commands, NEW q \in Processes PROVE Ahead(proc'[q], learned')
    BY <2>1, <2>2, <2>3 DEF EvidenceInv, Ahead
  <2> QED BY <2>1, <2>2, <2>3 DEF EvidenceInv
<1>5. CASE UNCHANGED vars
  BY <1>5 DEF vars, EvidenceInv, Backed, DecayOK, Ahead, RowsEnough, RestsOn
<1> QED BY <1>3, <1>4, <1>5 DEF Next

\* A claim promoted from a learned object rests on MIN_SUPPORT events at
\* least, each of which happened the way the claim says (learned.py:30,
\* consolidation.py:203-220): for any number of processes, and for one process
\* when objects decay too, because apply_decay sets the status from the
\* support it read (learned.py:195-209) while an observe of another process
\* may write an older, shorter list back.
THEOREM PromotionsOnEvidence ==
  ASSUME "decay" \in Commands => \E p \in Processes : Processes = {p}
  PROVE  Spec => []PromotedOnEvidence
<1>1. Init => EvidenceInv
  <2> SUFFICES ASSUME Init PROVE EvidenceInv
    OBVIOUS
  <2>1. learned = <<>> /\ claims = <<>> /\ op = Quiet /\ \A p \in Processes : proc[p] = Idle
    BY DEF Init
  <2> QED BY <2>1, IdleFacts, QuietFacts DEF EvidenceInv, Backed, DecayOK, Ahead, RowsEnough, RestsOn
<1>2. TypeOK /\ Places /\ EvidenceInv /\ [Next]_vars => EvidenceInv'
  BY EvidenceStep
<1>3. TypeOK /\ Places /\ EvidenceInv => PromotedOnEvidence
  <2> SUFFICES ASSUME TypeOK, Places, EvidenceInv, NEW i \in DOMAIN claims, claims[i].origin \in Objects
               PROVE  /\ Cardinality(claims[i].sources) >= MinSupport
                      /\ \A e \in claims[i].sources :
                           ledger[e].result =
                             IF claims[i].origin = Strategy THEN "success" ELSE claims[i].origin
    BY DEF PromotedOnEvidence
  <2>1. claims[i].sources \subseteq ForIds(ledger, claims[i].origin)
    BY OutsideFacts DEF TablesOK
  <2> QED BY <2>1 DEF EvidenceInv, RestsOn, ForIds
<1> QED BY <1>1, <1>2, <1>3, TypeCorrect, PTL DEF Spec

-----------------------------------------------------------------------------
(* What a pass settles that nobody else wrote into. *)

LEMMA PassDisturbs ==
  ASSUME TypeOK, Places, NEW p \in Processes, Pass(p) \/ Crash(p)
  PROVE  Quietly(p) \/ Loudly(p)
<1>1. CASE Begin(p) \/ AskDue(p) \/ Crash(p)
  BY <1>1, BeginMove, AskMove, CrashMove
<1>2. CASE \E event \in proc[p].events : ClaimEvent(p, event)
  BY <1>2, ClaimMove
<1>3. CASE Mine(p)
  BY <1>3, PatternsMove, ReadMove, UpdateMove, InsertMove, FailMove, SiblingsMove, StrategiesMove DEF Mine
<1>4. CASE Promote(p)
  BY <1>4, PromotionMove, AffirmDecision, DemoteDecision, LeaveMove, ProposeMove, LinkMove,
     ReadClaimMove, AffirmMove, DemoteMove, EndMove DEF Promote
<1> QED BY <1>1, <1>2, <1>3, <1>4 DEF Pass

LEMMA OutsideDisturbs ==
  ASSUME TypeOK, Places, (\E event \in Arrivals : Record(event)) \/ Caller \/ CrashCaller
  PROVE  QuietOutside \/ LoudOutside
<1>1. CASE (\E event \in Arrivals : Record(event)) \/ CrashCaller
  BY <1>1, RecordMove, CrashCallerMove
<1>2. CASE Caller
  BY <1>2, CommandClaimMove, CommandObjectMove, InsteadMove, SaveMove DEF Caller
<1> QED BY <1>1, <1>2

BelievedIn(base, row) == row.claim # 0 /\ base[row.claim].status = "active"

SettledIn(base, row) ==
  /\ Ready(row) => BelievedIn(base, row)
  /\ row.status = "contradicted" => ~BelievedIn(base, row)

\* The rows gone over are settled, the others as the pass read them.
Settling(rows, at, table, base) ==
  /\ Len(table) = Len(rows)
  /\ \A i \in DOMAIN table : IF i <= at THEN table[i] = rows[i] ELSE SettledIn(base, table[i])

\* What is decided of a row is about a claim that is still active.
Decided(s, base) ==
  /\ s.pc \in Deciding => base[s.claim].status = "active"
  /\ s.pc \in {"affirm", "affirming", "link"} => Ready(s.rows[s.at])
  /\ s.pc \in {"demote", "demoting"} => s.rows[s.at].status = "contradicted"
  /\ s.pc \in Deciding \ {"link"} => s.claim = s.rows[s.at].claim

SettleOK(s, table, base) ==
  s.clean /\ s.pc \in Promotion => Settling(s.rows, s.at, table, base) /\ Decided(s, base)

SettleInv == \A p \in Processes : SettleOK(proc[p], learned, claims)

LEMMA NotPromoting ==
  ASSUME NEW s, NEW table, NEW base, s.pc \notin Promotion \/ ~s.clean
  PROVE  SettleOK(s, table, base)
BY DEF SettleOK

\* One row further.
LEMMA NextSettled ==
  ASSUME NEW rows, NEW at \in Nat, NEW table \in Seq(Rows), NEW base,
         Settling(rows, at, table, base), at \in DOMAIN table, SettledIn(base, table[at])
  PROVE  Settling(rows, at - 1, table, base)
<1> SUFFICES ASSUME NEW i \in DOMAIN table
             PROVE  IF i <= at - 1 THEN table[i] = rows[i] ELSE SettledIn(base, table[i])
  BY DEF Settling
<1>1. i \in Nat /\ (IF i <= at THEN table[i] = rows[i] ELSE SettledIn(base, table[i]))
  BY DEF Settling
<1>2. CASE i <= at - 1
  BY <1>1, <1>2
<1>3. CASE i = at
  BY <1>3
<1>4. CASE i > at
  BY <1>1, <1>4
<1> QED BY <1>1, <1>2, <1>3, <1>4

LEMMA SettledNext ==
  ASSUME TypeOK, Places, NEW p \in Processes, proc[p].pc \in Promotion, proc[p].at # 0,
         NEW cost \in Nat, proc'[p] = NextRow(p, cost), NEW table \in Seq(Rows), NEW base,
         proc[p].clean => Settling(proc[p].rows, proc[p].at, table, base) /\ SettledIn(base, table[proc[p].at]),
         proc[p].at \in DOMAIN table
  PROVE  SettleOK(proc'[p], table, base)
<1> DEFINE s == proc[p]
           t == proc'[p]
<1>1. t.pc = "promote" /\ t.at = s.at - 1 /\ t.rows = s.rows /\ t.clean = s.clean /\ s.at \in Nat
  <2>1. NextRow(p, cost).pc = "promote" /\ NextRow(p, cost).at = s.at - 1 /\ Same(s, NextRow(p, cost))
    BY NextFacts
  <2>2. s \in Procs
    BY HereFacts
  <2>3. s.at \in Nat
    BY <2>2 DEF Procs
  <2> QED BY <2>1, <2>3 DEF Same
<1>2. ASSUME s.clean PROVE Settling(s.rows, s.at - 1, table, base)
  BY <1>1, <1>2, NextSettled
<1>3. Decided(t, base)
  BY <1>1 DEF Decided, Deciding
<1> QED BY <1>1, <1>2, <1>3 DEF SettleOK

\* What the first half of observe leaves in the hands of the process.
LEMMA HandReads ==
  ASSUME TypeOK, Places, NEW p \in Processes, NEW call \in proc[p].calls, ObserveRead(p, call)
  PROVE  /\ Quietly(p) /\ proc[p].pc \in Miners
         /\ \/ /\ proc'[p] = Observe(p, call)
               /\ \E i \in DOMAIN learned :
                    learned[i].object = call.object /\ Counted(learned[i], call.event)
            \/ /\ proc'[p] = [proc[p] EXCEPT !.call = call, !.held = NoRow]
               /\ ~HasRow(learned, call.object)
            \/ \E i \in DOMAIN learned :
                 /\ learned[i].object = call.object
                 /\ proc'[p] = [proc[p] EXCEPT !.call = call, !.held = learned[i]]
<1>1. Quietly(p) /\ proc[p].pc \in Miners
  BY ReadMove
<1>2. \/ /\ proc'[p] = Observe(p, call)
         /\ \E i \in DOMAIN learned :
              learned[i].object = call.object /\ Counted(learned[i], call.event)
      \/ /\ proc'[p] = [proc[p] EXCEPT !.call = call, !.held = NoRow]
         /\ ~HasRow(learned, call.object)
      \/ \E i \in DOMAIN learned :
           /\ learned[i].object = call.object /\ RowOf(call.object) = i
           /\ proc'[p] = [proc[p] EXCEPT !.call = call, !.held = learned[i]]
           /\ ~Counted(learned[i], call.event)
  BY ReadMove
<1>3. ASSUME \E i \in DOMAIN learned :
               /\ learned[i].object = call.object /\ RowOf(call.object) = i
               /\ proc'[p] = [proc[p] EXCEPT !.call = call, !.held = learned[i]]
               /\ ~Counted(learned[i], call.event)
      PROVE  \E i \in DOMAIN learned :
               /\ learned[i].object = call.object
               /\ proc'[p] = [proc[p] EXCEPT !.call = call, !.held = learned[i]]
  BY <1>3
<1> QED BY <1>1, <1>2, <1>3

LEMMA SettlesSelf ==
  ASSUME TypeOK, Places, SettleInv, NEW p \in Processes, Pass(p) \/ Crash(p)
  PROVE  SettleOK(proc'[p], learned', claims')
<1> DEFINE s == proc[p]
           t == proc'[p]
<1>0. s \in Procs /\ SettleOK(s, learned, claims) /\ learned \in Seq(Rows) /\ claims \in Seq(Claims)
  BY HereFacts DEF SettleInv
<1>p. ASSUME s.pc \in Promotion, s.at # 0
      PROVE  /\ s.at \in DOMAIN s.rows /\ s.at \in DOMAIN learned /\ CurrentRow(p) = s.rows[s.at]
             /\ s.clean => /\ Settling(s.rows, s.at, learned, claims) /\ Decided(s, claims)
                           /\ learned[s.at] = s.rows[s.at]
  <2>1. s.at \in DOMAIN s.rows /\ s.at \in DOMAIN learned /\ CurrentRow(p) = s.rows[s.at] /\ s.at <= s.at
    BY <1>p, PromotingFacts, HereFacts DEF Procs
  <2> QED BY <1>0, <1>p, <2>1 DEF SettleOK, Settling
<1>1. CASE Begin(p) \/ AskDue(p) \/ EndPass(p) \/ Crash(p)
  <2>1. ~t.clean
    BY <1>1, BeginMove, AskMove, EndMove, CrashMove, IdleFacts
  <2> QED BY <2>1, NotPromoting
<1>2. CASE (\E event \in proc[p].events : ClaimEvent(p, event)) \/ Mine(p)
  <2>1. CASE \E event \in proc[p].events : ClaimEvent(p, event)
    <3>1. PICK event : s.pc = "claim" /\ t = [s EXCEPT !.events = @ \ {event}]
      BY <2>1, ClaimMove
    <3>2. s \in Procs
      BY <1>0
    <3> HIDE DEF s, t
    <3>3. t.pc = s.pc
      BY <3>1, <3>2 DEF Procs
    <3>4. t.pc = "claim"
      BY <3>1, <3>3
    <3>5. SettleOK(t, learned', claims')
      BY <3>4, NotPromoting DEF Promotion, Deciding
    <3> QED BY <3>5 DEF t
  <2>2. CASE Mine(p)
    <3>1. t.pc \in Miners
      <4>1. CASE StartPatterns(p)
        BY <4>1, StageBegins DEF Miners
      <4>2. CASE \E call \in s.calls : ObserveRead(p, call)
        <5>1. PICK call \in s.calls : ObserveRead(p, call)
          BY <4>2
        <5>2. /\ s.pc \in Miners
              /\ \/ /\ t = Observe(p, call)
                    /\ \E i \in DOMAIN learned :
                         learned[i].object = call.object /\ Counted(learned[i], call.event)
                 \/ /\ t = [s EXCEPT !.call = call, !.held = NoRow]
                    /\ ~HasRow(learned, call.object)
                 \/ \E i \in DOMAIN learned :
                      /\ learned[i].object = call.object
                      /\ t = [s EXCEPT !.call = call, !.held = learned[i]]
          BY <5>1, HandReads
        <5>3. ASSUME t = Observe(p, call) PROVE t.pc = s.pc
          BY <5>3, ObserveFacts
        <5>4. ASSUME t = [s EXCEPT !.call = call, !.held = NoRow] PROVE t.pc = s.pc
          BY <1>0, <5>4 DEF Procs
        <5>5. ASSUME NEW i \in DOMAIN learned, t = [s EXCEPT !.call = call, !.held = learned[i]]
              PROVE  t.pc = s.pc
          BY <1>0, <5>5 DEF Procs
        <5> QED BY <5>2, <5>3, <5>4, <5>5
      <4>3. CASE ObserveUpdate(p)
        BY <4>3, UpdateMove, ObserveFacts
      <4>4. CASE ObserveInsert(p)
        <5>1. s.pc \in Miners /\ t = Observe(p, s.call) /\ s.call \in s.calls
          BY <4>4, InsertMove
        <5> QED BY <5>1, ObserveFacts
      <4>5. CASE MinerFails(p)
        BY <4>5, StageBegins DEF Miners
      <4>6. CASE StartSiblings(p)
        BY <4>6, StageBegins DEF Miners
      <4>7. CASE StartStrategies(p)
        BY <4>7, StageBegins DEF Miners
      <4> QED BY <2>2, <4>1, <4>2, <4>3, <4>4, <4>5, <4>6, <4>7 DEF Mine
    <3> QED BY <3>1, NotPromoting DEF Miners, Promotion, Deciding
  <2> QED BY <1>2, <2>1, <2>2
<1>3. CASE StartPromotion(p)
  <2>1. /\ learned' = learned /\ claims' = claims
        /\ t = [s EXCEPT !.pc = "promote", !.rows = learned, !.at = Len(learned),
                         !.spent = Spent(p), !.touched = {}]
    BY <1>3, PromotionMove DEF Quietly
  <2>2. t.pc = "promote" /\ t.rows = learned /\ t.at = Len(learned)
    BY <1>0, <2>1 DEF Procs
  <2>3. Settling(learned, Len(learned), learned, claims)
    BY <1>0 DEF Settling
  <2> QED BY <2>1, <2>2, <2>3 DEF SettleOK, Decided, Deciding
<1>4. CASE DecideAffirm(p)
  <2>1. /\ learned' = learned /\ claims' = claims /\ s.pc \in Promotion /\ s.at # 0
        /\ Ready(CurrentRow(p)) /\ Believed(CurrentRow(p))
        /\ t.pc = "affirm" /\ t.claim = CurrentRow(p).claim /\ t.at = s.at /\ Same(s, t)
    BY <1>4, AffirmDecision DEF Quietly, Promotion
  <2> QED BY <1>p, <2>1 DEF SettleOK, Same, Decided, Believed
<1>5. CASE DecideDemote(p)
  <2>1. /\ learned' = learned /\ claims' = claims /\ s.pc \in Promotion /\ s.at # 0
        /\ CurrentRow(p).status = "contradicted" /\ Believed(CurrentRow(p))
        /\ t.pc = "demote" /\ t.claim = CurrentRow(p).claim /\ t.at = s.at /\ Same(s, t)
    BY <1>5, DemoteDecision DEF Quietly, Promotion
  <2> QED BY <1>p, <2>1 DEF SettleOK, Same, Decided, Believed
<1>6. CASE LeaveAlone(p)
  <2>1. /\ learned' = learned /\ claims' = claims /\ s.pc \in Promotion /\ s.at # 0 /\ t = NextRow(p, 1)
        /\ Ready(CurrentRow(p)) => Believed(CurrentRow(p))
        /\ CurrentRow(p).status = "contradicted" => ~Believed(CurrentRow(p))
    BY <1>6, LeaveMove DEF Quietly, Promotion
  <2>2. SettledIn(claims, CurrentRow(p))
    BY <2>1 DEF SettledIn, BelievedIn, Believed
  <2> QED BY <1>0, <1>p, <2>1, <2>2, SettledNext
<1>7. CASE ProposeClaim(p)
  <2> DEFINE row == CurrentRow(p)
             sources == ToSet(row.support)
  <2>1. /\ learned' = learned /\ s.pc \in Promotion /\ s.at # 0 /\ Ready(row)
        /\ claims' = Propose(claims, row.object, sources) /\ row.object \in Origins
        /\ sources \in SUBSET Nat /\ t.pc = "link" /\ t.claim = Len(claims) + 1
        /\ t.at = s.at /\ Same(s, t)
    BY <1>7, ProposeMove DEF Promotion
  <2>2. row = s.rows[s.at]
    BY <1>p, <2>1
  <2> HIDE DEF row, sources
  <2>3. /\ \A i \in DOMAIN claims : claims'[i] = claims[i]
        /\ claims'[Len(claims) + 1].status = "active"
    BY <1>0, <2>1, ClaimAdded
  <2>4. ASSUME s.clean PROVE Settling(s.rows, s.at, learned, claims')
    <3>1. \A i \in DOMAIN learned : learned[i].claim # 0 => learned[i].claim \in DOMAIN claims
      BY HereFacts DEF TablesOK, LinkOK
    <3>2. \A i \in DOMAIN learned : SettledIn(claims, learned[i]) => SettledIn(claims', learned[i])
      BY <2>3, <3>1 DEF SettledIn, BelievedIn
    <3> QED BY <1>p, <2>1, <2>4, <3>2 DEF Settling
  <2>5. Decided(t, claims')
    BY <2>1, <2>2, <2>3 DEF Decided, Deciding, Same
  <2> QED BY <2>1, <2>4, <2>5 DEF SettleOK, Same
<1>8. CASE LinkClaim(p)
  <2> DEFINE at == s.at
             claim == s.claim
  <2>1. /\ claims' = claims /\ s.pc = "link" /\ at \in DOMAIN learned
        /\ learned' = [learned EXCEPT ![at].claim = claim] /\ t = NextRow(p, 1) /\ Lawful(p)
    BY <1>8, LinkMove
  <2>2. s.pc \in Deciding
    BY <2>1 DEF Deciding
  <2>3. s.pc \in Promotion /\ at # 0 /\ claim \in DOMAIN claims
    BY <2>2, DecidedFacts
  <2> HIDE DEF at, claim
  <2>4. /\ DOMAIN learned' = DOMAIN learned /\ Len(learned') = Len(learned) /\ learned' \in Seq(Rows)
        /\ \A i \in DOMAIN learned : i # at => learned'[i] = learned[i]
        /\ learned'[at].claim = claim /\ learned'[at].status = learned[at].status
        /\ learned'[at].confidence = learned[at].confidence
    <3> DEFINE row == [learned[at] EXCEPT !.claim = claim]
    <3>1. learned[at] \in Rows /\ claim \in Nat /\ learned' \in Seq(Rows)
      <4>1. learned' \in Seq(Rows)
        BY <2>1 DEF Lawful
      <4> QED BY <1>0, <2>1, <2>3, <4>1
    <3>2. learned' = [learned EXCEPT ![at] = row]
      BY <2>1
    <3>3. row.claim = claim /\ row.status = learned[at].status /\ row.confidence = learned[at].confidence
      BY <3>1 DEF Rows
    <3> HIDE DEF row
    <3>4. /\ DOMAIN learned' = DOMAIN learned /\ learned'[at] = row
          /\ \A i \in DOMAIN learned : i # at => learned'[i] = learned[i]
      BY <2>1, <3>2
    <3>5. Len(learned') = Len(learned)
      BY <1>0, <3>1, <3>4
    <3> QED BY <3>1, <3>3, <3>4, <3>5
  <2>5. ASSUME s.clean
        PROVE  SettledIn(claims, learned'[at])
    <3>1. claims[claim].status = "active" /\ Ready(learned[at])
      BY <1>p, <2>1, <2>2, <2>3, <2>5 DEF Decided, at, claim
    <3>2. Ready(learned'[at]) /\ claim # 0
      BY <1>0, <2>3, <2>4, <3>1 DEF Ready
    <3> QED BY <2>4, <3>1, <3>2 DEF SettledIn, BelievedIn, Ready
  <2>6. ASSUME s.clean
        PROVE  Settling(s.rows, at - 1, learned', claims)
    <3>1. at \in Nat /\ Settling(s.rows, at, learned, claims)
      BY <1>0, <1>p, <2>3, <2>6 DEF Procs, at
    <3>2. Len(learned') = Len(s.rows)
      BY <2>4, <3>1 DEF Settling
    <3>3. ASSUME NEW i \in DOMAIN learned'
          PROVE  IF i <= at - 1 THEN learned'[i] = s.rows[i] ELSE SettledIn(claims, learned'[i])
      <4>1. i \in DOMAIN learned /\ i \in Nat
        BY <1>0, <2>4
      <4>2. CASE i = at
        BY <2>5, <2>6, <3>1, <4>2
      <4>3. CASE i # at
        <5>1. learned'[i] = learned[i]
          BY <2>4, <4>1, <4>3
        <5>2. IF i <= at THEN learned[i] = s.rows[i] ELSE SettledIn(claims, learned[i])
          BY <3>1, <4>1 DEF Settling
        <5> QED BY <3>1, <4>1, <4>3, <5>1, <5>2
      <4> QED BY <4>2, <4>3
    <3> QED BY <3>2, <3>3 DEF Settling
  <2>7. t.pc = "promote" /\ t.at = at - 1 /\ t.rows = s.rows /\ t.clean = s.clean
    BY <2>1, <2>3, NextFacts DEF Same, at
  <2> QED BY <2>1, <2>6, <2>7 DEF SettleOK, Decided, Deciding
<1>9. CASE ReadClaim(p)
  <2>1. /\ learned' = learned /\ claims' = claims /\ s.pc \in {"affirm", "demote"}
        /\ \/ claims[s.claim].status # "active" /\ t = NextRow(p, 0)
           \/ /\ claims[s.claim].status = "active"
              /\ t.pc = IF s.pc = "affirm" THEN "affirming" ELSE "demoting"
              /\ t.claim = s.claim /\ t.at = s.at /\ Same(s, t)
    BY <1>9, ReadClaimMove DEF Quietly
  <2>2. s.pc \in Promotion /\ s.at # 0 /\ s.pc \in Deciding
    BY <2>1, DecidedFacts DEF Deciding
  <2>3. CASE ~s.clean
    <3>1. t.clean = s.clean
      BY <2>1, <2>2, NextFacts DEF Same
    <3> QED BY <2>3, <3>1, NotPromoting
  <2>4. CASE s.clean
    <3>1. Settling(s.rows, s.at, learned, claims) /\ Decided(s, claims)
      BY <1>p, <2>2, <2>4
    <3>2. claims[s.claim].status = "active"
      BY <2>2, <3>1 DEF Decided
    <3>3. Decided(t, claims)
      BY <2>1, <3>1, <3>2 DEF Decided, Deciding, Same
    <3> QED BY <2>1, <3>1, <3>2, <3>3 DEF SettleOK, Same
  <2> QED BY <2>3, <2>4
<1>10. CASE AffirmClaim(p)
  <2> DEFINE id == s.claim
             sources == s.sources
  <2>1. /\ learned' = learned /\ s.pc = "affirming" /\ id \in DOMAIN claims /\ sources \in SUBSET Nat
        /\ claims' = WriteSources(claims, id, sources) /\ t = NextRow(p, 1)
    BY <1>10, AffirmMove
  <2>2. s.pc \in Promotion /\ s.at # 0
    BY <2>1, DecidedFacts DEF Deciding
  <2>3. ASSUME s.clean
        PROVE  Settling(s.rows, s.at, learned, claims) /\ Ready(learned[s.at])
               /\ claims[id].status = "active" /\ learned[s.at].claim = id
    BY <1>p, <2>1, <2>2, <2>3 DEF Decided, Deciding
  <2> HIDE DEF id, sources
  <2>4. \A i \in DOMAIN claims : claims'[i].status = claims[i].status
    BY <1>0, <2>1, SourcesWritten
  <2>5. \A i \in DOMAIN learned : SettledIn(claims, learned[i]) => SettledIn(claims', learned[i])
    <3>1. \A i \in DOMAIN learned : learned[i].claim # 0 => learned[i].claim \in DOMAIN claims
      BY HereFacts DEF TablesOK, LinkOK
    <3> QED BY <2>4, <3>1 DEF SettledIn, BelievedIn
  <2>6. ASSUME s.clean PROVE Settling(s.rows, s.at, learned, claims') /\ SettledIn(claims', learned[s.at])
    <3>1. Settling(s.rows, s.at, learned, claims')
      BY <2>3, <2>5, <2>6 DEF Settling
    <3>2. id # 0
      BY <1>0, <2>1
    <3> QED BY <2>1, <2>3, <2>4, <2>6, <3>1, <3>2 DEF SettledIn, BelievedIn, Ready
  <2> QED BY <1>0, <1>p, <2>1, <2>2, <2>6, SettledNext
<1>11. CASE DemoteClaim(p)
  <2> DEFINE id == s.claim
             status == "uncertain"
             at == s.at
  <2>1. /\ learned' = learned /\ s.pc = "demoting" /\ id \in DOMAIN claims /\ status \in ClaimStatus
        /\ claims' = WriteStatus(claims, id, status) /\ t = NextRow(p, 1)
    BY <1>11, DemoteMove DEF ClaimStatus
  <2>2. s.pc \in Promotion /\ at # 0 /\ claims[id].origin = learned[at].object
    BY <2>1, DecidedFacts DEF Deciding
  <2>3. ASSUME s.clean
        PROVE  Settling(s.rows, at, learned, claims) /\ learned[at].status = "contradicted"
               /\ learned[at].claim = id
    BY <1>p, <2>1, <2>2, <2>3 DEF Decided, Deciding
  <2>4. at \in DOMAIN learned
    BY <1>p, <2>2
  <2> HIDE DEF id, at, status
  <2>5. /\ \A i \in DOMAIN claims : i # id => claims'[i] = claims[i]
        /\ claims'[id].status = status
    BY <1>0, <2>1, StatusWritten
  <2>6. ASSUME NEW i \in DOMAIN learned, i # at, SettledIn(claims, learned[i])
        PROVE  SettledIn(claims', learned[i])
    <3>1. learned[i].claim # id
      BY <2>1, <2>2, <2>4, <2>6, <1>0, HereFacts DEF TablesOK, LinkOK
    <3>2. learned[i].claim # 0 => learned[i].claim \in DOMAIN claims
      BY HereFacts DEF TablesOK, LinkOK
    <3> QED BY <2>5, <2>6, <3>1, <3>2 DEF SettledIn, BelievedIn
  <2>7. ASSUME s.clean PROVE Settling(s.rows, at, learned, claims') /\ SettledIn(claims', learned[at])
    <3>1. at <= at
      BY <1>0 DEF Procs, at
    <3>2. Settling(s.rows, at, learned, claims')
      BY <2>3, <2>6, <2>7, <3>1 DEF Settling
    <3>3. SettledIn(claims', learned[at])
      BY <2>3, <2>5, <2>7 DEF SettledIn, BelievedIn, Ready, status
    <3> QED BY <3>2, <3>3
  <2> QED BY <1>0, <2>1, <2>2, <2>4, <2>7, SettledNext DEF at
<1> QED BY <1>1, <1>2, <1>3, <1>4, <1>5, <1>6, <1>7, <1>8, <1>9, <1>10, <1>11 DEF Pass, Promote

LEMMA SettleStep ==
  ASSUME TypeOK, Places, SettleInv, [Next]_vars
  PROVE  SettleInv'
<1>1. CASE \E p \in Processes : Pass(p) \/ Crash(p)
  <2>1. PICK p \in Processes : Pass(p) \/ Crash(p)
    BY <1>1
  <2>2. Quietly(p) \/ Loudly(p)
    BY <2>1, PassDisturbs
  <2>3. SettleOK(proc'[p], learned', claims')
    BY <2>1, SettlesSelf
  <2>4. ASSUME NEW q \in Processes, q # p PROVE SettleOK(proc'[q], learned', claims')
    <3>1. CASE Quietly(p)
      BY <2>4, <3>1 DEF Quietly, SettleInv
    <3>2. CASE Loudly(p)
      BY <2>4, <3>2, NotPromoting DEF Loudly
    <3> QED BY <2>2, <3>1, <3>2
  <2> QED BY <2>3, <2>4 DEF SettleInv
<1>2. CASE (\E event \in Arrivals : Record(event)) \/ Caller \/ CrashCaller
  <2>1. QuietOutside \/ LoudOutside
    BY <1>2, OutsideDisturbs
  <2> QED BY <2>1, NotPromoting DEF QuietOutside, LoudOutside, SettleInv
<1>3. CASE UNCHANGED vars
  BY <1>3 DEF vars, SettleInv
<1> QED BY <1>1, <1>2, <1>3 DEF Next

\* A promotion that nobody else wrote into and the budget did not cut short
\* leaves every mature object believed and no contradicted one
\* (consolidation.py:176-188), however many processes there are and whatever
\* they did before it began: the claim it read is still the row's when it
\* affirms or demotes it, and no two rows share one.
THEOREM PromotionSettles == Spec => []PassSettles
<1>1. Init => SettleInv
  BY IdleFacts, NotPromoting DEF Init, SettleInv
<1>2. TypeOK /\ Places /\ SettleInv /\ [Next]_vars => SettleInv'
  BY SettleStep
<1>3. TypeOK /\ SettleInv => PassSettles
  <2> SUFFICES ASSUME TypeOK, SettleInv, NEW p \in Processes, proc[p].pc = "promote", proc[p].clean,
                      proc[p].at = 0, NEW i \in DOMAIN learned
               PROVE  /\ Ready(learned[i]) => Believed(learned[i])
                      /\ learned[i].status = "contradicted" => ~Believed(learned[i])
    BY DEF PassSettles
  <2>1. Settling(proc[p].rows, 0, learned, claims)
    BY DEF SettleInv, SettleOK, Promotion
  <2>2. ~(i <= 0)
    BY DEF TypeOK
  <2> QED BY <2>1, <2>2 DEF Settling, SettledIn, BelievedIn, Believed
<1> QED BY <1>1, <1>2, <1>3, TypeCorrect, PTL DEF Spec

-----------------------------------------------------------------------------
(* What a pass that nobody else writes into counts. *)

SeenEvents(s, log) == {e \in 1..s.seen : log[e].kind \in MinedKinds}
Clustered(s, log) ==
  IF Cardinality(SeenEvents(s, log)) < 2 THEN {} ELSE SeenEvents(s, log)
Tried(s, log) == {e \in Clustered(s, log) : log[e].kind = "experience" /\ log[e].result # "unknown"}

\* A call's event is in the list it is for, or was held against the object.
Took(table, call) ==
  \E i \in DOMAIN table :
    /\ table[i].object = call.object
    /\ \/ Contains(table[i].contra, call.event)
       \/ ~call.against /\ Contains(table[i].support, call.event)

Pending(s, table, call) == call \in s.calls \/ Took(table, call)

PatternsOK(s, log, table) ==
  /\ s.events = Clustered(s, log)
  /\ \A e \in Clustered(s, log) : Pending(s, table, Sighting(log[e].result, e, FALSE))
  /\ \A o \in Outcomes : HasRow(table, o) => o \in s.known \cup s.touched

SiblingsOK(s, log, table) ==
  \A e \in Clustered(s, log) :
    /\ Took(table, Sighting(log[e].result, e, FALSE))
    /\ \A o \in Outcomes \ {log[e].result} :
         HasRow(table, o) => Pending(s, table, Sighting(o, e, TRUE))

StrategiesOK(s, log, table) ==
  \A e \in Tried(s, log) : Pending(s, table, Sighting(Strategy, e, log[e].result = "failure"))

After(stage) ==
  CASE stage = "siblings"   -> {"siblings", "strategies"} \cup Promotion
    [] stage = "strategies" -> {"strategies"} \cup Promotion

StageOK(s, log, table) ==
  /\ s.pc = "patterns" => PatternsOK(s, log, table)
  /\ s.pc \in After("siblings") => SiblingsOK(s, log, table)
  /\ s.pc \in After("strategies") => StrategiesOK(s, log, table)

\* The row that was read is as it was.
HeldIsRow(s, table) ==
  s.call # NoCall =>
    IF s.held = NoRow THEN ~HasRow(table, s.call.object)
    ELSE \E i \in DOMAIN table : table[i] = s.held

MineOK(s, log, table) ==
  s.clean /\ s.pc \in Miners \cup Promotion => HeldIsRow(s, table) /\ StageOK(s, log, table)

MineInv == \A p \in Processes : MineOK(proc[p], ledger, learned)

LEMMA NotMining ==
  ASSUME NEW s, NEW log, NEW table, s.pc \notin Miners \cup Promotion \/ ~s.clean
  PROVE  MineOK(s, log, table)
BY DEF MineOK

\* What was read of the ledger stays, whatever is recorded meanwhile.
LEMMA ClusterStays ==
  ASSUME NEW log \in Seq(Events), NEW log2, LogKept(log, log2),
         NEW s, s.seen \in Nat, s.seen <= Len(log)
  PROVE  /\ Clustered(s, log2) = Clustered(s, log) /\ Tried(s, log2) = Tried(s, log)
         /\ \A e \in Clustered(s, log) : log2[e] = log[e] /\ e \in DOMAIN log
<1>1. \A e \in 1..s.seen : e \in DOMAIN log /\ log2[e] = log[e]
  BY LogGrows
<1>2. SeenEvents(s, log2) = SeenEvents(s, log)
  BY <1>1 DEF SeenEvents
<1>3. Clustered(s, log2) = Clustered(s, log)
  BY <1>2 DEF Clustered
<1>4. \A e \in Clustered(s, log) : log2[e] = log[e] /\ e \in DOMAIN log
  BY <1>1 DEF Clustered, SeenEvents
<1>5. Tried(s, log2) = Tried(s, log)
  BY <1>3, <1>4 DEF Tried
<1> QED BY <1>3, <1>4, <1>5

LEMMA MineLater ==
  ASSUME NEW log \in Seq(Events), NEW log2, LogKept(log, log2), NEW table,
         NEW s, s.seen \in Nat, s.seen <= Len(log), MineOK(s, log, table)
  PROVE  MineOK(s, log2, table)
<1>1. /\ Clustered(s, log2) = Clustered(s, log) /\ Tried(s, log2) = Tried(s, log)
      /\ \A e \in Clustered(s, log) : log2[e] = log[e]
      /\ \A e \in Tried(s, log) : log2[e] = log[e]
  BY ClusterStays DEF Tried
<1>2. PatternsOK(s, log, table) => PatternsOK(s, log2, table)
  BY <1>1 DEF PatternsOK
<1>3. SiblingsOK(s, log, table) => SiblingsOK(s, log2, table)
  BY <1>1 DEF SiblingsOK
<1>4. StrategiesOK(s, log, table) => StrategiesOK(s, log2, table)
  BY <1>1 DEF StrategiesOK
<1> QED BY <1>2, <1>3, <1>4 DEF MineOK, StageOK

\* No list loses an event.
Grown(table, later) ==
  \A i \in DOMAIN table :
    /\ i \in DOMAIN later /\ later[i].object = table[i].object
    /\ \A e : Contains(table[i].support, e) => Contains(later[i].support, e)
    /\ \A e : Contains(table[i].contra, e) => Contains(later[i].contra, e)

\* From one place to the next: calls are only made, objects only met.
Onward(s, t, table, later) ==
  /\ t.seen = s.seen
  /\ t.pc = s.pc \/ {s.pc, t.pc} \subseteq After("strategies")
  /\ t.pc = "patterns" => t.events = s.events /\ s.known \cup s.touched \subseteq t.known \cup t.touched
  /\ Grown(table, later)
  /\ \A call \in s.calls : Pending(t, later, call)
  /\ \A o \in Outcomes : HasRow(later, o) =>
       HasRow(table, o) \/ (s.pc = "patterns" /\ o \in t.touched)

LEMMA PendingOn ==
  ASSUME NEW s, NEW t, NEW table, NEW later, Grown(table, later),
         \A call \in s.calls : Pending(t, later, call), NEW call, Pending(s, table, call)
  PROVE  Pending(t, later, call)
<1>1. Took(table, call) => Took(later, call)
  BY DEF Grown, Took
<1> QED BY <1>1 DEF Pending

LEMMA StageOnward ==
  ASSUME NEW s, NEW t, NEW log, NEW table, NEW later, StageOK(s, log, table),
         Onward(s, t, table, later), s.pc \in Miners \cup Promotion
  PROVE  StageOK(t, log, later)
<1>0. /\ Clustered(t, log) = Clustered(s, log) /\ Tried(t, log) = Tried(s, log)
      /\ Grown(table, later) /\ \A call \in s.calls : Pending(t, later, call)
  BY DEF Onward, Clustered, Tried, SeenEvents
<1>1. \A call : Pending(s, table, call) => Pending(t, later, call)
  BY <1>0, PendingOn
<1>2. \A call : Took(table, call) => Took(later, call)
  BY <1>0 DEF Grown, Took
<1>3. ASSUME t.pc = "patterns" PROVE PatternsOK(t, log, later)
  <2>1. s.pc = "patterns"
    BY <1>3 DEF Onward, After, Promotion, Deciding
  <2>2. PatternsOK(s, log, table)
    BY <2>1 DEF StageOK
  <2>3. t.events = s.events /\ s.known \cup s.touched \subseteq t.known \cup t.touched
    BY <1>3 DEF Onward
  <2>4. \A o \in Outcomes : HasRow(later, o) => o \in t.known \cup t.touched
    BY <2>2, <2>3 DEF Onward, PatternsOK
  <2> QED BY <1>0, <1>1, <2>2, <2>3, <2>4 DEF PatternsOK
<1>4. ASSUME t.pc \in After("siblings") PROVE SiblingsOK(t, log, later)
  <2>1. s.pc \in After("siblings") /\ s.pc # "patterns"
    BY <1>4 DEF Onward, After, Promotion, Deciding
  <2>2. SiblingsOK(s, log, table)
    BY <2>1 DEF StageOK
  <2>3. \A o \in Outcomes : HasRow(later, o) => HasRow(table, o)
    BY <2>1 DEF Onward
  <2> QED BY <1>0, <1>1, <1>2, <2>2, <2>3 DEF SiblingsOK
<1>5. ASSUME t.pc \in After("strategies") PROVE StrategiesOK(t, log, later)
  <2>1. s.pc \in After("strategies")
    BY <1>5 DEF Onward
  <2>2. StrategiesOK(s, log, table)
    BY <2>1 DEF StageOK
  <2> QED BY <1>0, <1>1, <2>2 DEF StrategiesOK
<1> QED BY <1>3, <1>4, <1>5 DEF StageOK

LEMMA GrownSelf ==
  ASSUME NEW table
  PROVE  Grown(table, table)
BY DEF Grown

\* A call whose event the row holds was taken, and on its own side.
LEMMA CountedTook ==
  ASSUME NEW log, NEW table, NEW base, TablesOK(log, table, base), NEW i \in DOMAIN table,
         NEW call, Apt(log, call), table[i].object = call.object,
         Counted(table[i], call.event)
  PROVE  Took(table, call)
<1>1. Sided(log, table[i])
  BY DEF TablesOK
<1>2. Contains(table[i].support, call.event) \/ Contains(table[i].contra, call.event)
  BY <1>1, CountedIs DEF Sided, Lists
<1>3. Contains(table[i].support, call.event) => call.event \in ForIds(log, call.object)
  BY <1>1 DEF Sided, Lists, Contains
<1>4. ForIds(log, call.object) \cap AgainstIds(log, call.object) = {}
  BY SidesApart
<1>5. Contains(table[i].support, call.event) => ~call.against
  BY <1>3, <1>4 DEF Apt
<1> QED BY <1>2, <1>5 DEF Took

\* A step of its own that carries a miner onward.
LEMMA CarriedOn ==
  ASSUME TypeOK, Places, MineInv, NEW p \in Processes, proc[p].pc \in Miners \cup Promotion,
         proc'[p].clean => proc[p].clean,
         proc[p].clean => Onward(proc[p], proc'[p], learned, learned') /\ HeldIsRow(proc'[p], learned')
  PROVE  MineOK(proc'[p], ledger, learned')
<1> SUFFICES ASSUME proc'[p].clean
             PROVE  HeldIsRow(proc'[p], learned') /\ StageOK(proc'[p], ledger, learned')
  BY DEF MineOK
<1>1. StageOK(proc[p], ledger, learned)
  BY DEF MineInv, MineOK
<1> QED BY <1>1, StageOnward

\* Promotion changes no list.
LEMMA PromotedOn ==
  ASSUME TypeOK, Places, MineInv, NEW p \in Processes, proc[p].pc \in After("strategies"),
         proc[p].calls = {}, proc'[p].pc \in Promotion, proc'[p].seen = proc[p].seen,
         proc'[p].clean = proc[p].clean, proc'[p].call = NoCall,
         \A i \in DOMAIN learned :
           /\ learned'[i].object = learned[i].object /\ learned'[i].support = learned[i].support
           /\ learned'[i].contra = learned[i].contra,
         DOMAIN learned' = DOMAIN learned
  PROVE  MineOK(proc'[p], ledger, learned')
<1>1. Grown(learned, learned')
  BY DEF Grown
<1>2. \A o : HasRow(learned', o) => HasRow(learned, o)
  BY DEF HasRow
<1>3. proc'[p].pc \in After("strategies") /\ proc'[p].pc # "patterns"
  BY DEF After, Promotion, Deciding
<1>4. Onward(proc[p], proc'[p], learned, learned')
  BY <1>1, <1>2, <1>3 DEF Onward
<1>5. HeldIsRow(proc'[p], learned')
  BY DEF HeldIsRow
<1>6. proc[p].pc \in Miners \cup Promotion
  BY DEF After, Miners
<1> QED BY <1>4, <1>5, <1>6, CarriedOn

LEMMA MineReads ==
  ASSUME TypeOK, Places, MineInv, NEW p \in Processes, NEW call \in proc[p].calls, ObserveRead(p, call)
  PROVE  MineOK(proc'[p], ledger, learned')
<1> DEFINE s == proc[p]
           t == proc'[p]
<1>0. s \in Procs /\ TablesOK(ledger, learned, claims)
  BY HereFacts
<1>1. /\ learned' = learned /\ s.pc \in Miners
      /\ \/ /\ t = Observe(p, call)
            /\ \E i \in DOMAIN learned :
                 learned[i].object = call.object /\ Counted(learned[i], call.event)
         \/ /\ t = [s EXCEPT !.call = call, !.held = NoRow]
            /\ ~HasRow(learned, call.object)
         \/ \E i \in DOMAIN learned :
              /\ learned[i].object = call.object
              /\ t = [s EXCEPT !.call = call, !.held = learned[i]]
  BY HandReads DEF Quietly
<1>2. CASE /\ t = Observe(p, call)
           /\ \E i \in DOMAIN learned :
                learned[i].object = call.object /\ Counted(learned[i], call.event)
  <2>1. Took(learned, call)
    <3>1. PICK i \in DOMAIN learned :
            learned[i].object = call.object /\ Counted(learned[i], call.event)
      BY <1>2
    <3>2. Apt(ledger, call)
      BY HereFacts DEF CallsOK
    <3> QED BY <1>0, <3>1, <3>2, CountedTook
  <2>2. /\ t.pc = s.pc /\ t.events = s.events /\ t.known = s.known /\ s.touched \subseteq t.touched
        /\ t.seen = s.seen /\ t.clean = s.clean /\ t.calls = s.calls \ {call} /\ t.call = NoCall
    BY <1>2, ObserveFacts
  <2>3. \A c \in s.calls : Pending(t, learned, c)
    BY <2>1, <2>2 DEF Pending
  <2>4. Onward(s, t, learned, learned)
    BY <2>2, <2>3, GrownSelf DEF Onward
  <2>5. HeldIsRow(t, learned)
    BY <2>2 DEF HeldIsRow
  <2> QED BY <1>1, <2>2, <2>4, <2>5, CarriedOn
<1>3. ASSUME NEW held, t = [s EXCEPT !.call = call, !.held = held],
             IF held = NoRow THEN ~HasRow(learned, call.object) ELSE \E i \in DOMAIN learned : learned[i] = held
      PROVE  MineOK(proc'[p], ledger, learned')
  <2>1. /\ t.pc = s.pc /\ t.events = s.events /\ t.known = s.known /\ t.touched = s.touched
        /\ t.seen = s.seen /\ t.clean = s.clean /\ t.calls = s.calls /\ t.call = call /\ t.held = held
    BY <1>0, <1>3 DEF Procs
  <2>2. Onward(s, t, learned, learned)
    BY <2>1, GrownSelf DEF Onward, Pending
  <2>3. HeldIsRow(t, learned)
    BY <1>3, <2>1 DEF HeldIsRow
  <2> QED BY <1>1, <2>1, <2>2, <2>3, CarriedOn
<1>4. CASE /\ t = [s EXCEPT !.call = call, !.held = NoRow]
           /\ ~HasRow(learned, call.object)
  BY <1>3, <1>4
<1>5. CASE \E i \in DOMAIN learned :
             /\ learned[i].object = call.object
             /\ t = [s EXCEPT !.call = call, !.held = learned[i]]
  <2>1. PICK i \in DOMAIN learned : t = [s EXCEPT !.call = call, !.held = learned[i]]
    BY <1>5
  <2>2. learned[i] # NoRow
    BY HereFacts, CallIsReal
  <2> QED BY <1>3, <2>1, <2>2
<1> QED BY <1>1, <1>2, <1>4, <1>5

LEMMA ContainsMore ==
  ASSUME NEW s \in Seq(Nat), NEW e \in Nat
  PROVE  Contains(Append(s, e), e) /\ \A d : Contains(s, d) => Contains(Append(s, e), d)
<1> DEFINE t == Append(s, e)
<1>1. /\ Len(t) = Len(s) + 1 /\ t[Len(s) + 1] = e /\ \A k \in 1..Len(s) : t[k] = s[k]
      /\ Len(s) \in Nat
  OBVIOUS
<1> HIDE DEF t
<1>2. Contains(t, e)
  <2>1. Len(s) + 1 \in 1..Len(t)
    BY <1>1
  <2> QED BY <1>1, <2>1 DEF Contains
<1>3. ASSUME NEW d, Contains(s, d) PROVE Contains(t, d)
  <2>1. PICK k \in 1..Len(s) : s[k] = d
    BY <1>3 DEF Contains
  <2>2. k \in 1..Len(t) /\ t[k] = d
    BY <1>1, <2>1
  <2> QED BY <2>2 DEF Contains
<1> QED BY <1>2, <1>3 DEF t

LEMMA MineUpdates ==
  ASSUME TypeOK, Places, MineInv, NEW p \in Processes, ObserveUpdate(p)
  PROVE  MineOK(proc'[p], ledger, learned')
<1> DEFINE s == proc[p]
           t == proc'[p]
           call == s.call
           held == s.held
           e == call.event
           against == call.against
           i == RowOf(call.object)
<1>1. /\ s.pc \in Miners /\ call \in s.calls /\ held \in Rows /\ t = Observe(p, call)
      /\ i \in DOMAIN learned /\ learned[i].object = call.object
      /\ learned' = [learned EXCEPT ![i] = learned'[i]] /\ learned'[i].object = learned[i].object
      /\ learned'[i].support = IF against THEN held.support ELSE Append(held.support, e)
      /\ learned'[i].contra = IF against THEN Append(held.contra, e) ELSE held.contra
  BY UpdateMove
<1>2. s \in Procs /\ TablesOK(ledger, learned, claims) /\ held.object = call.object /\ call # NoCall
      /\ held # NoRow
  BY <1>1, HereFacts, CallIsReal DEF CallsOK
<1>3. /\ t.pc = s.pc /\ t.events = s.events /\ t.known = s.known /\ s.touched \subseteq t.touched
      /\ t.seen = s.seen /\ t.clean = s.clean /\ t.calls = s.calls \ {call} /\ t.call = NoCall
  BY <1>1, ObserveFacts
<1>4. e \in Nat /\ held.support \in Seq(Nat) /\ held.contra \in Seq(Nat) /\ against \in BOOLEAN
  <2>1. call \in Sightings
    BY <1>1, <1>2 DEF Procs
  <2> QED BY <1>1, <2>1 DEF Rows, Sightings
<1>5. HeldIsRow(t, learned')
  BY <1>3 DEF HeldIsRow
<1>6. ASSUME s.clean PROVE Onward(s, t, learned, learned')
  <2>1. HeldIsRow(s, learned)
    BY <1>1, <1>6 DEF MineInv, MineOK
  <2>2. learned[i] = held
    <3>1. PICK j \in DOMAIN learned : learned[j] = held
      BY <1>2, <2>1 DEF HeldIsRow
    <3>2. j = i
      BY <1>1, <1>2, <3>1 DEF TablesOK
    <3> QED BY <3>1, <3>2
  <2> HIDE DEF i, against, e, call, held, t
  <2>3. /\ \A d : Contains(held.support, d) => Contains(learned'[i].support, d)
        /\ \A d : Contains(held.contra, d) => Contains(learned'[i].contra, d)
        /\ Contains(IF against THEN learned'[i].contra ELSE learned'[i].support, e)
    BY <1>1, <1>4, ContainsMore
  <2>4. DOMAIN learned' = DOMAIN learned /\ \A j \in DOMAIN learned : j # i => learned'[j] = learned[j]
    BY <1>1
  <2>5. Grown(learned, learned')
    BY <1>1, <2>2, <2>3, <2>4 DEF Grown
  <2>6. Took(learned', call)
    BY <1>1, <2>3, <2>4 DEF Took, against, e
  <2>7. \A c \in s.calls : Pending(t, learned', c)
    BY <1>3, <2>6 DEF Pending
  <2>8. \A o : HasRow(learned', o) => HasRow(learned, o)
    BY <1>1, <2>4 DEF HasRow
  <2> QED BY <1>3, <2>5, <2>7, <2>8 DEF Onward
<1> QED BY <1>1, <1>3, <1>5, <1>6, CarriedOn

LEMMA MineInserts ==
  ASSUME TypeOK, Places, MineInv, NEW p \in Processes, ObserveInsert(p)
  PROVE  MineOK(proc'[p], ledger, learned')
<1> DEFINE s == proc[p]
           t == proc'[p]
           call == s.call
           new == FirstSighting(call.object, call.event, call.against)
<1>1. /\ s.pc \in Miners /\ call \in s.calls /\ t = Observe(p, call) /\ ~HasRow(learned, call.object)
      /\ learned' = Append(learned, new) /\ new.object = call.object
      /\ new.support = IF call.against THEN <<>> ELSE <<call.event>>
      /\ new.contra = IF call.against THEN <<call.event>> ELSE <<>>
  BY InsertMove
<1>2. learned \in Seq(Rows) /\ s \in Procs
  BY HereFacts
<1>3. /\ t.pc = s.pc /\ t.events = s.events /\ t.known = s.known /\ t.touched = s.touched \cup {call.object}
      /\ t.seen = s.seen /\ t.clean = s.clean /\ t.calls = s.calls \ {call} /\ t.call = NoCall
  BY <1>1, ObserveFacts
<1> HIDE DEF new, t
<1>4. /\ DOMAIN learned' = 1..Len(learned) + 1 /\ DOMAIN learned = 1..Len(learned)
      /\ \A j \in DOMAIN learned : learned'[j] = learned[j]
      /\ learned'[Len(learned) + 1] = new /\ Len(learned) \in Nat
  BY <1>1, <1>2
<1>5. HeldIsRow(t, learned')
  BY <1>3 DEF HeldIsRow
<1>6. Grown(learned, learned')
  BY <1>4 DEF Grown
<1>7. Took(learned', call)
  <2>1. Len(learned) + 1 \in DOMAIN learned'
    BY <1>4
  <2>2. Contains(IF call.against THEN new.contra ELSE new.support, call.event)
    BY <1>1 DEF Contains
  <2> QED BY <1>1, <1>4, <2>1, <2>2 DEF Took
<1>8. \A c \in s.calls : Pending(t, learned', c)
  BY <1>3, <1>7 DEF Pending
<1>9. ASSUME NEW o \in Outcomes, HasRow(learned', o)
      PROVE  HasRow(learned, o) \/ (s.pc = "patterns" /\ o \in t.touched)
  <2>1. HasRow(learned, o) \/ o = call.object
    BY <1>1, <1>4, <1>9 DEF HasRow
  <2>2. CASE o = call.object
    <3>1. o # Strategy
      BY DEF Outcomes, Strategy
    <3>2. s.pc = "patterns"
      BY <1>1, <2>2, <3>1, HereFacts DEF CallsOK, Miners
    <3> QED BY <1>3, <2>2, <3>2
  <2> QED BY <2>1, <2>2
<1>10. Onward(s, t, learned, learned')
  BY <1>3, <1>6, <1>8, <1>9 DEF Onward
<1> QED BY <1>1, <1>3, <1>5, <1>10, CarriedOn DEF t

LEMMA MinePatterns ==
  ASSUME TypeOK, Places, NEW p \in Processes, StartPatterns(p)
  PROVE  MineOK(proc'[p], ledger, learned')
<1> DEFINE t == proc'[p]
<1>1. /\ learned' = learned /\ proc[p].pc = "start"
      /\ t = [proc[p] EXCEPT !.pc = "patterns", !.events = PatternEvents,
                !.calls = Supporting(PatternEvents), !.known = KnownPatterns,
                !.seen = Len(ledger), !.clean = TRUE]
  BY PatternsMove DEF Quietly
<1>2. proc[p] \in Procs /\ proc[p].call = NoCall
  BY <1>1, HereFacts, HandsFree DEF Miners
<1>3. /\ t.pc = "patterns" /\ t.events = PatternEvents /\ t.calls = Supporting(PatternEvents)
      /\ t.known = KnownPatterns /\ t.seen = Len(ledger) /\ t.call = NoCall
  BY <1>1, <1>2 DEF Procs
<1> HIDE DEF t
<1>4. Clustered(t, ledger) = PatternEvents
  <2>1. SeenEvents(t, ledger) = Ids(MinedKinds)
    BY <1>3 DEF SeenEvents, Ids, IdsOfKind, TypeOK
  <2> QED BY <2>1 DEF Clustered, PatternEvents
<1>5. \A e \in PatternEvents : Pending(t, learned, Sighting(ledger[e].result, e, FALSE))
  BY <1>3 DEF Pending, Supporting
<1>6. \A o \in Outcomes : HasRow(learned, o) => o \in t.known
  BY <1>3, RowOfIs DEF KnownPatterns, TypeOK
<1>7. PatternsOK(t, ledger, learned)
  BY <1>3, <1>4, <1>5, <1>6 DEF PatternsOK
<1>8. HeldIsRow(t, learned)
  BY <1>3 DEF HeldIsRow
<1>9. StageOK(t, ledger, learned)
  BY <1>3, <1>7 DEF StageOK, After, Promotion, Deciding
<1> QED BY <1>1, <1>8, <1>9 DEF MineOK, t

LEMMA MineSiblings ==
  ASSUME TypeOK, Places, MineInv, NEW p \in Processes, StartSiblings(p)
  PROVE  MineOK(proc'[p], ledger, learned')
<1> DEFINE s == proc[p]
           t == proc'[p]
           met == s.known \cup s.touched
<1>1. /\ learned' = learned /\ s.pc = "patterns" /\ s.calls = {}
      /\ t = [s EXCEPT !.pc = "siblings", !.calls = Contradicting(s.events, met)]
  BY SiblingsMove DEF Quietly
<1>2. /\ s \in Procs /\ s.call = NoCall /\ TablesOK(ledger, learned, claims)
      /\ s.pc = "patterns" => \A e \in s.events : ledger[e].kind \in MinedKinds
  BY <1>1, HereFacts, HandsFree DEF CallsOK
<1>3. /\ t.pc = "siblings" /\ t.calls = Contradicting(s.events, met) /\ t.seen = s.seen
      /\ t.clean = s.clean /\ t.call = NoCall
  BY <1>1, <1>2 DEF Procs
<1> HIDE DEF t, met
<1>4. Clustered(t, ledger) = Clustered(s, ledger)
  BY <1>3 DEF Clustered, SeenEvents
<1>5. ASSUME t.clean PROVE SiblingsOK(t, ledger, learned)
  <2>1. PatternsOK(s, ledger, learned)
    BY <1>1, <1>3, <1>5 DEF MineInv, MineOK, StageOK, Miners
  <2>2. ASSUME NEW e \in Clustered(s, ledger)
        PROVE  Took(learned, Sighting(ledger[e].result, e, FALSE))
    BY <1>1, <2>1, <2>2 DEF PatternsOK, Pending
  <2>3. ASSUME NEW e \in Clustered(s, ledger), NEW o \in Outcomes \ {ledger[e].result}, HasRow(learned, o)
        PROVE  Pending(t, learned, Sighting(o, e, TRUE))
    <3> DEFINE call == Sighting(o, e, TRUE)
    <3>1. o \in met /\ e \in s.events /\ e \in DOMAIN ledger /\ ledger[e].kind \in MinedKinds
      <4>1. o \in met
        BY <2>1, <2>3 DEF PatternsOK, met
      <4>2. e \in s.events
        BY <2>1 DEF PatternsOK
      <4>3. e \in DOMAIN ledger
        BY <4>2, HereFacts DEF PlaceOK
      <4> QED BY <1>1, <1>2, <4>1, <4>2, <4>3
    <3>2. o # Strategy
      BY DEF Outcomes, Strategy
    <3>3. call.object = o /\ call.event = e /\ call.against = TRUE
      BY DEF Sighting
    <3>4. Apt(ledger, call)
      <4>1. e \in AgainstIds(ledger, o)
        BY <3>1, <3>2 DEF AgainstIds
      <4> QED BY <3>3, <4>1 DEF Apt
    <3>5. RowOf(o) \in DOMAIN learned /\ learned[RowOf(o)].object = o
      BY <2>3, RowOfIs DEF TypeOK
    <3>6. CASE Counted(learned[RowOf(o)], e)
      <4>1. Took(learned, call)
        BY <1>2, <3>3, <3>4, <3>5, <3>6, CountedTook
      <4> QED BY <4>1 DEF Pending
    <3>7. CASE ~Counted(learned[RowOf(o)], e)
      <4>1. call \in [object : met, event : s.events, against : {TRUE}]
        BY <3>1 DEF Sighting
      <4>2. call \in Contradicting(s.events, met)
        BY <3>3, <3>7, <4>1 DEF Contradicting
      <4> QED BY <1>3, <4>2 DEF Pending
    <3> QED BY <3>6, <3>7
  <2> QED BY <1>4, <2>2, <2>3 DEF SiblingsOK
<1>6. HeldIsRow(t, learned)
  BY <1>3 DEF HeldIsRow
<1>7. t.clean => StageOK(t, ledger, learned)
  BY <1>3, <1>5 DEF StageOK, After, Promotion, Deciding
<1> QED BY <1>1, <1>6, <1>7 DEF MineOK, t

LEMMA MineStrategies ==
  ASSUME TypeOK, Places, MineInv, NEW p \in Processes, StartStrategies(p)
  PROVE  MineOK(proc'[p], ledger, learned')
<1> DEFINE s == proc[p]
           t == proc'[p]
<1>1. /\ learned' = learned /\ s.pc = "siblings" /\ s.calls = {}
      /\ t = [s EXCEPT !.pc = "strategies", !.events = {}, !.calls = StrategySightings,
                !.spent = Spent(p), !.known = {}, !.touched = {}]
  BY StrategiesMove DEF Quietly
<1>2. s \in Procs /\ s.call = NoCall /\ s.seen \in Nat /\ s.seen <= Len(ledger) /\ ledger \in Seq(Events)
  BY <1>1, HereFacts, HandsFree DEF PlaceOK, Procs
<1>3. /\ t.pc = "strategies" /\ t.calls = StrategySightings /\ t.seen = s.seen
      /\ t.clean = s.clean /\ t.call = NoCall
  BY <1>1, <1>2 DEF Procs
<1> HIDE DEF t
<1>4. Clustered(t, ledger) = Clustered(s, ledger) /\ Tried(t, ledger) = Tried(s, ledger)
  BY <1>3 DEF Clustered, SeenEvents, Tried
<1>5. ASSUME t.clean PROVE SiblingsOK(t, ledger, learned)
  <2>1. SiblingsOK(s, ledger, learned)
    BY <1>1, <1>3, <1>5 DEF MineInv, MineOK, StageOK, Miners, After
  <2> QED BY <1>1, <1>4, <2>1 DEF SiblingsOK, Pending
<1>6. StrategiesOK(t, ledger, learned)
  <2> SUFFICES ASSUME NEW e \in Tried(s, ledger)
               PROVE  Sighting(Strategy, e, ledger[e].result = "failure") \in StrategySightings
    BY <1>3, <1>4 DEF StrategiesOK, Pending
  <2>1. e \in 1..s.seen /\ ledger[e].kind = "experience" /\ ledger[e].result # "unknown"
    BY DEF Tried, Clustered, SeenEvents
  <2>2. e \in DOMAIN ledger
    BY <1>2, <2>1
  <2>3. e \in Ids({"experience"})
    BY <2>1, <2>2 DEF Ids, IdsOfKind
  <2> QED BY <2>1, <2>3 DEF StrategySightings
<1>7. HeldIsRow(t, learned)
  BY <1>3 DEF HeldIsRow
<1>8. t.clean => StageOK(t, ledger, learned)
  BY <1>3, <1>5, <1>6 DEF StageOK
<1> QED BY <1>1, <1>7, <1>8 DEF MineOK, t

LEMMA MinePromotes ==
  ASSUME TypeOK, Places, MineInv, NEW p \in Processes, Promote(p)
  PROVE  MineOK(proc'[p], ledger, learned')
<1> DEFINE s == proc[p]
           t == proc'[p]
<1>0. s \in Procs /\ learned \in Seq(Rows)
  BY HereFacts
<1>i. s.pc \in Promotion => s.calls = {} /\ s.call = NoCall /\ s.pc \in After("strategies")
  BY HandsFree DEF Promotion, Deciding, Miners, After
<1>1. CASE StartPromotion(p)
  <2>1. /\ learned' = learned /\ s.pc = "strategies" /\ s.calls = {}
        /\ t = [s EXCEPT !.pc = "promote", !.rows = learned, !.at = Len(learned),
                         !.spent = Spent(p), !.touched = {}]
    BY <1>1, PromotionMove DEF Quietly
  <2>2. s.call = NoCall
    BY <2>1, HandsFree
  <2>3. t.pc = "promote" /\ t.seen = s.seen /\ t.clean = s.clean /\ t.call = NoCall
    BY <1>0, <2>1, <2>2 DEF Procs
  <2> QED BY <2>1, <2>3, PromotedOn DEF Promotion, After
<1>2. CASE EndPass(p)
  BY <1>2, EndMove, IdleFacts, NotMining
<1>3. CASE LinkClaim(p)
  <2> DEFINE at == s.at
             claim == s.claim
  <2>1. /\ s.pc = "link" /\ at \in DOMAIN learned /\ t = NextRow(p, 1)
        /\ learned' = [learned EXCEPT ![at].claim = claim]
    BY <1>3, LinkMove
  <2>2. s.pc \in Deciding
    BY <2>1 DEF Deciding
  <2>3. s.pc \in Promotion /\ at # 0
    BY <2>2, DecidedFacts
  <2>4. t.pc = "promote" /\ Same(s, t)
    BY <2>1, <2>3, NextFacts
  <2> HIDE DEF at, claim, t
  <2>5. /\ DOMAIN learned' = DOMAIN learned
        /\ \A i \in DOMAIN learned :
             /\ learned'[i].object = learned[i].object /\ learned'[i].support = learned[i].support
             /\ learned'[i].contra = learned[i].contra
    <3> DEFINE row == [learned[at] EXCEPT !.claim = claim]
    <3>1. learned[at] \in Rows /\ learned' = [learned EXCEPT ![at] = row]
      BY <1>0, <2>1
    <3>2. /\ row.object = learned[at].object /\ row.support = learned[at].support
          /\ row.contra = learned[at].contra
      BY <3>1 DEF Rows
    <3> HIDE DEF row
    <3> QED BY <2>1, <3>1, <3>2
  <2>6. /\ t.pc \in Promotion /\ t.seen = s.seen /\ t.clean = s.clean /\ t.call = NoCall
    BY <1>i, <2>3, <2>4 DEF Same, Promotion
  <2> QED BY <1>i, <2>3, <2>5, <2>6, PromotedOn DEF t
<1>4. ASSUME learned' = learned, s.pc \in Promotion, t.pc \in Promotion, Same(s, t)
      PROVE  MineOK(t, ledger, learned')
  BY <1>i, <1>4, PromotedOn DEF Same
<1>5. CASE DecideAffirm(p) \/ DecideDemote(p) \/ ProposeClaim(p)
  <2>1. /\ learned' = learned /\ s.pc = "promote" /\ t.pc \in {"affirm", "demote", "link"} /\ Same(s, t)
    BY <1>5, AffirmDecision, DemoteDecision, ProposeMove DEF Quietly
  <2> QED BY <1>4, <2>1 DEF Promotion, Deciding
<1>6. ASSUME learned' = learned, s.pc \in Promotion, s.at # 0, t = NextRow(p, 0) \/ t = NextRow(p, 1)
      PROVE  MineOK(t, ledger, learned')
  <2>1. t.pc = "promote" /\ Same(s, t)
    BY <1>6, NextFacts
  <2> QED BY <1>4, <1>6, <2>1 DEF Promotion
<1>7. CASE LeaveAlone(p)
  BY <1>6, <1>7, LeaveMove DEF Quietly, Promotion
<1>8. CASE AffirmClaim(p) \/ DemoteClaim(p)
  <2>1. learned' = learned /\ s.pc \in {"affirming", "demoting"} /\ t = NextRow(p, 1)
    BY <1>8, AffirmMove, DemoteMove
  <2>2. s.pc \in Promotion /\ s.at # 0
    BY <2>1, DecidedFacts DEF Deciding
  <2> QED BY <1>6, <2>1, <2>2
<1>9. CASE ReadClaim(p)
  <2>1. /\ learned' = learned /\ s.pc \in {"affirm", "demote"}
        /\ \/ t = NextRow(p, 0)
           \/ t.pc = (IF s.pc = "affirm" THEN "affirming" ELSE "demoting") /\ Same(s, t)
    BY <1>9, ReadClaimMove DEF Quietly
  <2>2. s.pc \in Promotion /\ s.at # 0
    BY <2>1, DecidedFacts DEF Deciding
  <2>3. CASE t = NextRow(p, 0)
    BY <1>6, <2>1, <2>2, <2>3
  <2>4. CASE t.pc = (IF s.pc = "affirm" THEN "affirming" ELSE "demoting") /\ Same(s, t)
    BY <1>4, <2>1, <2>2, <2>4 DEF Promotion, Deciding
  <2> QED BY <2>1, <2>3, <2>4
<1> QED BY <1>1, <1>2, <1>3, <1>5, <1>7, <1>8, <1>9 DEF Promote

LEMMA MineSelf ==
  ASSUME TypeOK, Places, MineInv, NEW p \in Processes, Pass(p) \/ Crash(p)
  PROVE  MineOK(proc'[p], ledger, learned')
<1>1. CASE Begin(p) \/ AskDue(p) \/ Crash(p)
  BY <1>1, BeginMove, AskMove, CrashMove, IdleFacts, NotMining
<1>2. CASE \E event \in proc[p].events : ClaimEvent(p, event)
  <2>1. \E event : proc'[p] = [proc[p] EXCEPT !.events = @ \ {event}] /\ proc[p].pc = "claim"
    BY <1>2, ClaimMove
  <2>2. proc'[p].pc = "claim"
    BY <2>1, HereFacts DEF Procs
  <2> QED BY <2>2, NotMining DEF Miners, Promotion, Deciding
<1>3. CASE MinerFails(p)
  <2>1. /\ proc[p].pc \in Miners /\ proc[p].call # NoCall /\ proc[p].held = NoRow
        /\ HasRow(learned, proc[p].call.object)
        /\ proc'[p] = [proc[p] EXCEPT !.pc = IF @ = "patterns" THEN "siblings" ELSE @,
                         !.calls = {}, !.call = NoCall, !.held = NoRow, !.touched = {}]
    BY <1>3, FailMove
  <2>2. ~proc[p].clean
    BY <2>1 DEF MineInv, MineOK, HeldIsRow
  <2>3. ~proc'[p].clean
    BY <2>1, <2>2, HereFacts DEF Procs
  <2> QED BY <2>3, NotMining
<1> QED BY <1>1, <1>2, <1>3, MinePatterns, MineReads, MineUpdates, MineInserts, MineSiblings,
           MineStrategies, MinePromotes DEF Pass, Mine

LEMMA MineStep ==
  ASSUME TypeOK, Places, MineInv, [Next]_vars
  PROVE  MineInv'
<1>0. \A p \in Processes : proc[p].seen \in Nat /\ proc[p].seen <= Len(ledger)
  BY HereFacts DEF PlaceOK, Procs
<1>1. CASE \E p \in Processes : Pass(p) \/ Crash(p)
  <2>1. PICK p \in Processes : Pass(p) \/ Crash(p)
    BY <1>1
  <2>2. Quietly(p) \/ Loudly(p)
    BY <2>1, PassDisturbs
  <2>3. ledger' = ledger
    BY <2>1 DEF Pass, Mine, Promote, Begin, ClaimEvent, AskDue, StartPatterns, ObserveRead, ObserveUpdate,
       ObserveInsert, MinerFails, StartSiblings, StartStrategies, StartPromotion, DecideAffirm,
       DecideDemote, LeaveAlone, ProposeClaim, LinkClaim, ReadClaim, AffirmClaim, DemoteClaim,
       EndPass, Crash
  <2>4. MineOK(proc'[p], ledger', learned')
    BY <2>1, <2>3, MineSelf
  <2>5. ASSUME NEW q \in Processes, q # p PROVE MineOK(proc'[q], ledger', learned')
    <3>1. CASE Quietly(p)
      BY <2>3, <2>5, <3>1 DEF Quietly, MineInv
    <3>2. CASE Loudly(p)
      BY <2>5, <3>2, NotMining DEF Loudly
    <3> QED BY <2>2, <3>1, <3>2
  <2> QED BY <2>4, <2>5 DEF MineInv
<1>2. CASE (\E event \in Arrivals : Record(event)) \/ Caller \/ CrashCaller
  <2>1. (QuietOutside \/ LoudOutside) /\ LogKept(ledger, ledger')
    BY <1>2, OutsideDisturbs, OutsideIsLawful DEF LawfulOutside
  <2>2. ASSUME NEW p \in Processes PROVE MineOK(proc'[p], ledger', learned')
    <3>1. CASE QuietOutside
      <4>1. MineOK(proc[p], ledger, learned) /\ ledger \in Seq(Events)
        BY OutsideFacts DEF MineInv
      <4>2. MineOK(proc[p], ledger', learned)
        BY <1>0, <2>1, <4>1, MineLater
      <4> QED BY <3>1, <4>2 DEF QuietOutside
    <3>2. CASE LoudOutside
      BY <3>2, NotMining DEF LoudOutside
    <3> QED BY <2>1, <3>1, <3>2
  <2> QED BY <2>2 DEF MineInv
<1>3. CASE UNCHANGED vars
  BY <1>3 DEF vars, MineInv
<1> QED BY <1>1, <1>2, <1>3 DEF Next

LEMMA MinedIsComplete ==
  ASSUME TypeOK, Places, MineInv, TallyInv
  PROVE  MiningComplete
<1> SUFFICES ASSUME NEW p \in Processes, proc[p].pc = "promote", proc[p].clean,
                    Cardinality(SeenEvents(proc[p], ledger)) > 1,
                    NEW e \in SeenEvents(proc[p], ledger)
             PROVE  /\ RowOf(ledger[e].result) # 0
                    /\ \A i \in DOMAIN learned :
                         (learned[i].object = Strategy =>
                            ledger[e].kind = "experience" /\ ledger[e].result # "unknown") =>
                           \/ Contains(Side(learned[i], e), e)
                           \/ /\ Contains(corrections, <<learned[i].object, e>>)
                              /\ Contains(learned[i].contra, e)
  BY DEF MiningComplete, SeenEvents
<1> DEFINE s == proc[p]
<1>0. s \in Procs /\ learned \in Seq(Rows) /\ ledger \in Seq(Events) /\ s.seen <= Len(ledger)
      /\ TablesOK(ledger, learned, claims)
  BY HereFacts DEF PlaceOK
<1>1. s.calls = {}
  BY HandsFree DEF Miners
<1>2. Clustered(s, ledger) = SeenEvents(s, ledger)
  <2>1. IsFiniteSet(1..s.seen) /\ SeenEvents(s, ledger) \subseteq 1..s.seen
    <3>1. s.seen \in Int
      BY <1>0 DEF Procs
    <3> QED BY <3>1, FS_Interval DEF SeenEvents
  <2>2. Cardinality(SeenEvents(s, ledger)) \in Nat
    BY <2>1, FS_Subset, FS_CardinalityType
  <2>3. ~(Cardinality(SeenEvents(s, ledger)) < 2)
    BY <2>2
  <2> QED BY <2>3 DEF Clustered
<1>3. SiblingsOK(s, ledger, learned) /\ StrategiesOK(s, ledger, learned)
  BY DEF MineInv, MineOK, StageOK, After, Promotion
<1>4. Took(learned, Sighting(ledger[e].result, e, FALSE))
  BY <1>2, <1>3 DEF SiblingsOK
<1>5. \A i, j \in DOMAIN learned : learned[i].object = learned[j].object => i = j
  BY <1>0 DEF TablesOK
<1>6. e \in DOMAIN ledger /\ ledger[e].result \in Outcomes
  <2>1. e \in 1..s.seen /\ s.seen \in Nat
    BY <1>0 DEF SeenEvents, Procs
  <2>2. e \in DOMAIN ledger
    BY <1>0, <2>1
  <2>3. ledger[e] \in Events
    BY <1>0, <2>2
  <2> QED BY <2>2, <2>3 DEF Events
<1>7. HasRow(learned, ledger[e].result)
  BY <1>4 DEF Took, Sighting, HasRow
<1>8. RowOf(ledger[e].result) # 0
  BY <1>0, <1>7, RowOfIs
<1>9. ASSUME NEW i \in DOMAIN learned,
             learned[i].object = Strategy =>
               ledger[e].kind = "experience" /\ ledger[e].result # "unknown"
      PROVE  \/ Contains(Side(learned[i], e), e)
             \/ /\ Contains(corrections, <<learned[i].object, e>>)
                /\ Contains(learned[i].contra, e)
  <2>0. learned[i].object \in Objects
    <3>1. learned[i] \in Rows
      BY <1>0
    <3> QED BY <3>1 DEF Rows
  <2>1. CASE learned[i].object = Strategy
    <3>1. e \in Tried(s, ledger)
      BY <1>2, <1>9, <2>1 DEF Tried
    <3>2. Took(learned, Sighting(Strategy, e, ledger[e].result = "failure"))
      BY <1>1, <1>3, <3>1 DEF StrategiesOK, Pending
    <3>3. \/ Contains(learned[i].contra, e)
          \/ ledger[e].result # "failure" /\ Contains(learned[i].support, e)
      BY <1>5, <2>1, <3>2 DEF Took, Sighting
    <3>4. Side(learned[i], e) = IF ledger[e].result = "failure" THEN learned[i].contra ELSE learned[i].support
      BY <1>6, <1>9, <2>1 DEF Side, Outcomes, Strategy
    <3>5. e \in AgainstIds(ledger, Strategy) => ledger[e].result = "failure"
      BY <3>1 DEF AgainstIds, Tried, Clustered, SeenEvents, MinedKinds
    <3> QED BY <1>6, <2>1, <3>3, <3>4, <3>5, HeldAgainst
  <2>2. CASE learned[i].object = ledger[e].result
    <3>1. Contains(learned[i].contra, e) \/ Contains(learned[i].support, e)
      BY <1>4, <1>5, <2>2 DEF Took, Sighting
    <3>2. e \notin AgainstIds(ledger, learned[i].object)
      BY <1>6, <2>2 DEF AgainstIds, SeenEvents, MinedKinds, Outcomes, Strategy
    <3> QED BY <1>6, <2>2, <3>1, <3>2, HeldAgainst DEF Side
  <2>3. CASE learned[i].object # Strategy /\ learned[i].object # ledger[e].result
    <3>1. learned[i].object \in Outcomes \ {ledger[e].result} /\ HasRow(learned, learned[i].object)
      BY <2>0, <2>3 DEF Objects, HasRow
    <3>2. Took(learned, Sighting(learned[i].object, e, TRUE))
      BY <1>1, <1>2, <1>3, <3>1 DEF SiblingsOK, Pending
    <3>3. Contains(learned[i].contra, e)
      BY <1>5, <3>2 DEF Took, Sighting
    <3>4. learned[i].object # "none"
      BY <2>0, NoneIsNoObject
    <3> QED BY <2>3, <3>3, <3>4 DEF Side
  <2> QED BY <2>1, <2>2, <2>3
<1> QED BY <1>8, <1>9

\* After mining that no other writer fell into, each event that was seen speaks
\* for the pattern of its own outcome and against that of every other, and an
\* experience for or against the strategy (learned.py:331), whatever passes,
\* crashes, corrections and decays came before: a call that observe refuses
\* because the event was counted was counted on the right side, or held against
\* the object by a correction.
THEOREM MiningIsComplete == Spec => []MiningComplete
<1>1. Init => MineInv
  BY IdleFacts, NotMining DEF Init, MineInv
<1>2. TypeOK /\ Places /\ MineInv /\ [Next]_vars => MineInv'
  BY MineStep
<1>3. Init => TallyInv
  BY NothingTallied
<1>4. TypeOK /\ Places /\ TallyInv /\ [Next]_vars => TallyInv'
  BY TallyStep
<1> QED BY <1>1, <1>2, <1>3, <1>4, MinedIsComplete, TypeCorrect, PTL DEF Spec

-----------------------------------------------------------------------------
(* One process: which claims nothing controls. *)

Orphaned(s, table, base) ==
  {i \in DOMAIN base :
     /\ base[i].origin \in Objects /\ base[i].status = "active"
     /\ \A j \in DOMAIN table : table[j].claim # i
     /\ ~(s.pc = "link" /\ s.claim = i)}

\* The links of the rows still to go over are as they were read, and what a row
\* links to is no longer believed when another claim is proposed for it.
LinksRead(s, table) ==
  s.pc \in Promotion => \A i \in 1..s.at : table[i].claim = s.rows[i].claim

Unlinked(s, base) == s.pc = "link" => ~BelievedIn(base, s.rows[s.at])

Accounted(s, table, base, left) ==
  /\ Cardinality(Orphaned(s, table, base)) <= MaxCrashes - left.crashes
  /\ LinksRead(s, table) /\ Unlinked(s, base)

LinksKept(table, later) ==
  \A j \in DOMAIN table : j \in DOMAIN later /\ later[j].claim = table[j].claim

\* No claim about an object is new or believed again.
NoneRaised(base, later) ==
  \A i \in DOMAIN later : later[i].origin \in Objects /\ later[i].status = "active" =>
    i \in DOMAIN base /\ base[i].origin \in Objects /\ base[i].status = "active"

LEMMA FewerOrphans ==
  ASSUME NEW base \in Seq(Claims), NEW S, NEW T, T \subseteq S, S \subseteq DOMAIN base
  PROVE  Cardinality(T) <= Cardinality(S) /\ Cardinality(T) \in Nat /\ Cardinality(S) \in Nat
<1> DEFINE n == Len(base)
<1>1. DOMAIN base = 1..n /\ n \in Nat
  OBVIOUS
<1> HIDE DEF n
<1>2. IsFiniteSet(1..n)
  BY <1>1, FS_Interval
<1>3. IsFiniteSet(S)
  BY <1>1, <1>2, FS_Subset
<1> QED BY <1>3, FS_Subset, FS_CardinalityType

LEMMA NoMoreOrphans ==
  ASSUME NEW base \in Seq(Claims), NEW s, NEW t, NEW table, NEW later, NEW base2, NEW left, NEW left2,
         Accounted(s, table, base, left), Orphaned(t, later, base2) \subseteq Orphaned(s, table, base),
         left.crashes \in 0..MaxCrashes, left2.crashes \in 0..MaxCrashes, left2.crashes <= left.crashes
  PROVE  Cardinality(Orphaned(t, later, base2)) <= MaxCrashes - left2.crashes
<1> DEFINE S == Orphaned(s, table, base)
           T == Orphaned(t, later, base2)
<1>1. Cardinality(T) <= Cardinality(S) /\ Cardinality(T) \in Nat /\ Cardinality(S) \in Nat
  <2>1. S \subseteq DOMAIN base
    BY DEF Orphaned
  <2> QED BY <2>1, FewerOrphans
<1>2. Cardinality(S) <= MaxCrashes - left.crashes
  BY DEF Accounted
<1>3. MaxCrashes \in Nat
  BY LearningAssumption
<1> DEFINE a == left.crashes
           b == left2.crashes
<1>4. a \in Nat /\ b \in Nat /\ b <= a
  BY <1>3
<1> HIDE DEF S, T, a, b
<1>5. Cardinality(T) <= MaxCrashes - b
  BY <1>1, <1>2, <1>3, <1>4 DEF a
<1> QED BY <1>5 DEF b, T

\* A step that is not a link, and leaves what links there are.
LEMMA OrphansKept ==
  ASSUME NEW base \in Seq(Claims), NEW s, NEW t, NEW table, NEW later, NEW base2, NEW left, NEW left2,
         Accounted(s, table, base, left),
         left.crashes \in 0..MaxCrashes, left2.crashes \in 0..MaxCrashes, left2.crashes <= left.crashes,
         LinksKept(table, later), NoneRaised(base, base2),
         s.pc = "link" => t.pc = "link" /\ t.claim = s.claim,
         LinksRead(t, later), Unlinked(t, base2)
  PROVE  Accounted(t, later, base2, left2)
<1>1. Orphaned(t, later, base2) \subseteq Orphaned(s, table, base)
  BY DEF Orphaned, LinksKept, NoneRaised
<1> QED BY <1>1, NoMoreOrphans DEF Accounted

LEMMA LinksOnward ==
  ASSUME NEW s, NEW t, NEW table \in Seq(Rows), NEW later, LinksRead(s, table), LinksKept(table, later),
         s.at <= Len(table), s.at \in Nat, t.at \in Nat,
         t.pc \in Promotion => s.pc \in Promotion /\ t.rows = s.rows /\ t.at <= s.at
  PROVE  LinksRead(t, later)
<1> SUFFICES ASSUME t.pc \in Promotion, NEW i \in 1..t.at PROVE later[i].claim = t.rows[i].claim
  BY DEF LinksRead
<1>1. i \in 1..s.at /\ i \in DOMAIN table
  OBVIOUS
<1> QED BY <1>1 DEF LinksRead, LinksKept

LEMMA RaisedSelf ==
  ASSUME NEW base, NEW table
  PROVE  NoneRaised(base, base) /\ LinksKept(table, table)
BY DEF NoneRaised, LinksKept

LEMMA NotRaised ==
  ASSUME NEW base \in Seq(Claims)
  PROVE  /\ \A sources \in SUBSET Nat, origin \in {ByEvent, ByCaller} :
              NoneRaised(base, Propose(base, origin, sources))
         /\ \A id \in DOMAIN base, sources \in SUBSET Nat : NoneRaised(base, WriteSources(base, id, sources))
         /\ \A id \in DOMAIN base, status \in ClaimStatus \ {"active"} :
              NoneRaised(base, WriteStatus(base, id, status))
         /\ \A id \in DOMAIN base, new \in DOMAIN base, status \in ClaimStatus \ {"active"} :
              NoneRaised(base, Replace(base, id, status, new))
<1>1. ASSUME NEW sources \in SUBSET Nat, NEW origin \in {ByEvent, ByCaller}
      PROVE  NoneRaised(base, Propose(base, origin, sources))
  <2> DEFINE later == Propose(base, origin, sources)
  <2>1. origin \in Origins /\ origin \notin Objects
    BY DEF Origins, Objects, Outcomes, Strategy, ByEvent, ByCaller
  <2>2. /\ DOMAIN later = 1..Len(base) + 1 /\ \A i \in DOMAIN base : later[i] = base[i]
        /\ later[Len(base) + 1].origin = origin
    BY <2>1, ClaimAdded
  <2> HIDE DEF later
  <2>3. \A i \in DOMAIN later : i \in DOMAIN base \/ i = Len(base) + 1
    BY <2>2
  <2>4. NoneRaised(base, later)
    BY <2>1, <2>2, <2>3 DEF NoneRaised
  <2> QED BY <2>4 DEF later
<1>2. ASSUME NEW id \in DOMAIN base, NEW sources \in SUBSET Nat
      PROVE  NoneRaised(base, WriteSources(base, id, sources))
  <2> DEFINE later == WriteSources(base, id, sources)
  <2>1. /\ DOMAIN later = DOMAIN base
        /\ \A i \in DOMAIN base : later[i].status = base[i].status /\ later[i].origin = base[i].origin
    BY SourcesWritten
  <2> HIDE DEF later
  <2>2. NoneRaised(base, later)
    BY <2>1 DEF NoneRaised
  <2> QED BY <2>2 DEF later
<1>3. ASSUME NEW id \in DOMAIN base, NEW status \in ClaimStatus \ {"active"}
      PROVE  NoneRaised(base, WriteStatus(base, id, status))
  <2> DEFINE later == WriteStatus(base, id, status)
  <2>1. /\ DOMAIN later = DOMAIN base /\ later[id].status = status
        /\ \A i \in DOMAIN base : /\ later[i].origin = base[i].origin
                                  /\ i # id => later[i] = base[i]
    BY StatusWritten
  <2> HIDE DEF later
  <2>2. NoneRaised(base, later)
    BY <2>1 DEF NoneRaised
  <2> QED BY <2>2 DEF later
<1>4. ASSUME NEW id \in DOMAIN base, NEW new \in DOMAIN base, NEW status \in ClaimStatus \ {"active"}
      PROVE  NoneRaised(base, Replace(base, id, status, new))
  <2> DEFINE later == Replace(base, id, status, new)
  <2>1. Successor(base, later, id, status, new)
    BY Replaced
  <2> HIDE DEF later
  <2>2. NoneRaised(base, later)
    BY <2>1 DEF NoneRaised, Successor
  <2> QED BY <2>2 DEF later
<1> QED BY <1>1, <1>2, <1>3, <1>4

\* What a claim of a row is does not depend on claims made since.
LEMMA BelievedLater ==
  ASSUME NEW base \in Seq(Claims), NEW later, NEW row, LinkOK(row, base), BelievedIn(later, row),
         NoneRaised(base, later), BaseKept(base, later), row.object \in Objects
  PROVE  BelievedIn(base, row)
<1>1. row.claim # 0 /\ later[row.claim].status = "active" /\ row.claim \in DOMAIN base
      /\ base[row.claim].origin = row.object
  BY DEF BelievedIn, LinkOK
<1>2. row.claim \in DOMAIN later /\ later[row.claim].origin = row.object
  BY <1>1 DEF BaseKept, NoneRaised
<1> QED BY <1>1, <1>2 DEF NoneRaised, BelievedIn

LEMMA ReadsWhere ==
  ASSUME TypeOK, Places, NEW p \in Processes, \E call \in proc[p].calls : ObserveRead(p, call)
  PROVE  proc'[p].pc = proc[p].pc /\ proc[p].pc \in Miners
<1> DEFINE s == proc[p]
           t == proc'[p]
<1>0. s \in Procs
  BY HereFacts
<1>1. PICK call \in s.calls : ObserveRead(p, call)
  OBVIOUS
<1>2. /\ s.pc \in Miners
      /\ \/ /\ t = Observe(p, call)
            /\ \E i \in DOMAIN learned :
                 learned[i].object = call.object /\ Counted(learned[i], call.event)
         \/ /\ t = [s EXCEPT !.call = call, !.held = NoRow]
            /\ ~HasRow(learned, call.object)
         \/ \E i \in DOMAIN learned :
              /\ learned[i].object = call.object
              /\ t = [s EXCEPT !.call = call, !.held = learned[i]]
  BY <1>1, HandReads
<1>3. ASSUME t = Observe(p, call) PROVE t.pc = s.pc
  BY <1>3, ObserveFacts
<1>4. ASSUME t = [s EXCEPT !.call = call, !.held = NoRow] PROVE t.pc = s.pc
  BY <1>0, <1>4 DEF Procs
<1>5. ASSUME NEW i \in DOMAIN learned, t = [s EXCEPT !.call = call, !.held = learned[i]]
      PROVE  t.pc = s.pc
  BY <1>0, <1>5 DEF Procs
<1> QED BY <1>2, <1>3, <1>4, <1>5

LEMMA OrphansProposed ==
  ASSUME TypeOK, Places, NEW p \in Processes, Accounted(proc[p], learned, claims, budget), ProposeClaim(p)
  PROVE  Accounted(proc'[p], learned', claims', budget')
<1> DEFINE s == proc[p]
           t == proc'[p]
           row == CurrentRow(p)
           object == row.object
           sources == ToSet(row.support)
<1>1. /\ learned' = learned /\ budget' = budget /\ s.pc = "promote" /\ s.at # 0 /\ ~Believed(row)
      /\ claims' = Propose(claims, object, sources) /\ object \in Origins /\ sources \in SUBSET Nat
      /\ t.pc = "link" /\ t.claim = Len(claims) + 1 /\ t.at = s.at /\ Same(s, t)
  BY ProposeMove
<1>2. row = s.rows[s.at] /\ LinkOK(row, claims)
  BY <1>1, PromotingFacts DEF Promotion
<1>3. /\ s \in Procs /\ learned \in Seq(Rows) /\ claims \in Seq(Claims) /\ s.at \in Nat /\ t.rows = s.rows
      /\ budget.crashes \in 0..MaxCrashes
  <2>1. s \in Procs /\ budget \in [passes : Nat, commands : Nat, crashes : 0..MaxCrashes]
    BY HereFacts
  <2> QED BY <1>1, <2>1, HereFacts DEF Procs, Same
<1> HIDE DEF row, object, sources
<1>4. /\ DOMAIN claims' = 1..Len(claims) + 1 /\ \A i \in DOMAIN claims : claims'[i] = claims[i]
  BY <1>1, <1>3, ClaimAdded
<1>5. Orphaned(t, learned', claims') \subseteq Orphaned(s, learned, claims)
  <2> SUFFICES ASSUME NEW i \in Orphaned(t, learned', claims') PROVE i \in Orphaned(s, learned, claims)
    OBVIOUS
  <2>1. /\ i \in DOMAIN claims' /\ i # Len(claims) + 1 /\ claims'[i].origin \in Objects
        /\ claims'[i].status = "active" /\ \A j \in DOMAIN learned : learned[j].claim # i
    BY <1>1 DEF Orphaned
  <2>2. i \in DOMAIN claims
    BY <1>3, <1>4, <2>1
  <2> QED BY <1>1, <1>4, <2>1, <2>2 DEF Orphaned
<1>6. LinksRead(t, learned')
  BY <1>1, <1>3 DEF Accounted, LinksRead, Promotion
<1>7. Unlinked(t, claims')
  <2>1. ~BelievedIn(claims, row)
    BY <1>1 DEF Believed, BelievedIn
  <2>2. row.claim # 0 => claims'[row.claim] = claims[row.claim]
    BY <1>2, <1>4 DEF LinkOK
  <2> QED BY <1>1, <1>2, <1>3, <2>1, <2>2 DEF Unlinked, BelievedIn
<1>8. budget'.crashes <= budget.crashes
  BY <1>1, <1>3
<1> QED BY <1>1, <1>3, <1>5, <1>6, <1>7, <1>8, NoMoreOrphans DEF Accounted

LEMMA OrphansLinked ==
  ASSUME TypeOK, Places, NEW p \in Processes, Accounted(proc[p], learned, claims, budget), LinkClaim(p)
  PROVE  Accounted(proc'[p], learned', claims', budget')
<1> DEFINE s == proc[p]
           t == proc'[p]
           at == s.at
           claim == s.claim
<1>1. /\ claims' = claims /\ budget' = budget /\ s.pc = "link" /\ at \in DOMAIN learned
      /\ learned' = [learned EXCEPT ![at].claim = claim] /\ t = NextRow(p, 1)
  BY LinkMove
<1>2. s.pc \in Promotion /\ at # 0 /\ CurrentRow(p) = s.rows[at]
  <2>1. s.pc \in Deciding
    BY <1>1 DEF Deciding
  <2> QED BY <2>1, DecidedFacts
<1>3. /\ learned \in Seq(Rows) /\ claims \in Seq(Claims) /\ at \in Nat
      /\ budget.crashes \in 0..MaxCrashes
  <2>1. s \in Procs /\ budget \in [passes : Nat, commands : Nat, crashes : 0..MaxCrashes]
    BY HereFacts
  <2> QED BY <2>1, HereFacts DEF Procs
<1>4. t.pc = "promote" /\ t.at = at - 1 /\ t.rows = s.rows
  BY <1>1, <1>2, NextFacts DEF Same
<1>5. /\ \A i \in 1..at : learned[i].claim = s.rows[i].claim
      /\ ~BelievedIn(claims, s.rows[at])
  BY <1>1, <1>2 DEF Accounted, LinksRead, Unlinked
<1> HIDE DEF at, claim, t
<1>6. /\ DOMAIN learned' = DOMAIN learned /\ learned'[at].claim = claim
      /\ \A i \in DOMAIN learned : i # at => learned'[i] = learned[i]
  <2> DEFINE row == [learned[at] EXCEPT !.claim = claim]
  <2>1. learned[at] \in Rows /\ learned' = [learned EXCEPT ![at] = row]
    BY <1>1, <1>3
  <2>2. row.claim = claim
    BY <2>1 DEF Rows
  <2> HIDE DEF row
  <2> QED BY <1>1, <2>1, <2>2
<1>7. Orphaned(t, learned', claims') \subseteq Orphaned(s, learned, claims)
  <2> SUFFICES ASSUME NEW i \in Orphaned(t, learned', claims') PROVE i \in Orphaned(s, learned, claims)
    OBVIOUS
  <2>1. /\ i \in DOMAIN claims /\ claims[i].origin \in Objects /\ claims[i].status = "active"
        /\ \A j \in DOMAIN learned : learned'[j].claim # i
    BY <1>1, <1>6 DEF Orphaned
  <2>2. i # claim
    BY <1>1, <1>6, <2>1
  <2>3. learned[at].claim # i
    <3>1. at \in 1..at
      BY <1>2, <1>3
    <3>2. learned[at].claim = s.rows[at].claim
      BY <1>5, <3>1
    <3>3. i # 0
      BY <1>3, <2>1
    <3> QED BY <1>5, <2>1, <3>2, <3>3 DEF BelievedIn
  <2>4. \A j \in DOMAIN learned : learned[j].claim # i
    BY <1>6, <2>1, <2>3
  <2> QED BY <2>1, <2>2, <2>4 DEF Orphaned, claim
<1>8. LinksRead(t, learned')
  <2> SUFFICES ASSUME NEW i \in 1..t.at PROVE learned'[i].claim = t.rows[i].claim
    BY DEF LinksRead
  <2>1. i \in 1..at /\ i # at /\ i \in DOMAIN learned
    BY <1>1, <1>3, <1>4
  <2> QED BY <1>4, <1>5, <1>6, <2>1
<1>9. Unlinked(t, claims')
  BY <1>4 DEF Unlinked
<1>10. budget'.crashes <= budget.crashes
  BY <1>1, <1>3
<1>11. Accounted(t, learned', claims', budget')
  BY <1>1, <1>3, <1>7, <1>8, <1>9, <1>10, NoMoreOrphans DEF Accounted
<1> QED BY <1>11 DEF t

\* A crash between the two commits leaves the claim that was to be linked.
LEMMA OrphansCrashed ==
  ASSUME TypeOK, Places, NEW p \in Processes, Accounted(proc[p], learned, claims, budget), Crash(p)
  PROVE  Accounted(proc'[p], learned', claims', budget')
<1> DEFINE s == proc[p]
           t == proc'[p]
           S == Orphaned(s, learned, claims)
           T == Orphaned(t, learned, claims)
           a == budget.crashes
           b == budget'.crashes
<1>1. learned' = learned /\ claims' = claims /\ t.pc = "idle" /\ a > 0 /\ b = a - 1
  BY CrashMove, IdleFacts DEF Quietly
<1>2. claims \in Seq(Claims) /\ a \in 0..MaxCrashes
  <2>1. budget \in [passes : Nat, commands : Nat, crashes : 0..MaxCrashes]
    BY HereFacts
  <2> QED BY <2>1, HereFacts
<1>3. T \subseteq S \cup {s.claim} /\ S \subseteq DOMAIN claims
  BY DEF Orphaned
<1>4. IsFiniteSet(S) /\ Cardinality(S) \in Nat
  <2> DEFINE n == Len(claims)
  <2>1. DOMAIN claims = 1..n /\ n \in Nat
    BY <1>2
  <2> HIDE DEF n, S
  <2>2. IsFiniteSet(1..n)
    BY <2>1, FS_Interval
  <2> QED BY <1>3, <2>1, <2>2, FS_Subset, FS_CardinalityType
<1>5. Cardinality(T) \in Nat /\ Cardinality(T) <= Cardinality(S) + 1
  <2> DEFINE U == S \cup {s.claim}
  <2>1. /\ IsFiniteSet(U)
        /\ Cardinality(U) = IF s.claim \in S THEN Cardinality(S) ELSE Cardinality(S) + 1
    BY <1>4, FS_AddElement
  <2>2. IsFiniteSet(T) /\ Cardinality(T) <= Cardinality(U)
    BY <1>3, <2>1, FS_Subset
  <2>3. Cardinality(T) \in Nat /\ Cardinality(U) \in Nat
    BY <2>1, <2>2, FS_CardinalityType
  <2> HIDE DEF S, T, U
  <2> QED BY <1>4, <2>1, <2>2, <2>3
<1>6. Cardinality(S) <= MaxCrashes - a /\ MaxCrashes \in Nat
  BY LearningAssumption DEF Accounted
<1> HIDE DEF S, T, a, b
<1>7. Cardinality(T) <= MaxCrashes - b
  BY <1>1, <1>2, <1>4, <1>5, <1>6
<1>8. LinksRead(t, learned') /\ Unlinked(t, claims')
  BY <1>1 DEF LinksRead, Unlinked, Promotion, Deciding
<1> QED BY <1>1, <1>7, <1>8 DEF Accounted, T, b

LEMMA OrphansSelf ==
  ASSUME TypeOK, Places, NEW p \in Processes, Accounted(proc[p], learned, claims, budget),
         Pass(p) \/ Crash(p)
  PROVE  Accounted(proc'[p], learned', claims', budget')
<1> DEFINE s == proc[p]
           t == proc'[p]
<1>0. /\ s \in Procs /\ learned \in Seq(Rows) /\ claims \in Seq(Claims) /\ budget.crashes \in 0..MaxCrashes
      /\ LinksRead(s, learned) /\ Unlinked(s, claims) /\ t \in Procs
      /\ budget'.crashes \in 0..MaxCrashes /\ s.at \in Nat /\ t.at \in Nat /\ s.at <= Len(learned)
  <2>1. t \in Procs /\ budget' \in [passes : Nat, commands : Nat, crashes : 0..MaxCrashes]
    BY PassIsLawful DEF Lawful
  <2>2. s \in Procs /\ RowsOK(s, ledger, learned, claims) /\ learned \in Seq(Rows)
        /\ budget \in [passes : Nat, commands : Nat, crashes : 0..MaxCrashes] /\ claims \in Seq(Claims)
    BY HereFacts
  <2>3. s.at \in Nat /\ t.at \in Nat /\ s.rows \in Seq(Rows)
    BY <2>1, <2>2 DEF Procs
  <2>4. s.at <= Len(learned)
    BY <2>2, <2>3 DEF RowsOK
  <2> QED BY <2>1, <2>2, <2>3, <2>4 DEF Accounted
<1>1. ASSUME t.pc \notin Promotion, s.pc # "link", NoneRaised(claims, claims'), LinksKept(learned, learned'),
             budget'.crashes = budget.crashes
      PROVE  Accounted(t, learned', claims', budget')
  <2>1. LinksRead(t, learned') /\ Unlinked(t, claims')
    BY <1>1 DEF LinksRead, Unlinked, Promotion, Deciding
  <2>2. budget'.crashes <= budget.crashes
    BY <1>0, <1>1
  <2> QED BY <1>0, <1>1, <2>1, <2>2, OrphansKept
<1>2. ASSUME s.pc \in Promotion \ {"link"}, t.pc \in Promotion \ {"link"}, NoneRaised(claims, claims'),
             learned' = learned, budget' = budget, t.rows = s.rows, t.at <= s.at
      PROVE  Accounted(t, learned', claims', budget')
  <2>1. LinksRead(t, learned')
    BY <1>0, <1>2, RaisedSelf, LinksOnward
  <2>2. Unlinked(t, claims')
    BY <1>2 DEF Unlinked
  <2>3. budget'.crashes <= budget.crashes
    BY <1>0, <1>2
  <2> QED BY <1>0, <1>2, <2>1, <2>2, <2>3, RaisedSelf, OrphansKept
<1>3. CASE Begin(p) \/ AskDue(p) \/ EndPass(p)
  <2>1. t.pc \in {"idle", "claim", "start"} /\ learned' = learned /\ claims' = claims
    BY <1>3, BeginMove, AskMove, EndMove, IdleFacts DEF Quietly
  <2>2. s.pc # "link" /\ budget'.crashes = budget.crashes
    BY <1>0, <1>3, HereFacts DEF Begin, AskDue, EndPass
  <2> QED BY <1>1, <2>1, <2>2, RaisedSelf DEF Promotion, Deciding
<1>4. CASE \E event \in s.events : ClaimEvent(p, event)
  <2>1. PICK event \in s.events : ClaimEvent(p, event)
    BY <1>4
  <2>2. /\ learned' = learned /\ budget' = budget /\ s.pc = "claim" /\ t = [s EXCEPT !.events = @ \ {event}]
        /\ claims' = Propose(claims, ByEvent, {event}) /\ {event} \in SUBSET Nat
    BY <2>1, ClaimMove
  <2>3. t.pc = "claim"
    BY <1>0, <2>2 DEF Procs
  <2>4. NoneRaised(claims, claims')
    <3> DEFINE sources == {event}
    <3>1. sources \in SUBSET Nat /\ claims' = Propose(claims, ByEvent, sources)
      BY <2>2
    <3> HIDE DEF sources
    <3> QED BY <1>0, <3>1, NotRaised
  <2> QED BY <1>1, <2>2, <2>3, <2>4, RaisedSelf DEF Promotion, Deciding
<1>5. CASE StartPatterns(p) \/ MinerFails(p) \/ StartSiblings(p) \/ StartStrategies(p)
           \/ \E call \in s.calls : ObserveRead(p, call)
  <2>1. learned' = learned /\ claims' = claims /\ budget' = budget /\ s.pc \in {"start"} \cup Miners
    BY <1>5, PatternsMove, FailMove, SiblingsMove, StrategiesMove, ReadMove DEF Quietly, Miners
  <2>2. t.pc \notin Promotion
    <3>1. CASE StartPatterns(p)
      BY <3>1, StageBegins DEF Promotion, Deciding
    <3>2. CASE MinerFails(p)
      <4>1. t.pc \in {"siblings", "strategies"}
        BY <3>2, StageBegins
      <4> QED BY <4>1 DEF Promotion, Deciding
    <3>3. CASE StartSiblings(p)
      BY <3>3, StageBegins DEF Promotion, Deciding
    <3>4. CASE StartStrategies(p)
      BY <3>4, StageBegins DEF Promotion, Deciding
    <3>5. CASE \E call \in s.calls : ObserveRead(p, call)
      <4>1. t.pc = s.pc /\ s.pc \in Miners
        BY <3>5, ReadsWhere
      <4> QED BY <4>1 DEF Miners, Promotion, Deciding
    <3> QED BY <1>5, <3>1, <3>2, <3>3, <3>4, <3>5
  <2> QED BY <1>1, <2>1, <2>2, RaisedSelf DEF Miners
<1>6. CASE ObserveUpdate(p)
  <2> DEFINE i == RowOf(s.call.object)
  <2>1. /\ claims' = claims /\ budget' = budget /\ s.pc \in Miners /\ s.call \in s.calls
        /\ t = Observe(p, s.call) /\ i \in DOMAIN learned
        /\ learned' = [learned EXCEPT ![i] = learned'[i]] /\ learned'[i].claim = learned[i].claim
    BY <1>6, UpdateMove
  <2>2. t.pc = s.pc
    BY <2>1, ObserveFacts
  <2> HIDE DEF i
  <2>3. LinksKept(learned, learned')
    BY <2>1 DEF LinksKept
  <2> QED BY <1>1, <2>1, <2>2, <2>3, RaisedSelf DEF Miners, Promotion, Deciding
<1>7. CASE ObserveInsert(p)
  <2> DEFINE new == FirstSighting(s.call.object, s.call.event, s.call.against)
  <2>1. /\ claims' = claims /\ budget' = budget /\ s.pc \in Miners /\ s.call \in s.calls
        /\ t = Observe(p, s.call) /\ learned' = Append(learned, new)
    BY <1>7, InsertMove
  <2>2. t.pc = s.pc
    BY <2>1, ObserveFacts
  <2> HIDE DEF new
  <2>3. LinksKept(learned, learned')
    BY <1>0, <2>1 DEF LinksKept
  <2> QED BY <1>1, <2>1, <2>2, <2>3, RaisedSelf DEF Miners, Promotion, Deciding
<1>8. CASE StartPromotion(p)
  <2>1. /\ learned' = learned /\ claims' = claims /\ budget' = budget /\ s.pc = "strategies"
        /\ t = [s EXCEPT !.pc = "promote", !.rows = learned, !.at = Len(learned),
                         !.spent = Spent(p), !.touched = {}]
    BY <1>8, PromotionMove DEF Quietly
  <2>2. t.pc = "promote" /\ t.rows = learned
    BY <1>0, <2>1 DEF Procs
  <2>3. LinksRead(t, learned') /\ Unlinked(t, claims')
    BY <2>1, <2>2 DEF LinksRead, Unlinked
  <2>4. budget'.crashes <= budget.crashes
    BY <1>0, <2>1
  <2> QED BY <1>0, <2>1, <2>3, <2>4, RaisedSelf, OrphansKept
<1>9. CASE DecideAffirm(p) \/ DecideDemote(p)
  <2>1. /\ learned' = learned /\ claims' = claims /\ budget' = budget /\ s.pc = "promote"
        /\ t.pc \in {"affirm", "demote"} /\ t.at = s.at /\ Same(s, t)
    BY <1>9, AffirmDecision, DemoteDecision DEF Quietly
  <2>2. t.rows = s.rows /\ t.at <= s.at
    BY <1>0, <2>1 DEF Same
  <2> QED BY <1>2, <2>1, <2>2, RaisedSelf DEF Promotion, Deciding
<1>10. ASSUME learned' = learned, NoneRaised(claims, claims'), budget' = budget, s.pc \in Promotion \ {"link"},
              s.at # 0, t = NextRow(p, 0) \/ t = NextRow(p, 1)
       PROVE  Accounted(t, learned', claims', budget')
  <2>1. t.pc = "promote" /\ t.at = s.at - 1 /\ Same(s, t)
    BY <1>10, NextFacts
  <2>2. t.rows = s.rows /\ t.at <= s.at
    BY <1>0, <2>1 DEF Same
  <2> QED BY <1>2, <1>10, <2>1, <2>2 DEF Promotion
<1>11. CASE LeaveAlone(p)
  BY <1>10, <1>11, LeaveMove, RaisedSelf DEF Quietly, Promotion
<1>12. CASE ReadClaim(p)
  <2>1. /\ learned' = learned /\ claims' = claims /\ budget' = budget /\ s.pc \in {"affirm", "demote"}
        /\ \/ t = NextRow(p, 0)
           \/ t.pc = (IF s.pc = "affirm" THEN "affirming" ELSE "demoting") /\ t.at = s.at /\ Same(s, t)
    BY <1>12, ReadClaimMove DEF Quietly
  <2>2. s.pc \in Promotion \ {"link"} /\ s.at # 0
    BY <2>1, DecidedFacts DEF Deciding
  <2>3. CASE t = NextRow(p, 0)
    BY <1>10, <2>1, <2>2, <2>3, RaisedSelf
  <2>4. CASE t.pc = (IF s.pc = "affirm" THEN "affirming" ELSE "demoting") /\ t.at = s.at /\ Same(s, t)
    <3>1. t.rows = s.rows /\ t.at <= s.at /\ t.pc \in Promotion \ {"link"}
      BY <1>0, <2>1, <2>4 DEF Same, Promotion, Deciding
    <3> QED BY <1>2, <2>1, <2>2, <3>1, RaisedSelf
  <2> QED BY <2>1, <2>3, <2>4
<1>13. CASE AffirmClaim(p)
  <2> DEFINE id == s.claim
             sources == s.sources
  <2>1. /\ learned' = learned /\ budget' = budget /\ s.pc = "affirming" /\ t = NextRow(p, 1)
        /\ id \in DOMAIN claims /\ sources \in SUBSET Nat /\ claims' = WriteSources(claims, id, sources)
    BY <1>13, AffirmMove
  <2>2. s.pc \in Promotion \ {"link"} /\ s.at # 0
    BY <2>1, DecidedFacts DEF Deciding
  <2> HIDE DEF id, sources
  <2>3. NoneRaised(claims, claims')
    BY <1>0, <2>1, NotRaised
  <2> QED BY <1>10, <2>1, <2>2, <2>3
<1>14. CASE DemoteClaim(p)
  <2> DEFINE id == s.claim
             status == "uncertain"
  <2>1. /\ learned' = learned /\ budget' = budget /\ s.pc = "demoting" /\ t = NextRow(p, 1)
        /\ id \in DOMAIN claims /\ claims' = WriteStatus(claims, id, status)
        /\ status \in ClaimStatus \ {"active"}
    BY <1>14, DemoteMove DEF ClaimStatus
  <2>2. s.pc \in Promotion \ {"link"} /\ s.at # 0
    BY <2>1, DecidedFacts DEF Deciding
  <2> HIDE DEF id, status
  <2>3. NoneRaised(claims, claims')
    BY <1>0, <2>1, NotRaised
  <2> QED BY <1>10, <2>1, <2>2, <2>3
<1>15. CASE ProposeClaim(p)
  BY <1>0, <1>15, OrphansProposed
<1>16. CASE LinkClaim(p)
  BY <1>0, <1>16, OrphansLinked
<1>17. CASE Crash(p)
  BY <1>0, <1>17, OrphansCrashed
<1> QED BY <1>3, <1>4, <1>5, <1>6, <1>7, <1>8, <1>9, <1>11, <1>12, <1>13, <1>14, <1>15, <1>16, <1>17
    DEF Pass, Mine, Promote

LEMMA OrphansOutside ==
  ASSUME TypeOK, Places, NEW p \in Processes, Accounted(proc[p], learned, claims, budget),
         (\E event \in Arrivals : Record(event)) \/ Caller \/ CrashCaller
  PROVE  Accounted(proc'[p], learned', claims', budget')
<1> DEFINE s == proc[p]
           t == proc'[p]
<1>0. /\ s \in Procs /\ learned \in Seq(Rows) /\ claims \in Seq(Claims) /\ budget.crashes \in 0..MaxCrashes
      /\ LinksRead(s, learned) /\ Unlinked(s, claims) /\ budget'.crashes \in 0..MaxCrashes
      /\ BaseKept(claims, claims') /\ s.at \in Nat /\ s.at <= Len(learned) /\ op \in Ops
  <2>1. budget' \in [passes : Nat, commands : Nat, crashes : 0..MaxCrashes] /\ BaseKept(claims, claims')
    BY OutsideIsLawful DEF LawfulOutside
  <2>2. s \in Procs /\ RowsOK(s, ledger, learned, claims) /\ learned \in Seq(Rows) /\ claims \in Seq(Claims)
        /\ budget \in [passes : Nat, commands : Nat, crashes : 0..MaxCrashes]
    BY HereFacts
  <2>3. s.at \in Nat /\ s.rows \in Seq(Rows)
    BY <2>2 DEF Procs
  <2>4. s.at <= Len(learned)
    BY <2>2, <2>3 DEF RowsOK
  <2> QED BY <2>1, <2>2, <2>3, <2>4, OutsideFacts DEF Accounted
<1>1. t.pc = s.pc /\ t.rows = s.rows /\ t.at = s.at /\ t.claim = s.claim
  <2>1. t \in {s, [s EXCEPT !.clean = FALSE]}
    BY OutsideIsLawful DEF LawfulOutside, Dirtied
  <2>2. CASE t = [s EXCEPT !.clean = FALSE]
    BY <1>0, <2>2 DEF Procs
  <2> QED BY <2>1, <2>2
<1>2. ASSUME NoneRaised(claims, claims'), LinksKept(learned, learned'), budget'.crashes <= budget.crashes
      PROVE  Accounted(t, learned', claims', budget')
  <2>1. LinksRead(t, learned')
    <3>1. t.at <= s.at /\ t.at \in Nat
      BY <1>0, <1>1
    <3> QED BY <1>0, <1>1, <1>2, <3>1, LinksOnward
  <2>2. Unlinked(t, claims')
    <3> SUFFICES ASSUME s.pc = "link", BelievedIn(claims', s.rows[s.at]) PROVE FALSE
      BY <1>1 DEF Unlinked
    <3>1. s.pc \in Promotion /\ s.at # 0
      <4>1. s.pc \in Deciding
        BY DEF Deciding
      <4> QED BY <4>1, DecidedFacts
    <3>2. s.rows[s.at] \in Rows /\ LinkOK(s.rows[s.at], claims)
      BY <3>1, PromotingFacts
    <3>3. s.rows[s.at].object \in Objects
      BY <3>2 DEF Rows
    <3>4. BelievedIn(claims, s.rows[s.at])
      BY <1>0, <1>2, <3>2, <3>3, BelievedLater
    <3> QED BY <1>0, <3>4 DEF Unlinked
  <2> QED BY <1>0, <1>1, <1>2, <2>1, <2>2, OrphansKept
<1>3. ASSUME QuietOutside, budget'.crashes <= budget.crashes
      PROVE  Accounted(t, learned', claims', budget')
  BY <1>2, <1>3, RaisedSelf DEF QuietOutside
<1>4. CASE (\E event \in Arrivals : Record(event)) \/ CrashCaller
  <2>1. QuietOutside /\ (budget' = budget \/ budget'.crashes = budget.crashes - 1)
    BY <1>4, RecordMove, CrashCallerMove
  <2>2. budget'.crashes <= budget.crashes
    BY <1>0, <2>1
  <2> QED BY <1>3, <2>1, <2>2
<1>5. CASE \E cmd \in Commands : \/ \E id \in DOMAIN claims : CommandClaim(cmd, id)
                                 \/ \E id \in DOMAIN learned, event \in {0} \cup DOMAIN ledger : CommandObject(cmd, id, event)
  <2>1. QuietOutside /\ budget'.crashes = budget.crashes
    BY <1>5, CommandClaimMove, CommandObjectMove
  <2>2. budget'.crashes <= budget.crashes
    BY <1>0, <2>1
  <2> QED BY <1>3, <2>1, <2>2
<1>6. CASE \E event \in DOMAIN ledger : ProposeInstead(event)
  <2>1. PICK event \in DOMAIN ledger : ProposeInstead(event)
    BY <1>6
  <2> DEFINE sources == {event}
  <2>2. /\ learned' = learned /\ budget' = budget /\ claims' = Propose(claims, ByCaller, sources)
        /\ sources \in SUBSET Nat
    BY <2>1, InsteadMove
  <2> HIDE DEF sources
  <2>3. NoneRaised(claims, claims')
    BY <1>0, <2>2, NotRaised
  <2>4. budget'.crashes <= budget.crashes
    BY <1>0, <2>2
  <2> QED BY <1>2, <2>2, <2>3, <2>4, RaisedSelf
<1>7. CASE SaveCommand
  <2> DEFINE id == op.id
             cmd == op.cmd
             new == op.new
  <2>1. /\ budget' = budget
        /\ \/ /\ claims' = claims /\ id \in DOMAIN learned
              /\ learned' = [learned EXCEPT ![id] = learned'[id]]
              /\ learned'[id].claim = learned[id].claim
           \/ /\ cmd \in Replacing /\ learned' = learned /\ id \in DOMAIN claims
              /\ new \in DOMAIN claims /\ claims' = Replace(claims, id, cmd, new)
           \/ /\ cmd \in ClaimStatus \ (Replacing \cup {"active"}) /\ learned' = learned
              /\ id \in DOMAIN claims /\ claims' = WriteStatus(claims, id, cmd)
    <3>1. budget' = budget
      BY <1>7, SaveMove
    <3>2. \/ /\ op.cmd \in ObjectCommands /\ claims' = claims /\ op.id \in DOMAIN learned
             /\ learned' = [learned EXCEPT ![op.id] = learned'[op.id]] /\ learned'[op.id] \in Rows
             /\ learned'[op.id].object = learned[op.id].object
             /\ learned'[op.id].claim = learned[op.id].claim
             /\ learned'[op.id].support = learned[op.id].support
             /\ \/ op.cmd = "correct" \/ Len(op.held.support) <= Len(learned[op.id].support)
                => Enough(learned'[op.id])
          \/ /\ op.cmd \in Replacing /\ learned' = learned /\ op.id \in DOMAIN claims
             /\ op.new \in DOMAIN claims /\ op.new # 0
             /\ claims' = Replace(claims, op.id, op.cmd, op.new)
          \/ /\ op.cmd \in ClaimStatus \ (Replacing \cup {"active"}) /\ learned' = learned
             /\ op.id \in DOMAIN claims
             /\ claims' = WriteStatus(claims, op.id, op.cmd)
      BY <1>7, SaveMove
    <3> QED BY <3>1, <3>2
  <2>2. Replacing \subseteq ClaimStatus \ {"active"}
    BY DEF Replacing, ClaimStatus
  <2> HIDE DEF id, cmd, new
  <2>3. NoneRaised(claims, claims') /\ LinksKept(learned, learned')
    <3>1. CASE /\ claims' = claims /\ id \in DOMAIN learned
               /\ learned' = [learned EXCEPT ![id] = learned'[id]]
               /\ learned'[id].claim = learned[id].claim
      <4>1. LinksKept(learned, learned')
        BY <3>1 DEF LinksKept
      <4> QED BY <3>1, <4>1, RaisedSelf
    <3>2. CASE /\ cmd \in Replacing /\ learned' = learned /\ id \in DOMAIN claims
               /\ new \in DOMAIN claims /\ claims' = Replace(claims, id, cmd, new)
      BY <1>0, <2>2, <3>2, NotRaised, RaisedSelf
    <3>3. CASE /\ cmd \in ClaimStatus \ (Replacing \cup {"active"}) /\ learned' = learned
               /\ id \in DOMAIN claims /\ claims' = WriteStatus(claims, id, cmd)
      BY <1>0, <3>3, NotRaised, RaisedSelf
    <3> QED BY <2>1, <3>1, <3>2, <3>3
  <2>4. budget'.crashes <= budget.crashes
    BY <1>0, <2>1
  <2> QED BY <1>2, <2>3, <2>4
<1> QED BY <1>4, <1>5, <1>6, <1>7 DEF Caller

LEMMA OrphansCounted ==
  ASSUME NEW p, Processes = {p}
  PROVE  /\ Init => Accounted(proc[p], learned, claims, budget)
         /\ TypeOK /\ Places /\ Accounted(proc[p], learned, claims, budget) /\ [Next]_vars =>
              Accounted(proc[p], learned, claims, budget)'
         /\ Accounted(proc[p], learned, claims, budget) => OrphansOnlyByCrash
<1>1. ASSUME Init PROVE Accounted(proc[p], learned, claims, budget)
  <2>1. claims = <<>> /\ learned = <<>> /\ proc[p] = Idle /\ budget.crashes = MaxCrashes
    BY <1>1 DEF Init
  <2>2. Orphaned(proc[p], learned, claims) = {}
    BY <2>1 DEF Orphaned
  <2>3. Cardinality(Orphaned(proc[p], learned, claims)) = 0 /\ MaxCrashes \in Nat
    BY <2>2, FS_EmptySet, LearningAssumption
  <2>4. Cardinality(Orphaned(proc[p], learned, claims)) <= MaxCrashes - budget.crashes
    BY <2>1, <2>3
  <2> QED BY <2>1, <2>4, IdleFacts DEF Accounted, LinksRead, Unlinked, Promotion, Deciding
<1>2. ASSUME TypeOK, Places, Accounted(proc[p], learned, claims, budget), [Next]_vars
      PROVE  Accounted(proc[p], learned, claims, budget)'
  <2>1. CASE \E q \in Processes : Pass(q) \/ Crash(q)
    <3>1. p \in Processes /\ (Pass(p) \/ Crash(p))
      BY <2>1
    <3> QED BY <1>2, <3>1, OrphansSelf
  <2>2. CASE (\E event \in Arrivals : Record(event)) \/ Caller \/ CrashCaller
    <3>1. p \in Processes
      OBVIOUS
    <3> QED BY <1>2, <2>2, <3>1, OrphansOutside
  <2>3. CASE UNCHANGED vars
    BY <1>2, <2>3 DEF vars, Accounted, Orphaned, LinksRead, Unlinked, BelievedIn
  <2> QED BY <1>2, <2>1, <2>2, <2>3 DEF Next
<1>3. ASSUME Accounted(proc[p], learned, claims, budget) PROVE OrphansOnlyByCrash
  <2>1. {i \in DOMAIN claims : Orphan(i)} = Orphaned(proc[p], learned, claims)
    BY DEF Orphan, Orphaned
  <2> QED BY <1>3, <2>1 DEF Accounted, OrphansOnlyByCrash
<1> QED BY <1>1, <1>2, <1>3

\* With one process, an object loses control of an active claim only when a
\* crash falls between the commit of the claim and that of the link
\* (consolidation.py:217-220), and once for each: what the row linked to before
\* is no longer active, whatever callers do meanwhile.
THEOREM OrphansNeedACrash ==
  ASSUME NEW p, Processes = {p}
  PROVE  Spec => []OrphansOnlyByCrash
<1> DEFINE Inv == Accounted(proc[p], learned, claims, budget)
<1>1. Init => Inv
  BY OrphansCounted
<1>2. TypeOK /\ Places /\ Inv /\ [Next]_vars => Inv'
  BY OrphansCounted
<1>3. Inv => OrphansOnlyByCrash
  BY OrphansCounted
<1> HIDE DEF Inv
<1> QED BY <1>1, <1>2, <1>3, TypeCorrect, PTL DEF Spec
=============================================================================
