--------------------------- MODULE KnowledgeStore ---------------------------
(***************************************************************************)
(* KnowledgeStore (knowledge.py): a table of claims, in id order, and what *)
(* each of its commits does to the table.                                  *)
(***************************************************************************)
EXTENDS Naturals, Sequences, FiniteSets

ClaimStatus == {"active", "uncertain", "contradicted", "outdated",
                "superseded", "rejected", "archived"}

\* propose.  `origin' is what the claim is about, `old' is supersedes_id, 0 for
\* none.
Propose(claims, origin, sources) ==
  Append(claims, [origin |-> origin, sources |-> sources, status |-> "active", old |-> 0])

\* The UPDATE of affirm, which writes back the sources that were read before.
WriteSources(claims, id, sources) == [claims EXCEPT ![id].sources = sources]

\* What reject, mark_uncertain, mark_outdated and archive, and supersede and
\* contradict, require of the claim they change to a status.
MayBecome(status, to) ==
  CASE to = "uncertain" -> status = "active"
    [] to = "archived"  -> status # "archived"
    [] OTHER            -> status \in {"active", "uncertain"}

WriteStatus(claims, id, status) == [claims EXCEPT ![id].status = status]

Replacing == {"superseded", "contradicted"}

\* The last commit of supersede and contradict.
Replace(claims, id, status, new) == [WriteStatus(claims, id, status) EXCEPT ![new].old = id]

\* covered_source_ids, over claims of every status.
CoveredSources(claims) == UNION {claims[i].sources : i \in DOMAIN claims}
=============================================================================
