---------------------------- MODULE LearnedStore ----------------------------
(***************************************************************************)
(* LearnedStore (learned.py): what an observation, a correction and a      *)
(* decay do to a learned object, whose columns are the evidence for and    *)
(* against it (event ids), the confidence, the status and the id of the    *)
(* knowledge claim it was promoted to.  Confidence is in ten-thousandths,  *)
(* to which the code rounds it.                                            *)
(***************************************************************************)
EXTENDS Integers, Sequences, FiniteSets, FiniteSetsExt, SequencesExt

CONSTANT MinSupport   \* MIN_SUPPORT

ASSUME MinSupportAssumption == MinSupport \in Nat \ {0}

PromoteConfidence == 6000

\* round(n / d, 4) for a quotient of ten-thousandths; no tie occurs for the
\* denominators below 64 that are used.
Rounded(n, d) == (2 * n + d) \div (2 * d)

Clamped(low, x, high) == Max({low, Min({x, high})})

\* compute_confidence(recent=True)
Confidence(support, contra) ==
  LET s == Len(support)
      c == Len(contra)
      evidence  == Rounded(4000 * (s - c), s + c + 4)
      diversity == Min({1000, 200 * Cardinality(ToSet(support) \cup ToSet(contra))})
  IN  Clamped(500, 5000 + evidence + diversity + 300, 9500)

StatusFor(support, contra, confidence) ==
  IF Len(contra) > Len(support) /\ Len(support) + Len(contra) >= 2 THEN "contradicted"
  ELSE IF Len(support) < MinSupport THEN "candidate"
  ELSE IF confidence < 4000 \/ 2 * Len(contra) >= Max({1, Len(support)}) THEN "uncertain"
  ELSE "established"

\* Mutant: evidence that was counted is counted again.
CountedNever(row, event) == FALSE

Counted(row, event) == Contains(row.support \o row.contra, event)

\* The row observe inserts at the first sighting, for or against.
FirstSighting(object, event, against) ==
  [object |-> object,
   support |-> IF against THEN <<>> ELSE <<event>>,
   contra |-> IF against THEN <<event>> ELSE <<>>,
   confidence |-> 5000, status |-> "candidate", claim |-> 0]

\* The UPDATEs of observe, apply_correction and apply_decay, over the row as
\* it is by now, from the row `held' that was read before: each writes columns
\* of its own.
Reassessed(row, support, contra) ==
  [row EXCEPT !.confidence = Confidence(support, contra),
              !.status = StatusFor(support, contra, Confidence(support, contra))]

Observed(row, held, event, against) ==
  LET support == IF against THEN held.support ELSE Append(held.support, event)
      contra  == IF against THEN Append(held.contra, event) ELSE held.contra
  IN  [Reassessed(row, support, contra) EXCEPT !.support = support, !.contra = contra]

Corrected(row, held, event) ==
  LET contra == Append(held.contra, event)
      next   == [Reassessed(row, held.support, contra) EXCEPT !.contra = contra]
  IN  IF next.status = "established" THEN [next EXCEPT !.status = "uncertain"] ELSE next

Decayed(row, held) ==
  LET confidence == Max({500, held.confidence - 1000})
  IN  [row EXCEPT !.confidence = confidence,
                  !.status = IF held.status = "contradicted" THEN "contradicted"
                             ELSE StatusFor(held.support, held.contra, confidence)]
=============================================================================
