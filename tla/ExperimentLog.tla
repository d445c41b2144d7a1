--------------------------- MODULE ExperimentLog ----------------------------
(***************************************************************************)
(* What SandboxController promises whoever asks it for an experiment: one  *)
(* that is refused leaves no trace, one that is admitted leaves exactly    *)
(* one outcome on the ledger before the call returns, and only the death   *)
(* of the process loses it.  Sandbox implements this specification.        *)
(***************************************************************************)
EXTENDS Naturals

VARIABLES phase,     \* of the call: "idle", "asked", "admitted", "concluded"
          outcomes   \* the outcomes on the ledger, by event id

logVars == <<phase, outcomes>>

Init == phase = "idle" /\ DOMAIN outcomes = {}

Ask == phase = "idle" /\ phase' = "asked" /\ UNCHANGED outcomes

Refuse == phase = "asked" /\ phase' = "idle" /\ UNCHANGED outcomes

Admit == phase = "asked" /\ phase' = "admitted" /\ UNCHANGED outcomes

\* The ledger gives the outcome an id above every earlier one.
Conclude ==
  /\ phase = "admitted" /\ phase' = "concluded"
  /\ \E id \in DOMAIN outcomes', o \in {"success", "failure", "unknown"} :
       /\ \A earlier \in DOMAIN outcomes : earlier < id
       /\ outcomes' = [i \in DOMAIN outcomes \cup {id} |-> IF i = id THEN o ELSE outcomes[i]]

Return == phase = "concluded" /\ phase' = "idle" /\ UNCHANGED outcomes

\* The process dies.
Lose == phase # "idle" /\ phase' = "idle" /\ UNCHANGED outcomes

Next == Ask \/ Refuse \/ Admit \/ Conclude \/ Return \/ Lose

Spec == Init /\ [][Next]_logVars
=============================================================================
