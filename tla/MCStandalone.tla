---------------------------- MODULE MCStandalone ----------------------------
EXTENDS Standalone

CONSTANTS
  high, full,   \* the rules, of which only the second is watched
  s1, s2        \* the engines

SharedKey == [rule \in Rules |-> "crossing"]
Cool == [rule \in Rules |-> IF rule = full THEN 2 ELSE 1]

\* A goal lies open, or there is a reflection, for one session; or both, for one
\* session with experiences from elsewhere, or, with a curiosity, for two.
Ledger == <<[kind |-> "goal_opened"], [kind |-> "reflection"]>>
Given(has, first, second, others) ==
  [evidence |-> [name \in Names |-> IF name \in DOMAIN has THEN has[name] ELSE {}],
   turns |-> [s \in Engines |-> IF s = s1 THEN first ELSE second], others |-> others]
Evidence ==
  {Given([goal |-> {1}], 5, 0, 0), Given([reflection |-> {2}], 4, 0, 0),
   Given([goal |-> {1}, reflection |-> {2}], 3, 0, 2),
   Given([goal |-> {1}, curiosity |-> {1}, reflection |-> {2}], 3, 1, 0)}
=============================================================================
