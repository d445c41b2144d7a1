------------------------------ MODULE MCAgency ------------------------------
EXTENDS Agency, TLC

ProcessSymmetry == Permutations(Processes)

ToolRisk == [tool \in Tools |-> IF tool = "echo" THEN "read_only" ELSE "write"]

Ask(tool, risk, sandboxed) == [tool |-> tool, risk |-> risk, sandboxed |-> sandboxed, cost |-> TRUE]

\* An edit needs approval, unless it is made in the sandbox; one tool is not
\* registered, and a destructive action is refused.
WhatIsAsked ==
  {Ask("echo", "read_only", FALSE), Ask("edit", "write", FALSE), Ask("edit", "write", TRUE),
   Ask("gone", "read_only", FALSE), Ask("gone", "destructive", FALSE)}

Opened == [kind |-> "goal_opened"]
Closed(goal, seen) == [kind |-> "goal_closed", goal |-> goal, seen |-> seen]

\* As many closings as a window of two holds since the first, or one less.
APast ==
  {<<Opened, Opened, Closed(2, 0), Closed(1, 1), Opened>>,
   <<Opened, Opened, Closed(2, 0), Closed(1, 1), Opened, Closed(5, 2)>>}
=============================================================================
