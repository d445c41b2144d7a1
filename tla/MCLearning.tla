----------------------------- MODULE MCLearning -----------------------------
EXTENDS Learning, TLC

Event(kind, result) == [kind |-> kind, result |-> result, correction |-> FALSE]

ProcessSymmetry == Permutations(Processes)

\* Two successes, of which a turn and an activity tell, and what may follow.
TwoSuccesses == <<Event("outcome", "success"), Event("experience", "success")>>
MoreExperience == {Event("experience", "success"), Event("experience", "failure")}

\* What the user says of it, which corrections name, among others.
Correction == [kind |-> "reflection", result |-> "unknown", correction |-> TRUE]
MoreAndCorrection == MoreExperience \cup {Correction}

=============================================================================
