--------------------------- MODULE MCAcquisition ---------------------------
EXTENDS Acquisition, TLC

CONSTANTS a, b

ProcessSymmetry == Permutations(Processes)

\* One candidate fits the requirement better than the other.
TwoFit == [c \in Candidates |-> IF c = a THEN 2 ELSE 1]

\* What a person may do with a capability that is failing, or no longer wanted,
\* or to be offered all the same.
PersonMoves == {<<"available", "disabled">>, <<"disabled", "available">>, <<"failed", "disabled">>,
                <<"validated", "disabled">>, <<"validated", "available">>,
                <<"failed", "discovered">>, <<"validated", "removed">>}
=============================================================================
