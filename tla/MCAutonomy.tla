----------------------------- MODULE MCAutonomy -----------------------------
(* Instances of Autonomy for TLC: see the cfg files and the README. *)
EXTENDS Autonomy, TLC

CONSTANTS s1, s2, c1

OneSession == {s1}
TwoSessions == {s1, s2}
OneCuriosity == {c1}

\* Session ids are only compared.
SessionSymmetry == Permutations(TwoSessions)
=============================================================================
