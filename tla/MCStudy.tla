------------------------------ MODULE MCStudy ------------------------------
EXTENDS Study, TLC

\* `plain' and `longer' say alike things, `doubting' contrasts with the latter.
CONSTANTS p1, p2, plain, longer, doubting

TheWords == plain :> {1, 2} @@ longer :> {1, 2, 3} @@ doubting :> {3, 4, 5}

TheDocuments == {<<plain>>, <<longer, doubting>>}
TheReplies == {<<>>, <<<<longer>>, <<doubting>>>>}
Symmetry == Permutations(Procs)
=============================================================================
