------------------------------ MODULE MCEngine ------------------------------
(***************************************************************************)
(* Instances of Engine and Query for TLC.  Two documents are enough for a batch that *)
(* touches one and leaves one, and for chunks that split; a document with  *)
(* a vector and one without make the two families d and v differ.          *)
(***************************************************************************)
EXTENDS Query, TLC

CONSTANTS a, b, p, q, v1, s1, g1, g2, g3, g4

MCIds       == {a, b}
MCId        == {a}
MCAttrs     == {p, q}
MCVecs      == {v1}
MCDocuments == {[attr |-> p, vec |-> v1], [attr |-> q, vec |-> None]}
MCSchemas   == {s1}
MCGens2     == {g1, g2}
MCGens3     == {g1, g2, g3}
MCGens4     == {g1, g2, g3, g4}

\* Documents and generations are interchangeable.
Symmetry2 == Permutations(MCIds) \cup Permutations(MCGens2)
Symmetry3 == Permutations(MCIds) \cup Permutations(MCGens3)
Symmetry4 == Permutations(MCIds) \cup Permutations(MCGens4)
=============================================================================
