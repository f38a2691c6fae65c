------------------------------ MODULE MCFormat ------------------------------
(* Instances of Format for TLC: a namespace with two documents, one with a *)
(* single document, in the order of a scan.                                *)
EXTENDS Format

TwoSpaces == <<"n1", "n2">>
ThreeDocs == <<<<"n1", 1>>, <<"n1", 2>>, <<"n2", 1>>>>
=============================================================================
