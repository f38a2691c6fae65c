---------------------------- MODULE MCAdmission ----------------------------
(* An instance of Admission for TLC: three requests of different kinds.    *)
(* They are alike otherwise, so one assignment of each choice is enough;   *)
(* the kinds of a pair that locks or waits alike stand for two of a kind.  *)
EXTENDS Admission

Order == <<"read", "query", "export", "write", "rebuild", "delete">>
Trios == {mix \in [Requests -> DOMAIN Order] :
             \A r, s \in Requests : r < s => mix[r] < mix[s]}
AllMixes == {[r \in Requests |-> Order[trio[r]]] : trio \in Trios}
=============================================================================
