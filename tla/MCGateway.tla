----------------------------- MODULE MCGateway -----------------------------
(* Instances of Gateway for TLC: two shards, one with a standby, and     *)
(* an operator who starts the gateway with them, with one shard forgotten, *)
(* or with the workers of the two confused.                                *)
EXTENDS Gateway, TLC

Right    == [s1 |-> <<"w3">>, s2 |-> <<"w1", "w2">>]
Forgot   == [s1 |-> <<"w3">>]
Confused == [s1 |-> <<"w1", "w2">>, s2 |-> <<"w3">>]

AllConfigs == {Right, Forgot, Confused}
Ranks == (<<"n", "s1">> :> 1) @@ (<<"n", "s2">> :> 2)
Configured == ("w1" :> "d2") @@ ("w2" :> "d2") @@ ("w3" :> "d1")
=============================================================================
