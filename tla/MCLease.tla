------------------------------ MODULE MCLease ------------------------------
(* The instances of Lease that TLC checks.                                 *)
EXTENDS Lease, TLC

CONSTANTS quick, slow       \* the workers

MCWorkers == {quick, slow}
MCTtl     == quick :> 3 @@ slow :> 4
MCEtags   == 1..4
=============================================================================
