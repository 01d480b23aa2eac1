------------------------- MODULE MCRequestExecution -------------------------
(* Instances of RequestExecution for TLC. *)
EXTENDS RequestExecution, TLC

CONSTANTS claude, other

MCModelsOf == claude :> 1 @@ other :> 2
MCRequestRetry == claude :> 0 @@ other :> 1
=============================================================================
