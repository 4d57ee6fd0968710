------------------------------ MODULE MCBudget ------------------------------
(* An optional extra in a thread, a coroutine and a request of somebody    *)
(* else, for one permit.                                                   *)
EXTENDS Budget, TLC

CONSTANTS a, b, e

MCMode == a :> "sync" @@ b :> "async" @@ e :> "external"
MCSize == a :> 3 @@ b :> 2 @@ e :> 1
=============================================================================
