-------------------------- MODULE MCProductionLoop --------------------------
(* Instances of ProductionLoop. *)
EXTENDS ProductionLoop
=============================================================================
