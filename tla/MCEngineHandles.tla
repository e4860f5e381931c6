-------------------------- MODULE MCEngineHandles --------------------------
(* A small instance of EngineHandles: two values of each option.           *)
EXTENDS EngineHandles
=============================================================================
