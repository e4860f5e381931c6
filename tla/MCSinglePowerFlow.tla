------------------------- MODULE MCSinglePowerFlow -------------------------
(* Small instances of SinglePowerFlow.  Sessions share nothing and the      *)
(* layout of the buses only matters to an autograd context, so a behaviour  *)
(* has a facade or contexts, not both.                                      *)
EXTENDS SinglePowerFlow, TLC

MCFacadeLayouts == {(1 :> "slack") @@ (2 :> "pq") @@ (3 :> "pv")}
MCOpLayouts == {(1 :> "pv") @@ (2 :> "pq") @@ (3 :> "slack"),
                (1 :> "pq") @@ (2 :> "slack") @@ (3 :> "pq")}
=============================================================================
