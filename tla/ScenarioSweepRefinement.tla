----------------------- MODULE ScenarioSweepRefinement -----------------------
(* ScenarioSweepSession implements SweepContract.                          *)
EXTENDS ScenarioSweepSession

RequestsOfSession ==
    [inj : Maybe(Injections), topology : Maybe(Topologies), genV : Maybe(GenVs),
     genOff : Maybe(GenMasks), skip : Maybe(SkipMasks), settings : Settings]

ASSUME RequestAssumption == None \notin RequestsOfSession

(* Default rows (no branch tripped) and "no topology" are the same request. *)
StagedRequest ==
    [inj |-> inj, topology |-> trips.list, genV |-> genV,
     genOff |-> genOff, skip |-> skip, settings |-> settings]

DeliveredRequest ==
    IF delivered = None THEN None
    ELSE [inj |-> delivered.inj, topology |-> delivered.trips.list, genV |-> delivered.genV,
          genOff |-> delivered.genOff, skip |-> delivered.skip, settings |-> delivered.settings]

Contract == INSTANCE SweepContract
    WITH Requests <- RequestsOfSession, asked <- StagedRequest,
         exact <- ("refused_topology" \notin gaps), answer <- DeliveredRequest

(* The staged inputs of a returning run() are the ones it has solved: no   *)
(* path of run() serves a stale source, a stale voltage override or the    *)
(* injections of an earlier call, and no failed call in between changes    *)
(* that.                                                                   *)
ImplementsContract == Contract!Spec
=============================================================================
