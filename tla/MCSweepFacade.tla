---------------------------- MODULE MCSweepFacade ----------------------------
(* Small instances for TLC.  In one use, SweepFacade's setters: two         *)
(* generators at one bus, a third that regulates a remote bus; one row or   *)
(* two; set-points that conflict in one row unless g is disconnected there. *)
(* In the other, a row of set-points, solved and differentiated.            *)
EXTENDS FacadeSetPoints, TLC

CONSTANTS g, k, x

MCMasks == {<<{g}>>, <<{}, {}>>, <<{}, {g}>>, <<{x}, {}>>}
Apart == [i \in Gens |-> IF i = g THEN 1 ELSE 2]
Alike == [i \in Gens |-> 2]
MCSetPoints == {<<Apart>>, <<Alike, Apart>>, <<Apart, Alike>>}

VARIABLE use

EmptyRow ==
    [reg |-> [u \in Units |-> None], kind |-> [b \in PlainBuses |-> "pq"],
     v |-> [u \in Units |-> NaN], off |-> {}, stranded |-> {}]

MCInit ==
    /\ Init /\ Row!Init
    /\ \/ use = "row"
       \/ use = "setters" /\ row = EmptyRow
MCNext ==
    /\ UNCHANGED use
    /\ \/ use = "setters" /\ Next /\ UNCHANGED rowVars
       \/ use = "row" /\ Row!Next /\ UNCHANGED vars
MCSpec == MCInit /\ [][MCNext]_<<vars, rowVars, use>>

Alikes == Permutations(Units) \cup Permutations(PlainBuses)
=============================================================================
