-------------------------- MODULE MCBatchPowerFlow --------------------------
(* A small instance of BatchPowerFlow: one branch l, a generator g that may  *)
(* be disconnected and a generator x regulating a remote bus, which may not; *)
(* set-points that conflict while both generators are connected.  The calls *)
(* leave inputs out, repeat them, and change them and the number of rows.    *)
EXTENDS BatchPowerFlow

CONSTANTS g, x, l

MCBranchRows == {{}, {l}}
MCGenRows == {{}, {g}, {x}}
MCVoltRows == {[h \in {g, x} |-> IF h = g THEN 1 ELSE 2]}

v == CHOOSE w \in MCVoltRows : TRUE
Args(n, status, gens, gen_v) == [n |-> n, load |-> 1, status |-> status, gens |-> gens, gen_v |-> gen_v]
MCCalls ==
  { Args(1, <<>>, <<>>, <<v>>),
    Args(1, <<{l}>>, <<>>, <<>>),
    Args(1, <<>>, <<{g}>>, <<v>>),
    Args(2, <<>>, <<>>, <<>>),
    Args(2, <<{}, {l}>>, <<>>, <<v, v>>),
    Args(2, <<{}, {l}>>, <<{g}, {}>>, <<>>),
    Args(2, <<{l}, {}>>, <<{}, {x}>>, <<>>) }
=============================================================================
