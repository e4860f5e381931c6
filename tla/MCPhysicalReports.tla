--------------------------- MODULE MCPhysicalReports ---------------------------
(* Instances for TLC: two rows, four kinds of rows, two tolerances.        *)
EXTENDS BatchReports, Naturals, Sequences

N(tight, loose) == [t \in Tolerances |-> IF t = "tight" THEN tight ELSE loose]
Z == N(0, 0)

(* Several types of a check, with a gap between them, and too many of one. *)
Many ==
  [bus_q |-> <<N(1, 0), N(3, 2)>>, hvdc_p |-> <<N(2, 1)>>, gen_p |-> <<Z, N(1, 1)>>,
   release |-> <<N(1, 1), Z, N(2, 0), N(1, 0)>>]
Few ==
  [bus_q |-> <<Z, Z>>, hvdc_p |-> <<Z>>, gen_p |-> <<N(3, 1), N(1, 0)>>,
   release |-> <<Z, N(1, 1), Z, Z>>]
Case(how, found) == [how |-> how, found |-> found]
Out == Case("left_out", Many)
Bad == Case("diverged", Many)
A   == Case("converged", Many)
B   == Case("converged", Few)
MCBatches == {<<A, B>>, <<Bad, A>>, <<B, Out>>}
MCBaseCases == {Bad, A}
=============================================================================
