--------------------------- MODULE MCSweepResults ---------------------------
(* Small instances of SweepResults: three branches, one of them a           *)
(* transformer with a terminal out of the solver, on three buses of which   *)
(* the solver has two, in another order; grids that differ in limits, or in *)
(* the voltages of their own solve.                                         *)
EXTENDS SweepResults, TLC

Base == <<10, 9>>
MCVolts == ({} :> Base) @@ ({1} :> <<10, 6>>) @@ ({2} :> <<NaN, 12>>) @@ ({3} :> <<10, 9>>)
MCResidual == ({} :> 0) @@ ({1} :> 0) @@ ({2} :> 0) @@ ({3} :> 2)

Line == [from |-> 1, to |-> 3, y |-> <<2, -2, -2, 2>>, limit |-> <<1, 9>>]
Cable == [from |-> 3, to |-> 1, y |-> <<1, 0, 0, 1>>, limit |-> <<NaN, 9>>]
Trafo == [from |-> 2, to |-> 1, y |-> <<3, 0, 1, 1>>, limit |-> <<NaN, 9>>]
G1 == [lines |-> <<Line, Cable>>, trafos |-> <<Trafo>>, solver |-> <<2, Gone, 1>>,
       vmin |-> <<10, 5, NaN>>, vmax |-> <<11, 5, NaN>>, volts |-> Base]
G2 == [G1 EXCEPT !.vmin = <<8, 5, 8>>, !.vmax = <<NaN, 5, 9>>]
G3 == [G1 EXCEPT !.volts = <<11, 8>>]
MCGrids == {G1, G2, G3}

OneLine == SubSeq(ExtractBranchData(G1), 1, 2)
MCOtherData == {OneLine}
MCOtherLimits == {[ExtractLimits(G2) EXCEPT !.amp = SubSeq(@, 1, 2)]}
MCTopologies == {<<{}, {2}>>, <<{1}, {}>>, <<{3}>>}
=============================================================================
