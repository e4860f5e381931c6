---------------------------- MODULE FacadeSetPoints ----------------------------
(***************************************************************************)
(* Voltage set-points from the facade's setters to one row of the solve:    *)
(* SweepFacade decides which array of set-points and which mask of rows a   *)
(* session has, SetPointGradients what the kernels make of one row of them. *)
(* The rows of a batch do not share state, so the two meet in the rows left *)
(* out only.                                                                *)
(***************************************************************************)
EXTENDS SweepFacade

CONSTANTS
  Units, PlainBuses,      \* of the row: its generators and its buses
  Values, None, NaN, Pin, Base, Tol, Whole

VARIABLES row, pc, todo, seed, vset, skipped, grad
rowVars == <<row, pc, todo, seed, vset, skipped, grad>>

Row == INSTANCE SetPointGradients WITH Gens <- Units, Buses <- PlainBuses

ASSUME RowAssumption == Row!SetPointAssumption

(* Every generator whose set-point is applied has it, whichever thread of   *)
(* the kernels wrote last.                                                  *)
SolvedAtTheSetPoints == Row!SolvedAtTheSetPoints
(* The wrapper and the facade leave out the same rows.                      *)
RowsSkippedAlike == Row!RowsSkippedAlike
(* A derivative is split between the columns that applied.                  *)
GradientsSplitTheTie == Row!GradientsSplitTheTie
=============================================================================
