--------------------------- MODULE ContingencyEngine ---------------------------
(***************************************************************************)
(* The contingency analysis (ContingencyAnalysis) under names of its own,   *)
(* to be read beside BatchDriver, whose driver it keeps from one run() to   *)
(* the next.                                                                *)
(***************************************************************************)
CONSTANTS
  Null,         \* None
  Lists, Data, RdData, SnMva, Limits, Capacities, Solvers, FactorReuse, Unsupported,
  Splits, Strands, Diverges, Found,
  Bound         \* MaxCalls

VARIABLES
  analysis,     \* s
  residualRows, \* shape
  tables,       \* flows
  outcome,
  callsMade,    \* calls
  lapse

Engine == INSTANCE ContingencyAnalysis
            WITH None <- Null, MaxCalls <- Bound, s <- analysis, shape <- residualRows,
                 flows <- tables, calls <- callsMade

ASSUME ContingencyAssumption == Engine!ListAssumption

ContingencySpec == Engine!Spec

(* A run solves the list, options and reference asked for.                  *)
SolvesWhatIsAsked == Engine!SolvesWhatIsAsked
(* The flags of the rows left out are those of the rows solved.             *)
FlagsDescribeSource == Engine!FlagsDescribeSource
(* Violation records are read of the last run only, row by row.             *)
ViolationsTellTheRun == Engine!ViolationsTellTheRun
=============================================================================
