------------------------------ MODULE BatchReports ------------------------------
(***************************************************************************)
(* The reports of a batch (PhysicalReports) under names of their own, to be *)
(* read beside PhysicalChecks, which follows one report from its settings   *)
(* to the driver.  Flag, plans and result are the same fields of the code   *)
(* in both; they are other abstractions of them, hence other names.         *)
(***************************************************************************)
CONSTANTS
    Nothing,      \* None: no plan, no driver
    Tolerances, Capacities, NumRows, Batches, BaseCases, Stops, MaxCalls

VARIABLES
    checksOn, plans, readable,    \* on, plan, hasResult
    env, baseCase, tol, cap, newPlans, dev, outcome, calls, ran, torn

Reports == INSTANCE PhysicalReports
             WITH None <- Nothing, on <- checksOn, plan <- plans, hasResult <- readable

ASSUME RowsAssumption == Reports!ReportsAssumption

ReportsSpec == Reports!Spec

(* Checks that are on have every plan the grid can give.                    *)
OnMeansPlanned == Reports!OnMeansPlanned
(* What can be read of a batch is of its last run.                          *)
ReportsTellTheRun == Reports!ReportsTellTheRun
=============================================================================
