---------------------------- MODULE InjectionEngine ----------------------------
(***************************************************************************)
(* The injection sweep (InjectionFacade) under names of its own, to be read *)
(* beside EngineHandles, which has the options and handles that it shares   *)
(* with the other engines.                                                  *)
(***************************************************************************)
CONSTANTS
  Absent,       \* None: no plan, no set-point
  ImaginaryUnit, Grids, Tol, BusRows, Elements, GenVs, GenPPlans, ReleasePlans,
  GridPlan, Solvers,
  Sizes,        \* BatchSizes
  Bound         \* MaxCalls

VARIABLES
  grid,
  facade,       \* f
  sweep,        \* s
  returned,     \* solved
  callsMade,    \* calls
  asked, lapse

Injected == INSTANCE InjectionFacade
               WITH None <- Absent, BatchSizes <- Sizes, MaxCalls <- Bound,
                    f <- facade, s <- sweep, solved <- returned, calls <- callsMade

ASSUME InjectionAssumption == Injected!RowAssumption

InjectionSpec == Injected!Spec

(* A run solves the injections and set-points last accepted.                *)
SolvesWhatIsAsked == Injected!SolvesWhatIsAsked
(* Set-points on the driver never ask a bus for two magnitudes.             *)
OneVoltagePerBus == Injected!OneVoltagePerBus
(* The checks of a run read the targets and set-points it solved.           *)
ChecksUseWhatIsSolved == Injected!ChecksUseWhatIsSolved
=============================================================================
