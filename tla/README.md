# gpusim2grid: a TLA+ verification of the batch power flow sessions

gpusim2grid solves many AC power flows at once on a GPU: the same grid with
different injections, with different branches tripped, with generators out.
The numerical part is a Newton method over thousands of small linear systems.
The part modelled here is everything around the numerics: long-lived session
objects that stage inputs, decide what of the device state can be reused, cut a
batch into chunks, keep Jacobians for a later adjoint solve and hand results
back, and the Python on top of them, which assembles inputs from elements of a
grid, remembers what it gave to whom and reads results out of flat buffers. That
part is a caching problem with failures in the middle, and it is where a wrong
answer looks exactly like a right one.

Paths below are relative to the repository; the C++ is in `src/_cpp/`, the
Python in `src/gpusim2grid/`.

## Inventory

One thread runs it all: no method of a session releases the interpreter lock,
and the CUDA streams are synchronised before a call returns. So handlers are
atomic towards each other, but not towards exceptions: a `run()` that throws
keeps what it did up to the throw, and the next call starts from there. Nothing
is persisted and there are no messages, timeouts or retries. Real interleaving
happens in two places: between the threads of one kernel, and between the calls
a caller makes and the handles it still holds.

| Component | State | Operations | Correct when |
|---|---|---|---|
| `ScenarioSweepSession` (`scenario_sweep_session.*`) | staged inputs, dirty flags, base state and reference bus, live driver and its configuration snapshot, per-row flags | setters; `run()` = cold / warm / hot; results, flows, violations, adjoint | a run solves what was staged last; outputs belong to one run |
| `BatchPfDriver` (`contingency/batch_pf_driver.*`) | capacity, device buffers, results by row, last chunk's Jacobians, adjoint factors, counters | constructor, `replace_source`, `solve`, `solve_JT_batch`, check set-ups | row r's result is row r's; adjoint uses the Jacobians it is asked for |
| `ScenarioSweepBatch` (`contingency/batch_sources/`) | compaction of active rows, chunk layout, patches, injections, masks, slack weights | constructor, `initialize`, `prepare_*` per chunk, uploads | every slot is given its own row's data, padding the base case's |
| Physical checks (`contingency/physical_checks_*`, `*_check_data.hpp`, `contingency_analysis/_physical_checks.py`) | plans, settings, the key of the tables on the device, per-row targets, reports | setters, `before_solve`, `after_solve`, merged getters | a report is of the present settings, masks and targets, and of its own row |
| `ContingencyAnalysisSession` and `ContingencyAnalysisGPU` | list of contingencies, branch data, limits, slack data, driver, results | constructors, setters, `run()`, flows, violations | what is solved is the list and options of now; records are of their row and run |
| `InjectionSweepSession` and `InjectionSweepGPU` | rows per bus, set-points, plans, driver | setters, `compute()` | the rows solved and the rows checked are the ones accepted last |
| `ScenarioSweepGPU` (`scenario_sweep/gpu_facade.py`) | the element inputs behind the session's arrays | setters "in any order", `compute()`, getters | the session holds what one call with everything would have staged |
| `BatchPowerFlow` (`differentiable/_batch_pf.py`) | pending inputs, records of what the session holds, autograd contexts | `forward`, `backward` | an answer is of its own call, a gradient of its own forward or refused |
| `AcPfNrSession`, `AcPfGPU`, `PowerFlowFunction` (`acpf_nr*`, `differentiable/_power_flow_op.py`) | one voltage, loop buffers, Jacobian copy, transposed factors | `resolve`, `ac_pf`, `solve_JT`, autograd | loops end, start fresh, and the adjoint is of the solution asked about |
| Contingency preprocessing, slack redistribution, linear solver policies, ledger (`ledger_*`), bridge (`ls2g_bridge.*`), DLPack exchange, violation kernels, bindings | see `PROJECT.json` | | |

How they interact. A facade or `BatchPowerFlow` calls the session's setters and
`run()`. `run()` may rebuild the base state (a converged power flow of the grid
with the reserved buses and the chosen angle reference), then builds a driver
with a source (cold), swaps a source into the live driver (warm) or keeps both
(hot), uploads what changed, and calls `solve()`. `solve()` loops over chunks
and asks the source for each chunk's data. `backward()` comes back later, with
any number of other calls in between, and reads either the driver's own
Jacobians (alias mode) or a copy (snapshot mode) through the *live* source's row
map. Getters read the driver's buffers, the session's arrays and, in some cases,
the grid itself, each as it is when they are called.

The hard behaviours, each with its line and with the properties that would catch
it, are the `hazards` of `PROJECT.json`: stale state behind a dirty flag, a
multi-step call that fails half-way, a driver reused for a batch of another
size, two implementations of one rule, and long legal call sequences that reach
a state nobody tested.

Some of them are paths the code leaves open, and no property covers those: a
topology that stops half-converted, a refactorization of a snapshot that throws
(both excused by name in the properties around them), and a refused list of
contingencies. `BatchMatchesSession` covers kept patches, slack weights and the
moved reference only outside of its gaps `kept_topology`, `unstaged_slack` and
`lost_reference`. The width checks of the batch and the saturation flag of the
differentiable sweep have no property either; each hazard's note says why.

## Modules

| Module | Models | Instance | Run |
|---|---|---|---|
| `ScenarioSweepSession` | the session: every setter and every part of `run()` up to its throws | `MCScenarioSweep` | `SweepCalls`, `MissingWeights` |
| `SweepContract`, `ScenarioSweepRefinement` | what a caller relies on, and the mapping from the session to it | | `SweepCalls` |
| `BatchDriver` | compaction, chunks, results, kept Jacobians, adjoint and autograd contexts | `MCBatchDriver` | `Batches` |
| `PhysicalChecks` | settings, plans, set-points and outage mask of the checks, from the setters to the report | `MCPhysicalChecks` | `CheckReports` |
| `PhysicalReports` | the arrays of four checks, their kernels, and the merged rows a caller reads | `MCPhysicalReports` | `CheckRows` |
| `BatchReports` | `PhysicalReports` under names that can stand beside those of `PhysicalChecks` | `MCPhysicalReports` | `CheckRows` |
| `BatchPowerFlow` | `forward()` in its pieces, any of which may raise, over many calls | `MCBatchPowerFlow` | `PowerFlowCalls` |
| `SweepFacade` | the setters of the scenario sweep's facade and what they re-derive | `MCSweepFacade` | `SweepSetters` |
| `SetPointGradients` | one row of per-generator set-points, its kernels' threads and its gradient | `MCSweepFacade` | `SweepSetters` |
| `FacadeSetPoints` | the two above, side by side | `MCSweepFacade` | `SweepSetters` |
| `ContingencyAnalysis` | contingency analysis, from construction to violation records | `MCContingencyAnalysis` | `ContingencyCalls` |
| `ContingencyEngine` | `ContingencyAnalysis` under names that can stand beside those of `BatchDriver` | `MCContingencyAnalysis` | `ContingencyCalls` |
| `ElementInjections` | elements to injections per bus, in NumPy and in PyTorch | through `InjectionFacade` | `InjectionCalls` |
| `InjectionFacade` | the injection sweep: rows, set-points, plans, checks | `MCInjectionFacade` | `InjectionCalls` |
| `InjectionEngine` | `InjectionFacade` under names that can stand beside those of `EngineHandles` | `MCInjectionFacade` | `InjectionCalls` |
| `SweepResults` | everything read after a scenario sweep's `compute()` | `MCSweepResults` | `SweepReads` |
| `SinglePowerFlow` | one power flow, its Newton loop, adjoint and autograd | `MCSinglePowerFlow` | `SingleSolves` |
| `EngineHandles` | options of the three engines and handles on their buffers | `MCEngineHandles` | `EngineOptions` |
| `*_proofs` | the theorems of the module they are named after; those of `PhysicalReports`, `SetPointGradients`, `ContingencyAnalysis` and `InjectionFacade` are in `PhysicalChecks_proofs`, `SweepFacade_proofs`, `BatchDriver_proofs` and `EngineHandles_proofs` | | |

Which question belongs to which module is deliberate. The path of a `run()` (cold,
warm, hot) and the staleness of inputs is `ScenarioSweepSession`'s; the other
modules reduce that decision to the settings their own property needs.

### ScenarioSweepSession

An input is a model value; `Rows` gives its row count, `MaxTrip` the largest
branch id of a topology, `NumBranches` the size of a branch set, `Reserved` the
buses a generator mask releases. Every setter is an action with the guards that
refuse a call. A refused call that changes nothing is not an action;
`SetTopologyRefused` is one, because `set_topology()` has already replaced the
first rows when it meets a bad id. `run()` is cut at the places where it may
throw:

| Action | `ScenarioSweepSession::run()` |
|---|---|
| `RunRefused` | the checks at the top (after `last_run_kept_jacobian_ = false`) |
| `RunKeepsBase`, `RunRebuildsBase`, `RunFailsToRebuildBase` | reserved buses, reference bus, `_build_base_state()` |
| `RunHot`, `RunNewSource`, `RunFailsInNewSource`, `RunFailsToBuildDriver` | cold / warm / hot, trips, flags, driver and source |
| `RunStage` | injections and voltages onto the live source |
| `RunSlack`, `RunSlackRefused` | per-row slack weights |
| `RunSolveRefused`, `RunSolve`, `RunReturn` | limits, checks, `solve()`, clearing the flags |

Left out: a device error while injections, voltages or weights are copied onto a
source that is in place (out of memory while it is swapped in is
`RunFailsInNewSource`), and host memory running out inside `set_topology()`.

`src` is what the live source was built from and given since; `sbusOrig` the
injections in the canonical device buffer. `delivered` and `jacLive` are history
variables, `gaps` names the four call sequences on which a guarantee is known
to lapse (see Findings); a property that excuses one names it.

### BatchDriver

A value is what it was computed from: whose patches, whose injections, in which
`run()`, at the final iterate or one before. `active` is the set behind
`active_to_orig_`, `RowAt` the compaction, `PatchedRow` the slot's row in the
source's layout and `InjectedRow` in the driver's: the two divide the slots on
their own, and only agree because the source is laid out for the driver's
capacity. A context is what autograd keeps of a forward: the counters and, in
snapshot mode, a copy of the Jacobians. Which inputs a run reads is left to
`ScenarioSweepSession`; here a source is the set of rows it keeps. The guards
of a backward are those of three places: the autograd operation, the DLPack
entry and the driver.

### PhysicalChecks and PhysicalReports

The four checks share one configuration object. `before_solve()` either keeps
what the live driver has (`SetUpKept`, when the key of the settings is the
driver's) or sets the checks up one after the other (`SetUpAnew`, `SetUpFails`
after any number of them), then uploads the set-points of two of them
(`GenPTargetsRefused`, `ReleaseTargetsRefused`, `ChecksReady`). In
`PhysicalChecks` a report is the record of what it was made from: plan,
tolerances, mask, set-points, saturated units; one row stands for any of them. A
plan is its `plan_generation`, a matrix of set-points a model value with a number
of columns. `excused` names the three call sequences of the findings. Left out:
`residual_tol` and `sn_mva` (two more fields of the key), row counts that do not
fit (as a misfit of columns), and the other two sessions, which pass no mask.

`PhysicalReports` is the other half: the rows themselves. Each check has a
capacity per type, hence a stride, arrays and an order of kernels of its own;
four reports are merged into one row in another order than the kernels run. How
many machines exceed a limit is data; a record is its check, type and rank. A
run may stop between any two kernels. Turning the checks on pulls three plans
from the grid, and may raise after each.

### SweepFacade, SetPointGradients, BatchPowerFlow

The facade keeps the element inputs (`sweep`, mask, set-points) because each
re-derives the other: a generator that is out takes its power from the
injections and its set-point from the set-points, and both decide which rows
cannot be simulated. `AssembledAsAsked` compares the session with what one call
with everything would have staged, for every order of setters and refusals. The
history `again` names the inputs a setter that raised left half applied; what
depends on such an input (`InjectionsGiven`, `SetPointsGiven`) is promised again
once it was given again, and what does not is promised throughout.

`SetPointGradients` follows one row from `forward()` to the gradient of `gen_v`.
Several generators may regulate one bus; who may write it is decided by the
wrapper, by the facade's helper and by the session, and the kernels' threads
write in any order.

`BatchPowerFlow` cuts `forward()` at each call of the session (`GiveInjections`,
`GiveTopology`, `GiveSkip`, `GiveGens`, `GiveGenV`, `GiveSaturation`, `Run`);
`Raise` ends a call between any two of them. What the wrapper believes of the
session (`held`) decides what the next call sends. `Undo` is what `__init__` and
`forward()` drop of an earlier call's pending values.

### ContingencyAnalysis

The three constructors (grid, arrays, grid with a forced reference) are initial
states. A contingency is a set of branches, `Splits`, `Strands` and `Diverges`
say what becomes of it, `Found` which violations of which severity its kernels
meet, in kernel order. `Reserve` is the bounded insertion of the violation
kernels and the compaction at the end of a row.

### ElementInjections and InjectionFacade

A complex power is one integer `p + ImaginaryUnit * q`, which keeps both parts
apart as long as active powers are smaller. `AssembledAlike` compares NumPy,
PyTorch and the grid without the element; it does not depend on the state of a
call, so it is evaluated where the run starts (`calls = 0`), over all subsets of
regulating generators and all pairs of generators off. `InjectionFacade` adds the
set-points, the plans and the session, built from a grid or from arrays.

### SweepResults

Where each thing a caller reads lives: voltages and records in the driver, flags
and trips in the session, flows in a copy, limits in the session and on the
grid. Voltages are integers with a NaN, currents magnitudes of integers, and the
margin `violation_rel_tol` is in percent. The flow formula is written three times
(NumPy, kernel, PyTorch), the violation rule twice; `BaseCaseReportsAlike` and
`FlowsFitTheRun` compare them. A run that does not keep its driver as it is may
build a source for it or build it anew; with a changed topology both are possible
(`Builds`), since whether the chunks became too many is `BatchDriver`'s. Left out: which records are kept past the capacity
(in `ContingencyAnalysis`) and the scaling by nominal voltages; the limits of a
bus are assumed to be in order.

### SinglePowerFlow

A voltage is the solve it belongs to, its distance to the solution in Newton
steps and its magnitude on buses without a magnitude unknown. The debugging switch
`diag_stop_before_state_correction` of the presolve, which no engine sets, is not
modelled. The copied
Jacobian is one Newton step behind, except for a presolved start. The loop is
stepwise; a step may raise. The autograd context and the facade are used in
separate behaviours. `direct` is a history: the session was resolved before the
facade's first call, which the facade cannot know of.

### EngineHandles

An option lives in three places: what the engine reports, what the session will
use, what the live driver was built with. A scenario sweep may also give up a
driver whose options are right, when its chunks became too many (`MayBuild`). Options are represented by one of each
treatment. A handle is a DLPack tensor on a buffer (the build that made it), or a
`DeviceBuffer`: a shape noted now, a download made later.

## Runs

Times are of two workers.

| Run | Question | Instance | Time |
|---|---|---|---|
| `SweepCalls` | Does what reaches the kernels follow the setters through cold, warm, hot and failed runs, and does the session implement its contract? | one group of setters per behaviour: topology (3 topologies, 2 branch sets, a skip mask), generators (2 injections, host or device, 2 masks, 2 saturations, 3 settings), reference (2 buses) | 90 s |
| `MissingWeights` | the finding below | the generator group | a few s |
| `Batches` | Is each row's result its own, and each gradient its own forward's or refused? | 3 rows, batch sizes 2 and 3, 3 runs, 2 contexts | 50 s |
| `CheckReports` | Are reports of the present settings, plans, mask and set-points, and dropped with them? | 2 tolerances, 2 plans and 2 masks; or 2 matrices of 1 and 2 columns, 3 plans and 2 outcomes of the pre-pass | 100 s |
| `CheckRows` | Are the merged rows the most severe records of the last run? | 2 rows of 3 kinds, 2 tolerances, capacities 1 and 2, 5 calls | 65 s |
| `PowerFlowCalls` | Is an answer of its own call? | 7 argument lists of 1 and 2 rows, 4 calls | 80 s |
| `SweepSetters` | Is the session assembled as asked? Is a row of set-points skipped, solved and differentiated consistently? | 3 generators, 4 masks, 3 set-points; or 3 units, 2 buses, 3 values, with symmetry over units and over buses | 25 s |
| `ContingencyCalls` | What is solved, flagged and recorded? | 4 contingencies, 2 capacities, 3 solver settings, 5 calls | 55 s |
| `InjectionCalls` | What is solved and checked? | 3 grids, 3 generators, 4 matrices of set-points, 7 calls, with symmetry over the strategies | 90 s |
| `SweepReads` | Do the getters tell one story? | 2 rows, 3 grids, 3 branches, 2 margins, 6 calls | 115 s |
| `SingleSolves` | Are loop, adjoint and gradient of the right solve, and does each loop end? | 3 buses, budgets 0 and 2, 3 solves | 35 s |
| `EngineOptions` | Are options obeyed and views alive? | 3 engines, 2 values of each option, 2 handles, 6 calls | 90 s |

A property that conjoins several parts lists them in its definition; each part is
an operator of its own that can be given to TLC alone. A type invariant is
checked in `SweepCalls` and `CheckReports` and proved there, as are those of
`BatchDriver`, `SinglePowerFlow` and `SweepResults`; the other modules define one,
and every instance satisfies its own (add `TypeOK` to the INVARIANTS).

Bounds. `SweepCalls` and `CheckReports` have none but the number of values: their
state is finite. Two row counts are needed for every mismatch check, two branch
sets of different sizes for ids that stop being valid, two buses for a reference
that moves; a third value of any kind would only play the part of one of these,
as the actions compare values and never look inside. `BatchDriver` bounds the
`run()` calls (`MaxRuns`) and the contexts alive at once (`MaxContexts`). Three
rows and batch sizes 2 and 3 give no active row, one chunk, several chunks, a
short last chunk with a phantom slot, a balanced capacity below `batch_size`, a
forced one, and a driver kept for a batch of another size; a stale result needs
two runs, a capacity that was too small three. With gradients two rows are
enough, because the adjoint refuses more than one chunk. The other modules bound
the calls of a behaviour (`MaxCalls`): the shortest way to each hazard is a
setter, a run, a setter that fails or changes something, a second run, and a
getter, which is four or five calls; targets of the injection sweep's checks that go
stale behind a switched-off run take seven. Each mutant of `PROJECT.json` is found
within the bound. `PhysicalChecks` bounds the plans given (`MaxPlans`): the plan
the checks cannot do without and one that replaces it, or one for each check with
set-points. `MaxFar` of `SinglePowerFlow` is the distance of the furthest start; a
step goes any distance, so with a budget of two some loops converge in time and
some do not.

`CHECK_DEADLOCK FALSE` stands where a behaviour ends because `MaxCalls` is used up,
or because the life of a row of set-points is over; the sessions themselves can
always be called again, and the runs without a bound on calls check it.

Fairness. The sessions act only when called and their calls are over finite
ranges, so no fairness is assumed of them. The Newton loop of `SinglePowerFlow` is
different: an entered loop goes on by itself until it converges, uses up its
budget or raises. `Spec` has weak fairness on the steps of an entered loop
(`Steps(o)`) and on nothing a caller does; `EverySolveReturns` says that every call
that is busy returns.

## Findings

`MissingWeights`: a run that throws in the slack checks leaves a new source
without per-row weights, and the next (hot) run does not stage them, although
the comment at `scenario_sweep_session.cu:1091` says that a new source has none
yet. TLC finds the statement violated.

Other places where the code does something else than its comments say, or than a
caller may expect. Those with a definition can be reproduced by giving it to TLC
as an invariant, in the configuration named; the passing runs check the same
guarantees outside of these paths (the histories `gaps`, `torn`, `uncounted`,
`excused` and `lapse` say when one was taken), so that nothing else is excused
with them.

| Place | What happens | To reproduce |
|---|---|---|
| `scenario_sweep_session.cu:655` | `set_branch_data()` leaves the patches of a topology alone when its row count is not that of the injections, because `run()` would refuse it; later injections of the matching row count make it runnable again | `PatchesAlwaysCurrent`, `SweepCalls` with `Groups = {"topology"}` |
| `scenario_sweep_session.cu:885` (against `.hpp:302`) | `ref_bus_` is assigned before the base state is rebuilt; when that throws, the next run keeps the base state of the old reference | `ReferenceIsTheBasesOwn`, `SweepCalls` with `Groups = {"reference"}` |
| `scenario_sweep_session.cu:1066` (against `:1012`) | a hot run keeps a small driver when `keep_final_jacobian` has been switched on, and refuses a `batch_size` that is large enough | `RefusedOnlyWhenTooSmall`, `Batches` |
| `scenario_sweep_session.cu:1188` (against `:1181`) | a mask changed for a run with the checks off never reaches the device copy, as that run clears the flag | `DeviceMaskIsCurrent`, `CheckReports` |
| `scenario_sweep_session.cu:1217` (against `.hpp:286`) | the pre-pass's set-points survive a run that throws after their upload, because `rd_gp_last_` is assigned at the end | `SetPointsAreCurrent`, `CheckReports` |
| `scenario_sweep_session.cu:751` | `set_topology()` clears the per-row flags of the last run, whose voltages are still readable | `FlagsOfTheRun`, `SweepReads` |
| `differentiable/_batch_pf.py:380` | a list of saturated units prepared by a call that raised is still handed over by the next call, after `redistribute_slack` was switched off | `SaturationFollowsSwitch`, `PowerFlowCalls` |
| `contingency_analysis_session.cu:170` | the list is cleared before the new one is parsed; refused midway, a prefix of it is runnable | the history `lapse` of `ContingencyAnalysis` |
| contingency `compute_flows()` | trips of a list built after the run zero the flows of the run before | `TrippedFlowsAreZero`, `ContingencyCalls` |
| `acpf_nr.cu` | the test is on the mismatch before the step, so a loop whose last budgeted step reaches the solution reports `converged = false` for an accurate voltage, although a comment says "t.converged is accurate whether the loop exited via break or by exhausting max_iter" | `ConvergedIsAccurate`, `SingleSolves` |
| contingency and injection engines | a held tensor of results is overwritten by the next hot run or freed by a cold one; only the scenario sweep's docstring (`scenario_sweep/__init__.py:592`) says so | `ResultsOverwrittenInPlace` with `Kinds = {"injection"}` and four calls, `EngineOptions` |
| `scenario_sweep/__init__.py:562` | `n_branches` is "available after set_branch_data()", but with a live driver it is the driver's (`scenario_sweep_session.cu:1456`), 0 until the admittances are uploaded | `NBranches` of `SweepResults` |

Three more paths end in a library call that fails half-way:

* a refactorization of a snapshot that throws leaves `factorized_for_solve` at the
  live solve, whose factors are gone (`torn`);
* `replace_source()` that throws leaves the new source in place and the counter
  that guards snapshots unchanged (`uncounted`);
* a set-up of the physical checks that throws half-way leaves the key of the
  previous one valid; with the previous settings restored, the next run keeps
  tables of the refused ones (`excused` holds `"setup"`).

And some smaller ones, seen while reading, which the models contain but no
property is about:

* Contingency analysis: `has_violations_result_` is not reset by a failing run;
  flags are recomputed by a cold run that is refused for its slack participants,
  or emptied or recomputed by one whose source does not build (`RunFailsInSource`),
  while the former driver stays; option setters record the name before they
  resolve it (`misreported`); flows of an earlier run stay readable;
  `violation_capacity` is not checked to be positive; `set_limits()` checks sizes
  only once there are branch data.
* Injection sweep: `set_injections()` forgets the targets of the checks before it
  may be refused; the push of targets may raise after the rows are stored; arrays
  of the caller are aliased, not copied; the release plan is not read again when
  `physical_violation_tol_mva` changes; `gen_v` cannot be withdrawn.
* Scenario sweep: `compute_flows()` reads trips past their end when
  `set_topology()` made them fewer; violations read after a failed cold build
  dereference a null driver; `get_violations_n()` reads limits off the grid, not
  those of `set_limits()`, with the margin of now, while records keep the margin of
  their run; the shape of `or_amps` is of now, its content of the last
  `compute_flows()`; `sn_mva` is that of whichever setter came last.
* Engines: the setters of `max_iter_base` and `tol_base` never reach the session;
  options said to take effect on the next run by repeating the analysis wait for a
  cold one; an enum member set in two engines is reported as a string that cannot
  be set back.
* Single power flow: the facade never checks convergence in
  `solve_power_flow`; a `resolve()` that raises leaves a moved voltage with the
  former timings and adjoint; a failed first transposed system leaks a handle; the
  result of `solve_JT_dlpack` aliases a work buffer.
* The wrapper's row masks are not recomputed when `handle_disconnected_grid`
  changes.

## Proofs

`ScenarioSweepSession_proofs` proves for all values of the constants:

* `TypeCorrect`: `TypeOK` is inductive.
* `FreshnessCorrect`, `FreshInputs`: `SolveReadsStagedInputs`. It is not inductive:
  at the path choice nothing says that a *clean* flag means the source already
  holds the input. The strengthening is `FreshnessInv`: `CleanMeansCached` (a clean
  flag means cached, in every state), `RunHoldsInputs` (after the path choice
  the flagged inputs are there too) and `AnswerIsTheSource`. Each action either
  sets the flag of what it changes, or changes the source and the input
  together.
* `KeptJacobianCorrect`: `KeptJacobianIsLive`, strengthened with "the permission
  is only there between calls or on return".
* `FlagsCorrect`: `FlagsDescribeSource`.

* `BatchCorrect`: `BatchMatchesSession`. The base state and the angle reference are
  cached with the path choice (`ReferenceIsCached`), the base state belongs to the
  reference (`BaseFollowsReference`), and patches and slack weights follow the
  source they were made for (`PatchesFollowBranches`, `WeightsFollowSource`); their
  conjunction `BatchInv` is inductive together with `FreshnessInv`.
* `SessionImplementsContract`: `RunSolve` maps to `Solve` of `SweepContract`, because
  `FreshnessInv` makes the answer the request, `RunReturn` to `Return`, every other
  step to `Stage` or a stutter.

`BatchDriver_proofs` proves the properties of `Batches`, for any number of rows, any
mask and any batch size. Its first part is arithmetic and order: a slot of the
compacted batch and a row kept determine each other, through the rank of a row
among the rows kept, and the chunks of a ceiling division cover exactly the rows.
`CountersInv` keeps chunk, capacity and active rows in step.

* `ResultsCorrect` (`ResultsAreOwn`): `ResultsInv` says how far the loop over the
  chunks has come, so that each chunk adds its rows and disturbs none of those
  before.
* `CapacityCorrect` (`CapacityFitsBatch`): `CapacityInv` relates the capacity of a
  live driver to the batch it was last offered.
* `BackwardCorrect` (`BackwardReadsItsForward`): `JacobianInv` says whose Jacobians
  are in the driver, `ContextsInv` what each saved context may read of them; a run
  between a forward and its backward breaks neither, because it takes a token or
  forgets the Jacobians.

Its second part is about `ContingencyAnalysis`, under the names of
`ContingencyEngine`, for any lists, branch data, limits and number of calls. A
`run()` keeps its driver when its configuration has not changed, so what it solved
is what it asks for only if everything that changes the rows says so. `AnalysisInv`:
the rows of a live driver that are not marked stale are those of the list and the
slack data of now, with their flags (`RowsCurrent`); the driver's reference is that
of the base state, the base state's is the session's, and the reference cached for
the list is the one the list asks for (`ReferenceCurrent`); after a run that returned
nothing is stale (`RunSettled`). `lapse` names the two calls that raise halfway and
break a part of it: a list refused midway, a base case that did not build.

* `RequestCorrect` (`SolvesWhatIsAsked`) and `FlagsCorrect` (`FlagsDescribeSource`)
  follow from it.
* `ViolationsCorrect` (`ViolationsTellTheRun`): what the records are, then whose.
  The kernel inserts one record at a time into the slots of its type; the property
  says what should be there at the end, the records sorted and cut at the capacity.
  The link is the place of a record, the number of those more severe, or equally
  severe and scanned before it: `Reserve` on the records scanned so far keeps
  exactly those whose place is within the capacity, in the order of their places,
  and so after all of them. `ViolationsInv` says whose they are: violations that
  can be read are of the driver, which has solved and checked them with the limits
  in use and the capacity it recorded, and as many rows of residuals go with them.

`SinglePowerFlow_proofs` proves the properties of `SingleSolves`, for any number of
buses, any layout the code builds, any set-points and any number of sessions.

* `AdjointCorrect` (`AdjointOfTheSolution`): `SessionsInv` says of each session that
  voltage, Jacobian, timings and factors are of one solve. It is stated per session
  and preserved by each of the ways a session changes (made, uploaded, stepped,
  raised, factors ensured, half ensured, solved), so that the actions only choose
  one of these lemmas.
* `FreshStartCorrect` (`LoopStartsFresh`): `LoopInv` says what a session that is
  about to loop still has of the one before it.
* `SetPointsCorrect` (`AcPfKeepsSetPoints`): `SetPointsInv`, on the steps of `ac_pf`.
* `GradientCorrect` (`GradientOfItsForward`): `ContextsInv` on the saved contexts, and
  the lemma `GatherIsBijective`: the unknowns are numbered by the position of a bus
  among the buses of its kind, so that scatter reaches every unknown once and
  gather reads every row once.

`PhysicalChecks_proofs` proves the four properties of `CheckReports`:
`TypeCorrect`, `ReportsCorrect`, `BaseReportCorrect` and `ReadableReportsCorrect`.
None of the last three is inductive: a report is right because the tables, mask
and set-points on the driver are, and those were put there by an earlier run,
perhaps one that threw. `ChecksInv` says what can be known of them between two
runs: a valid key of the present plans names the tables and the base report
(`KeyNamesTables`), a clean flag means the device mask is the mask
(`CleanMaskIsDevices`) and the set-points are the caller's unless the last run that
got through had a pre-pass (`CleanTargetsAreCallers`), and reports are seeded before
they are made (`ReportsAreSeeded`). `ChecksCorrect` proves it.

Its last part is about `PhysicalReports`, under the names of `BatchReports`:

* `PlansComplete` (`OnMeansPlanned`) with `PlansInv`: a plan is replaced, never
  withdrawn, and an attempt to turn the checks on leaves the flag off unless
  everything missing was pulled.
* `RowReportsCorrect` (`ReportsTellTheRun`): a kernel packs its groups into a slice
  of the flat arrays and touches no other row (`RowChecks`, `RowsApart`); the rows
  taken one after the other leave each row a kernel ran on told and the others as
  they were seeded (`FoldTold`), and a run that got through ran every kernel on
  every row (`AllBehind`). What is packed lists what is due once each and in order
  (`PackedIs`), and so do the checks of a merged row, one after the other
  (`MergedShows`). `RowsInv` says of the state that a driver whose checks are set up
  holds arrays of the size of its key and, unless plans have moved since, the base
  case's report at that key (`DriverInv`), and that a result which can be read is of
  the present key and plans, each row told or, after a run that raised, told or
  still as seeded (`ResultInv`). A setter keeps it by dropping the result or by
  changing nothing, a run by what `before_solve()` prepares (`Prepared`), whether it
  keeps the tables of the driver or makes them anew.

`SweepResults_proofs` proves the type invariant and the four properties of
`SweepReads`, for any grids, branch data, limits, topologies and numbers of rows.
What a caller reads lives in places that move one by one, and the history `lapse`
says which of them a call that raised left apart. `ResultsInv` (at the end of
`SweepResults`) says what still fits: trips and flags are those of the live source
(`FlagsFit`), a row solved is one of the source and, unless a run was cut short,
solved exactly when its trips do not split the grid (`AnswersFit`), and a record is
of the run of its row's voltages and of the limits in use (`RecordsFit`);
`DeviceTablesFit` is the fourth part. None of them is inductive without the
others: the flags of a kept driver are right because its source was flagged when
it was made. `run()` is a composition of operators on the session, with a lemma
for each saying what it moves; each way it raises is a prefix of that composition.

* `LeftOutCorrect` (`RowsLeftOutAgree`): from the invariant, and `KernelFacts`: what
  the kernel finds in a row is finite and never NOT_SIMULATED or a divergence.
* `RecordsCorrect` (`RecordsOfTheirVoltages`): `RecordsFit`.
* `BaseCaseCorrect` (`BaseCaseReportsAlike`): `SameRule`, the kernel's rule and numpy's
  find the same in any voltages, because a bus with limits in order is never both
  low and high (`LowOrHigh`); a current tells its branch (`CurrentOfBranch`).
* `FlowsCorrect` (`FlowsFitTheRun`): only `compute_flows()` makes flows the last
  outcome, and `FormulasAlike`, the three flow formulas agree at every terminal.

`BatchPowerFlow_proofs` proves the three properties of `PowerFlowCalls`, for any
number of calls, rows, branches and generators. `RecordsCorrect`
(`RecordsMatchSession`) needs one fact about the steps in between: a pending array
is what its pending record will say of it (`PendingTells`), so that handing over
the one and writing down the other keeps them in step. `AnswersCorrect`
(`AnswerIsOfThisCall`) and `NeverRefusedCorrect` (`NeverRefusedForRows`) follow from
`CallInv`, which says at every stage of a call that the session, overridden by what
is pending for it, is what this call asks for (`WillHold`, `Asked`); the lemma that
carries it is `ToGiveIsAsked`: whatever an earlier call left in the session, what
is handed over, or nothing, makes it what is asked. `SolvedIsAsked` says the same of
the topology the slack pre-pass masks its buses with, and `MasksInv` of its cache.

`EngineHandles_proofs` proves the three properties of `EngineOptions`:
`OptionsCorrect`, `BaseViewsCorrect` and `ResidualsCorrect`. A run decides whether to
keep its driver by comparing the configuration it noted with the one it would
note now, so `HandlesInv` says that the note is true of the driver
(`ConfigDescribesDriver`), that a run that returned used the session's options
(`SettledUsesSession`), and that only the injection engine, which never rebuilds
its base case, gives out views it owns (`ViewsInv`).

Its second part is about `InjectionFacade`, under the names of `InjectionEngine`,
for any grids, elements, rows, plans and number of calls. `InjectionInv` says of the
session that a matrix of set-points, on the driver as in the session, is an override
of rows that `set_gen_v()` accepted, and that a check whose targets are not marked
for upload has them on the driver (`SweepSound`); of facade and session that the
targets are those of the plan in force and the rows the facade holds, unless a push
raised (`Pushed`), and that these rows are the ones accepted last (`RowsRemembered`);
of a run that returned that rows and targets are loaded (`RunLoaded`).

* `VoltagesCorrect` (`OneVoltagePerBus`): a row accepted asks each bus for one
  magnitude, and the override takes no bus from anywhere else.
* `TargetsCorrect` (`ChecksUseWhatIsSolved`): the targets on the driver are the
  session's, these are of the facade's rows, and those are what was solved.
* `SolvedCorrect` (`SolvesWhatIsAsked`): `RequestInv` adds that the session holds what
  was accepted last, as it was given or as the elements given came out on a grid
  that can be built. What came out are sums over the generators and loads of a bus:
  NumPy adds them up per bus (`Scatter`), PyTorch element after element into the row
  (`IndexAdd`), and lightsim2grid has another grid, without the generators that are
  out. All are shown to be the base row plus the change of the elements at the bus.

`SweepFacade_proofs` proves `AssemblyCorrect` (`AssembledAsAsked`), for any masks,
set-points and numbers of rows. `FacadeInv` says between any two setters, refused
ones included, how the facade's copies and the session's arrays hang together:
the session's mask is the facade's and its row count the one last announced
(`Shapes`), the elements kept are those the injections were assembled from, for
the mask in force (`ElementsInv`), targets and set-points likewise (`TargetsInv`,
`SetPointsInv`), and a mask of rows that is not marked stale is that of the
set-points (`SkipInv`). A run that returned had fitting shapes (`ComputedInv`),
so that a stale mask of rows cannot have been solved. `PushedWithoutMask` bridges
the two ways the code has of saying that no generator is out.

It also proves the three properties of `SetPointGradients`, which `FacadeSetPoints`
takes as `Row`, for any number of generators and buses and any set-points:

* `SetPointsHeld` (`SolvedAtTheSetPoints`): threads write in any order, so nothing
  can be said of who wrote last. `RowInv` says that a bus one of whose threads is
  through has a magnitude *some* column asked for (`Written`), and one no thread
  wrote what it was held at (`HeldOrAsked`); that any two of them are within the
  tolerance is what the row was not left out for (`AskedAlike`).
* `SkippedAlike` (`RowsSkippedAlike`): `RulesAgree`, a column shares its bus exactly
  when the bus counts two columns.
* `SplitCorrect` (`GradientsSplitTheTie`): `ConstantSum`, the sum of a function that
  is `q` on a set and 0 elsewhere, by induction on the size of a finite set: a
  smallest counterexample (`SmallestOf`) would have a smaller one.

The assumptions are those of the modules: types of the constants, and that
`None` is none of the values, which TLC evaluates on every run.

The assumptions of `SinglePowerFlow` say that buses are finitely many positive
numbers, that the layouts are partitions of them, that the bounds are naturals and
that `None` is neither an owner nor a value.

Those of `SweepResults` say that the solver has finitely many buses, that branch
lists are sequences, that the limits of a bus are in order, as the code that uses
them takes for granted, and that NaN and `None` are no numbers.

Those of `SetPointGradients` say that generators are finitely many, that set-points
are integers, that the tolerance is not negative and that a derivative divides evenly
(its unit is chosen so).

Those of `ContingencyAnalysis` say that a list is a sequence with at least one
contingency, that one which strands the reference also splits the grid, that the
severities found in a row are sequences of integers, that a capacity is positive, as
its setter demands, and that `None` is no slack data, limits or solver. Those of `InjectionFacade` say that `None`
is neither a number nor a plan, that a row of set-points has a column for each
generator of any of the grids, that the plan read off a grid names machines of that
grid, that elements given together are matrices of integers (a power has a unit that
makes it one) with as many rows each, that a grid's generators and loads are typed,
and that the magnitudes a grid holds its buses at are integers.

Those of `PhysicalReports` say that a batch has a row for each number, that there is at
least one, that a row and the base case say how they came out and how many machines
of each type exceed each tolerance, that the base case is never left out, and that
`None` is no plan.

Folds and joined sequences, in `ContingencyAnalysis`, `ElementInjections` and
`PhysicalReports`, are recursive functions of the community modules. Their equation
is that of a CHOOSE: the proofs show that a function satisfies it, by induction on the
length or on the subsets of a finite set (`FlatExists`, `FoldExists`), which makes the
chosen one satisfy it too; what it computes then follows element by element
(`SubsetInduction`: a set of subsets to which every set belongs as soon as its
subsets with one element less do has them all). `SmallestOf`, from the
well-foundedness of the naturals, takes the place of the library's induction
theorems, whose hypotheses are operators.

Only model-checked: `EverySolveReturns` (`SingleSolves`), because liveness and
ENABLED are out of the prover's reach. Every safety property that a passing run
checks is a theorem.

## Not modelled

* The arithmetic: Newton kernels, admittances, the slack pre-pass's iteration,
  gradients as formulas except the split of set-points.
* The graph searches that decide which contingencies split the grid or strand a
  reference: which rows they pick is data of the models.
* Linear solver policies and the ledger: no state a behaviour could get wrong
  without the arithmetic, respectively static tables.
* The 32-bit width checks of `batch_dims_check.hpp`: a chain of refusals before the
  allocations.
* The C++ half of the bridge, which reads another library's objects; bindings,
  timings, memory layout, `from_pandapower()`, streams of a DLPack producer.
* `set_branch_data()` after `build_contingencies()`, which keeps the old patches
  (contingency analysis), torn writes of complex numbers, and values within the
  conflict tolerance, which race harmlessly.
* Examples, benchmarks, paper scripts, CI: not part of the program.
