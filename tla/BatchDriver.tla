----------------------------- MODULE BatchDriver -----------------------------
(***************************************************************************)
(* BatchPfDriver (src/src/_cpp/contingency/batch_pf_driver.cuh / .cu) with *)
(* its ScenarioSweepBatch source, driven by ScenarioSweepSession::run(),   *)
(* and the autograd operation of BatchPowerFlow that reads its Jacobians.  *)
(*                                                                         *)
(* The rows a source keeps are compacted into active slots, the slots cut  *)
(* into chunks of the driver's capacity, each chunk solved in one set of   *)
(* buffers (padded with phantom slots) and scattered back to its rows.     *)
(* The capacity belongs to the driver, the chunk layout of the patches to  *)
(* the source: a warm run() puts a new source into an old driver.  What    *)
(* could go wrong is a row solved with another row's data, a result or a   *)
(* Jacobian of an earlier run taken for this one's, and chunks growing in  *)
(* number because the capacity fits an earlier batch.                      *)
(*                                                                         *)
(* A value is what it was computed from: the row whose admittance patches  *)
(* and the row whose injections were in the slot, and the run().  Which    *)
(* inputs a run() reads is the business of ScenarioSweepSession; here a    *)
(* source is the set of rows it keeps.                                     *)
(***************************************************************************)
EXTENDS Integers, FiniteSets

CONSTANTS
    NumRows,      \* n_contingencies: rows of the batch (and result slots)
    BatchSizes,   \* values of batch_size
    MaxRuns,      \* bound on run() calls
    MaxContexts   \* bound on forward contexts alive at once

ASSUME BatchAssumption ==
    /\ NumRows \in Nat \ {0}
    /\ BatchSizes # {} /\ BatchSizes \subseteq Nat \ {0}
    /\ MaxRuns \in Nat \ {0} /\ MaxContexts \in Nat

Row == 0 .. NumRows - 1

(* Values: Unset before any solve, NaN, or computed from two rows' data.   *)
Unset == [kind |-> "unset"]
NaN   == [kind |-> "nan"]
Base  == -1          \* the base case's data, which phantom slots carry
Computed == [kind : {"computed"}, patches : Row \cup {Base}, sbus : Row \cup {Base},
             run : 1 .. MaxRuns, final : BOOLEAN]
Value == Computed \cup {Unset, NaN}

VARIABLES
    kept,        \* rows the next batch source keeps (not disconnected, not skipped)
    dirty,       \* topology_dirty_ / gen_off_dirty_ / skip_dirty_
    batchSize, fixedCap, keepJ,   \* the session's attributes of that name
    cap,         \* batch_size_ of the live driver; 0: no driver
    builtWith,   \* driver_cfg_: batch_size_ and fixed_batch_capacity_
    active,      \* the rows of active_to_orig_, which lists them in ascending order
    builtFor,    \* used_batch_size_ of the source: its chunk layout
    uncounted,   \* history: the source was replaced by a run() that threw before
                 \* source_build_counter_ was incremented
    nSolves,     \* n_solves_ of the driver
    results,     \* d_V_results and d_residuals, by row
    jac,         \* d_J_values_batch, by slot of the chunk buffer
    keptJ,       \* last_run_kept_jacobian_
    runs,        \* run_counter_
    sources,     \* source_build_counter_
    adjoint,     \* BatchAdjoint: factors by slot, factorized_for_solve; torn is
                 \* history: a refactorization failed over these factors
    contexts,    \* autograd contexts of past forwards
    gradient,    \* what the last backward() returned; NoGradient between calls
    pc,          \* "idle", "ready", "chunks", "return" or "refused"
    chunk        \* next chunk of the loop of solve()

stageVars  == <<kept, batchSize, fixedCap, keepJ>>
driverVars == <<cap, builtWith, active, builtFor, uncounted>>
vars == <<stageVars, dirty, driverVars, nSolves, results, jac, keptJ, runs, sources,
          adjoint, contexts, gradient, pc, chunk>>

CeilDiv(n, c) == (n + c - 1) \div c
Chunks(A, c)  == CeilDiv(Cardinality(A), c)

(* active_to_orig_[s]: the s-th of the kept rows.                          *)
RowAt(A, s) == CHOOSE r \in A : Cardinality({q \in A : q < r}) = s

NoGradient == [kind |-> "none"]
NoAdjoint  == [factors |-> <<>>, for |-> -1, torn |-> FALSE]   \* nothing factorized

FlagTypes ==
    /\ dirty \in BOOLEAN /\ fixedCap \in BOOLEAN /\ keepJ \in BOOLEAN /\ keptJ \in BOOLEAN
    /\ uncounted \in BOOLEAN /\ adjoint.torn \in BOOLEAN
    /\ builtWith \in Nat \X BOOLEAN

DataTypes ==
    /\ kept \in SUBSET Row /\ active \in SUBSET Row
    /\ batchSize \in BatchSizes
    /\ cap \in Nat /\ builtFor = cap
    /\ nSolves \in 0 .. MaxRuns /\ runs \in 0 .. MaxRuns /\ sources \in 0 .. MaxRuns
    /\ (cap > 0) => (results \in [Row -> Value] /\ jac \in [0 .. cap - 1 -> Value])
    /\ adjoint = [factors |-> adjoint.factors, for |-> adjoint.for, torn |-> adjoint.torn]
    /\ adjoint.for \in (-1) .. nSolves
    /\ pc \in {"idle", "ready", "chunks", "return", "refused"}
    /\ pc # "idle" => cap > 0
    /\ chunk \in 0 .. NumRows

(* The state is well typed; in particular the source of a live driver is   *)
(* laid out for the chunks that driver runs.                               *)
TypeOK == FlagTypes /\ DataTypes

Init ==
    /\ kept = Row /\ dirty = FALSE
    /\ batchSize \in BatchSizes /\ fixedCap \in BOOLEAN /\ keepJ = FALSE
    /\ cap = 0 /\ builtWith = <<0, FALSE>> /\ active = {} /\ builtFor = 0
    /\ uncounted = FALSE
    /\ nSolves = 0 /\ results = <<>> /\ jac = <<>>
    /\ keptJ = FALSE /\ runs = 0 /\ sources = 0
    /\ adjoint = NoAdjoint /\ contexts = {} /\ gradient = NoGradient
    /\ pc = "idle" /\ chunk = 0

-----------------------------------------------------------------------------
(* Between two run(): a topology (or generator mask, or skipped rows) that *)
(* keeps the rows A, and the attributes of the session.                    *)
Stage(A) ==
    /\ pc = "idle"
    /\ kept' = A /\ dirty' = TRUE
    /\ UNCHANGED <<batchSize, fixedCap, keepJ, driverVars, nSolves, results, jac, keptJ, runs,
                   sources, adjoint, contexts, gradient, pc, chunk>>

Configured ==
    /\ pc = "idle"
    /\ UNCHANGED <<kept, dirty, driverVars, nSolves, results, jac, keptJ, runs, sources, adjoint,
                   contexts, gradient, pc, chunk>>
SetBatchSize(b) == Configured /\ batchSize' = b /\ UNCHANGED <<fixedCap, keepJ>>
SetFixedBatchCapacity(f) == Configured /\ fixedCap' = f /\ UNCHANGED <<batchSize, keepJ>>
SetKeepFinalJacobian(k) == Configured /\ keepJ' = k /\ UNCHANGED <<batchSize, fixedCap>>

-----------------------------------------------------------------------------
(* run(): the driver and its source.                                       *)
Cold == cap = 0 \/ builtWith # <<batchSize, fixedCap>>
Warm == ~Cold /\ dirty

EnterRun ==
    /\ pc = "idle"
    /\ runs < MaxRuns
    /\ runs' = runs + 1
    /\ keptJ' = FALSE
    /\ gradient' = NoGradient
    /\ UNCHANGED <<stageVars, dirty, contexts>>

(* The source's own choice of chunk size: the chunks a batch of batchSize  *)
(* needs, evened out, unless a size is forced.                             *)
Balanced(A) ==
    IF Chunks(A, batchSize) = 0 THEN 1
    ELSE CeilDiv(Cardinality(A), Chunks(A, batchSize))

NewDriver ==
    LET c == IF fixedCap THEN batchSize ELSE Balanced(kept) IN
    /\ cap' = c /\ builtFor' = c
    /\ builtWith' = <<batchSize, fixedCap>>
    /\ active' = kept
    /\ nSolves' = 0
    /\ results' = [r \in Row |-> Unset]
    /\ jac' = [l \in 0 .. c - 1 |-> Unset]
    /\ adjoint' = NoAdjoint
    /\ sources' = sources + 1 /\ uncounted' = FALSE

(* Mutant: the live capacity is always good enough.                        *)
NeverTooMany == FALSE

TooManyChunks ==
    \/ Chunks(kept, cap) > 2 * Chunks(kept, batchSize)
    \/ keepJ /\ Chunks(kept, cap) > 1 /\ Chunks(kept, batchSize) <= 1

(* The new source is laid out for the live capacity (forced_batch_size),   *)
(* without which replace_source() would throw.                             *)
LiveLayout == cap

(* replace_source(): capacity, buffers, results and J stay, the adjoint    *)
(* forgets which solve it was factorized for.                              *)
ReplaceSource ==
    /\ LiveLayout = cap
    /\ active' = kept /\ builtFor' = LiveLayout
    /\ adjoint' = [adjoint EXCEPT !.for = -1]
    /\ sources' = sources + 1 /\ uncounted' = FALSE
    /\ UNCHANGED <<cap, builtWith, nSolves, results, jac>>

(* Refused, or failing before the driver is looked at: counted all the     *)
(* same.                                                                   *)
RunRefused ==
    /\ EnterRun
    /\ UNCHANGED <<driverVars, nSolves, results, jac, sources, adjoint, pc, chunk>>

RunCold ==
    /\ EnterRun
    /\ Cold
    /\ NewDriver
    /\ pc' = "ready" /\ UNCHANGED chunk

RunWarmRebuilds ==
    /\ EnterRun
    /\ Warm /\ ~fixedCap /\ TooManyChunks
    /\ NewDriver
    /\ pc' = "ready" /\ UNCHANGED chunk

(* The old driver is gone when the new one cannot be built (32-bit sizes,  *)
(* device memory); driver_cfg_ is still the old one's.                     *)
RunFailsToBuild ==
    /\ EnterRun
    /\ Cold \/ (Warm /\ ~fixedCap /\ TooManyChunks)
    /\ cap' = 0 /\ builtFor' = 0 /\ active' = {} /\ nSolves' = 0
    /\ results' = <<>> /\ jac' = <<>> /\ adjoint' = NoAdjoint /\ uncounted' = FALSE
    /\ UNCHANGED <<builtWith, sources, pc, chunk>>

RunWarm ==
    /\ EnterRun
    /\ Warm /\ (fixedCap \/ ~TooManyChunks)
    /\ ReplaceSource
    /\ pc' = "ready" /\ UNCHANGED chunk

(* source_ is the new one when its initialize() fails; the adjoint is not  *)
(* told and the source not counted.                                        *)
RunFailsInNewSource ==
    /\ EnterRun
    /\ Warm /\ (fixedCap \/ ~TooManyChunks)
    /\ active' = kept /\ builtFor' = LiveLayout /\ uncounted' = TRUE
    /\ UNCHANGED <<cap, builtWith, nSolves, results, jac, sources, adjoint, pc, chunk>>

RunHot ==
    /\ EnterRun
    /\ ~Cold /\ ~dirty
    /\ pc' = "ready"
    /\ UNCHANGED <<driverVars, nSolves, results, jac, sources, adjoint, chunk>>

(* Everything of run() between the source and solve() that may throw.      *)
RunFails ==
    /\ pc = "ready"
    /\ pc' = "idle"
    /\ UNCHANGED <<stageVars, dirty, driverVars, nSolves, results, jac, keptJ, runs, sources,
                   adjoint, contexts, gradient, chunk>>

-----------------------------------------------------------------------------
(* solve(): counted first, then refused if the chunk buffer would not hold *)
(* the Jacobian of every row.                                              *)
NumActive == Cardinality(active)
NumChunks == CeilDiv(NumActive, cap)

RefusesChunks == keepJ /\ NumChunks > 1

SolveRefused ==
    /\ pc = "ready"
    /\ RefusesChunks
    /\ nSolves' = nSolves + 1
    /\ pc' = "refused"
    /\ UNCHANGED <<stageVars, dirty, driverVars, results, jac, keptJ, runs, sources, adjoint,
                   contexts, gradient, chunk>>

(* Mutant: rows without a slot keep what an earlier run left.              *)
NoPrefill == UNCHANGED results

Prefill == results' = IF NumActive < NumRows THEN [r \in Row |-> NaN] ELSE results

SolveBegins ==
    /\ pc = "ready"
    /\ ~RefusesChunks
    /\ nSolves' = nSolves + 1
    /\ Prefill
    /\ chunk' = 0
    /\ pc' = "chunks"
    /\ UNCHANGED <<stageVars, dirty, driverVars, jac, keptJ, runs, sources, adjoint, contexts,
                   gradient>>

(* _solve_chunk(): slot l of chunk k takes its patches from the source's   *)
(* layout (build_flat_patches) and its injections from the driver's; the   *)
(* slots past the last row are phantoms with the base case's data.         *)
Actual(k) == IF NumActive - k * cap < cap THEN NumActive - k * cap ELSE cap

PatchedRow(k, l) ==
    IF l < builtFor /\ k * builtFor + l < NumActive THEN RowAt(active, k * builtFor + l) ELSE Base
InjectedRow(k, l) == IF l < Actual(k) THEN RowAt(active, k * cap + l) ELSE Base

InSlot(k, l, final) ==
    [kind |-> "computed", patches |-> PatchedRow(k, l), sbus |-> InjectedRow(k, l),
     run |-> runs, final |-> final]

(* d_result_map(): none when every row has a slot.                         *)
ResultRow(s) == IF NumActive < NumRows THEN RowAt(active, s) ELSE s

(* The loop leaves J one iteration behind the voltages; it is filled again *)
(* at the final ones when it is to be kept.                                *)
SolveChunk ==
    /\ pc = "chunks"
    /\ chunk < NumChunks
    /\ jac' = [l \in 0 .. cap - 1 |-> InSlot(chunk, l, keepJ)]
    /\ results' = [r \in Row |->
          IF \E l \in 0 .. Actual(chunk) - 1 : ResultRow(chunk * cap + l) = r
             THEN InSlot(chunk, CHOOSE l \in 0 .. Actual(chunk) - 1 :
                                   ResultRow(chunk * cap + l) = r, TRUE)
             ELSE results[r]]
    /\ chunk' = chunk + 1
    /\ UNCHANGED <<stageVars, dirty, driverVars, nSolves, keptJ, runs, sources, adjoint, contexts,
                   gradient, pc>>

(* A library call fails: what the previous chunks stored stays.            *)
SolveChunkFails ==
    /\ pc = "chunks"
    /\ chunk < NumChunks
    /\ jac' = [l \in 0 .. cap - 1 |-> InSlot(chunk, l, FALSE)]
    /\ pc' = "idle"
    /\ UNCHANGED <<stageVars, dirty, driverVars, nSolves, results, keptJ, runs, sources, adjoint,
                   contexts, gradient, chunk>>

SolveEnds ==
    /\ pc = "chunks"
    /\ chunk = NumChunks
    /\ dirty' = FALSE
    /\ keptJ' = keepJ
    /\ pc' = "return"
    /\ UNCHANGED <<stageVars, driverVars, nSolves, results, jac, runs, sources, adjoint, contexts,
                   gradient, chunk>>

RunLeaves ==
    /\ pc \in {"return", "refused"}
    /\ pc' = "idle"
    /\ UNCHANGED <<stageVars, dirty, driverVars, nSolves, results, jac, keptJ, runs, sources,
                   adjoint, contexts, gradient, chunk>>

-----------------------------------------------------------------------------
(* run_counter: every run(); source_build_counter: constant across hot runs.*)
Counters == [run |-> runs, source |-> sources]

(* _BatchPowerFlowOp: a forward that needs a gradient has kept its J; its  *)
(* context notes the counters and, with snapshot_jacobian, clones J.       *)
ForwardReturns(snapshot) ==
    /\ pc = "return"
    /\ keptJ
    /\ Cardinality(contexts) < MaxContexts
    /\ contexts' = contexts \cup
          {[run |-> Counters.run, source |-> Counters.source, rows |-> active,
            J |-> IF snapshot THEN jac ELSE <<>>]}
    /\ pc' = "idle"
    /\ UNCHANGED <<stageVars, dirty, driverVars, nSolves, results, jac, keptJ, runs, sources,
                   adjoint, gradient, chunk>>

Forget(c) ==
    /\ pc = "idle"
    /\ contexts' = contexts \ {c}
    /\ gradient' = NoGradient
    /\ UNCHANGED <<stageVars, dirty, driverVars, nSolves, results, jac, keptJ, runs, sources,
                   adjoint, pc, chunk>>

OwnJ(c) == c.J = <<>>

(* Mutant: a snapshot is as good as the driver's own J.                    *)
SnapshotsNeedNoSource(c) == OwnJ(c) => Counters.run = c.run

ContextIsCurrent(c) == IF OwnJ(c) THEN Counters.run = c.run ELSE Counters.source = c.source

BackwardAllowed(c) ==
    /\ ContextIsCurrent(c)                        \* _BatchPowerFlowOp.backward
    /\ cap > 0 /\ (OwnJ(c) => keptJ)              \* ScenarioSweepSession
    /\ OwnJ(c) \/ DOMAIN c.J = 0 .. cap - 1       \* shape of the DLPack tensor
    /\ nSolves # 0 /\ NumActive <= cap            \* BatchPfDriver

NeedsFactors(c) == adjoint.factors = <<>> \/ ~OwnJ(c) \/ adjoint.for # nSolves

Backward(c) ==
    /\ pc = "idle"
    /\ BackwardAllowed(c)
    /\ adjoint' = IF NeedsFactors(c)
                    THEN [factors |-> IF OwnJ(c) THEN jac ELSE c.J,
                          for |-> IF OwnJ(c) THEN nSolves ELSE -1, torn |-> FALSE]
                    ELSE adjoint
    /\ gradient' = [kind |-> "gradient", of |-> c, rows |->
          [r \in Row |-> IF \E s \in 0 .. NumActive - 1 : ResultRow(s) = r
                           THEN adjoint'.factors[CHOOSE s \in 0 .. NumActive - 1 : ResultRow(s) = r]
                           ELSE Unset]]
    /\ UNCHANGED <<stageVars, dirty, driverVars, nSolves, results, jac, keptJ, runs, sources,
                   contexts, pc, chunk>>

(* refactor() fails after the new values are in place: the factors are     *)
(* lost, factorized_for_solve stays.                                       *)
BackwardFails(c) ==
    /\ pc = "idle"
    /\ BackwardAllowed(c)
    /\ NeedsFactors(c) /\ adjoint.factors # <<>>
    /\ adjoint' = [adjoint EXCEPT !.factors = [l \in 0 .. cap - 1 |-> Unset], !.torn = TRUE]
    /\ gradient' = NoGradient
    /\ UNCHANGED <<stageVars, dirty, driverVars, nSolves, results, jac, keptJ, runs, sources,
                   contexts, pc, chunk>>

-----------------------------------------------------------------------------
Next ==
    \/ \E A \in SUBSET Row : Stage(A)
    \/ \E b \in BatchSizes : SetBatchSize(b)
    \/ \E v \in BOOLEAN : SetFixedBatchCapacity(v) \/ SetKeepFinalJacobian(v)
    \/ RunCold \/ RunWarm \/ RunWarmRebuilds \/ RunHot
    \/ RunRefused \/ RunFailsToBuild \/ RunFailsInNewSource \/ RunFails
    \/ SolveRefused \/ SolveBegins \/ SolveChunk \/ SolveChunkFails \/ SolveEnds \/ RunLeaves
    \/ \E snapshot \in BOOLEAN : ForwardReturns(snapshot)
    \/ \E c \in contexts : Forget(c) \/ Backward(c) \/ BackwardFails(c)

Spec == Init /\ [][Next]_vars

-----------------------------------------------------------------------------
OwnValue(r, n) ==
    [kind |-> "computed", patches |-> r, sbus |-> r, run |-> n, final |-> TRUE]

(* The results of a returning run() are, row by row, this run's solve of   *)
(* that row's own patches and injections, and NaN for the rows it did not  *)
(* solve, however the rows were compacted and cut into chunks and whatever *)
(* the driver held before.                                                 *)
ResultsAreOwn ==
    pc = "return" =>
        results = [r \in Row |-> IF r \in active THEN OwnValue(r, runs) ELSE NaN]

(* A driver kept alive never needs more than twice the chunks a driver     *)
(* made for this batch would need.                                         *)
ChunksBounded ==
    cap > 0 /\ pc # "idle" => NumChunks <= 2 * Chunks(active, batchSize)

(* A run() that changed the batch is refused for keep_final_jacobian only  *)
(* when batch_size itself is too small: a driver too small for it has been *)
(* rebuilt (dirty is cleared by a run() that succeeds, so it still holds). *)
RebuildsBeforeRefusing ==
    pc = "refused" /\ dirty => Chunks(active, batchSize) > 1

(* While the session lets the driver's own J be read, its slots are the    *)
(* converged Jacobians of the rows of the last run, all of them.           *)
KeptJacobianCoversBatch ==
    keptJ => \A s \in 0 .. NumActive - 1 :
                s < cap /\ jac[s] = OwnValue(RowAt(active, s), runs)

(* The last backward() returned, for every row of its own forward, what    *)
(* that forward's Jacobian gives.                                          *)
GradientsAreOwn ==
    gradient.kind = "gradient" =>
        LET c == gradient.of IN
        gradient.rows = [r \in Row |-> IF r \in c.rows THEN OwnValue(r, c.run) ELSE Unset]

(* A backward() that is not refused answers with the factors of the        *)
(* Jacobians of its own forward, every row with its own, in snapshot and   *)
(* alias mode mixed, with other forwards and failed runs in between.  The   *)
(* two histories are those of a library call that failed half-way.         *)
GradientIsOwnForward ==
    ~adjoint.torn /\ ~uncounted => GradientsAreOwn

-----------------------------------------------------------------------------
(* keep_final_jacobian is refused only when batch_size is too small for    *)
(* the active rows, not because a live driver is.                          *)
RefusedOnlyWhenTooSmall == pc = "refused" => Chunks(active, batchSize) > 1

(* A live driver's capacity is neither wasted nor too small for the batch.  *)
CapacityFitsBatch == ChunksBounded /\ RebuildsBeforeRefusing

(* What a backward() reads, the driver's own J included, is of its forward. *)
BackwardReadsItsForward == KeptJacobianCoversBatch /\ GradientIsOwnForward

-----------------------------------------------------------------------------
(* Why the three hold for every batch: the parts of their invariant.       *)

(* One solve and one source at most per run(); a solve under way is newer  *)
(* than any factorization.                                                 *)
CountersInv ==
    /\ nSolves <= runs /\ sources <= runs
    /\ pc = "ready" => nSolves < runs
    /\ pc # "idle" => runs > 0
    /\ pc = "chunks" => adjoint.for < nSolves

(* The first chunks of the loop have stored the results of their slots,    *)
(* the rows without a slot are NaN.                                        *)
ResultsInv ==
    pc \in {"chunks", "return"} =>
        /\ \A s \in 0 .. NumActive - 1 :
              s < chunk * cap => results[RowAt(active, s)] = OwnValue(RowAt(active, s), runs)
        /\ \A r \in Row \ active : results[r] = NaN
        /\ chunk <= NumChunks
        /\ pc = "return" => chunk = NumChunks

(* The capacity is that of driver_cfg_; a live batch that is not dirty, or *)
(* is being run, was measured against it.                                  *)
CapacityInv ==
    /\ cap > 0 => builtWith[1] \in BatchSizes
    /\ cap > 0 /\ builtWith[2] => cap = builtWith[1]
    /\ cap > 0 /\ (~dirty \/ pc # "idle") => NumChunks <= 2 * Chunks(active, builtWith[1])
    /\ pc # "idle" => builtWith = <<batchSize, fixedCap>>
    /\ pc \in {"ready", "refused"} /\ dirty /\ keepJ /\ NumChunks > 1 =>
          Chunks(active, batchSize) > 1
    /\ pc = "refused" => keepJ /\ NumChunks > 1

(* A J to be kept is filled by the only chunk, and stays until the next    *)
(* run(); its factors, when they are of this solve, are its own.           *)
JacobianInv ==
    /\ pc \in {"chunks", "return"} /\ keepJ =>
          /\ NumChunks <= 1
          /\ chunk = 1 => \A s \in 0 .. NumActive - 1 : jac[s] = OwnValue(RowAt(active, s), runs)
    /\ keptJ => cap > 0 /\ pc \in {"idle", "return"}
    /\ KeptJacobianCoversBatch
    /\ keptJ /\ adjoint.for = nSolves /\ ~adjoint.torn => adjoint.factors = jac

(* The rows of a context are those of the driver as long as one of its two *)
(* counters is; a snapshot holds the Jacobians of those rows.              *)
ContextsInv ==
    \A c \in contexts :
        /\ c.run \in 0 .. runs /\ c.source \in 0 .. sources /\ c.rows \subseteq Row
        /\ c.run = runs => c.rows = active
        /\ c.source = sources /\ ~uncounted /\ cap > 0 => c.rows = active
        /\ ~OwnJ(c) => \A s \in 0 .. Cardinality(c.rows) - 1 :
                          c.J[s] = OwnValue(RowAt(c.rows, s), c.run)

DriverInv ==
    /\ CountersInv /\ ResultsInv /\ CapacityInv
    /\ JacobianInv /\ ContextsInv /\ GradientIsOwnForward
=============================================================================
