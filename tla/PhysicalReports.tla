---------------------------- MODULE PhysicalReports ----------------------------
(***************************************************************************)
(* The reports of the physical checks of a contingency analysis: the flag, *)
(* the tolerance, the capacity and the plans as the facade and the engine  *)
(* set them (contingency_analysis/_physical_checks.py over                 *)
(* contingency/physical_checks_data.hpp), the flat arrays the check        *)
(* kernels fill, and the merged rows a caller reads.                       *)
(*                                                                         *)
(* Four checks share one row of the merged report.  Each has a capacity    *)
(* per type, hence a stride and arrays of its own; a driver that outlives  *)
(* a run keeps its arrays, and the base case's report, when a key says so. *)
(* What could go wrong is a record of another row, check, run or setting.  *)
(*                                                                         *)
(* What a row violates is data: per check and type, how many machines      *)
(* exceed their limit by more than each tolerance; a record is known by    *)
(* its check, its type and its rank.  violation_tol, the residual above    *)
(* which a row has diverged, keeps its value; the set-up of the checks     *)
(* does not fail half-way (PhysicalChecks has that).                       *)
(***************************************************************************)
EXTENDS Naturals, Integers, SequencesExt

CONSTANTS
    None,
    Tolerances,   \* of the comparisons, in MVA and in pu
    Capacities,   \* records kept per row, check and type
    NumRows,
    Batches,      \* what may come out of the solve of the rows of a run
    BaseCases,    \* and of the base case
    Stops,        \* kernels a run that raises may have behind it
    MaxCalls      \* bound on the calls of a behaviour

(* The types of each check, in the order of its groups.                    *)
TypesOf == [bus_q   |-> <<"LOW_Q", "HIGH_Q">>,
            hvdc_p  |-> <<"HIGH_P">>,
            gen_p   |-> <<"LOW_P", "HIGH_P">>,
            release |-> <<"LOW_VOLTAGE_AT_MIN_Q", "HIGH_VOLTAGE_AT_MAX_Q",
                          "LOW_VOLTAGE_SVC_STANDBY", "HIGH_VOLTAGE_SVC_STANDBY">>]
Check       == DOMAIN TypesOf
Planned     == {"bus_q", "gen_p", "release"}
KernelOrder == <<"bus_q", "hvdc_p", "gen_p", "release">>
ReportOrder == <<"bus_q", "release", "hvdc_p", "gen_p">>
Groups(c)   == Len(TypesOf[c])

Rows  == 1 .. NumRows
Plans == {"full", "empty"}      \* an empty plan has nothing to report
Outcomes == {"left_out", "diverged", "converged"}   \* left out by the source

ReportsAssumption ==
    /\ None \notin Plans
    /\ NumRows \in Nat \ {0} /\ MaxCalls \in Nat /\ Capacities \subseteq Nat \ {0}
    /\ \A b \in Batches : DOMAIN b = Rows
    /\ \A x \in BaseCases \cup UNION {Range(b) : b \in Batches} :
         /\ x.how \in Outcomes
         /\ \A c \in Check : x.found[c] \in [1 .. Groups(c) -> [Tolerances -> Nat]]
    /\ \A x \in BaseCases : x.how # "left_out"

VARIABLES
    env,        \* grid: built from a grid; release: compiled with can_be_pv
    baseCase,   \* what the base state is
    on,         \* compute_physical_violations
    tol, cap,   \* physical_violation_tol_*, physical_violation_capacity
    plan,       \* per check, None: has_*_plan is false
    newPlans,   \* plan_generation has moved since the set-up of the driver
    hasResult,  \* has_result
    dev,        \* the checks on the live driver (None: no driver)
    outcome,    \* of the last call: "ok" or "raised"
    calls,
    ran,        \* history: what came out of the last run's rows
    torn        \* history: the last run stopped in its chunks

settings == <<on, tol, cap, plan, newPlans>>
vars == <<env, baseCase, settings, hasResult, dev, outcome, calls, ran, torn>>

Kept(n, K) == IF n < K THEN n ELSE K
Rec(c, g, i) == [check |-> c, type |-> TypesOf[c][g], rank |-> i]
Blank == [check |-> None, type |-> None, rank |-> 0]

(* Records of type g the row x has for check c at the present tolerance.   *)
Exceeding(x, c, g) == IF c \in Planned /\ plan[c] # "full" THEN 0 ELSE x.found[c][g][tol]

-----------------------------------------------------------------------------
(* One row of a check: the kernel keeps group g in slots g*K + 1 .. of the *)
(* row's slice while it scans, and packs the groups at the end.            *)
Laid(c, x, old) ==
    [j \in 1 .. Groups(c) * cap |->
       LET g == ((j - 1) \div cap) + 1
           i == ((j - 1) % cap) + 1
       IN IF i <= Kept(Exceeding(x, c, g), cap) THEN Rec(c, g, i) ELSE old[j]]
Packed(c, x) ==
    FlattenSeq([g \in 1 .. Groups(c) |->
                  [i \in 1 .. Kept(Exceeding(x, c, g), cap) |-> Rec(c, g, i)]])
Slice(c, x, old) ==
    LET packed == Packed(c, x)
    IN packed \o SubSeq(Laid(c, x, old), Len(packed) + 1, Groups(c) * cap)

Stride(c) == Groups(c) * cap

(* check_*_kernel on row r: nothing for a row that did not converge.       *)
Checked(out, c, r, x) ==
    CASE x.how = "left_out" -> out
      [] x.how = "diverged" -> [out EXCEPT !.count[r] = 0, !.truncated[r] = FALSE]
      [] OTHER ->
         LET n     == Stride(c)
             slice == Slice(c, x, SubSeq(out.slots, (r - 1) * n + 1, r * n))
         IN [count     |-> [out.count EXCEPT ![r] = Len(Packed(c, x))],
             truncated |-> [out.truncated EXCEPT
                              ![r] = \E g \in 1 .. Groups(c) : Exceeding(x, c, g) > cap],
             slots     |-> SubSeq(out.slots, 1, (r - 1) * n) \o slice
                             \o SubSeq(out.slots, r * n + 1, Len(out.slots))]

(* set_*_check(): n rows that were never simulated, or the base case.      *)
Seeded(c, n, count) ==
    [count |-> [r \in 1 .. n |-> count], truncated |-> [r \in 1 .. n |-> FALSE],
     slots |-> [j \in 1 .. n * Stride(c) |-> Blank]]
BaseReport(c) == Checked(Seeded(c, 1, 0), c, 1, baseCase)

-----------------------------------------------------------------------------
(* What a caller reads.  Row r of a check starts at r * stride; a count of *)
(* -1 is a row without records.                                            *)
RowsFromFlatAtCapacity(out, c) ==
    [r \in DOMAIN out.count |->
       [i \in 1 .. (IF out.count[r] < 0 THEN 0 ELSE out.count[r]) |->
          out.slots[(r - 1) * cap + i]]]
RowsFromFlat(out, c) ==
    [r \in DOMAIN out.count |->
       [i \in 1 .. (IF out.count[r] < 0 THEN 0 ELSE out.count[r]) |->
          out.slots[(r - 1) * Stride(c) + i]]]
Merged(outs) ==
    LET per == [k \in DOMAIN ReportOrder |-> RowsFromFlat(outs[ReportOrder[k]], ReportOrder[k])]
    IN [r \in DOMAIN per[1] |-> FlattenSeq([k \in DOMAIN per |-> per[k][r]])]
TruncatedBy(outs) ==
    LET flags(c) == outs[c].truncated
    IN [r \in Rows |-> flags("bus_q")[r] \/ flags("hvdc_p")[r] \/ flags("gen_p")[r]
                         \/ flags("release")[r]]
Readable == hasResult /\ dev # None

(* The getters of a batch and of the base case.                            *)
GetPhysicalViolations == Merged(dev.out)
GetPhysicalViolationsN == Merged(dev.base)[1]
GetPhysicalViolationsTruncated == TruncatedBy(dev.out)

-----------------------------------------------------------------------------
Init ==
    /\ env \in [grid : BOOLEAN, release : BOOLEAN] /\ baseCase \in BaseCases
    /\ on = FALSE /\ tol \in Tolerances /\ cap \in Capacities
    /\ plan = [c \in Planned |-> None] /\ newPlans = FALSE
    /\ hasResult = FALSE /\ dev = None
    /\ outcome = "ok" /\ calls = 0
    /\ ran = <<>> /\ torn = FALSE

Call(o) == calls < MaxCalls /\ calls' = calls + 1 /\ outcome' = o
Refused == Call("raised") /\ UNCHANGED <<env, baseCase, settings, hasResult, dev, ran, torn>>
Unmoved == UNCHANGED <<env, baseCase, dev, ran, torn>>

(* Turning the flag on pulls from the grid the plans that are missing, in  *)
(* this order; any extraction may raise, and then the flag is left.        *)
PullOrder == [bus_q |-> 1, gen_p |-> 2, release |-> 3]
Missing ==
    IF ~env.grid THEN {}
    ELSE {c \in Planned : plan[c] = None /\ (c = "release" => env.release)}
Pull(got) ==
    /\ \A c \in got, d \in Missing : PullOrder[d] < PullOrder[c] => d \in got
    /\ Call(IF got = Missing THEN "ok" ELSE "raised")
    /\ plan' = [c \in Planned |-> IF c \in got THEN "full" ELSE plan[c]]
    /\ newPlans' = (newPlans \/ got # {})

TurnOnFlagFirst ==
    \E got \in SUBSET Missing :
      /\ Pull(got) /\ on' = TRUE
      /\ hasResult' = (hasResult /\ got = {} /\ on)
      /\ UNCHANGED <<tol, cap>> /\ Unmoved
TurnOn ==
    \E got \in SUBSET Missing :
      /\ Pull(got) /\ on' = (on \/ got = Missing)
      /\ hasResult' = (hasResult /\ got = {} /\ on' = on)
      /\ UNCHANGED <<tol, cap>> /\ Unmoved

TurnOff ==
    /\ Call("ok") /\ on' = FALSE
    /\ hasResult' = (hasResult /\ ~on)
    /\ UNCHANGED <<tol, cap, plan, newPlans>> /\ Unmoved

SetTol(t) ==
    /\ Call("ok") /\ tol' = t
    /\ hasResult' = (hasResult /\ t = tol)
    /\ UNCHANGED <<on, cap, plan, newPlans>> /\ Unmoved

SetCapacity(k) ==
    IF k <= 0 THEN Refused ELSE
    /\ Call("ok") /\ cap' = k
    /\ hasResult' = (hasResult /\ k = cap)
    /\ UNCHANGED <<on, tol, plan, newPlans>> /\ Unmoved

(* set_*_capability(): validated against the session's buses.              *)
SetPlan(c, p) ==
    /\ Call("ok")
    /\ plan' = [plan EXCEPT ![c] = p] /\ newPlans' = TRUE /\ hasResult' = FALSE
    /\ UNCHANGED <<on, tol, cap>> /\ Unmoved
SetPlanRefused == Refused
SetPlanFromGrid(c) ==
    IF ~env.grid \/ (c = "release" /\ ~env.release) THEN Refused ELSE SetPlan(c, "full")

-----------------------------------------------------------------------------
(* run(): the checks as before_solve() leaves them on the driver d.        *)
Key == [tol |-> tol, cap |-> cap]
NewDriver == [ready |-> FALSE, key |-> None, out |-> None, base |-> None]
SameSetup(d) == d.ready /\ d.key = Key /\ ~newPlans

Reseeded(d) ==
    [d EXCEPT !.out = [c \in Check |->
       [d.out[c] EXCEPT !.count = [r \in Rows |-> -1], !.truncated = [r \in Rows |-> FALSE]]]]
SetUp ==
    [ready |-> TRUE, key |-> Key, out |-> [c \in Check |-> Seeded(c, NumRows, -1)],
     base |-> [c \in Check |->
                 IF baseCase.how = "diverged" THEN Seeded(c, 1, 0) ELSE BaseReport(c)]]
BeforeSolve(d) ==
    IF ~on THEN [d EXCEPT !.ready = FALSE]
    ELSE IF SameSetup(d) THEN Reseeded(d) ELSE SetUp

(* A chunk holds one row; its kernels run in KernelOrder.  After n kernels.*)
After(d, rows, n) ==
    IF ~on THEN d ELSE
    [d EXCEPT !.out = [c \in Check |->
       FoldLeft(LAMBDA out, r :
                  IF \E k \in DOMAIN KernelOrder :
                       KernelOrder[k] = c /\ (r - 1) * Len(KernelOrder) + k <= n
                  THEN Checked(out, c, r, rows[r]) ELSE out,
                d.out[c], [r \in Rows |-> r])]]
AllKernels == NumRows * Len(KernelOrder)

(* The driver of a run: a new one when the configuration changed (cold).   *)
Driver(cold) == IF cold THEN NewDriver ELSE dev
CanRun == ~on \/ plan["bus_q"] # None

Run(rows, cold) ==
    /\ CanRun /\ (dev = None => cold) /\ Call("ok")
    /\ dev' = After(BeforeSolve(Driver(cold)), rows, AllKernels)
    /\ newPlans' = (newPlans /\ ~on)
    /\ hasResult' = on
    /\ ran' = rows /\ torn' = FALSE
    /\ UNCHANGED <<env, baseCase, on, tol, cap, plan>>

(* No reactive plan: before_solve() refuses, on the driver of the run.     *)
RunRefused(cold) ==
    /\ ~CanRun /\ (dev = None => cold) /\ Call("raised")
    /\ dev' = Driver(cold)
    /\ UNCHANGED <<env, baseCase, settings, hasResult, ran, torn>>

(* The driver of a cold run cannot be built.                               *)
RunFailsToBuild ==
    /\ Call("raised") /\ dev' = None
    /\ UNCHANGED <<env, baseCase, settings, hasResult, ran, torn>>

(* The solve raises after n kernels, the outputs already seeded.           *)
RunFails(rows, cold, n) ==
    /\ CanRun /\ (dev = None => cold) /\ Call("raised")
    /\ dev' = After(BeforeSolve(Driver(cold)), rows, n)
    /\ newPlans' = (newPlans /\ ~on)
    /\ ran' = rows /\ torn' = TRUE
    /\ UNCHANGED <<env, baseCase, on, tol, cap, plan, hasResult>>

Next ==
    \/ TurnOn
    \/ TurnOff
    \/ \E t \in Tolerances : SetTol(t)
    \/ \E k \in Capacities \cup {0} : SetCapacity(k)
    \/ \E c \in Planned, p \in Plans : SetPlan(c, p)
    \/ SetPlanRefused
    \/ \E c \in Planned : SetPlanFromGrid(c)
    \/ \E rows \in Batches, cold \in BOOLEAN : Run(rows, cold)
    \/ \E cold \in BOOLEAN : RunRefused(cold)
    \/ RunFailsToBuild
    \/ \E rows \in Batches, cold \in BOOLEAN, n \in Stops \cap 0 .. AllKernels - 1 :
         RunFails(rows, cold, n)

Spec == Init /\ [][Next]_vars

-----------------------------------------------------------------------------
(* The state is well typed; a set-up driver holds arrays of its key's size.*)
TypeOK ==
    /\ on \in BOOLEAN /\ tol \in Tolerances /\ cap \in Capacities
    /\ plan \in [Planned -> Plans \cup {None}] /\ newPlans \in BOOLEAN
    /\ hasResult \in BOOLEAN /\ torn \in BOOLEAN /\ outcome \in {"ok", "raised"}
    /\ dev # None /\ dev.ready =>
         \A c \in Check : Len(dev.out[c].slots) = NumRows * Groups(c) * dev.key.cap

Category(type) ==
    CASE type \in {"LOW_VOLTAGE", "HIGH_VOLTAGE", "CURRENT"} -> "operational"
      [] type \in {"LOW_Q", "HIGH_Q", "HIGH_P", "LOW_P",
                   "LOW_VOLTAGE_AT_MIN_Q", "HIGH_VOLTAGE_AT_MAX_Q",
                   "LOW_VOLTAGE_SVC_STANDBY", "HIGH_VOLTAGE_SVC_STANDBY",
                   "LOW_VOLTAGE_REMOTE_CONTROL", "HIGH_VOLTAGE_REMOTE_CONTROL",
                   "HVDC_AC_EMULATION_RELEASE"} -> "physical"
      [] OTHER -> "solver"

(* What shown should be for a row x and the checks cs: of each type the    *)
(* most severe records up to the capacity, nothing else and nothing but    *)
(* physical violations, once each, in the order of the report.             *)
Due(x, c, g) ==
    {Rec(c, g, k) : k \in {k \in 1 .. cap : x.how = "converged" /\ k <= Exceeding(x, c, g)}}
RankInReport(y) ==
    LET k == CHOOSE k \in DOMAIN ReportOrder : ReportOrder[k] = y.check
        g == CHOOSE g \in 1 .. Groups(y.check) : TypesOf[y.check][g] = y.type
    IN 10 * k + g
Before(y, z) ==
    \/ RankInReport(y) < RankInReport(z)
    \/ RankInReport(y) = RankInReport(z) /\ y.rank < z.rank
Shows(shown, x, cs) ==
    /\ Range(shown) = UNION {UNION {Due(x, c, g) : g \in 1 .. Groups(c)} : c \in cs}
    /\ \A i \in DOMAIN shown : Category(shown[i].type) = "physical"
    /\ \A i, j \in DOMAIN shown : i < j => Before(shown[i], shown[j])

(* A report that can be read is the one of the last run under the present  *)
(* tolerance, capacity and plans: each row shows its own most severe       *)
(* records of every check, in order, and a row that diverged or was left   *)
(* out shows none.  After a run that raised in its chunks, a check of a    *)
(* row shows that run's records or none.                                   *)
RowsReportTheRun ==
    Readable =>
      \A r \in Rows :
        IF torn
        THEN \A c \in Check :
               LET shown == RowsFromFlat(dev.out[c], c)[r]
               IN shown = <<>> \/ Shows(shown, ran[r], {c})
        ELSE Shows(GetPhysicalViolations[r], ran[r], Check)

(* get_physical_violations_n(): the base case's report outlives runs with  *)
(* the driver, and is that of the present settings all the same.           *)
BaseReportsTheSettings == Readable => Shows(GetPhysicalViolationsN, baseCase, Check)

(* A row is said to be truncated exactly when some type of some check had  *)
(* more records than the capacity.                                         *)
TruncatedIffDropped ==
    Readable /\ ~torn =>
      \A r \in Rows :
        GetPhysicalViolationsTruncated[r] <=>
          /\ ran[r].how = "converged"
          /\ \E c \in Check : \E g \in 1 .. Groups(c) : Exceeding(ran[r], c, g) > cap

(* On a grid, checks that are on have every plan that can be pulled from   *)
(* it, also when an earlier attempt to turn them on raised half-way: a     *)
(* missing plan would silently report nothing.                             *)
OnMeansPlanned ==
    env.grid /\ on =>
      /\ {plan["bus_q"], plan["gen_p"]} \subseteq Plans
      /\ env.release => plan["release"] \in Plans

(* What can be read of a batch is of its last run, for the rows, for the    *)
(* base case and for the truncation flags.                                  *)
ReportsTellTheRun ==
    RowsReportTheRun /\ BaseReportsTheSettings /\ TruncatedIffDropped
=============================================================================
