---------------------------- MODULE SweepResults ----------------------------
(***************************************************************************)
(* What a caller reads after ScenarioSweepGPU.compute(): voltages, the rows *)
(* left out, limit violations and branch flows (scenario_sweep/__init__.py, *)
(* gpu_facade.py, contingency_analysis/_limit_violations.py over            *)
(* scenario_sweep_session.cu).  They live in different places: voltages and *)
(* violation records in buffers of the driver, the flags of the rows left   *)
(* out and the trips in the session, flows in a copy made by                *)
(* compute_flows(), limits in the session and on the grid they came from.   *)
(* Setters and runs that raise move these places one by one.                *)
(*                                                                         *)
(* How run() chooses its path is ScenarioSweepSession's subject; here the   *)
(* settings of a driver are its row count, the mask mode and the base state.*)
(* Every row has the injections of the base case.  Voltages are in units of *)
(* the nominal one and all buses have the same, currents are magnitudes of  *)
(* integers; a report is all that is found (what is kept of it beyond the   *)
(* capacity is in ContingencyAnalysis).                                     *)
(***************************************************************************)
EXTENDS Integers, Sequences, FiniteSets

CONSTANTS
  None, NaN,
  Gone,         \* -1, the bus of a terminal that is not in the solver
  Grids,        \* states of the lightsim2grid grid
  OtherData,    \* branch data a caller gives itself
  OtherLimits,  \* limits a caller gives itself
  Topologies,   \* lists of the branches each scenario trips
  Splits,       \* sets of branches that split the grid when tripped
  Volts,        \* [set of tripped branches -> [solver bus -> Nat or NaN]]
  Residual,     \* [set of tripped branches -> Nat]
  Tols,         \* violation_tol
  Margins,      \* violation_rel_tol, in percent of a limit
  Capacity,     \* violation_capacity
  MaxRows,      \* scenarios
  MaxCalls      \* calls in a behaviour

TripSets == DOMAIN Volts
SolverBuses == DOMAIN Volts[{}]

VARIABLES
  grid,         \* ScenarioSweepGPU._grid
  s,            \* ScenarioSweepSession, with its driver
  flows,        \* h_or_amps_ / h_ex_amps_, None before compute_flows()
  outcome,      \* of the last call: "ok", "raised", "computed" or "flows"
  lapse,        \* history: what an error left apart, until put right
  calls         \* calls so far

vars == <<grid, s, flows, outcome, lapse, calls>>

-----------------------------------------------------------------------------
(* Reading the grid: lines, then transformers, in solver bus numbers.       *)
AllBranches(g) == g.lines \o g.trafos

Relabel(g, b) == IF b = Gone THEN Gone ELSE g.solver[b]
ExtractBranchData(g) ==
  [l \in DOMAIN AllBranches(g) |->
    [from |-> Relabel(g, AllBranches(g)[l].from), to |-> Relabel(g, AllBranches(g)[l].to),
     y |-> AllBranches(g)[l].y]]

(* A solver bus with no bus of the grid keeps NaN, not configured.          *)
OfSolver(g, x) ==
  [b \in SolverBuses |->
    IF \E m \in DOMAIN g.solver : g.solver[m] = b
    THEN x[CHOOSE m \in DOMAIN g.solver : g.solver[m] = b] ELSE NaN]
ExtractLimits(g) ==
  [vmin |-> OfSolver(g, g.vmin), vmax |-> OfSolver(g, g.vmax),
   amp |-> [l \in DOMAIN AllBranches(g) |-> AllBranches(g)[l].limit], nLines |-> Len(g.lines)]

Data == OtherData \cup {ExtractBranchData(g) : g \in Grids}
Limits == OtherLimits \cup {ExtractLimits(g) : g \in Grids}

ASSUME ResultsAssumption ==
  /\ \A t \in Topologies : t \in Seq(TripSets) /\ Len(t) \in 1..MaxRows
  /\ {} \in TripSets \ Splits /\ Splits \subseteq TripSets
  /\ 0 \in Margins /\ Margins \subseteq 0..99
  /\ Volts \in [TripSets -> [SolverBuses -> Nat \cup {NaN}]]
  /\ Residual \in [TripSets -> Nat] /\ Tols \subseteq Nat
  /\ {Capacity, MaxRows, MaxCalls} \subseteq Nat
  /\ \E t \in Tols : \A u \in Tols : t <= u
  \* the limits of a bus are in order
  /\ \A l \in Limits : \A b \in SolverBuses :
       /\ {l.vmin[b], l.vmax[b]} \subseteq Nat \cup {NaN}
       /\ NaN \in {l.vmin[b], l.vmax[b]} \/ l.vmin[b] <= l.vmax[b]

ASSUME GridAssumption ==
  /\ IsFiniteSet(SolverBuses) /\ TripSets \subseteq SUBSET Nat
  /\ \A d \in OtherData \cup {AllBranches(g) : g \in Grids} :
       Len(d) \in Nat /\ DOMAIN d = 1..Len(d)
  /\ \A l \in Limits : l.nLines \in Nat

-----------------------------------------------------------------------------
(* Currents of branch l, at its two terminals: I = y V + y' V', 0 at a      *)
(* terminal that does not exist, whose voltage counts as 0.                 *)
Abs(x) == IF x < 0 THEN -x ELSE x
Sum2(y, v, z, w) == IF NaN \in {v, w} THEN NaN ELSE Abs(y * v + z * w)
At(v, b) == IF b = Gone THEN 0 ELSE v[b]

BranchFlowsUnguarded(v, x) ==
  LET last == CHOOSE b \in SolverBuses : \A c \in SolverBuses : c <= b
      vi == v[IF x.from = Gone THEN last ELSE x.from]
      vj == v[IF x.to = Gone THEN last ELSE x.to]
  IN <<Sum2(x.y[1], vi, x.y[2], vj), Sum2(x.y[3], vi, x.y[4], vj)>>
BranchFlowsCpu(v, x) ==
  <<IF x.from = Gone THEN 0 ELSE Sum2(x.y[1], At(v, x.from), x.y[2], At(v, x.to)),
    IF x.to = Gone THEN 0 ELSE Sum2(x.y[3], At(v, x.from), x.y[4], At(v, x.to))>>

(* The device's, of check_limit_violations_kernel.                          *)
BranchFlowsDevice(v, x) ==
  LET vi == At(v, x.from)
      vj == At(v, x.to)
  IN [side \in 1..2 |->
       IF (side = 1 /\ x.from = Gone) \/ (side = 2 /\ x.to = Gone) THEN 0
       ELSE IF side = 1 THEN Sum2(x.y[1], vi, x.y[2], vj) ELSE Sum2(x.y[3], vi, x.y[4], vj)]

(* PyTorch's: a terminal out of the solver reads the first bus, and the     *)
(* value read is replaced by 0.                                             *)
BranchFlowsTorch(v, x) ==
  LET clamped(b) == IF b = Gone THEN CHOOSE c \in SolverBuses : \A d \in SolverBuses : c <= d ELSE b
      where(b, value) == IF b = Gone THEN 0 ELSE value
      vi == where(x.from, v[clamped(x.from)])
      vj == where(x.to, v[clamped(x.to)])
  IN <<where(x.from, Sum2(x.y[1], vi, x.y[2], vj)), where(x.to, Sum2(x.y[3], vi, x.y[4], vj))>>

(* BatchPowerFlow.compute_flows(): of all branches, tripped or not.         *)
TorchFlows(v, data) == [l \in DOMAIN data |-> BranchFlowsTorch(v, data[l])]

(* Past a limit by more than the margin; a comparison with NaN is false.    *)
Above(x, limit, rel) == NaN \notin {x, limit} /\ 100 * x > limit * (100 + rel)
Below(x, limit, rel) == NaN \notin {x, limit} /\ 100 * x < limit * (100 - rel)

Voltage(b, t) == [element |-> "bus", id |-> b, side |-> 0, type |-> t]
Current(l, side, nLines) ==
  [element |-> IF l <= nLines THEN "line" ELSE "trafo",
   id |-> IF l <= nLines THEN l ELSE l - nLines, side |-> side, type |-> "current"]
Divergence == [element |-> "grid", id |-> 0, side |-> 0, type |-> "divergence"]
NotSimulated == [Divergence EXCEPT !.type = "not_simulated"]

(* check_limit_violations_kernel on a row: a branch the row trips is not    *)
(* looked at, a bus is low or else high.                                    *)
Scan(v, data, limits, rel, scanned) ==
  {Current(p[1], p[2], limits.nLines) :
    p \in {q \in scanned \X (1..2) :
            Above(BranchFlowsDevice(v, data[q[1]])[q[2]], limits.amp[q[1]][q[2]], rel)}}
  \cup {Voltage(b, IF Below(v[b], limits.vmin[b], rel) THEN "low" ELSE "high") :
         b \in {c \in SolverBuses : \/ Below(v[c], limits.vmin[c], rel)
                                    \/ Above(v[c], limits.vmax[c], rel)}}
KernelOfEveryBranch(x) == Scan(Volts[x.trips], x.data, x.limits, x.rel, DOMAIN x.data)
Kernel(x) == Scan(Volts[x.trips], x.data, x.limits, x.rel, DOMAIN x.data \ x.trips)

(* compute_violations_n(): the same rule in numpy, for one voltage vector.  *)
ViolationsOf(v, data, limits, rel) ==
  {Voltage(b, "low") : b \in {c \in SolverBuses : Below(v[c], limits.vmin[c], rel)}}
  \cup {Voltage(b, "high") : b \in {c \in SolverBuses : Above(v[c], limits.vmax[c], rel)}}
  \cup {Current(l, 1, limits.nLines) :
          l \in {k \in DOMAIN data : Above(BranchFlowsCpu(v, data[k])[1], limits.amp[k][1], rel)}}
  \cup {Current(l, 2, limits.nLines) :
          l \in {k \in DOMAIN data : Above(BranchFlowsCpu(v, data[k])[2], limits.amp[k][2], rel)}}

(* get_violations_n(): everything is read off the grid when it is called.   *)
GetViolationsN == ViolationsOf(grid.volts, ExtractBranchData(grid), ExtractLimits(grid), s.rel)

-----------------------------------------------------------------------------
(* The session.  adm are the branch data on the driver's device, bufN the   *)
(* branches its flow buffers were made for, v and viol the rows of its      *)
(* result buffers: None until written, viol <<>> until allocated.           *)
NoDriver == [alive |-> FALSE, source |-> <<>>, mask |-> FALSE, adm |-> <<>>, hasAdm |-> FALSE,
             hasBuf |-> FALSE, bufN |-> 0, v |-> <<>>, viol |-> <<>>]

Init ==
  \E g \in Grids, m \in BOOLEAN, check \in BOOLEAN :
    /\ grid = g
    /\ s = [rows |-> 0, data |-> ExtractBranchData(g), trips |-> <<>>, topo |-> FALSE,
            flags |-> <<>>, dirty |-> FALSE, limits |-> IF check THEN ExtractLimits(g) ELSE None,
            check |-> check, tol |-> CHOOSE t \in Tols : \A u \in Tols : t <= u, rel |-> 0, mask |-> m,
            asked |-> "grid", ref |-> "grid", hasViolations |-> FALSE, driver |-> NoDriver]
    /\ flows = None
    /\ outcome = "ok" /\ lapse = {} /\ calls = 0

Counted == calls < MaxCalls /\ calls' = calls + 1
Ok(new) == Counted /\ s' = new /\ outcome' = "ok" /\ UNCHANGED <<grid, flows, lapse>>
Refused == Counted /\ outcome' = "raised" /\ UNCHANGED <<grid, s, flows, lapse>>

(* The limits, voltages or numbering of the grid change under the session.  *)
ChangeGrid(g) ==
  /\ Counted /\ grid' = g /\ outcome' = "ok"
  /\ UNCHANGED <<s, flows, lapse>>

SetInjections(n) == Ok([s EXCEPT !.rows = n])
SetHandleDisconnectedGrid(m) == Ok([s EXCEPT !.mask = m])
SetViolationTol(t) == Ok([s EXCEPT !.tol = t])
(* The setter checks its range.                                             *)
SetViolationRelTol(p) == p \in 0..99 /\ Ok([s EXCEPT !.rel = p])
SetViolationRelTolRefused == Refused
SetReferenceSlack(b) == Ok([s EXCEPT !.asked = b])

(* set_topology(): a driver's rows keep the trips they were solved with.    *)
WithTopology(r, t) ==
  [r EXCEPT !.trips = t, !.flags = [i \in DOMAIN t |-> FALSE], !.topo = TRUE, !.dirty = TRUE]
FitsTopology(t) == s.rows \in {0, Len(t)} /\ \A i \in DOMAIN t : t[i] \subseteq DOMAIN s.data
SetTopology(t) == FitsTopology(t) /\ Ok(WithTopology(s, t))
SetTopologyRefused(t) == s.rows \notin {0, Len(t)} /\ Refused

(* A branch that does not exist in row n + 1: the former trips are gone.    *)
SetTopologyTorn(t, n) ==
  /\ s.rows \in {0, Len(t)} /\ Counted
  /\ s' = [s EXCEPT !.trips = SubSeq(t, 1, n), !.flags = [i \in 1..n |-> FALSE]]
  /\ outcome' = "raised" /\ lapse' = lapse \cup {"flags"}
  /\ UNCHANGED <<grid, flows>>

(* set_branch_data(): trips that still exist are converted again; limits    *)
(* for another number of branches go; the driver uploads again.             *)
KeepsTrips(d) == s.topo => \A i \in DOMAIN s.trips : s.trips[i] \subseteq DOMAIN d
WithData(r, d) ==
  IF r.limits # None /\ Len(r.limits.amp) # Len(d)
  THEN [r EXCEPT !.data = d, !.limits = None, !.hasViolations = FALSE]
  ELSE [r EXCEPT !.data = d]
Reconverted(r) ==
  IF r.topo /\ r.rows \in {0, Len(r.trips)} THEN WithTopology(r, r.trips) ELSE r
Invalidated(r) == [r EXCEPT !.driver.hasAdm = FALSE, !.driver.hasBuf = FALSE]
SetBranchData(d) == KeepsTrips(d) /\ Ok(Invalidated(Reconverted(WithData(s, d))))
SetBranchDataRefused(d) == ~KeepsTrips(d) /\ Refused

FitLimits(l) == Len(l.amp) = Len(s.data)
SetLimits(l) == FitLimits(l) /\ Ok([s EXCEPT !.limits = l, !.hasViolations = FALSE])
SetLimitsRefused(l) == ~FitLimits(l) /\ Refused
SetLimitsFromGrid ==
  LET l == ExtractLimits(grid) IN IF FitLimits(l) THEN SetLimits(l) ELSE SetLimitsRefused(l)

KeepingResult(r, v) == [r EXCEPT !.check = v]
Switched(r, v) == [r EXCEPT !.check = v, !.hasViolations = @ /\ v = r.check]
SetComputeLimitViolations(v) == Ok(Switched(s, v))

-----------------------------------------------------------------------------
(* run(), step by step.                                                     *)
RunRefuses == s.rows = 0 \/ (s.topo /\ Len(s.trips) # s.rows)

Rebased(r) ==
  [r EXCEPT !.ref = r.asked, !.driver = NoDriver, !.hasViolations = FALSE]
Based == IF s.asked = s.ref THEN s ELSE Rebased(s)

Cold(r) == ~r.driver.alive \/ Len(r.driver.source) # r.rows \/ r.driver.mask # r.mask
NewSource(r) == Cold(r) \/ r.dirty

(* A new source: default trips, flags cleared, then set by the source.      *)
Cleared(r) ==
  IF ~NewSource(r) THEN r
  ELSE LET t == IF r.topo THEN r.trips ELSE [i \in 1..r.rows |-> {}]
       IN [r EXCEPT !.trips = t, !.flags = [i \in DOMAIN t |-> FALSE]]
LeftOut(r, t) == t \in Splits /\ ~r.mask
FlaggedWhenCold(r) ==
  IF ~Cold(r) THEN Cleared(r)
  ELSE [Cleared(r) EXCEPT !.flags = [i \in DOMAIN Cleared(r).trips |-> LeftOut(r, Cleared(r).trips[i])]]
Flagged(r) ==
  IF ~NewSource(r) THEN r
  ELSE [Cleared(r) EXCEPT !.flags = [i \in DOMAIN Cleared(r).trips |-> LeftOut(r, Cleared(r).trips[i])]]

Empty(r) ==
  [NoDriver EXCEPT !.alive = TRUE, !.source = r.trips, !.mask = r.mask,
                   !.v = [i \in 1..r.rows |-> None]]
(* A dirty topology may take too many chunks of the live driver, which is   *)
(* then built anew (how many are too many is BatchDriver's subject).        *)
Builds(r) ==
  CASE Cold(r) -> {"driver"}
    [] ~Cold(r) /\ r.dirty -> {"source", "driver"}
    [] ~Cold(r) /\ ~r.dirty -> {"nothing"}
Sourced(r, new) ==
  CASE new = "driver" -> [Flagged(r) EXCEPT !.driver = Empty(Flagged(r))]
    [] new = "source" -> [Flagged(r) EXCEPT !.driver.source = Flagged(r).trips]
    [] new = "nothing" -> r

(* upload_branch_admittances(), set_violation_limits(): no row is written.  *)
MayCheck(r) == r.check => r.limits # None
AdmittancesUp(r) ==
  IF r.driver.hasAdm THEN r ELSE [r EXCEPT !.driver.adm = r.data, !.driver.hasAdm = TRUE]
Armed(r) ==
  IF ~r.check THEN r
  ELSE [AdmittancesUp(r) EXCEPT !.driver.viol = [i \in DOMAIN r.driver.source |-> None]]

(* solve(): when a row is left out all are NaN first, then the active rows  *)
(* are solved in order; done of them are.                                   *)
ActiveRows(r) == {i \in DOMAIN r.driver.source : ~LeftOut(r, r.driver.source[i])}
Result(r, i, solved) == [run |-> calls, trips |-> r.driver.source[i], solved |-> solved]
Record(r, i) ==
  [run |-> calls, trips |-> r.driver.source[i], data |-> r.driver.adm, limits |-> r.limits,
   tol |-> r.tol, rel |-> r.rel]
SolvedUpTo(r, done) ==
  LET rows == DOMAIN r.driver.source
      first == {i \in ActiveRows(r) : Cardinality({k \in ActiveRows(r) : k <= i}) <= done}
  IN [r EXCEPT
       !.driver.v = [i \in rows |->
         IF i \in first THEN Result(r, i, TRUE)
         ELSE IF ActiveRows(r) # rows THEN Result(r, i, FALSE) ELSE r.driver.v[i]],
       !.driver.viol = [i \in DOMAIN r.driver.viol |->
         IF r.check /\ i \in first THEN Record(r, i) ELSE r.driver.viol[i]]]

Run ==
  /\ ~RunRefuses /\ MayCheck(s) /\ Counted
  /\ \E new \in Builds(Based) :
       LET r == Armed(Sourced(Based, new))
       IN s' = [SolvedUpTo(r, Cardinality(ActiveRows(r))) EXCEPT !.hasViolations = s.check,
                                                                 !.dirty = FALSE]
  /\ outcome' = "computed" /\ lapse' = IF NewSource(Based) THEN {} ELSE lapse \ {"rows"}
  /\ UNCHANGED <<grid, flows>>

RunRefused == RunRefuses /\ Refused

(* apart: "flags" when the trips and flags are not those of the source,     *)
(* "rows" when the results are not all those of one run.                    *)
RunStops(r, apart) ==
  /\ ~RunRefuses /\ Counted
  /\ s' = r /\ outcome' = "raised" /\ lapse' = apart
  /\ UNCHANGED <<grid, flows>>
AfterSource == {"rows"} \cup (IF NewSource(Based) THEN {} ELSE lapse)

(* The base case for the reference asked for does not build.                *)
RunFailsInBase == s.asked # s.ref /\ RunStops(Rebased(s), {})
(* No memory to stage the injections, or in the source.                     *)
RunFailsToStage ==
  \E r \in {Cleared(Based), Flagged(Based)} :
    RunStops(r, IF NewSource(Based) THEN lapse \cup {"flags"} ELSE lapse)
(* The driver does not build; the one before it was freed.                  *)
RunFailsToBuild ==
  "driver" \in Builds(Based) /\ RunStops([Flagged(Based) EXCEPT !.driver = NoDriver], {})
(* Limits are missing, or the slack weights do not upload.                  *)
RunFailsBeforeChecks ==
  \E new \in Builds(Based) : RunStops(Sourced(Based, new), AfterSource)
(* The physical checks refuse.                                              *)
RunFailsInChecks ==
  /\ MayCheck(s)
  /\ \E new \in Builds(Based) : RunStops(Armed(Sourced(Based, new)), AfterSource)
RunFailsInSolve ==
  /\ MayCheck(s)
  /\ \E new \in Builds(Based) :
       LET r == Armed(Sourced(Based, new)) IN
       \E done \in 0..(Cardinality(ActiveRows(r)) - 1) :
         RunStops(SolvedUpTo(r, done), AfterSource)

-----------------------------------------------------------------------------
(* compute_flows(): the driver's voltages and admittances, the session's    *)
(* trips.  Fewer trips than rows are read past their end.                   *)
ReadyOnce(r) ==
  IF r.driver.bufN # 0 THEN r
  ELSE [r EXCEPT !.driver.adm = r.data, !.driver.hasAdm = TRUE, !.driver.hasBuf = TRUE,
                 !.driver.bufN = Len(r.data)]
Ready(r) ==
  IF r.driver.hasBuf THEN r
  ELSE [r EXCEPT !.driver.adm = r.data, !.driver.hasAdm = TRUE, !.driver.hasBuf = TRUE,
                 !.driver.bufN = Len(r.data)]
ComputeFlows ==
  /\ s.driver.alive /\ Counted
  /\ s' = Ready(s)
  /\ \E g \in TripSets :
       flows' = [i \in DOMAIN s.driver.v |->
                  [of |-> s.driver.v[i], data |-> Ready(s).driver.adm,
                   zeroed |-> IF i \in DOMAIN s.trips THEN s.trips[i] ELSE g]]
  /\ outcome' = "flows"
  /\ UNCHANGED <<grid, lapse>>
ComputeFlowsRefused == ~s.driver.alive /\ Refused

(* What get_violations() reads, and when it does not raise.  (With no       *)
(* driver, after a run() that failed to build one, it reads a null pointer.)*)
Readable == s.check /\ s.hasViolations /\ s.driver.alive
GetViolations ==
  [i \in DOMAIN s.driver.viol |->
    LET x == s.driver.viol[i] IN
    IF x = None THEN {NotSimulated}
    ELSE IF Residual[x.trips] > x.tol THEN {Divergence}
    ELSE Kernel(x)]

(* get_violation_counts(), get_violations_truncated(): before the K most    *)
(* severe of each type are kept.  A row the kernel did not see has -1.      *)
GetViolationCounts ==
  [i \in DOMAIN s.driver.viol |-> [t \in {"low", "high", "current"} |->
    LET x == s.driver.viol[i] IN
    IF x = None THEN -1
    ELSE IF Residual[x.trips] > x.tol THEN 0
    ELSE Cardinality({w \in Kernel(x) : w.type = t})]]
GetViolationsTruncated ==
  [i \in DOMAIN s.driver.viol |-> \E t \in {"low", "high", "current"} : GetViolationCounts[i][t] > Capacity]

(* converged(): the residuals against the tolerance of now; NaN is not.     *)
Residuals ==
  [i \in DOMAIN s.driver.v |->
    IF s.driver.v[i] = None THEN None
    ELSE IF s.driver.v[i].solved THEN Residual[s.driver.v[i].trips] ELSE NaN]
Converged ==
  [i \in DOMAIN Residuals |-> Residuals[i] \notin {None, NaN} /\ Residuals[i] <= s.tol]

GetDisconnected == s.flags

(* The sizes come from the driver once there is one; a handle has the size  *)
(* of when it is made and the content of when it is read.                   *)
NScenarios == IF s.driver.alive THEN Len(s.driver.v) ELSE s.rows
NBranches == IF s.driver.alive THEN Len(s.driver.adm) ELSE Len(s.data)
OrAmps == [shape |-> <<NScenarios, NBranches>>, content |-> flows]
-----------------------------------------------------------------------------
Next ==
  \/ \E g \in Grids : ChangeGrid(g)
  \/ \E n \in 1..MaxRows : SetInjections(n)
  \/ \E v \in BOOLEAN : SetHandleDisconnectedGrid(v) \/ SetComputeLimitViolations(v)
  \/ \E t \in Tols : SetViolationTol(t)
  \/ \E p \in Margins : SetViolationRelTol(p)
  \/ SetViolationRelTolRefused
  \/ \E b \in {"grid", "other"} : SetReferenceSlack(b)
  \/ \E t \in Topologies : \/ SetTopology(t) \/ SetTopologyRefused(t)
                           \/ \E n \in 0..(Len(t) - 1) : SetTopologyTorn(t, n)
  \/ \E d \in OtherData \cup {ExtractBranchData(grid)} : SetBranchData(d) \/ SetBranchDataRefused(d)
  \/ \E l \in OtherLimits : SetLimits(l) \/ SetLimitsRefused(l)
  \/ SetLimitsFromGrid
  \/ Run \/ RunRefused \/ RunFailsInBase \/ RunFailsToStage \/ RunFailsToBuild
  \/ RunFailsBeforeChecks \/ RunFailsInChecks \/ RunFailsInSolve
  \/ ComputeFlows \/ ComputeFlowsRefused

Spec == Init /\ [][Next]_vars

-----------------------------------------------------------------------------
(* What a row of the result buffers holds; None before its first run().     *)
Answers == [run : Nat, trips : TripSets, solved : BOOLEAN]
Records == [run : Nat, trips : TripSets, data : Data \cup {<<>>},
            limits : Limits \cup {None}, tol : Tols, rel : Margins]
Drivers ==
  [alive : BOOLEAN, source : Seq(TripSets), mask : BOOLEAN, adm : Data \cup {<<>>},
   hasAdm : BOOLEAN, hasBuf : BOOLEAN, bufN : Nat, v : Seq(Answers \cup {None}),
   viol : Seq(Records \cup {None})]
Sessions ==
  [rows : 0..MaxRows, data : Data, trips : Seq(TripSets), topo : BOOLEAN, flags : Seq(BOOLEAN),
   dirty : BOOLEAN, limits : Limits \cup {None}, check : BOOLEAN, tol : Tols, rel : Margins,
   mask : BOOLEAN, asked : {"grid", "other"}, ref : {"grid", "other"},
   hasViolations : BOOLEAN, driver : Drivers]

ASSUME NoneAssumption ==
  /\ NaN \notin Nat \cup {None}
  /\ None \notin Nat \cup Limits \cup Answers \cup Records

TypeOK ==
  /\ grid \in Grids /\ s \in Sessions
  /\ DOMAIN s.driver.v = DOMAIN s.driver.source
  /\ s.driver.viol = <<>> \/ DOMAIN s.driver.viol = DOMAIN s.driver.source
  /\ outcome \in {"ok", "raised", "computed", "flows"} /\ calls \in 0..MaxCalls
  /\ lapse \subseteq {"flags", "rows"}

(* "the topology change islanded the grid (scenario skipped/NaN)": once a   *)
(* run() ended, get_disconnected(), the NaN of V_results, NOT_SIMULATED and *)
(* converged() name the same rows, until set_topology().                    *)
RowsLeftOutAgree ==
  s.driver.alive /\ ~s.dirty /\ lapse = {} =>
    /\ DOMAIN GetDisconnected = DOMAIN s.driver.v
    /\ \A i \in DOMAIN s.driver.v :
         /\ s.driver.v[i] # None
         /\ GetDisconnected[i] <=> ~s.driver.v[i].solved
         /\ GetDisconnected[i] <=> Residuals[i] = NaN
         /\ Readable =>
              /\ NotSimulated \in GetViolations[i] <=> GetDisconnected[i]
              /\ \A t \in {"low", "high", "current"} : GetViolationCounts[i][t] = -1 <=> GetDisconnected[i]
              /\ GetViolationsTruncated[i] => \E w \in GetViolations[i] : w.type \in {"low", "high", "current"}
              /\ s.driver.viol[i] # None /\ s.driver.viol[i].tol = s.tol =>
                   (Converged[i] <=> Divergence \notin GetViolations[i])

(* A record that can be read comes from the run that left the voltages of   *)
(* its row, within the limits in use, whatever runs failed in between.      *)
RecordsOfTheirVoltages ==
  Readable =>
    \A i \in DOMAIN s.driver.viol : s.driver.viol[i] # None =>
      /\ s.driver.v[i] # None /\ s.driver.v[i].run = s.driver.viol[i].run
      /\ s.driver.viol[i].limits = s.limits

(* "the kernel's and lightsim2grid's rule": a row that trips nothing        *)
(* reports what get_violations_n() reports for the grid its limits were     *)
(* read from, and no row reports a current on a branch it trips.            *)
BaseCaseReportsAlike ==
  Readable =>
    \A i \in DOMAIN s.driver.viol :
      LET x == s.driver.viol[i] IN
      x # None /\ Divergence \notin GetViolations[i] =>
        /\ x.trips = {} /\ x.limits = ExtractLimits(grid) /\ x.data = ExtractBranchData(grid)
             /\ x.rel = s.rel /\ grid.volts = Volts[{}] =>
               /\ GetViolations[i] = GetViolationsN
               /\ \A t \in {"low", "high", "current"} :
                    GetViolationCounts[i][t] = Cardinality({w \in GetViolationsN : w.type = t})
        /\ \A t \in x.trips, side \in 1..2 :
             Current(t, side, x.limits.nLines) \notin GetViolations[i]

(* "uploaded once per driver": the device arrays that kernels index by      *)
(* branch agree in length, with the limits and with the branch data in use. *)
DeviceTablesFit ==
  /\ s.driver.hasAdm => s.driver.adm = s.data
  /\ s.driver.hasBuf => s.driver.hasAdm /\ s.driver.bufN = Len(s.driver.adm)
  /\ s.limits # None => Len(s.limits.amp) = Len(s.data)

(* "Each scenario's own tripped branches are reported as exactly zero": in  *)
(* the flows of the branch data in use, as long as set_topology() was not   *)
(* called since run().                                                      *)
FlowsOfTheRun ==
  outcome = "flows" =>
    \A i \in DOMAIN flows :
      /\ flows[i].data = s.data
      /\ ~s.dirty /\ "flags" \notin lapse /\ flows[i].of # None =>
           flows[i].zeroed = flows[i].of.trips

(* "1 == topology change islanded the grid, scenario skipped/NaN; 0 ==      *)
(* solved": the flags are those of the rows of V_results.                   *)
FlagsOfTheRun ==
  s.driver.alive /\ lapse = {} =>
    GetDisconnected = [i \in DOMAIN s.driver.v |-> ~s.driver.v[i].solved]

(* What compute_flows() leaves has the sizes its handles claim, and what    *)
(* NumPy and PyTorch compute from the same voltages and branch data is what *)
(* the kernel computes, terminals out of the solver included.               *)
FlowsAlike ==
  outcome = "flows" =>
    /\ OrAmps.shape = <<Len(OrAmps.content), Len(s.data)>>
    /\ \A i \in DOMAIN flows, l \in DOMAIN s.data :
         flows[i].of # None =>
           LET v == Volts[flows[i].of.trips]
               device == BranchFlowsDevice(v, s.data[l])
           IN device = BranchFlowsCpu(v, s.data[l]) /\ device = TorchFlows(v, s.data)[l]

(* compute_flows() reports the last run() in the branch data in use, from   *)
(* device tables of the same length, as the other two formulas would.       *)
FlowsFitTheRun == FlowsOfTheRun /\ DeviceTablesFit /\ FlowsAlike

-----------------------------------------------------------------------------
(* Why these hold (SweepResults_proofs), of a session r where errors left   *)
(* the places in apart.  Trips and flags are those of the live source,      *)
(* unless set_topology() or an error moved them.                            *)
SplitOff(d, t) == t \in Splits /\ ~d.mask
FlagsFit(r, apart) ==
  r.driver.alive /\ ~r.dirty /\ "flags" \notin apart =>
    /\ r.trips = r.driver.source
    /\ r.flags = [i \in DOMAIN r.driver.source |-> SplitOff(r.driver, r.driver.source[i])]

(* A row solved is one of the source, until the source is another; after a  *)
(* run() that was not cut short every row is solved or left out.            *)
AnswersFit(r, apart) ==
  r.driver.alive =>
    \A i \in DOMAIN r.driver.v :
      /\ r.driver.v[i] # None /\ ~r.dirty => r.driver.v[i].trips = r.driver.source[i]
      /\ "rows" \notin apart =>
           /\ r.driver.v[i] # None
           /\ r.driver.v[i].solved <=> ~SplitOff(r.driver, r.driver.v[i].trips)

(* A record is of the run() of its voltage and of the limits in use; after  *)
(* a run() that was not cut short every row solved has one.  Records that   *)
(* can be read were checked against limits.                                 *)
RecordsFit(r, apart) ==
  /\ r.hasViolations => r.check /\ r.limits # None
  /\ r.hasViolations /\ r.driver.alive =>
       /\ \A i \in DOMAIN r.driver.viol :
            LET x == r.driver.viol[i]
                y == r.driver.v[i]
            IN x # None => y # None /\ y.run = x.run /\ y.trips = x.trips /\ x.limits = r.limits
       /\ "rows" \notin apart =>
            /\ DOMAIN r.driver.viol = DOMAIN r.driver.v
            /\ \A i \in DOMAIN r.driver.viol : r.driver.viol[i] # None <=> r.driver.v[i].solved

ResultsInv == FlagsFit(s, lapse) /\ AnswersFit(s, lapse) /\ RecordsFit(s, lapse)
=============================================================================
