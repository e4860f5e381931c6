------------------------- MODULE ContingencyAnalysis -------------------------
(***************************************************************************)
(* ContingencyAnalysisGPU with the solver wrapper and the C++ session it    *)
(* drives (contingency_analysis/gpu_facade.py and __init__.py,              *)
(* contingency_analysis_session.cu).  A list of contingencies is solved as  *)
(* one batch; the driver of a run() is kept by the next one (a hot run)     *)
(* when nothing it was built from has changed, and every result is read     *)
(* later: voltages and residuals off the driver, flows recomputed from its  *)
(* voltages, violations out of flat buffers of the capacity of their run.   *)
(*                                                                         *)
(* run() may raise at several points; each leaves list, driver and results  *)
(* at different stages.  Steps of run() are operators on the session s, a   *)
(* record, and an action per outcome composes them.                         *)
(*                                                                         *)
(* A contingency is the set of branches it trips.  All branch data have the *)
(* same number of branches, and a capacity keeps at least one record.       *)
(***************************************************************************)
EXTENDS Integers, Sequences, FiniteSets, SequencesExt

CONSTANTS
  None,
  Lists,        \* lists of contingencies a caller builds
  Data,         \* branch data
  RdData,       \* slack participants for redistribute_slack
  SnMva,        \* [Data \cup RdData -> Nat]: the per-unit base of each
  Limits,       \* operating limits
  Capacities,   \* violation_capacity
  Solvers,      \* strategy and solver options
  FactorReuse,  \* those that reuse the base case's factors
  Unsupported,  \* those cuDSS refuses when the driver is built
  Splits,       \* contingencies that split the grid
  Strands,      \* those of them that cut the grid's reference bus off
  Diverges,     \* those that do not converge
  MaxCalls,     \* calls in a behaviour
  Found         \* [contingency -> [limits -> [type -> severities, as scanned]]]

Contingencies == UNION {{l[c] : c \in DOMAIN l} : l \in Lists}

ListAssumption ==
  /\ \A l \in Lists : l \in Seq(Contingencies) /\ l # <<>>
  /\ Strands \subseteq Splits
  /\ SnMva \in [Data \cup RdData -> Nat]
  /\ Capacities \subseteq Nat \ {0} /\ MaxCalls \in Nat
  /\ \A c \in Contingencies, l \in Limits :
       Found[c][l] \in [{"current", "low_voltage", "high_voltage"} -> Seq(Int)]
  /\ FactorReuse \cap Unsupported = {}
  /\ None \notin RdData \cup Limits \cup Solvers

VARIABLES
  s,            \* ContingencyAnalysisSession
  shape,        \* rows of the facade's _last_residuals, 0 for None
  flows,        \* what compute_flows() gave, when it was the last call
  outcome,      \* of the last call: "ok", "raised" or "computed"
  calls,        \* calls so far
  lapse         \* history: what an error left apart, until put right

vars == <<s, shape, outcome, flows, calls, lapse>>

NoDriver == [alive |-> FALSE, rows |-> <<>>, mask |-> FALSE, rd |-> None, ref |-> "grid",
             solver |-> None, solved |-> FALSE, viol |-> None]

-----------------------------------------------------------------------------
(* Violation records.  Per contingency and type the kernel keeps the K most *)
(* severe, most severe first; of equals the one scanned first.              *)
Types == <<"current", "low_voltage", "high_voltage">>

ReserveUnsorted(kept, x, K) == IF Len(kept) = K THEN kept ELSE Append(kept, x)
Reserve(kept, x, K) ==
  LET at == Cardinality({i \in DOMAIN kept : kept[i].severity >= x.severity})
      all == SubSeq(kept, 1, at) \o <<x>> \o SubSeq(kept, at + 1, Len(kept))
  IN SubSeq(all, 1, IF Len(all) > K THEN K ELSE Len(all))

Scanned(ctg, lim, t) ==
  [i \in DOMAIN Found[ctg][lim][t] |-> [type |-> t, id |-> i, severity |-> Found[ctg][lim][t][i]]]
Kept(ctg, lim, K) ==
  FlattenSeq([n \in DOMAIN Types |->
    FoldLeft(LAMBDA kept, x : Reserve(kept, x, K), <<>>, Scanned(ctg, lim, Types[n]))])

(* The rows of a driver's source: left out (-1) when the contingency splits *)
(* the grid and is not masked, or cuts the reference off.                   *)
LeftOut(d, ctg) ==
  ctg \in Splits /\ (~d.mask \/ (d.ref = "grid" /\ ctg \in Strands))

Diverged == [type |-> "divergence", id |-> 0, severity |-> 0]
Records(d, c) ==
  IF LeftOut(d, d.rows[c]) THEN <<>>
  ELSE IF d.rows[c] \in Diverges THEN <<Diverged>>
  ELSE Kept(d.rows[c], d.viol.limits, d.viol.capacity)

Stride(K) == Len(Types) * K
Count(d) == [c \in DOMAIN d.rows |-> IF LeftOut(d, d.rows[c]) THEN -1 ELSE Len(Records(d, c))]
Slots(d) ==
  FlattenSeq([c \in DOMAIN d.rows |->
    Records(d, c) \o [i \in 1..(Stride(d.viol.capacity) - Len(Records(d, c))) |-> None]])
Truncated(d) ==
  [c \in DOMAIN d.rows |->
    /\ ~LeftOut(d, d.rows[c]) /\ d.rows[c] \notin Diverges
    /\ \E n \in DOMAIN Types : Len(Found[d.rows[c]][d.viol.limits][Types[n]]) > d.viol.capacity]

(* get_violations(): row c owns the slots from c * stride.                  *)
NotSimulated == <<[type |-> "not_simulated", id |-> 0, severity |-> 0]>>
DecodedWithSetting(count, slots) ==
  [c \in DOMAIN count |->
    IF count[c] < 0 THEN NotSimulated
    ELSE SubSeq(slots, (c - 1) * Stride(s.capacity) + 1, (c - 1) * Stride(s.capacity) + count[c])]
Decoded(count, slots) ==
  LET stride == Len(slots) \div (IF count = <<>> THEN 1 ELSE Len(count)) IN
  [c \in DOMAIN count |->
    IF count[c] < 0 THEN NotSimulated
    ELSE SubSeq(slots, (c - 1) * stride + 1, (c - 1) * stride + count[c])]

-----------------------------------------------------------------------------
(* The reference stranded by the fewest contingencies of a list.            *)
Choose(list) == IF \E c \in DOMAIN list : list[c] \in Strands THEN "other" ELSE "grid"

(* The grid as it was solved, or solved again by optimize_reference_slack(),*)
(* which forces the reference that suits a list of contingencies on it.     *)
AsSolved == [ref |-> "grid", forced |-> FALSE]
OptimizeReferenceSlack(list) == [ref |-> Choose(list), forced |-> TRUE]
Grids == {AsSolved} \cup {OptimizeReferenceSlack(l) : l \in Lists}

(* The session the solver wrapper builds, or wraps when the bridge built it.*)
NewSession(mode, d, g, x, k) ==
  [built |-> mode, data |-> d, list |-> <<>>, hasList |-> FALSE, flags |-> "clean",
   mask |-> FALSE, rd |-> FALSE, rdData |-> None, solver |-> x,
   auto |-> TRUE, forced |-> g.forced, gridRef |-> g.ref, refBus |-> g.ref, baseRef |-> g.ref,
   choice |-> None, newRows |-> FALSE, check |-> FALSE, limits |-> None, capacity |-> k,
   hasViolations |-> FALSE, driver |-> NoDriver]

(* The three ways of the facade: arrays, which come without branch data;    *)
(* a grid read by the bridge, with the ledger of its slack participants;    *)
(* a grid read in Python, without it.  On a grid, asking for the limit      *)
(* violations reads the limits as well.                                     *)
FromArrays(x, k) == {[NewSession("arrays", None, AsSolved, x, k) EXCEPT !.check = v] : v \in BOOLEAN}
FromGrid(mode, d, g, x, k) ==
  {[NewSession(mode, d, g, x, k) EXCEPT !.check = (l # None), !.limits = l] : l \in Limits \cup {None}}

Init ==
  /\ \E d \in Data, g \in Grids, k \in Capacities, x \in Solvers \ (FactorReuse \cup Unsupported) :
       s \in FromArrays(x, k) \cup FromGrid("extracted", d, g, x, k) \cup FromGrid("bridge", d, g, x, k)
  /\ flows = None
  /\ shape = 0
  /\ outcome = "ok" /\ calls = 0
  /\ lapse = {}

Keep == UNCHANGED <<shape, lapse>>
Counted == calls < MaxCalls /\ calls' = calls + 1
Ok(new) == Counted /\ s' = new /\ outcome' = "ok" /\ flows' = None
Raised(new) == Counted /\ s' = new /\ outcome' = "raised" /\ flows' = None

SetBranchData(d) == Ok([s EXCEPT !.data = d]) /\ Keep

(* add_contingencies_by_branch_id(): newRows stands for the generation that *)
(* marks the live driver's source as stale, choice for auto_ref_choice_.    *)
BuildContingencies(l) ==
  /\ s.data # None
  /\ Ok([s EXCEPT !.list = l, !.hasList = TRUE, !.flags = "clean", !.choice = None,
                  !.newRows = TRUE])
  /\ lapse' = lapse \ {"list"}
  /\ UNCHANGED shape

(* A branch that does not exist, after n contingencies of l were taken: the *)
(* former list is gone, and nothing else says so.                           *)
BuildContingenciesRefused(l, n) ==
  /\ s.data # None
  /\ Raised([s EXCEPT !.list = SubSeq(l, 1, n), !.flags = "clean"])
  /\ lapse' = lapse \cup {"list"}
  /\ UNCHANGED shape

BuildContingenciesTooEarly == s.data = None /\ Raised(s) /\ Keep

SetHandleDisconnectedGrid(v) == Ok([s EXCEPT !.mask = v]) /\ Keep
SetCapacity(k) == Ok([s EXCEPT !.capacity = k]) /\ Keep

(* Strategy and options; a name the wrapper does not know changes nothing   *)
(* but the name its getter reports, which nothing reads.                    *)
SetSolver(x) == Ok([s EXCEPT !.solver = x]) /\ Keep
SetSolverRefused == Raised(s) /\ Keep

WithRd(r, v) == [r EXCEPT !.rd = v, !.newRows = @ \/ (v # r.rd)]
SetSlackRedistributionData(d) == Ok([s EXCEPT !.rdData = d, !.newRows = TRUE]) /\ Keep
SetRedistributeSlack(v) == Ok(WithRd(s, v)) /\ Keep
(* On a grid, switching it on reads the grid's participants again.          *)
SetRedistributeSlackFromGrid(d) ==
  /\ s.built # "arrays"
  /\ Ok(WithRd([s EXCEPT !.rdData = d, !.newRows = TRUE], TRUE))
  /\ Keep

SetReferenceSlack(a) == Ok([s EXCEPT !.auto = a, !.choice = None]) /\ Keep

SetComputeLimitViolations(v) ==
  Ok([s EXCEPT !.check = v, !.hasViolations = @ /\ (v = s.check)]) /\ Keep
SetLimits(l) == Ok([s EXCEPT !.limits = l, !.hasViolations = FALSE]) /\ Keep

-----------------------------------------------------------------------------
(* run(), step by step.                                                     *)
(* _wanted_reference_bus(), with its cache; a forced reference is kept, and *)
(* without the ledger there is none to choose.                              *)
Asked(r) == r.built = "bridge" /\ r.auto /\ r.mask /\ r.hasList
Pick(r) == IF r.forced THEN r.gridRef ELSE Choose(r.list)
Chosen(r) == IF Asked(r) /\ r.choice = None THEN [r EXCEPT !.choice = Pick(r)] ELSE r
Wanted(r) == IF Asked(r) THEN Chosen(r).choice ELSE r.gridRef

Moved(r) == [Chosen(r) EXCEPT !.refBus = Wanted(r), !.driver = NoDriver]
Based(r) ==
  IF Wanted(r) = r.refBus THEN Chosen(r) ELSE [Moved(r) EXCEPT !.baseRef = Wanted(r)]

(* cfg != driver_cfg_; a base state made again has no driver.               *)
ColdUnlessOption(r) ==
  \/ ~r.driver.alive \/ r.newRows
  \/ Len(r.list) # Len(r.driver.rows) \/ r.mask # r.driver.mask
Cold(r) == ColdUnlessOption(r) \/ r.solver # r.driver.solver

Mode(r) == IF r.mask THEN "mask" ELSE "skip"
SourcedWhenNew(r) == IF Cold(r) /\ r.newRows THEN [r EXCEPT !.flags = Mode(r)] ELSE r
Sourced(r) == IF Cold(r) THEN [r EXCEPT !.flags = Mode(r)] ELSE r

(* _check_redistribute_slack(), of a cold run only.                         *)
RdAccepted(r) ==
  r.rd => /\ r.rdData # None
          /\ r.built = "bridge"
          /\ r.solver \notin FactorReuse
          /\ SnMva[r.rdData] = SnMva[r.data]

Driver(r) ==
  [alive |-> TRUE, rows |-> r.list, mask |-> r.mask, rd |-> IF r.rd THEN r.rdData ELSE None,
   ref |-> r.baseRef, solver |-> r.solver, solved |-> FALSE, viol |-> None]
Built(r) == IF Cold(r) THEN [Sourced(r) EXCEPT !.driver = Driver(r), !.newRows = FALSE] ELSE r

(* upload_branch_admittances() and set_violation_limits(): every run.       *)
Checked(r) ==
  IF ~r.check THEN r
  ELSE [r EXCEPT !.driver.viol = [limits |-> r.limits, data |-> r.data, capacity |-> r.capacity]]

Solved(r) == [r EXCEPT !.driver.solved = TRUE, !.hasViolations = r.check]

Refuses(r) == ~r.hasList \/ (r.mask /\ r.solver \in FactorReuse)
MayBuild(r) == Cold(r) => RdAccepted(r) /\ r.solver \notin Unsupported
MayCheck(r) == r.check => r.data # None /\ r.limits # None

Run ==
  LET ready == Built(Based(s)) IN
  /\ ~Refuses(s) /\ MayBuild(Based(s)) /\ MayCheck(s)
  /\ Counted
  /\ s' = Solved(Checked(ready))
  /\ shape' = Len(ready.driver.rows)
  /\ outcome' = "computed"
  /\ flows' = None
  /\ lapse' = lapse \ ({"run"} \cup (IF Cold(Based(s)) THEN {"flags"} ELSE {})
                       \cup (IF Wanted(s) # s.refBus THEN {"base"} ELSE {}))

RunRefused == Refuses(s) /\ Raised(s) /\ Keep

(* The base case for another reference does not build.                      *)
RunFailsInBase ==
  /\ ~Refuses(s) /\ Wanted(s) # s.refBus
  /\ Raised(Moved(s))
  /\ lapse' = (lapse \ {"flags"}) \cup {"base", "run"}
  /\ UNCHANGED shape

RunEnds(after, flags) ==
  /\ Raised(after)
  /\ lapse' = ((lapse \ (IF Wanted(s) # s.refBus THEN {"base"} ELSE {})) \ {"flags"})
              \cup {"run"} \cup flags
  /\ UNCHANGED shape

(* The source does not build, or the slack pre-pass is cut short: the flags *)
(* were cleared or computed again, the driver is still the old one.         *)
RunFailsInSource ==
  LET r == Based(s) IN
  /\ ~Refuses(s) /\ Cold(r)
  /\ \/ RunEnds([r EXCEPT !.flags = "clean"], {"flags"})
     \/ r.rd /\ RdAccepted(r) /\ RunEnds(Sourced(r), {"flags"})

(* The participants are missing, or of another base: the flags of the rows  *)
(* were computed, the driver is still the old one.                          *)
RunRefusesSlack ==
  LET r == Based(s) IN
  /\ ~Refuses(s) /\ Cold(r) /\ ~RdAccepted(r)
  /\ RunEnds(Sourced(r), {"flags"})

(* The driver does not build; the old one was freed first.                  *)
RunFailsToBuild ==
  LET r == Based(s) IN
  /\ ~Refuses(s) /\ Cold(r) /\ RdAccepted(r)
  /\ RunEnds([Sourced(r) EXCEPT !.driver = NoDriver], {})

(* Limits missing, or the physical checks refuse what they were given.      *)
RunRefusesChecks ==
  LET r == Built(Based(s)) IN
  /\ ~Refuses(s) /\ MayBuild(Based(s))
  /\ RunEnds(IF MayCheck(s) THEN Checked(r) ELSE r,
             IF Cold(Based(s)) THEN {} ELSE lapse \cap {"flags"})

RunFails ==
  LET r == Checked(Built(Based(s))) IN
  /\ ~Refuses(s) /\ MayBuild(Based(s)) /\ MayCheck(s)
  /\ RunEnds([r EXCEPT !.driver.solved = FALSE],
             IF Cold(Based(s)) THEN {} ELSE lapse \cap {"flags"})

(* compute_flows(): the voltages of the driver, the trips of the list.  A   *)
(* list shorter than the driver's rows is read past its end.                *)
ComputeFlows ==
  /\ s.driver.alive /\ s.data # None /\ Counted
  /\ \E g \in Contingencies :
       flows' = [rows |-> s.driver.rows, data |-> s.data,
                 zeroed |-> [c \in DOMAIN s.driver.rows |->
                               IF c \in DOMAIN s.list THEN s.list[c] ELSE g]]
  /\ outcome' = "ok"
  /\ UNCHANGED <<s, shape, lapse>>
ComputeFlowsRefused == (~s.driver.alive \/ s.data = None) /\ Raised(s) /\ Keep

Next ==
  \/ \E d \in Data : SetBranchData(d)
  \/ \E l \in Lists : \/ BuildContingencies(l)
                      \/ \E n \in 0..(Len(l) - 1) : BuildContingenciesRefused(l, n)
  \/ BuildContingenciesTooEarly
  \/ \E v \in BOOLEAN : \/ SetHandleDisconnectedGrid(v) \/ SetRedistributeSlack(v)
                        \/ SetReferenceSlack(v) \/ SetComputeLimitViolations(v)
  \/ \E k \in Capacities : SetCapacity(k)
  \/ \E x \in Solvers : SetSolver(x)
  \/ SetSolverRefused
  \/ \E d \in RdData : SetSlackRedistributionData(d) \/ SetRedistributeSlackFromGrid(d)
  \/ \E l \in Limits : SetLimits(l)
  \/ Run \/ RunRefused \/ RunFailsInBase \/ RunFailsInSource \/ RunRefusesSlack
  \/ RunFailsToBuild
  \/ RunRefusesChecks \/ RunFails
  \/ ComputeFlows \/ ComputeFlowsRefused

Spec == Init /\ [][Next]_vars

-----------------------------------------------------------------------------
(* The most severe records of a type come first, of equals the one scanned  *)
(* first, and no more of them than the capacity.                            *)
Outranks(f, i, j) == f[i] > f[j] \/ (f[i] = f[j] /\ i < j)
Place(f, j) == Cardinality({i \in DOMAIN f : Outranks(f, i, j)})
Fewer(m, n) == IF m < n THEN m ELSE n
MostSevere(f, t, K) ==
  [n \in 1..Fewer(Len(f), K) |->
    LET j == CHOOSE j \in DOMAIN f : Place(f, j) = n - 1
    IN [type |-> t, id |-> j, severity |-> f[j]]]

Expected(ctg, d) ==
  LET Best(t) == MostSevere(Found[ctg][d.viol.limits][t], t, d.viol.capacity)
  IN IF LeftOut(d, ctg) THEN NotSimulated
     ELSE IF ctg \in Diverges THEN <<Diverged>>
     ELSE Best("current") \o Best("low_voltage") \o Best("high_voltage")

OfType(row, t) == {p \in DOMAIN row : row[p].type = t}

ListsOrPrefixes == {<<>>} \cup UNION {{SubSeq(l, 1, n) : n \in 1..Len(l)} : l \in Lists}
Drivers ==
  [alive : BOOLEAN, rows : ListsOrPrefixes, mask : BOOLEAN, rd : RdData \cup {None},
   ref : {"grid", "other"}, solver : Solvers \cup {None}, solved : BOOLEAN,
   viol : {None} \cup [limits : Limits, data : Data, capacity : Capacities]]

TypeOK ==
  /\ s.list \in ListsOrPrefixes /\ s.driver \in Drivers
  /\ s.data \in Data \cup {None} /\ s.rdData \in RdData \cup {None} /\ s.limits \in Limits \cup {None}
  /\ {s.hasList, s.mask, s.rd, s.auto, s.newRows, s.check, s.hasViolations} \subseteq BOOLEAN
  /\ s.flags \in {"clean", "skip", "mask"}
  /\ s.built \in {"arrays", "extracted", "bridge"} /\ s.forced \in BOOLEAN
  /\ {s.gridRef, s.refBus, s.baseRef} \subseteq {"grid", "other"}
  /\ s.choice \in {None, "grid", "other"}
  /\ s.solver \in Solvers /\ s.capacity \in Capacities
  /\ outcome \in {"ok", "raised", "computed"}
  /\ calls \in 0..MaxCalls /\ lapse \subseteq {"list", "base", "flags", "run"}

(* "Hot run: same settings, same contingency list as the live driver": what *)
(* run() solves is the list, the mask mode, the options, the participants   *)
(* and the reference that are asked for when it is called, unless an error  *)
(* of the list or of the base state came before and was not put right.  "A  *)
(* reference forced on the grid is kept".                                   *)
SolvesWhatIsAsked ==
  outcome = "computed" /\ lapse \cap {"list", "base"} = {} =>
    /\ s.driver.rows = s.list
    /\ s.driver.mask = s.mask
    /\ s.driver.rd = (IF s.rd THEN s.rdData ELSE None)
    /\ s.driver.ref = (IF s.built = "bridge" /\ ~s.forced /\ s.auto /\ s.mask
                       THEN Choose(s.list) ELSE s.gridRef)
    /\ s.driver.solver = s.solver

(* "A hot run keeps them: they describe the live source": the flags that    *)
(* count the contingencies left out are those of the rows solved.           *)
FlagsDescribeSource ==
  outcome = "computed" /\ lapse \cap {"list", "flags"} = {} => s.flags = Mode(s.driver)

(* get_violations(): "one entry per contingency", of the last compute(),    *)
(* within the limits in use: the most severe records of each type, most     *)
(* severe first, and the truncation flag where one was dropped.             *)
ViolationsOfTheirRow ==
  s.hasViolations /\ "run" \notin lapse =>
    /\ s.driver.solved /\ s.check
    /\ s.driver.viol.limits = s.limits
    /\ shape = Len(s.driver.rows)
    /\ LET rows == Decoded(Count(s.driver), Slots(s.driver)) IN
         \A c \in DOMAIN s.driver.rows :
           /\ rows[c] = Expected(s.driver.rows[c], s.driver)
           /\ Truncated(s.driver)[c] <=>
                /\ rows[c] # NotSimulated /\ s.driver.rows[c] \notin Diverges
                /\ \E n \in DOMAIN Types :
                     Len(Found[s.driver.rows[c]][s.limits][Types[n]])
                       > Cardinality(OfType(rows[c], Types[n]))

(* The violations of a run are computed with the branch data and the        *)
(* capacity in use when it is called, on a driver kept or not.              *)
ViolationsOfTheirRun ==
  outcome = "computed" /\ s.check =>
    s.driver.viol = [limits |-> s.limits, data |-> s.data, capacity |-> s.capacity]

(* "Tripped branches are zeroed device-side": the flows are zero on the     *)
(* branches that the contingency they were computed for trips.              *)
TrippedFlowsAreZero == flows # None => flows.zeroed = flows.rows

(* Violation records can be read only of the last run, row by row and with  *)
(* the limits, the branch data and the capacity it was called with.         *)
ViolationsTellTheRun == ViolationsOfTheirRow /\ ViolationsOfTheirRun
=============================================================================
