--------------------------- MODULE InjectionFacade ---------------------------
(***************************************************************************)
(* InjectionSweepGPU on a lightsim2grid grid, its solver wrapper and the    *)
(* C++ session (injection_sweep/gpu_facade.py and __init__.py,              *)
(* injection_sweep_session.cu), with the functions that turn set-points     *)
(* into rows per bus (_ls2g_utils.py; ElementInjections has those of loads  *)
(* and generators) and the set-points the physical checks are given         *)
(* (_physical_checks.py).                                                   *)
(*                                                                         *)
(* A row is one power flow of the batch.  A run() with the settings and row *)
(* count of the live driver is hot: rows are uploaded again only when       *)
(* marked dirty.                                                            *)
(*                                                                         *)
(* A grid has besides: fixed (solver buses with a fixed magnitude), group   *)
(* (voltage-control group regulating a bus, -1 for none) and pinned (the    *)
(* set-point a group has of its own, None for none).                        *)
(***************************************************************************)
EXTENDS ElementInjections

CONSTANTS
  None,         \* no value, NaN
  Grids,
  Tol,          \* GEN_V_CONFLICT_TOL
  BusRows,      \* arguments of set_injections()
  Elements,     \* of set_injections_from_elements(): [gen_p, load]
  GenVs,        \* of set_gen_v()
  GenPPlans,    \* plans of the active-power check: entries [type, id]
  ReleasePlans, \* plans of the release check
  GridPlan,     \* plan of either check that lightsim2grid gives
  Solvers,      \* strategy and solver options
  BatchSizes,
  MaxCalls      \* calls in a behaviour

VARIABLES
  grid,         \* read at construction, never changed
  f,            \* the facade: was it built from a grid; _gen_p_rows and _gen_v, <<>> for None
  s,            \* InjectionSweepSession
  solved,       \* was the last call a compute() that returned
  calls,        \* calls so far
  asked,        \* history: the rows last accepted
  lapse         \* history: what an error left apart, until put right

vars == <<grid, f, s, solved, calls, asked, lapse>>

-----------------------------------------------------------------------------
(* The set-points of a row.  A set-point moves a bus whose magnitude is     *)
(* fixed or regulated by a control group.                                   *)
Movable(g, b) == b \in g.fixed \/ g.group[b] >= 0
Driven(g, k) == GenVBus(g, k) >= 0 /\ Movable(g, GenVBus(g, k))
Pin(g, b) ==
  IF g.group[b] >= 0 /\ g.pinned[g.group[b]] # None THEN {g.pinned[g.group[b]]} ELSE {}
Given(g, row, b) ==
  {row[k] : k \in {j \in DOMAIN row : Driven(g, j) /\ GenVBus(g, j) = b /\ row[j] # None}}

Apart(values) == \E v, w \in values : v - w > Tol      \* max - min > Tol
ConflictingUnpinned(g, rows) ==
  \E r \in DOMAIN rows, b \in Buses(g) : Apart(Given(g, rows[r], b))
Conflicting(g, rows) ==
  \E r \in DOMAIN rows, b \in Buses(g) :
    /\ \E k \in DOMAIN g.gens : Driven(g, k) /\ GenVBus(g, k) = b
    /\ Apart(Given(g, rows[r], b) \cup Pin(g, b))

(* Set-points have a column for each generator; a plan that lightsim2grid   *)
(* gives is about machines of the grid.                                     *)
RowAssumption ==
  /\ UnitAssumption
  /\ Tol \in Nat /\ MaxCalls \in Nat /\ None \notin Int \cup GenPPlans \cup ReleasePlans
  /\ \A e \in Elements :
       /\ {e.gen_p, e.load} \subseteq Seq(Seq(Int))
       /\ Len(e.gen_p) = Len(e.load) /\ e.gen_p # <<>>
  /\ <<>> \notin BusRows \cup GenVs
  /\ GridPlan \in GenPPlans \cap ReleasePlans
  /\ \A g \in Grids :
       /\ IsGrid(g)
       /\ GenVs \subseteq Seq([DOMAIN g.gens -> Int \cup {None}])
       /\ \A k \in DOMAIN GridPlan : GridPlan[k].type = "gen" => GridPlan[k].id \in DOMAIN g.gens
       /\ \A b \in Buses(g) : Pin(g, b) \subseteq Int

(* build_gen_v_override(): what each row puts on each bus.                  *)
ActiveColumns(g) ==
  {k \in DOMAIN g.gens : GenVBus(g, k) \in Buses(g) /\ Movable(g, GenVBus(g, k))}
Override(g, rows) ==
  [r \in DOMAIN rows |-> [b \in Buses(g) |->
     {rows[r][k] : k \in {j \in ActiveColumns(g) : GenVBus(g, j) = b}} \ {None}]]

-----------------------------------------------------------------------------
(* Set-points for the checks, one column per entry of the plan.             *)
Entries(plan) == IF plan = None THEN <<>> ELSE plan
Pushable(plan, rows) ==
  rows = <<>> \/ \A k \in DOMAIN Entries(plan) :
                   plan[k].type = "gen" => plan[k].id \in DOMAIN grid.gens
TargetsOf(plan, rows) ==
  IF Entries(plan) = <<>> THEN <<>>
  ELSE [r \in DOMAIN rows |-> [k \in DOMAIN plan |->
          IF plan[k].type = "gen" THEN rows[r][plan[k].id] ELSE None]]

WithGenPTargets(r, t) == [r EXCEPT !.gp.targets = t, !.gp.dirty = TRUE]
PushGenP(r, rows) == WithGenPTargets(r, TargetsOf(r.gp.plan, rows))
PushRelease(r, rows) ==
  [r EXCEPT !.release.targets = TargetsOf(r.release.plan, rows), !.release.dirty = TRUE]

NoDriver == [alive |-> FALSE, cfg |-> None, rows |-> <<>>, gen_v |-> <<>>,
             gp |-> <<>>, release |-> <<>>]

(* The session the solver wrapper builds, or wraps when the bridge built it.*)
NewCheck(plan) == [plan |-> plan, targets |-> <<>>, dirty |-> plan # None]
NewSession(x, k) ==
  [inj |-> <<>>, gen_v |-> <<>>, injDirty |-> FALSE, gvDirty |-> FALSE,
   gp |-> NewCheck(None), release |-> NewCheck(None), checks |-> FALSE,
   solver |-> x, batch |-> k, driver |-> NoDriver]

(* The facade built from arrays knows no loads, generators or plans; from a *)
(* grid it reads the elements once and, with compute_physical_violations,   *)
(* both plans.                                                              *)
NewFacade(onGrid) == [onGrid |-> onGrid, gen_p |-> <<>>, gen_v |-> <<>>]
FromArrays(v, x, k) == [NewSession(x, k) EXCEPT !.checks = v]
FromGrid(v, x, k) ==
  IF ~v THEN NewSession(x, k)
  ELSE [NewSession(x, k) EXCEPT !.checks = TRUE, !.gp = NewCheck(GridPlan),
                                !.release = NewCheck(GridPlan)]

Init ==
  /\ grid \in Grids
  /\ \E x \in Solvers, k \in BatchSizes, v \in BOOLEAN :
       \/ f = NewFacade(FALSE) /\ s = FromArrays(v, x, k)
       \/ Buildable(grid) /\ f = NewFacade(TRUE) /\ s = FromGrid(v, x, k)
  /\ solved = FALSE /\ calls = 0
  /\ asked = [bus |-> <<>>, elements |-> {}, gen_v |-> <<>>]
  /\ lapse = {}

(* A call ends "ok", "raised", or "computed": no getter is modelled that    *)
(* would tell the first two apart.                                          *)
Ends(how) ==
  calls < MaxCalls /\ calls' = calls + 1 /\ solved' = (how = "computed") /\ UNCHANGED grid

-----------------------------------------------------------------------------
(* set_injections(): the set-points of the elements are gone first.         *)
NoGenP(r) == PushGenP(r, <<>>)
WithInjections(r, rows) == [r EXCEPT !.inj = rows, !.injDirty = TRUE]

SetInjections(rows) ==
  /\ f' = [f EXCEPT !.gen_p = <<>>]
  /\ s' = WithInjections(NoGenP(s), rows)
  /\ asked' = [asked EXCEPT !.bus = rows, !.elements = {}]
  /\ lapse' = lapse \ {"rows", "push"}
  /\ Ends("ok")

(* A shape or a base the session refuses.                                   *)
SetInjectionsRefused ==
  /\ f' = [f EXCEPT !.gen_p = <<>>]
  /\ s' = NoGenP(s)
  /\ lapse' = (lapse \ {"push"}) \cup {"rows"}
  /\ UNCHANGED asked
  /\ Ends("raised")

(* One column for each load and each generator of the grid.                 *)
NLoads == Len(grid.loads)
NGens == Len(grid.gens)
Fits(e) == \A r \in DOMAIN e.gen_p : Len(e.gen_p[r]) = NGens /\ Len(e.load[r]) = NLoads

FromElements(e) == BuildBusInjections(InjectionElements(grid), e, NoneOff(e))
SetInjectionsFromElements(e) ==
  LET given == WithInjections(s, FromElements(e))
      pushed == Pushable(s.gp.plan, e.gen_p) IN
  /\ f.onGrid /\ Fits(e)
  /\ f' = [f EXCEPT !.gen_p = e.gen_p]
  /\ s' = IF pushed THEN PushGenP(given, e.gen_p) ELSE given
  /\ asked' = [asked EXCEPT !.bus = <<>>, !.elements = {e}]
  /\ lapse' = (lapse \ {"rows", "push"}) \cup (IF pushed THEN {} ELSE {"push"})
  /\ Ends(IF pushed THEN "ok" ELSE "raised")

Refused == UNCHANGED <<f, s, asked, lapse>> /\ Ends("raised")
SetInjectionsFromElementsRefused(e) == (~f.onGrid \/ ~Fits(e)) /\ Refused

(* set_gen_v(): a conflict raises before anything is stored.                *)
WithGenV(r, rows) == [r EXCEPT !.gen_v = rows, !.gvDirty = TRUE]
SetGenV(rows) ==
  LET given == WithGenV(s, rows)
      fits == Pushable(s.release.plan, rows) IN
  /\ f.onGrid /\ ~Conflicting(grid, rows)
  /\ f' = [f EXCEPT !.gen_v = rows]
  /\ s' = IF fits THEN PushRelease(given, rows) ELSE given
  /\ asked' = [asked EXCEPT !.gen_v = rows]
  /\ lapse' = (lapse \ {"release"}) \cup (IF fits THEN {} ELSE {"release"})
  /\ Ends(IF fits THEN "ok" ELSE "raised")

SetGenVRefused(rows) == (~f.onGrid \/ Conflicting(grid, rows)) /\ Refused

(* set_gen_p_capability(), with or without _from_grid.                      *)
WithGenPPlan(r, plan) ==
  LET new == [r EXCEPT !.gp.plan = plan] IN
  IF Pushable(plan, f.gen_p) THEN PushGenP(new, f.gen_p) ELSE new
SetGenPPlan(plan) ==
  LET fits == Pushable(plan, f.gen_p) IN
  /\ s' = WithGenPPlan(s, plan)
  /\ lapse' = (lapse \ {"push"}) \cup (IF fits THEN {} ELSE {"push"})
  /\ UNCHANGED <<f, asked>>
  /\ Ends(IF fits THEN "ok" ELSE "raised")

(* set_gen_pv_release_capability()                                          *)
WithReleasePlan(r, plan) ==
  LET new == [r EXCEPT !.release.plan = plan] IN
  IF Pushable(plan, f.gen_v) THEN PushRelease(new, f.gen_v) ELSE new
SetReleasePlan(plan) ==
  LET fits == Pushable(plan, f.gen_v) IN
  /\ s' = WithReleasePlan(s, plan)
  /\ lapse' = (lapse \ {"release"}) \cup (IF fits THEN {} ELSE {"release"})
  /\ UNCHANGED <<f, asked>>
  /\ Ends(IF fits THEN "ok" ELSE "raised")

(* compute_physical_violations: on a grid, switching it on reads the plans  *)
(* that are missing.                                                        *)
WithPlans(r) ==
  LET r1 == IF r.gp.plan = None THEN WithGenPPlan(r, GridPlan) ELSE r
  IN IF r1.release.plan = None THEN WithReleasePlan(r1, GridPlan) ELSE r1
SetChecks(v) ==
  /\ s' = [(IF v /\ f.onGrid THEN WithPlans(s) ELSE s) EXCEPT !.checks = v]
  /\ UNCHANGED <<f, asked, lapse>>
  /\ Ends("ok")

(* Strategy and options; a name the wrapper does not know raises.           *)
SetSolver(x) ==
  /\ s' = [s EXCEPT !.solver = x]
  /\ UNCHANGED <<f, asked, lapse>>
  /\ Ends("ok")
SetSolverRefused == Refused

-----------------------------------------------------------------------------
(* compute(k): run() of the session r once the batch size is set.           *)
Sized(k) == [s EXCEPT !.batch = k]
RunRefuses(r) == r.inj = <<>> \/ (r.gen_v # <<>> /\ Len(r.gen_v) # Len(r.inj))

Config(r) == <<Len(r.inj), r.batch, r.solver>>
Cold(r) == ~r.driver.alive \/ r.driver.cfg # Config(r)
NewRows(r) == Cold(r) \/ r.injDirty \/ r.gvDirty

Kept(r) == IF Cold(r) THEN [NoDriver EXCEPT !.alive = TRUE, !.cfg = Config(r)] ELSE r.driver
Loaded(r) ==
  [r EXCEPT !.driver = IF NewRows(r) THEN [Kept(r) EXCEPT !.rows = r.inj,
                                                          !.gen_v = Override(grid, r.gen_v)]
                       ELSE Kept(r),
            !.injDirty = FALSE, !.gvDirty = FALSE]

(* sync_targets(); set-points of another plan's size were dropped.          *)
Columns(t) == IF t = <<>> THEN 0 ELSE Len(t[1])
Held(t, plan) == IF Columns(t) = Len(Entries(plan)) THEN t ELSE <<>>
Uploads(c, t) == c.targets # <<>> /\ (c.dirty \/ Held(t, c.plan) = <<>>)
Misfit(c, t, n) ==
  Uploads(c, t) /\ (Columns(c.targets) # Len(Entries(c.plan)) \/ Len(c.targets) # n)
Synced(c, t) ==
  IF Uploads(c, t) THEN c.targets ELSE IF c.targets = <<>> THEN <<>> ELSE Held(t, c.plan)

MisfitGenP(r) == Misfit(r.gp, r.driver.gp, Len(r.inj))
MisfitRelease(r) == Misfit(r.release, r.driver.release, Len(r.inj))
CleanedAlways(r) == [r EXCEPT !.gp.dirty = FALSE, !.release.dirty = FALSE]
Cleaned(r) == IF r.checks THEN CleanedAlways(r) ELSE r
Targeted(r) ==
  IF ~r.checks THEN r
  ELSE [r EXCEPT !.driver.gp = Synced(r.gp, r.driver.gp),
                 !.driver.release = Synced(r.release, r.driver.release)]

Compute(k) ==
  LET r == Loaded(Sized(k)) IN
  /\ ~RunRefuses(s)
  /\ r.checks => ~MisfitGenP(r) /\ ~MisfitRelease(r)
  /\ s' = Cleaned(Targeted(r))
  /\ \E how \in {"computed", "raised"} : Ends(how)       \* solve() may raise
  /\ UNCHANGED <<f, asked, lapse>>

ComputeRefused(k) ==
  /\ RunRefuses(s)
  /\ s' = Sized(k)
  /\ UNCHANGED <<f, asked, lapse>>
  /\ Ends("raised")

(* The rows or their source do not build, and the driver is as it was; a    *)
(* new driver does not build, when the old one was freed; or the upload of  *)
(* new rows to a driver kept is cut short.                                  *)
ComputeTorn(k) ==
  LET r == Sized(k) IN
  /\ ~RunRefuses(s)
  /\ NewRows(r)
  /\ \/ s' = r
     \/ Cold(r) /\ s' = [r EXCEPT !.driver = NoDriver]
     \/ ~Cold(r) /\ s' = [r EXCEPT !.driver.rows = <<>>, !.driver.gen_v = <<>>]
  /\ UNCHANGED <<f, asked, lapse>>
  /\ Ends("raised")

(* Set-points of another size, or the set-up of a check raises.             *)
ChecksRefuse(k) ==
  LET r == Loaded(Sized(k)) IN
  /\ ~RunRefuses(s) /\ r.checks
  /\ \/ s' = r
     \/ /\ ~MisfitGenP(r) /\ MisfitRelease(r)
        /\ s' = [r EXCEPT !.driver.gp = Synced(r.gp, r.driver.gp)]
  /\ UNCHANGED <<f, asked, lapse>>
  /\ Ends("raised")

Next ==
  \/ \E rows \in BusRows : SetInjections(rows)
  \/ SetInjectionsRefused
  \/ \E e \in Elements : SetInjectionsFromElements(e) \/ SetInjectionsFromElementsRefused(e)
  \/ \E rows \in GenVs : SetGenV(rows) \/ SetGenVRefused(rows)
  \/ SetSolverRefused
  \/ \E plan \in GenPPlans : SetGenPPlan(plan)
  \/ \E plan \in ReleasePlans : SetReleasePlan(plan)
  \/ \E v \in BOOLEAN : SetChecks(v)
  \/ \E x \in Solvers : SetSolver(x)
  \/ \E k \in BatchSizes : Compute(k) \/ ComputeRefused(k) \/ ComputeTorn(k) \/ ChecksRefuse(k)

Spec == Init /\ [][Next]_vars

-----------------------------------------------------------------------------
TypeOK ==
  /\ grid \in Grids
  /\ f.onGrid \in BOOLEAN
  /\ f.gen_p \in {<<>>} \cup {e.gen_p : e \in Elements}
  /\ f.gen_v \in {<<>>} \cup GenVs /\ s.gen_v \in {<<>>} \cup GenVs
  /\ s.inj \in {<<>>} \cup BusRows \cup {FromElements(e) : e \in {e \in Elements : f.onGrid /\ Fits(e)}}
  /\ {s.injDirty, s.gvDirty, s.gp.dirty, s.release.dirty, s.checks, s.driver.alive}
       \subseteq BOOLEAN
  /\ s.gp.plan \in {None} \cup GenPPlans /\ s.release.plan \in {None} \cup ReleasePlans
  /\ s.solver \in Solvers /\ s.batch \in BatchSizes
  /\ s.driver.alive => s.driver.cfg \in Nat \X BatchSizes \X Solvers
  /\ \A t \in {s.gp.targets, s.release.targets, s.driver.gp, s.driver.release} :
       \A r \in DOMAIN t : DOMAIN t[r] = 1 .. Columns(t)
  /\ solved \in BOOLEAN /\ calls \in 0 .. MaxCalls
  /\ lapse \subseteq {"rows", "push", "release"}

(* What run() solves are the injections last accepted, on a driver kept or  *)
(* new: given per element, a row differs from the base case of the grid, at *)
(* every bus, by the change of the connected elements there, "lightsim2grid *)
(* computes" the same (extract_injection_elements, _ls2g_utils.py).         *)
Change(els, p, b) ==
  MapThenSumSet(LAMBDA k : p[k] - els[k].p,
    {k \in DOMAIN els : els[k].on /\ Relabel(grid, els[k].bus) = b})
SolvesInjectionsAsked ==
  solved =>
    /\ asked.elements = {} => s.driver.rows = asked.bus
    /\ \A e \in asked.elements :
         /\ Len(s.driver.rows) = Len(e.gen_p)
         /\ \A r \in DOMAIN s.driver.rows, b \in Buses(grid) :
              s.driver.rows[r][b] - grid.sbus[b] =
                Change(grid.gens, e.gen_p[r], b) - Change(grid.loads, e.load[r], b)

(* The voltages on the driver are those of the set_gen_v() last accepted,   *)
(* one value per bus: "no V satisfies both" otherwise.                      *)
SolvesSetPointsAsked ==
  solved =>
    /\ Len(s.driver.gen_v) \in {0, Len(s.driver.rows)}
    /\ DOMAIN s.driver.gen_v = DOMAIN asked.gen_v
    /\ \A r \in DOMAIN s.driver.gen_v, k \in DOMAIN grid.gens :
         LET b == GenVBus(grid, k) IN
         (b >= 0 /\ Movable(grid, b) /\ asked.gen_v[r][k] # None)
           => asked.gen_v[r][k] \in s.driver.gen_v[r][b]

OneVoltagePerBus ==
  \A r \in DOMAIN s.driver.gen_v, b \in Buses(grid) :
    \A v, w \in s.driver.gen_v[r][b] \cup (IF s.driver.gen_v[r][b] = {} THEN {} ELSE Pin(grid, b)) :
      v - w <= Tol

(* "A row's generator produces ITS target plus its share of the slack": the *)
(* active check reads the gen_p of the injections solved, entry by entry,   *)
(* or none; however rows, plan and the checks' switch were ordered.         *)
ChecksUseSolvedGenP ==
  solved /\ s.checks /\ lapse \cap {"rows", "push"} = {} =>
    LET plan == Entries(s.gp.plan) IN
    /\ asked.elements = {} \/ plan = <<>> => s.driver.gp = <<>>
    /\ plan # <<>> => \A e \in asked.elements :
         /\ DOMAIN s.driver.gp = DOMAIN s.driver.rows
         /\ \A r \in DOMAIN s.driver.gp, k \in DOMAIN plan :
              s.driver.gp[r][k] = IF plan[k].type = "gen" THEN e.gen_p[r][plan[k].id] ELSE None

(* The release check reads the set-points solved.                           *)
ChecksUseSolvedGenV ==
  solved /\ s.checks /\ "release" \notin lapse =>
    LET plan == Entries(s.release.plan) IN
    /\ DOMAIN s.driver.release = (IF plan = <<>> THEN {} ELSE DOMAIN asked.gen_v)
    /\ \A r \in DOMAIN s.driver.release, k \in DOMAIN plan :
         s.driver.release[r][k] =
           IF plan[k].type = "gen" THEN asked.gen_v[r][plan[k].id] ELSE None

(* A run solves what was last accepted: injections, built from elements as  *)
(* PyTorch and lightsim2grid build them (AssembledAlike), and set-points.   *)
SolvesWhatIsAsked ==
  /\ SolvesInjectionsAsked /\ SolvesSetPointsAsked
  /\ calls = 0 /\ f.onGrid => AssembledAlike(grid, {e \in Elements : Fits(e)})

(* The checks of a run read the targets and set-points it solved.           *)
ChecksUseWhatIsSolved == ChecksUseSolvedGenP /\ ChecksUseSolvedGenV
=============================================================================
