---------------------------- MODULE EngineHandles ----------------------------
(***************************************************************************)
(* The Python engines around the three compiled sessions (_ScenarioSweep-  *)
(* Solver, _ContingencyAnalysisSolver, _InjectionSweepSolver), the options *)
(* of their facades, and the handles they give out on GPU memory.          *)
(*                                                                         *)
(* An option lives in three places: what the engine reports (the request   *)
(* it recorded), what the session will use (resolved), and what the live   *)
(* driver was built with (driver_cfg_), compared by every run().  A handle *)
(* is a DLPack tensor on a buffer of the driver or of the base state, or a *)
(* DeviceBuffer: a shape noted now and a download made when it is asked    *)
(* for.  What could go wrong is a run with other options than reported, or *)
(* a handle that outlives what it was taken from.                          *)
(*                                                                         *)
(* Options are represented by one of each way of treatment: strategy and   *)
(* matching (reordering, pivot: named), batch_size (scaling, refactor      *)
(* period: plain, in driver_cfg_), nb_iter (plain, given to any driver)    *)
(* and mask (handle_disconnected_grid).  A buffer is the build that made   *)
(* it; which inputs a run() reads is the business of other modules.        *)
(***************************************************************************)
EXTENDS Naturals, FiniteSets

CONSTANTS
    None,
    Kinds,       \* the engines to look at
    RowCounts,   \* rows of a batch
    BatchSizes, Iterations,
    MaxCalls,    \* bound on the calls of a behaviour
    MaxHandles   \* bound on the tensors held at once

ASSUME HandlesAssumption ==
    /\ Kinds # {} /\ Kinds \subseteq {"contingency", "injection", "scenario"}
    /\ RowCounts \subseteq Nat \ {0} /\ BatchSizes # {} /\ Iterations # {}
    /\ None \notin Nat
    /\ MaxCalls \in Nat /\ MaxHandles \in Nat

VARIABLES
    kind,        \* the engine
    reported,    \* _strategy, _matching_alg: what their getters return
    session,     \* the options of the session
    rows,        \* staged rows (None: none yet) and contingencies_generation_
    base,        \* the base state of the session, by build
    config,      \* driver_cfg_ (None: never built)
    driver,      \* the live driver: its build, rows, nb_iter_ and results
    builds, runs,\* driver_build_counter_ and the run() that began
    tensors,     \* DLPack tensors a caller holds
    residuals,   \* _last_residuals: a DeviceBuffer (None: no compute() yet)
    settled,     \* history: the last run() returned, and nothing was set since
    computed,    \* history: the run() of the last compute(), if no run() began since
    misreported, \* history: named options that report a request that was refused
    calls
optionVars == <<reported, session, misreported>>
driverVars == <<config, driver, builds>>
vars == <<kind, optionVars, rows, base, driverVars, runs, tensors, residuals, settled, computed,
          calls>>

-----------------------------------------------------------------------------
(* A named option is asked for by name, by enum member, or by the str() of *)
(* a member, which is not a name.                                          *)
Algs(o)    == IF o = "strategy" THEN {"refactor_every", "base_case_factors"} ELSE {"none", "auto"}
Named      == {"strategy", "matching"}
Request(o) == [form : {"name", "enum", "repr"}, alg : Algs(o)]

Resolves(v) == v.form \in {"name", "enum"}      \* else ValueError

(* What a getter reports: the scenario and injection engines keep str() of *)
(* an enum member.                                                         *)
AsString(v) == IF v.form = "enum" THEN [v EXCEPT !.form = "repr"] ELSE v

Plain == [batch_size |-> BatchSizes, nb_iter |-> Iterations, mask |-> BOOLEAN]
Session == [strategy : Algs("strategy"), matching : Algs("matching"),
            batch_size : BatchSizes, nb_iter : Iterations, mask : BOOLEAN]

(* A driver and the options it was made with; no driver is None.           *)
Drivers == [build : Nat, n : RowCounts, made : Session, nb_iter : Iterations,
            run : Nat, whole : BOOLEAN]

ASSUME DriversAssumption == None \notin Drivers

(* A session made elsewhere is wrapped with the names it was made with.    *)
WrapSession(r) ==
    /\ reported = [strategy |-> [form |-> "name", alg |-> "refactor_every"], matching |-> r]
    /\ session \in Session
    /\ session.strategy = "refactor_every" /\ session.matching = r.alg

ContingencyInit == kind = "contingency"
ScenarioInit    == kind = "scenario"
InjectionInit   == kind = "injection" /\ session.mask = FALSE

Init ==
    /\ \E r \in Request("matching") : Resolves(r) /\ WrapSession(r)
    /\ kind \in Kinds
    /\ ContingencyInit \/ ScenarioInit \/ InjectionInit
    /\ session.batch_size = CHOOSE b \in BatchSizes : TRUE
    /\ session.nb_iter = CHOOSE n \in Iterations : TRUE
    /\ rows = [n |-> None, gen |-> 0] /\ base = 0
    /\ config = None /\ driver = None /\ builds = 0 /\ runs = 0
    /\ tensors = {} /\ residuals = None
    /\ settled = FALSE /\ computed = None /\ misreported = {} /\ calls = 0

Call == calls < MaxCalls /\ calls' = calls + 1

-----------------------------------------------------------------------------
(* The setters of an engine.                                               *)
Setter ==
    /\ Call
    /\ settled' = FALSE
    /\ UNCHANGED <<kind, rows, base, driverVars, runs, tensors, residuals, computed>>

Take(o, v, report) ==
    /\ reported' = [reported EXCEPT ![o] = report]
    /\ session' = [session EXCEPT ![o] = v.alg]
    /\ misreported' = misreported \ {o}

Refuse == UNCHANGED optionVars

SetPlain(o, v) == session' = [session EXCEPT ![o] = v] /\ UNCHANGED <<reported, misreported>>

(* Resolved first, then recorded.                                          *)
ScenarioSet(o, v) ==
    /\ kind = "scenario" /\ Setter
    /\ \/ o \in Named /\ Resolves(v) /\ Take(o, v, AsString(v))
       \/ o \in Named /\ ~Resolves(v) /\ Refuse
       \/ o \notin Named /\ SetPlain(o, v)

InjectionSet(o, v) ==
    /\ kind = "injection" /\ Setter
    /\ \/ o \in Named /\ Resolves(v) /\ Take(o, v, AsString(v))
       \/ o \in Named /\ ~Resolves(v) /\ Refuse
       \/ o \notin Named \cup {"mask"} /\ SetPlain(o, v)

(* A strategy is looked up first, and by name only; an algorithm is        *)
(* recorded first, as it was asked for.                                    *)
StrategyKnown(v) == v.form = "name"

Misreport(o, v) ==
    /\ reported' = [reported EXCEPT ![o] = v]
    /\ UNCHANGED session /\ misreported' = misreported \cup {o}

ContingencyNamed(o, v) ==
    \/ o = "strategy" /\ StrategyKnown(v) /\ Take(o, v, v)
    \/ o = "strategy" /\ ~StrategyKnown(v) /\ Refuse
    \/ o # "strategy" /\ Resolves(v) /\ Take(o, v, v)
    \/ o # "strategy" /\ ~Resolves(v) /\ Misreport(o, v)

ContingencySet(o, v) ==
    /\ kind = "contingency" /\ Setter
    /\ \/ o \in Named /\ ContingencyNamed(o, v)
       \/ o \notin Named /\ SetPlain(o, v)

(* The facades pass the named options on, the scenario sweep's nb_iter as  *)
(* well; the others are set on the engine, which is their .solver.         *)
ScenarioFacadeSet(o, v)    == o \in Named \cup {"nb_iter"} /\ ScenarioSet(o, v)
InjectionFacadeSet(o, v)   == o \in Named /\ InjectionSet(o, v)
ContingencyFacadeSet(o, v) == o \in Named /\ ContingencySet(o, v)

EngineSet(o, v) ==
    /\ o \notin Named
    /\ ScenarioSet(o, v) \/ InjectionSet(o, v) \/ ContingencySet(o, v)

(* set_injections() or build_contingencies(); the latter counts its calls. *)
StageRows(n) ==
    /\ Call
    /\ rows' = [n |-> n, gen |-> IF kind = "contingency" THEN rows.gen + 1 ELSE 0]
    /\ settled' = FALSE
    /\ UNCHANGED <<kind, optionVars, base, driverVars, runs, tensors, residuals, computed>>

-----------------------------------------------------------------------------
(* run(), with the options s of the session.                               *)
Config(s, b) ==
    [strategy |-> s.strategy, matching |-> s.matching, batch_size |-> s.batch_size,
     mask |-> s.mask, rows |-> rows, base |-> b]

(* Mutant: a member left out of the comparison.                            *)
ConfigWithoutStrategy(s, b) == [Config(s, b) EXCEPT !.strategy = "refactor_every"]

DriverConfig(s, b) == Config(s, b)

Cold(s, b)   == driver = None \/ config # DriverConfig(s, b)
Supported(s) == s.matching = "none"          \* by the batched analysis of cuDSS

(* The scenario sweep also gives up a driver of the right options, when the *)
(* topology of now takes too many of its chunks.                           *)
MustBuild(s, rebase) == rebase \/ Cold(s, base)
MayBuild(s, rebase)  == MustBuild(s, rebase) \/ kind = "scenario"

Refused(s) ==
    \/ rows.n = None
    \/ s.mask /\ s.strategy = "base_case_factors"

(* The reference slack of the base state may move with the batch: the base *)
(* state is rebuilt, and the driver, which refers to it, dropped before.   *)
Rebases(rebase) == rebase => kind # "injection"
BaseNow(rebase) == IF rebase THEN runs + 1 ELSE base

RunBegins(s, rebase) ==
    /\ Call
    /\ ~Refused(s) /\ Rebases(rebase)
    /\ runs' = runs + 1
    /\ UNCHANGED <<kind, rows>>

RunDoesNotReturn ==
    /\ settled' = FALSE /\ computed' = None
    /\ UNCHANGED <<optionVars, tensors, residuals>>

RunRefused ==
    /\ Call
    /\ Refused(session)
    /\ runs' = runs + 1 /\ RunDoesNotReturn
    /\ UNCHANGED <<kind, rows, base, driverVars>>

(* A base case that cannot be rebuilt leaves the old one without a driver. *)
RunFailsToRebase ==
    /\ RunBegins(session, TRUE) /\ RunDoesNotReturn
    /\ driver' = None
    /\ UNCHANGED <<base, config, builds>>

(* What throws once the base state is there, before the old driver goes.   *)
RunStops(rebase) ==
    /\ RunBegins(session, rebase) /\ RunDoesNotReturn
    /\ base' = BaseNow(rebase)
    /\ driver' = IF rebase THEN None ELSE driver
    /\ UNCHANGED <<config, builds>>

RunFailsToBuild(rebase) ==
    /\ RunBegins(session, rebase) /\ RunDoesNotReturn
    /\ MayBuild(session, rebase)
    /\ base' = BaseNow(rebase)
    /\ driver' = None
    /\ UNCHANGED <<config, builds>>

(* Mutant: the knob stays as the driver was made.                          *)
IterationsOfTheBuild(d, s) == d.nb_iter

HandedOn(d, s) == s.nb_iter

NewDriver(s) ==
    [build |-> builds + 1, n |-> rows.n, made |-> s, nb_iter |-> s.nb_iter,
     run |-> 0, whole |-> FALSE]

(* A driver is found or made, and solve() stores the rows: all of them, or *)
(* those before the failure.                                               *)
SolvesOn(d, s, whole) ==
    /\ builds' = d.build
    /\ driver' = [d EXCEPT !.nb_iter = HandedOn(d, s), !.run = runs + 1, !.whole = whole]

Solves(s, rebase, whole) ==
    /\ base' = BaseNow(rebase)
    /\ \/ /\ MayBuild(s, rebase) /\ Supported(s)
          /\ SolvesOn(NewDriver(s), s, whole) /\ config' = DriverConfig(s, base')
       \/ /\ ~MustBuild(s, rebase)
          /\ SolvesOn(driver, s, whole) /\ UNCHANGED config

RunFailsInSolve(rebase) ==
    /\ RunBegins(session, rebase) /\ RunDoesNotReturn
    /\ Solves(session, rebase, FALSE)

Run(rebase) ==
    /\ RunBegins(session, rebase)
    /\ Solves(session, rebase, TRUE)
    /\ settled' = TRUE /\ computed' = None
    /\ UNCHANGED <<optionVars, tensors, residuals>>

-----------------------------------------------------------------------------
(* Handles.  The shape of a DeviceBuffer is of when it is made, what       *)
(* to_numpy() downloads of when it is called.                              *)
RowsNow(d) == IF d # None THEN d.n ELSE rows.n        \* n_scenarios, n_contingencies
DeviceBuffer(d) == [n |-> RowsNow(d)]
Fetch == [n |-> driver.n, run |-> driver.run, whole |-> driver.whole]

(* A view of the voltages keeps the session alive; one of the base case    *)
(* the base state itself, where a run() may replace it.                    *)
ResultsView(d) == [what |-> "results", of |-> d.build, n |-> d.n, owner |-> "session"]

(* Mutant: the base case is the session's business.                        *)
BaseOwnedBySession == "session"

BaseOwner == IF kind = "injection" THEN "session" ELSE "base"
BaseView  == [what |-> "base", of |-> base, n |-> None, owner |-> BaseOwner]

Hold(t) == Cardinality(tensors) < MaxHandles /\ tensors' = tensors \cup {t}

(* Mutant: the residuals are noted before the run().                       *)
NotedBefore(d) == DeviceBuffer(driver)

ResidualsNoted(d) == DeviceBuffer(d)

(* compute() of the facades: the batch size is an argument.  One that      *)
(* fails is the setting of batch_size and a run() that fails.              *)
Compute(b, rebase) ==
    LET s == [session EXCEPT !.batch_size = b] IN
    /\ RunBegins(s, rebase)
    /\ Solves(s, rebase, TRUE)
    /\ session' = s /\ UNCHANGED <<reported, misreported>>
    /\ residuals' = ResidualsNoted(driver')
    /\ Hold(ResultsView(driver')) \/ UNCHANGED tensors
    /\ settled' = TRUE /\ computed' = runs + 1

TakeBase ==
    /\ Call
    /\ Hold(BaseView)
    /\ UNCHANGED <<kind, optionVars, rows, base, driverVars, runs, residuals, settled, computed>>

Drop(t) ==
    /\ Call
    /\ tensors' = tensors \ {t}
    /\ UNCHANGED <<kind, optionVars, rows, base, driverVars, runs, residuals, settled, computed>>

-----------------------------------------------------------------------------
Requests(o) == IF o \in Named THEN Request(o) ELSE Plain[o]

Next ==
    \/ \E o \in Named \cup DOMAIN Plain : \E v \in Requests(o) :
          \/ ScenarioFacadeSet(o, v) \/ InjectionFacadeSet(o, v) \/ ContingencyFacadeSet(o, v)
          \/ EngineSet(o, v)
    \/ \E n \in RowCounts : StageRows(n)
    \/ RunRefused
    \/ RunFailsToRebase
    \/ \E rebase \in BOOLEAN : RunStops(rebase)
    \/ \E rebase \in BOOLEAN : RunFailsToBuild(rebase)
    \/ \E rebase \in BOOLEAN : RunFailsInSolve(rebase)
    \/ \E rebase \in BOOLEAN : Run(rebase)
    \/ \E b \in BatchSizes, rebase \in BOOLEAN : Compute(b, rebase)
    \/ TakeBase
    \/ \E t \in tensors : Drop(t)

Spec == Init /\ [][Next]_vars

-----------------------------------------------------------------------------
Driver == [build : 1 .. builds, n : RowCounts, made : Session, nb_iter : Iterations,
           run : 1 .. runs, whole : BOOLEAN]

(* The state is well typed, and the live driver is the one driver_cfg_     *)
(* describes.                                                              *)
TypeOK ==
    /\ kind \in Kinds /\ session \in Session
    /\ reported \in [Named -> UNION {Request(o) : o \in Named}]
    /\ \A o \in Named : reported[o] \in Request(o)
    /\ rows.n \in RowCounts \cup {None}
    /\ driver # None =>
          /\ driver \in Driver
          /\ config.base = base /\ config.rows.n = driver.n
          /\ builds = driver.build

(* What a getter returns names the algorithm the session will use, even    *)
(* after a request that was refused; of the contingency engine's algorithm *)
(* options only when the last request was accepted.                        *)
ReportedIsSession ==
    \A o \in Named :
        reported[o].alg = session[o]
            \/ (kind = "contingency" /\ o # "strategy" /\ o \in misreported)

(* A run() that returned has used the options its engine reports, on the   *)
(* rows last staged, whichever driver it found.                            *)
RunUsesItsOptions ==
    settled =>
        /\ [driver.made EXCEPT !.nb_iter = driver.nb_iter] = session
        /\ driver.n = rows.n
        /\ \A o \in Named \ misreported : driver.made[o] = reported[o].alg

(* A view of the base case can be read for as long as it is held: its      *)
(* buffer is the session's own, or kept alive by the view.                 *)
BaseViewsStayAlive ==
    \A t \in tensors : t.what = "base" => t.owner = "base" \/ t.of = base

(* Until another run(), the residuals of compute() are those of its rows   *)
(* and as many as announced.                                               *)
ResidualsOfCompute ==
    computed # None =>
        /\ driver # None /\ Fetch.run = computed /\ Fetch.whole
        /\ residuals.n = Fetch.n

(* A view of the voltages shows what a later run() stores: the buffer of   *)
(* a contingency analysis or an injection sweep is overwritten in place.   *)
ResultsOverwrittenInPlace ==
    kind # "scenario" =>
        \A t \in tensors : t.what = "results" => driver # None /\ t.of = driver.build

(* The options an engine reports are those of its session, and those its    *)
(* last run() used.                                                         *)
OptionsAreObeyed == ReportedIsSession /\ RunUsesItsOptions
=============================================================================
