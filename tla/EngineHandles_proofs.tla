------------------------ MODULE EngineHandles_proofs ------------------------
(***************************************************************************)
(* Options that are obeyed and handles that stay alive (EngineHandles);    *)
(* set-points that reach the driver and the checks of an injection sweep,  *)
(* and the sums of elements it assembles its rows of (InjectionFacade).    *)
(***************************************************************************)
EXTENDS EngineHandles, InjectionEngine, Integers, Sequences, FiniteSetTheorems,
        WellFoundedInduction, TLAPS

Options == Named \cup {"batch_size", "nb_iter", "mask"}

Reports == [form : {"name", "enum", "repr"},
            alg : {"refactor_every", "base_case_factors", "none", "auto"}]

Typed ==
  /\ session \in Session
  /\ reported \in [Named -> Reports]
  /\ base \in Nat /\ builds \in Nat /\ runs \in Nat
  /\ rows.n \in RowCounts \cup {None}

(* What a comparison with driver_cfg_ that finds no difference rests on:    *)
(* the live driver was made with the options it names, for as many rows.   *)
ConfigDescribesDriver ==
  driver # None =>
    /\ driver \in Drivers
    /\ config.strategy = driver.made.strategy /\ config.matching = driver.made.matching
    /\ config.batch_size = driver.made.batch_size /\ config.mask = driver.made.mask
    /\ config.rows.n = driver.n

SettledUsesSession ==
  settled =>
    /\ driver # None
    /\ [driver.made EXCEPT !.nb_iter = driver.nb_iter] = session
    /\ driver.n = rows.n

(* Only the injection engine gives out a base case it owns, and its base   *)
(* state is never rebuilt.                                                 *)
ViewsInv ==
  \A t \in tensors : t.what = "base" => t.owner = "base" \/ (kind = "injection" /\ t.of = base)

HandlesInv ==
  /\ Typed /\ ConfigDescribesDriver
  /\ ReportedIsSession /\ SettledUsesSession /\ ViewsInv /\ ResidualsOfCompute

LEMMA InitHolds == Init => HandlesInv
<1>. SUFFICES ASSUME Init PROVE HandlesInv
  OBVIOUS
<1>1. PICK r \in Request("matching") : WrapSession(r)
  BY DEF Init
<1>2. r \in Reports
  <2>1. r \in [form : {"name", "enum", "repr"}, alg : {"none", "auto"}]
    BY DEF Request, Algs
  <2>2. QED
    BY <2>1 DEF Reports
<1>3. Typed
  <2>1. reported \in [Named -> Reports]
    <3>1. reported = [strategy |-> [form |-> "name", alg |-> "refactor_every"], matching |-> r]
      BY <1>1 DEF WrapSession
    <3>2. [form |-> "name", alg |-> "refactor_every"] \in Reports
      BY DEF Reports
    <3>3. reported \in [strategy : Reports, matching : Reports]
      BY <1>2, <3>1, <3>2
    <3>4. [strategy : Reports, matching : Reports] = [Named -> Reports]
      BY DEF Named
    <3>5. QED
      BY <3>3, <3>4
  <2>2. QED
    BY <1>1, <2>1 DEF Init, WrapSession, Typed
<1>4. ReportedIsSession
  BY <1>1 DEF WrapSession, ReportedIsSession, Named
<1>5. ConfigDescribesDriver /\ SettledUsesSession /\ ViewsInv /\ ResidualsOfCompute
  BY DEF Init, ConfigDescribesDriver, SettledUsesSession, ViewsInv, ResidualsOfCompute
<1>6. QED
  BY <1>3, <1>4, <1>5 DEF HandlesInv

-----------------------------------------------------------------------------
(* Setters.                                                                *)

(* Accepting a named option records it and gives it to the session.        *)
LEMMA TakeKeeps ==
  ASSUME Typed, ReportedIsSession, NEW o \in Named, NEW v \in Request(o), NEW r,
         r \in Reports, r.alg = v.alg,
         Take(o, v, r), kind' = kind
  PROVE  /\ session' \in Session /\ ReportedIsSession'
         /\ reported' \in [Named -> Reports]
<1>1. v.alg \in Algs(o)
  BY DEF Request
<1>2. reported' = [reported EXCEPT ![o] = r] /\ session' = [session EXCEPT ![o] = v.alg]
      /\ misreported' = misreported \ {o}
  BY DEF Take
<1>3. session' \in Session
  <2>1. CASE o = "strategy"
    BY <1>1, <1>2, <2>1 DEF Typed, Session
  <2>2. CASE o = "matching"
    BY <1>1, <1>2, <2>2 DEF Typed, Session
  <2>3. QED
    BY <2>1, <2>2 DEF Named
<1>4. reported' \in [Named -> Reports]
  BY <1>2 DEF Typed
<1>5. ReportedIsSession'
  <2>. SUFFICES ASSUME NEW p \in Named
       PROVE  reported'[p].alg = session'[p]
                \/ (kind = "contingency" /\ p # "strategy" /\ p \in misreported')
    BY DEF ReportedIsSession
  <2>1. CASE p = o
    <3>1. reported'[p] = r
      BY <1>2, <2>1 DEF Typed
    <3>2. session'[p] = v.alg
      <4>1. CASE o = "strategy"
        BY <1>2, <2>1, <4>1 DEF Typed, Session
      <4>2. CASE o = "matching"
        BY <1>2, <2>1, <4>2 DEF Typed, Session
      <4>3. QED
        BY <4>1, <4>2 DEF Named
    <3>3. QED
      BY <3>1, <3>2
  <2>2. CASE p # o
    <3>1. reported'[p] = reported[p] /\ (p \in misreported => p \in misreported')
      BY <1>2, <2>2 DEF Typed
    <3>2. session'[p] = session[p]
      <4>1. CASE o = "strategy"
        BY <1>2, <2>2, <4>1 DEF Typed, Session, Named
      <4>2. CASE o = "matching"
        BY <1>2, <2>2, <4>2 DEF Typed, Session, Named
      <4>3. QED
        BY <4>1, <4>2 DEF Named
    <3>3. QED
      BY <3>1, <3>2 DEF ReportedIsSession
  <2>3. QED
    BY <2>1, <2>2
<1>6. QED
  BY <1>3, <1>4, <1>5

(* Setting a plain option says nothing of the named ones.                  *)
LEMMA PlainKeeps ==
  ASSUME Typed, ReportedIsSession, NEW o \in {"batch_size", "nb_iter", "mask"}, NEW v \in Requests(o),
         SetPlain(o, v), kind' = kind
  PROVE  session' \in Session /\ ReportedIsSession' /\ reported' = reported
<1>1. session' = [session EXCEPT ![o] = v] /\ reported' = reported /\ misreported' = misreported
  BY DEF SetPlain
<1>2. v \in Plain[o]
  BY DEF Requests, Named
<1>3. /\ session' \in Session
      /\ session'["strategy"] = session["strategy"] /\ session'["matching"] = session["matching"]
  <2>1. CASE o = "batch_size"
    BY <1>1, <1>2, <2>1 DEF Typed, Session, Plain
  <2>2. CASE o = "nb_iter"
    BY <1>1, <1>2, <2>2 DEF Typed, Session, Plain
  <2>3. CASE o = "mask"
    BY <1>1, <1>2, <2>3 DEF Typed, Session, Plain
  <2>4. QED
    BY <2>1, <2>2, <2>3
<1>4. \A p \in Named : session'[p] = session[p]
  BY <1>3 DEF Named
<1>5. ReportedIsSession'
  BY <1>1, <1>4 DEF ReportedIsSession
<1>6. QED
  BY <1>1, <1>3, <1>5

(* A request the contingency engine records before refusing it is not      *)
(* counted on.                                                             *)
LEMMA MisreportKeeps ==
  ASSUME Typed, ReportedIsSession, NEW o \in Named, NEW v \in Request(o),
         v \in Reports, Misreport(o, v), o # "strategy", kind' = kind, kind = "contingency"
  PROVE  session' = session /\ ReportedIsSession' /\ reported' \in [Named -> Reports]
<1>1. /\ reported' = [reported EXCEPT ![o] = v] /\ session' = session
      /\ misreported' = misreported \cup {o}
  BY DEF Misreport
<1>2. reported' \in [Named -> Reports]
  BY <1>1 DEF Typed
<1>3. \A p \in Named : p # o => reported'[p] = reported[p]
  BY <1>1 DEF Typed
<1>4. ReportedIsSession'
  BY <1>1, <1>3 DEF ReportedIsSession
<1>5. QED
  BY <1>1, <1>2, <1>4

LEMMA RequestsAreReports ==
  ASSUME NEW o \in Named, NEW v \in Request(o)
  PROVE  v \in Reports /\ AsString(v) \in Reports /\ AsString(v).alg = v.alg
<1>1. v \in Reports
  <2>1. CASE o = "strategy"
    BY <2>1 DEF Request, Algs, Reports
  <2>2. CASE o = "matching"
    <3>1. v \in [form : {"name", "enum", "repr"}, alg : {"none", "auto"}]
      BY <2>2 DEF Request, Algs
    <3>2. QED
      BY <3>1 DEF Reports
  <2>3. QED
    BY <2>1, <2>2 DEF Named
<1>2. QED
  BY <1>1 DEF AsString, Reports

LEMMA SetterKeeps ==
  ASSUME HandlesInv, NEW o \in Named \cup {"batch_size", "nb_iter", "mask"}, NEW v \in Requests(o),
         ScenarioSet(o, v) \/ InjectionSet(o, v) \/ ContingencySet(o, v)
  PROVE  HandlesInv'
<1>. USE DEF HandlesInv
<1>1. /\ settled' = FALSE /\ kind' = kind /\ rows' = rows /\ base' = base /\ config' = config
      /\ driver' = driver /\ builds' = builds /\ runs' = runs /\ tensors' = tensors
      /\ residuals' = residuals /\ computed' = computed
  BY DEF ScenarioSet, InjectionSet, ContingencySet, Setter, driverVars
<1>2. ConfigDescribesDriver' /\ SettledUsesSession' /\ ViewsInv' /\ ResidualsOfCompute'
  BY <1>1 DEF ConfigDescribesDriver, SettledUsesSession, ViewsInv, ResidualsOfCompute, Fetch
<1>3. session' \in Session /\ ReportedIsSession' /\ reported' \in [Named -> Reports]
  <2>1. CASE o \notin Named
    <3>1. SetPlain(o, v)
      BY <2>1 DEF ScenarioSet, InjectionSet, ContingencySet
    <3>2. QED
      BY <1>1, <2>1, <3>1, PlainKeeps DEF Typed
  <2>2. CASE o \in Named
    <3>1. v \in Request(o)
      BY <2>2 DEF Requests
    <3>2. v \in Reports /\ AsString(v) \in Reports /\ AsString(v).alg = v.alg
      BY <2>2, <3>1, RequestsAreReports
    <3>3. \/ Take(o, v, v) \/ Take(o, v, AsString(v)) \/ Refuse
          \/ Misreport(o, v) /\ o # "strategy" /\ kind = "contingency"
      BY <2>2 DEF ScenarioSet, InjectionSet, ContingencySet, ContingencyNamed
    <3>4. CASE Take(o, v, v)
      BY <1>1, <2>2, <3>1, <3>2, <3>4, TakeKeeps
    <3>5. CASE Take(o, v, AsString(v))
      BY <1>1, <2>2, <3>1, <3>2, <3>5, TakeKeeps
    <3>6. CASE Refuse
      BY <1>1, <3>6 DEF Refuse, optionVars, Typed, ReportedIsSession
    <3>7. CASE Misreport(o, v) /\ o # "strategy" /\ kind = "contingency"
      BY <1>1, <2>2, <3>1, <3>2, <3>7, MisreportKeeps DEF Typed
    <3>8. QED
      BY <3>3, <3>4, <3>5, <3>6, <3>7
  <2>3. QED
    BY <2>1, <2>2
<1>4. QED
  BY <1>1, <1>2, <1>3 DEF Typed

-----------------------------------------------------------------------------
(* Runs.                                                                   *)
LEMMA StaysTheSame ==
  ASSUME HandlesInv, UNCHANGED <<kind, optionVars>>, runs' \in Nat, base' \in Nat, builds' \in Nat,
         rows'.n \in RowCounts \cup {None}
  PROVE  Typed' /\ ReportedIsSession'
  BY DEF HandlesInv, Typed, ReportedIsSession, optionVars

(* A base state is rebuilt only where its views keep it alive.             *)
LEMMA ViewsKept ==
  ASSUME HandlesInv, kind' = kind, NEW rebase \in BOOLEAN,
         rebase => kind # "injection", base' = BaseNow(rebase)
  PROVE  \A t \in tensors :
            t.what = "base" => t.owner = "base" \/ (kind' = "injection" /\ t.of = base')
  BY DEF HandlesInv, ViewsInv, BaseNow

(* A run() that does not return leaves no driver, the old one, or one that  *)
(* the comparison describes.                                               *)
LEMMA RunNotReturned ==
  ASSUME HandlesInv,
         \/ RunRefused \/ RunFailsToRebase
         \/ \E rebase \in BOOLEAN : RunStops(rebase) \/ RunFailsToBuild(rebase)
  PROVE  HandlesInv'
<1>1. /\ UNCHANGED <<kind, optionVars, rows, tensors>> /\ settled' = FALSE /\ computed' = None
      /\ runs' = runs + 1 /\ config' = config /\ builds' = builds
      /\ (driver' = None \/ driver' = driver)
  BY DEF RunRefused, RunFailsToRebase, RunStops, RunFailsToBuild, RunBegins, RunDoesNotReturn, driverVars
<1>2. PICK rebase \in BOOLEAN : (rebase => kind # "injection") /\ base' = BaseNow(rebase)
  BY DEF RunRefused, RunFailsToRebase, RunStops, RunFailsToBuild, RunBegins, Rebases, BaseNow
<1>3. Typed' /\ ReportedIsSession'
  BY <1>1, <1>2, StaysTheSame DEF HandlesInv, Typed, BaseNow
<1>4. ConfigDescribesDriver' /\ SettledUsesSession' /\ ResidualsOfCompute'
  BY <1>1 DEF HandlesInv, ConfigDescribesDriver, SettledUsesSession, ResidualsOfCompute
<1>5. ViewsInv'
  BY <1>1, <1>2, ViewsKept DEF ViewsInv
<1>6. QED
  BY <1>3, <1>4, <1>5 DEF HandlesInv

(* solve() is reached with a driver made with the options of now, found or *)
(* built, and with the iterations of now.                                  *)
LEMMA SolvesWithOptions ==
  ASSUME HandlesInv, NEW s \in Session, NEW rebase \in BOOLEAN, NEW whole \in BOOLEAN,
         RunBegins(s, rebase), Solves(s, rebase, whole)
  PROVE  /\ driver' \in Drivers /\ driver' # None
         /\ [driver'.made EXCEPT !.nb_iter = driver'.nb_iter] = s
         /\ driver'.n = rows.n /\ driver'.run = runs + 1 /\ driver'.whole = whole
         /\ ConfigDescribesDriver' /\ builds' \in Nat /\ base' \in Nat /\ runs' = runs + 1
         /\ \A t \in tensors :
               t.what = "base" => t.owner = "base" \/ (kind' = "injection" /\ t.of = base')
<1>. USE DEF HandlesInv
<1>. DEFINE Built(d) == d = NewDriver(s) /\ config' = DriverConfig(s, base')
            Found(d) == d = driver /\ ~MustBuild(s, rebase) /\ config' = config
<1>0. PICK d : SolvesOn(d, s, whole) /\ (Built(d) \/ Found(d))
  BY DEF Solves
<1>1. /\ runs' = runs + 1 /\ rows' = rows /\ kind' = kind /\ base' = BaseNow(rebase)
      /\ (rebase => kind # "injection") /\ builds' = d.build
      /\ driver' = [d EXCEPT !.nb_iter = HandedOn(d, s), !.run = runs + 1, !.whole = whole]
  BY <1>0 DEF RunBegins, Rebases, Solves, SolvesOn
<1>2. rows.n \in RowCounts
  BY DEF RunBegins, Refused, Typed
<1>3. d \in Drivers /\ d.n = rows.n /\ [d.made EXCEPT !.nb_iter = s.nb_iter] = s
  <2>1. CASE Built(d)
    <3>1. d = [build |-> builds + 1, n |-> rows.n, made |-> s, nb_iter |-> s.nb_iter,
               run |-> 0, whole |-> FALSE]
      BY <2>1 DEF NewDriver
    <3>2. [s EXCEPT !.nb_iter = s.nb_iter] = s /\ s.nb_iter \in Iterations
      BY DEF Session
    <3>3. builds + 1 \in Nat
      BY DEF Typed
    <3>4. d \in Drivers
      BY <1>2, <3>1, <3>2, <3>3 DEF Drivers
    <3>5. QED
      BY <3>1, <3>2, <3>4
  <2>2. CASE Found(d)
    <3>1. d = driver /\ driver # None /\ config = DriverConfig(s, base)
      BY <2>2 DEF MustBuild, Cold
    <3>2. /\ driver \in Drivers /\ driver.n = rows.n
          /\ driver.made.strategy = s.strategy /\ driver.made.matching = s.matching
          /\ driver.made.batch_size = s.batch_size /\ driver.made.mask = s.mask
      BY <3>1 DEF ConfigDescribesDriver, DriverConfig, Config
    <3>3. driver.made \in Session
      BY <3>2 DEF Drivers
    <3>4. [driver.made EXCEPT !.nb_iter = s.nb_iter] = s
      BY <3>2, <3>3 DEF Session
    <3>5. QED
      BY <3>1, <3>2, <3>4
  <2>3. QED
    BY <1>0, <2>1, <2>2
<1>4. s.nb_iter \in Iterations
  BY DEF Session
<1>5. /\ driver' \in Drivers /\ driver'.made = d.made /\ driver'.nb_iter = s.nb_iter
      /\ driver'.n = d.n /\ driver'.run = runs + 1 /\ driver'.whole = whole
  <2>1. driver' = [d EXCEPT !.nb_iter = s.nb_iter, !.run = runs + 1, !.whole = whole]
    BY <1>1 DEF HandedOn
  <2>2. runs + 1 \in Nat
    BY DEF Typed
  <2>3. QED
    BY <1>3, <1>4, <2>1, <2>2 DEF Drivers
<1>6. driver' # None
  BY <1>5, DriversAssumption
<1>7. ConfigDescribesDriver'
  <2>1. CASE Built(d)
    <3>1. config' = Config(s, base') /\ d.made = s
      BY <2>1 DEF DriverConfig, NewDriver
    <3>2. QED
      BY <1>2, <1>3, <1>5, <3>1 DEF ConfigDescribesDriver, Config
  <2>2. CASE Found(d)
    <3>1. d = driver /\ driver # None /\ config' = config
      BY <2>2 DEF MustBuild, Cold
    <3>2. QED
      BY <1>3, <1>5, <3>1 DEF ConfigDescribesDriver
  <2>3. QED
    BY <1>0, <2>1, <2>2
<1>8. builds' \in Nat /\ base' \in Nat
  BY <1>1, <1>3 DEF Drivers, BaseNow, Typed
<1>9. \A t \in tensors :
         t.what = "base" => t.owner = "base" \/ (kind' = "injection" /\ t.of = base')
  BY <1>1, ViewsKept
<1>10. QED
  BY <1>1, <1>3, <1>5, <1>6, <1>7, <1>8, <1>9

LEMMA RunKeeps ==
  ASSUME HandlesInv, NEW rebase \in BOOLEAN, RunFailsInSolve(rebase) \/ Run(rebase)
  PROVE  HandlesInv'
<1>1. PICK whole \in BOOLEAN : RunBegins(session, rebase) /\ Solves(session, rebase, whole)
  BY DEF RunFailsInSolve, Run
<1>2. /\ UNCHANGED <<kind, optionVars, rows, tensors>> /\ computed' = None
  BY DEF RunFailsInSolve, Run, RunBegins, RunDoesNotReturn
<1>3. session \in Session
  BY DEF HandlesInv, Typed
<1>4. /\ driver' # None /\ [driver'.made EXCEPT !.nb_iter = driver'.nb_iter] = session
      /\ driver'.n = rows.n /\ ConfigDescribesDriver'
      /\ builds' \in Nat /\ base' \in Nat /\ runs' = runs + 1
  BY <1>1, <1>3, SolvesWithOptions
<1>5. ViewsInv'
  BY <1>1, <1>2, <1>3, SolvesWithOptions DEF ViewsInv
<1>6. Typed' /\ ReportedIsSession'
  BY <1>2, <1>4, StaysTheSame DEF HandlesInv, Typed
<1>7. SettledUsesSession' /\ ResidualsOfCompute'
  BY <1>2, <1>4 DEF SettledUsesSession, ResidualsOfCompute, optionVars
<1>8. QED
  BY <1>4, <1>5, <1>6, <1>7 DEF HandlesInv

LEMMA ComputeKeeps ==
  ASSUME HandlesInv, NEW b \in BatchSizes, NEW rebase \in BOOLEAN, Compute(b, rebase)
  PROVE  HandlesInv'
<1>. DEFINE s == [session EXCEPT !.batch_size = b]
<1>1. /\ RunBegins(s, rebase) /\ Solves(s, rebase, TRUE) /\ session' = s
      /\ reported' = reported /\ misreported' = misreported
      /\ residuals' = ResidualsNoted(driver')
      /\ (Hold(ResultsView(driver')) \/ UNCHANGED tensors)
      /\ computed' = runs + 1
  BY DEF Compute
<1>2. kind' = kind /\ rows' = rows
  BY <1>1 DEF RunBegins
<1>3. SetPlain("batch_size", b) /\ b \in Requests("batch_size")
  BY <1>1 DEF SetPlain, Requests, Plain, Named
<1>4. session' \in Session /\ ReportedIsSession'
  BY <1>2, <1>3, PlainKeeps DEF HandlesInv
<1>5. s \in Session
  BY <1>1, <1>4
<1>. HIDE DEF s
<1>6. /\ driver' # None /\ [driver'.made EXCEPT !.nb_iter = driver'.nb_iter] = s
      /\ driver'.n = rows.n /\ driver'.run = runs + 1 /\ driver'.whole = TRUE
      /\ ConfigDescribesDriver' /\ builds' \in Nat /\ base' \in Nat /\ runs' = runs + 1
  BY <1>1, <1>5, SolvesWithOptions
<1>7. \A t \in tensors :
         t.what = "base" => t.owner = "base" \/ (kind' = "injection" /\ t.of = base')
  BY <1>1, <1>5, SolvesWithOptions
<1>8. ResultsView(driver').what # "base"
  BY DEF ResultsView
<1>9. ViewsInv'
  BY <1>1, <1>7, <1>8 DEF ViewsInv, Hold
<1>10. Typed'
  BY <1>1, <1>2, <1>4, <1>6 DEF HandlesInv, Typed
<1>11. SettledUsesSession'
  BY <1>1, <1>2, <1>6 DEF SettledUsesSession
<1>12. ResidualsOfCompute'
  BY <1>1, <1>6 DEF ResidualsOfCompute, Fetch, ResidualsNoted, DeviceBuffer, RowsNow
<1>13. QED
  BY <1>4, <1>6, <1>9, <1>10, <1>11, <1>12 DEF HandlesInv

LEMMA OthersKeep ==
  ASSUME HandlesInv,
         \/ \E n \in RowCounts : StageRows(n)
         \/ TakeBase \/ \E t \in tensors : Drop(t)
         \/ UNCHANGED vars
  PROVE  HandlesInv'
<1>. USE DEF HandlesInv
<1>1. ASSUME NEW n \in RowCounts, StageRows(n) PROVE HandlesInv'
  <2>1. /\ rows'.n = n /\ settled' = FALSE
        /\ UNCHANGED <<kind, optionVars, base, config, driver, builds, runs, tensors, residuals, computed>>
    BY <1>1 DEF StageRows, driverVars
  <2>2. Typed' /\ ReportedIsSession'
    BY <2>1, StaysTheSame DEF Typed
  <2>3. ConfigDescribesDriver' /\ SettledUsesSession' /\ ViewsInv' /\ ResidualsOfCompute'
    BY <2>1 DEF ConfigDescribesDriver, SettledUsesSession, ViewsInv, ResidualsOfCompute, Fetch
  <2>4. QED
    BY <2>2, <2>3
<1>2. ASSUME UNCHANGED <<kind, optionVars, rows, base, driverVars, runs, residuals, settled, computed>>,
             ViewsInv'
      PROVE  HandlesInv'
  BY <1>2 DEF optionVars, driverVars, Typed, ReportedIsSession, ConfigDescribesDriver,
              SettledUsesSession, ResidualsOfCompute, Fetch
<1>3. CASE TakeBase
  <2>1. BaseView.what = "base" => BaseView.owner = "base" \/ (kind = "injection" /\ BaseView.of = base)
    BY DEF BaseView, BaseOwner
  <2>2. tensors' = tensors \cup {BaseView} /\ kind' = kind /\ base' = base
    BY <1>3 DEF TakeBase, Hold
  <2>3. ViewsInv'
    BY <2>1, <2>2 DEF ViewsInv
  <2>4. QED
    BY <1>2, <1>3, <2>3 DEF TakeBase
<1>4. ASSUME NEW t \in tensors, Drop(t) PROVE HandlesInv'
  <2>1. ViewsInv'
    BY <1>4 DEF Drop, ViewsInv
  <2>2. QED
    BY <1>2, <1>4, <2>1 DEF Drop
<1>5. CASE UNCHANGED vars
  <2>1. ViewsInv'
    BY <1>5 DEF vars, ViewsInv
  <2>2. QED
    BY <1>2, <1>5, <2>1 DEF vars
<1>6. QED
  BY <1>1, <1>3, <1>4, <1>5

LEMMA HandlesInductive == HandlesInv /\ [Next]_vars => HandlesInv'
<1>. SUFFICES ASSUME HandlesInv, [Next]_vars PROVE HandlesInv'
  OBVIOUS
<1>1. ASSUME NEW o \in Named \cup DOMAIN Plain, NEW v \in Requests(o),
             \/ ScenarioFacadeSet(o, v) \/ InjectionFacadeSet(o, v)
             \/ ContingencyFacadeSet(o, v) \/ EngineSet(o, v)
      PROVE  HandlesInv'
  <2>1. ScenarioSet(o, v) \/ InjectionSet(o, v) \/ ContingencySet(o, v)
    BY <1>1 DEF ScenarioFacadeSet, InjectionFacadeSet, ContingencyFacadeSet, EngineSet
  <2>2. o \in Named \cup {"batch_size", "nb_iter", "mask"}
    BY DEF Plain
  <2>3. QED
    BY <2>1, <2>2, SetterKeeps
<1>2. QED
  BY <1>1, RunNotReturned, RunKeeps, ComputeKeeps, OthersKeep DEF Next

-----------------------------------------------------------------------------
(* The options an engine reports are those its session uses and those its  *)
(* last run() used (the setters of the engines and run() of the sessions), *)
(* whatever was refused, failed or found in place, for any rows, batch     *)
(* sizes and number of calls.                                              *)
THEOREM OptionsCorrect == Spec => []OptionsAreObeyed
<1>1. ASSUME HandlesInv PROVE OptionsAreObeyed
  <2>. USE <1>1 DEF HandlesInv
  <2>1. ASSUME settled
        PROVE  \A o \in Named \ misreported : driver.made[o] = reported[o].alg
    <3>1. driver # None /\ [driver.made EXCEPT !.nb_iter = driver.nb_iter] = session
      BY <2>1 DEF SettledUsesSession
    <3>2. driver.made \in Session
      BY <3>1 DEF ConfigDescribesDriver, Drivers
    <3>3. driver.made["strategy"] = session["strategy"] /\ driver.made["matching"] = session["matching"]
      BY <3>1, <3>2 DEF Session
    <3>4. QED
      BY <3>3 DEF ReportedIsSession, Named
  <2>2. QED
    BY <2>1 DEF OptionsAreObeyed, RunUsesItsOptions, SettledUsesSession
<1>2. QED
  BY <1>1, InitHolds, HandlesInductive, PTL DEF Spec

(* A view of the base case can be read as long as it is held               *)
(* (dlpack_export.cu, the engines' base-case properties), for any number   *)
(* of handles and rebuilds.                                                *)
THEOREM BaseViewsCorrect == Spec => []BaseViewsStayAlive
<1>1. HandlesInv => BaseViewsStayAlive
  BY DEF HandlesInv, ViewsInv, BaseViewsStayAlive
<1>2. QED
  BY <1>1, InitHolds, HandlesInductive, PTL DEF Spec

(* Until another run(), the residuals of compute() are of its rows and as  *)
(* many as announced (residuals of the facades).                           *)
THEOREM ResidualsCorrect == Spec => []ResidualsOfCompute
<1>1. HandlesInv => ResidualsOfCompute
  BY DEF HandlesInv
<1>2. QED
  BY <1>1, InitHolds, HandlesInductive, PTL DEF Spec

-----------------------------------------------------------------------------
(* The injection sweep: the invariant.                                      *)

(* Set-points that set_gen_v() accepts, or none.                            *)
Settable(values) == values \in {<<>>} \cup GenVs /\ ~Injected!Conflicting(grid, values)

IsCheck(c) == c = [plan |-> c.plan, targets |-> c.targets, dirty |-> c.dirty]
IsDriver(d) ==
  d = [alive |-> d.alive, cfg |-> d.cfg, rows |-> d.rows, gen_v |-> d.gen_v,
       gp |-> d.gp, release |-> d.release]
IsSweep(r) ==
  /\ r = [inj |-> r.inj, gen_v |-> r.gen_v, injDirty |-> r.injDirty, gvDirty |-> r.gvDirty,
          gp |-> r.gp, release |-> r.release, checks |-> r.checks,
          solver |-> r.solver, batch |-> r.batch, driver |-> r.driver]
  /\ IsCheck(r.gp) /\ IsCheck(r.release) /\ IsDriver(r.driver)

(* A check whose targets are not dirty has them on the driver, or nothing.  *)
CheckSound(c, held) == ~c.dirty => held \in {<<>>, c.targets}

(* What the driver holds was accepted; rows not dirty are those it has.     *)
RowsLoaded(r) ==
  r.driver.rows = r.inj /\ r.driver.gen_v = Injected!Override(grid, r.gen_v)
DriverSound(r) ==
  /\ r.driver.gen_v = <<>>
       \/ \E values : Settable(values) /\ r.driver.gen_v = Injected!Override(grid, values)
  /\ r.driver.alive /\ ~r.injDirty /\ ~r.gvDirty => RowsLoaded(r)

SweepSound(r) ==
  /\ IsSweep(r) /\ Settable(r.gen_v) /\ DriverSound(r)
  /\ CheckSound(r.gp, r.driver.gp) /\ CheckSound(r.release, r.driver.release)

(* The targets of the session are those of its plans and the facade's rows. *)
Pushed(r) ==
  /\ "push" \notin lapse => r.gp.targets = Injected!TargetsOf(r.gp.plan, facade.gen_p)
  /\ "release" \notin lapse =>
       r.release.targets = Injected!TargetsOf(r.release.plan, facade.gen_v)

RowsRemembered ==
  /\ facade = [onGrid |-> facade.onGrid, gen_p |-> facade.gen_p, gen_v |-> facade.gen_v]
  /\ asked = [bus |-> asked.bus, elements |-> asked.elements, gen_v |-> asked.gen_v]
  /\ facade.gen_v = asked.gen_v
  /\ "rows" \notin lapse =>
       /\ asked.elements = {} => facade.gen_p = <<>>
       /\ \A e \in asked.elements :
            facade.gen_p = e.gen_p /\ DOMAIN sweep.inj = DOMAIN e.gen_p

RunLoaded ==
  returned =>
    /\ RowsLoaded(sweep)
    /\ sweep.checks => /\ sweep.driver.gp = sweep.gp.targets
                       /\ sweep.driver.release = sweep.release.targets

InjectionInv ==
  grid \in Grids /\ SweepSound(sweep) /\ Pushed(sweep) /\ RowsRemembered /\ RunLoaded

-----------------------------------------------------------------------------
(* No rows, no targets.                                                    *)
LEMMA NoTargets == \A plan : Injected!TargetsOf(plan, <<>>) = <<>>
<1>1. DOMAIN <<>> = {}
  OBVIOUS
<1>2. \A plan : [r \in {} |-> [k \in DOMAIN plan |->
          IF plan[k].type = "gen" THEN <<>>[r][plan[k].id] ELSE Absent]] = <<>>
  OBVIOUS
<1>3. QED
  BY <1>1, <1>2 DEF Injected!TargetsOf

(* The targets of a plan, entry by entry.                                  *)
LEMMA TargetsAre ==
  ASSUME NEW plan, NEW values, Injected!Entries(plan) # <<>>
  PROVE  LET t == Injected!TargetsOf(plan, values) IN
         /\ DOMAIN t = DOMAIN values
         /\ \A r \in DOMAIN values, k \in DOMAIN plan :
              t[r][k] = IF plan[k].type = "gen" THEN values[r][plan[k].id] ELSE Absent
BY DEF Injected!TargetsOf

(* No set-points are accepted ones.                                        *)
LEMMA NothingSet == Settable(<<>>)
BY DEF Settable, Injected!Conflicting

(* The targets sync_targets() leaves on the driver are the session's.       *)
LEMMA SyncedTargets ==
  ASSUME NEW c, NEW held, CheckSound(c, held)
  PROVE  Injected!Synced(c, held) = c.targets
<1>1. CASE Injected!Uploads(c, held)
  BY <1>1 DEF Injected!Synced
<1>2. CASE c.targets = <<>>
  BY <1>2 DEF Injected!Synced
<1>3. CASE ~Injected!Uploads(c, held) /\ c.targets # <<>>
  <2>1. ~c.dirty /\ Injected!Held(held, c.plan) # <<>>
    BY <1>3 DEF Injected!Uploads
  <2>2. Injected!Held(held, c.plan) = held /\ held # <<>>
    BY <2>1 DEF Injected!Held
  <2>3. QED
    BY <1>3, <2>1, <2>2 DEF Injected!Synced, CheckSound
<1>4. QED
  BY <1>1, <1>2, <1>3

(* Rows loaded by run(), and what it leaves alone.                          *)
LEMMA LoadedSound ==
  ASSUME SweepSound(sweep), NEW k, NEW r, r = Injected!Loaded(Injected!Sized(k))
  PROVE  /\ SweepSound(r) /\ RowsLoaded(r)
         /\ r.inj = sweep.inj /\ r.gen_v = sweep.gen_v /\ r.checks = sweep.checks
         /\ r.gp = sweep.gp /\ r.release = sweep.release
<1>. DEFINE z == Injected!Sized(k)
            d == IF Injected!NewRows(z)
                 THEN [Injected!Kept(z) EXCEPT !.rows = z.inj,
                                                !.gen_v = Injected!Override(grid, z.gen_v)]
                 ELSE Injected!Kept(z)
<1>1. /\ IsSweep(z) /\ z.inj = sweep.inj /\ z.gen_v = sweep.gen_v /\ z.checks = sweep.checks
      /\ z.gp = sweep.gp /\ z.release = sweep.release /\ z.driver = sweep.driver
      /\ z.injDirty = sweep.injDirty /\ z.gvDirty = sweep.gvDirty
  BY DEF SweepSound, IsSweep, Injected!Sized
<1>2. r = [z EXCEPT !.driver = d, !.injDirty = FALSE, !.gvDirty = FALSE]
  BY DEF Injected!Loaded
<1>3. /\ r.driver = d /\ r.inj = z.inj /\ r.gen_v = z.gen_v /\ r.checks = z.checks
      /\ r.gp = z.gp /\ r.release = z.release
      /\ r = [inj |-> r.inj, gen_v |-> r.gen_v, injDirty |-> r.injDirty, gvDirty |-> r.gvDirty,
              gp |-> r.gp, release |-> r.release, checks |-> r.checks,
              solver |-> r.solver, batch |-> r.batch, driver |-> r.driver]
  <2>. HIDE DEF d, z
  <2>1. QED
    BY <1>1, <1>2 DEF IsSweep
<1>4. /\ IsDriver(Injected!Kept(z))
      /\ Injected!Kept(z) = z.driver
           \/ (Injected!Cold(z) /\ Injected!Kept(z).gp = <<>> /\ Injected!Kept(z).release = <<>>)
  <2>. HIDE DEF z
  <2>1. CASE Injected!Cold(z)
    BY <2>1 DEF Injected!Kept, Injected!NoDriver, IsDriver
  <2>2. CASE ~Injected!Cold(z)
    BY <1>1, <2>2 DEF Injected!Kept, IsSweep
  <2>3. QED
    BY <2>1, <2>2
<1>5. /\ IsDriver(d) /\ d.gp = Injected!Kept(z).gp /\ d.release = Injected!Kept(z).release
      /\ d.rows = z.inj /\ d.gen_v = Injected!Override(grid, z.gen_v)
  <2>1. CASE Injected!NewRows(z)
    <3>. HIDE DEF z
    <3>1. QED
      BY <1>4, <2>1 DEF IsDriver
  <2>2. CASE ~Injected!NewRows(z)
    <3>1. z.driver.alive /\ ~z.injDirty /\ ~z.gvDirty /\ ~Injected!Cold(z)
      BY <2>2 DEF Injected!NewRows, Injected!Cold
    <3>2. Injected!Kept(z) = z.driver /\ d = z.driver
      BY <1>4, <2>2, <3>1
    <3>3. RowsLoaded(sweep)
      BY <1>1, <3>1 DEF SweepSound, DriverSound
    <3>4. QED
      BY <1>1, <1>4, <3>2, <3>3 DEF RowsLoaded
  <2>3. QED
    BY <2>1, <2>2
<1>6. CheckSound(r.gp, r.driver.gp) /\ CheckSound(r.release, r.driver.release)
  <2>. HIDE DEF d, z
  <2>1. QED
    BY <1>1, <1>3, <1>4, <1>5 DEF CheckSound, SweepSound
<1>7. RowsLoaded(r)
  <2>. HIDE DEF d, z
  <2>1. QED
    BY <1>3, <1>5 DEF RowsLoaded
<1>8. Settable(r.gen_v) /\ IsSweep(r)
  <2>. HIDE DEF d, z
  <2>1. QED
    BY <1>1, <1>3, <1>5 DEF SweepSound, IsSweep
<1>9. DriverSound(r)
  BY <1>7, <1>8 DEF DriverSound, RowsLoaded
<1>10. QED
  <2>. HIDE DEF d, z
  <2>1. QED
    BY <1>1, <1>3, <1>6, <1>7, <1>8, <1>9 DEF SweepSound

-----------------------------------------------------------------------------
(* What each call makes of a sound session.                                 *)
LEMMA CheckExcept ==
  ASSUME NEW a, IsCheck(a), NEW t, NEW b
  PROVE  [a EXCEPT !.targets = t, !.dirty = b] = [plan |-> a.plan, targets |-> t, dirty |-> b]
<1>. DEFINE u == [a EXCEPT !.targets = t]
<1>1. u = [plan |-> a.plan, targets |-> t, dirty |-> a.dirty]
  BY DEF IsCheck
<1>2. [a EXCEPT !.targets = t, !.dirty = b] = [u EXCEPT !.dirty = b]
  OBVIOUS
<1>. HIDE DEF u
<1>3. [u EXCEPT !.dirty = b] = [plan |-> a.plan, targets |-> t, dirty |-> b]
  BY <1>1
<1>4. QED
  BY <1>2, <1>3

(* A check, and a driver, with some of their fields replaced.              *)
LEMMA CheckCleaned ==
  ASSUME NEW a, IsCheck(a), NEW b, NEW g, g = [a EXCEPT !.dirty = b]
  PROVE  IsCheck(g) /\ g.plan = a.plan /\ g.targets = a.targets
<1>1. g = [plan |-> a.plan, targets |-> a.targets, dirty |-> b]
  BY DEF IsCheck
<1>2. QED
  BY <1>1 DEF IsCheck

Retargeted(d, x, y) == [d EXCEPT !.gp = x, !.release = y]
Reloaded(d, x, y) == [d EXCEPT !.rows = x, !.gen_v = y]

LEMMA DriverTargeted ==
  ASSUME NEW a, IsDriver(a), NEW x, NEW y
  PROVE  LET d == Retargeted(a, x, y) IN
         /\ IsDriver(d) /\ d.gp = x /\ d.release = y
         /\ d.rows = a.rows /\ d.gen_v = a.gen_v /\ d.alive = a.alive
<1>. DEFINE u == [a EXCEPT !.gp = x]
            d == Retargeted(a, x, y)
<1>1. d = [u EXCEPT !.release = y]
  BY DEF Retargeted
<1>2. /\ IsDriver(u) /\ u.gp = x /\ u.rows = a.rows /\ u.gen_v = a.gen_v /\ u.alive = a.alive
  BY DEF IsDriver
<1>. HIDE DEF u
<1>3. QED
  BY <1>1, <1>2 DEF IsDriver

LEMMA DriverTorn ==
  ASSUME NEW a, IsDriver(a), NEW x, NEW y
  PROVE  LET d == Reloaded(a, x, y) IN
         IsDriver(d) /\ d.gen_v = y /\ d.gp = a.gp /\ d.release = a.release
<1>. DEFINE u == [a EXCEPT !.rows = x]
            d == Reloaded(a, x, y)
<1>1. d = [u EXCEPT !.gen_v = y]
  BY DEF Reloaded
<1>2. IsDriver(u) /\ u.gp = a.gp /\ u.release = a.release
  BY DEF IsDriver
<1>. HIDE DEF u
<1>3. QED
  BY <1>1, <1>2 DEF IsDriver

LEMMA PushGenPSound ==
  ASSUME NEW r, SweepSound(r), NEW values, NEW q, q = Injected!PushGenP(r, values)
  PROVE  /\ SweepSound(q) /\ q.inj = r.inj /\ q.gen_v = r.gen_v /\ q.release = r.release
         /\ q.gp.plan = r.gp.plan /\ q.gp.targets = Injected!TargetsOf(r.gp.plan, values)
<1>. DEFINE t == Injected!TargetsOf(r.gp.plan, values)
<1>1. q = [r EXCEPT !.gp = [r.gp EXCEPT !.targets = t, !.dirty = TRUE]]
  <2>1. q = [r EXCEPT !.gp.targets = t, !.gp.dirty = TRUE]
    BY DEF Injected!PushGenP, Injected!WithGenPTargets
  <2>. DEFINE u == [r EXCEPT !.gp.targets = t]
  <2>. HIDE DEF t
  <2>2. q = [u EXCEPT !.gp.dirty = TRUE]
    BY <2>1
  <2>3. u = [r EXCEPT !.gp = [r.gp EXCEPT !.targets = t]]
    BY DEF SweepSound, IsSweep, IsCheck
  <2>. HIDE DEF u
  <2>4. QED
    BY <2>2, <2>3 DEF SweepSound, IsSweep, IsCheck
<1>. DEFINE c == [r.gp EXCEPT !.targets = t, !.dirty = TRUE]
<1>. HIDE DEF t
<1>2. c = [plan |-> r.gp.plan, targets |-> t, dirty |-> TRUE]
  BY CheckExcept DEF SweepSound, IsSweep
<1>. HIDE DEF c
<1>3. /\ IsSweep(q) /\ q.inj = r.inj /\ q.release = r.release /\ q.driver = r.driver
      /\ q.gen_v = r.gen_v /\ q.injDirty = r.injDirty /\ q.gvDirty = r.gvDirty /\ q.gp = c
  <2>1. q = [r EXCEPT !.gp = c]
    BY <1>1 DEF c
  <2>2. IsCheck(c)
    BY <1>2 DEF IsCheck
  <2>3. QED
    BY <2>1, <2>2 DEF SweepSound, IsSweep
<1>4. QED
  BY <1>2, <1>3 DEF SweepSound, CheckSound, DriverSound, RowsLoaded, t

LEMMA PushReleaseSound ==
  ASSUME NEW r, SweepSound(r), NEW values, NEW q, q = Injected!PushRelease(r, values)
  PROVE  /\ SweepSound(q) /\ q.inj = r.inj /\ q.gen_v = r.gen_v /\ q.gp = r.gp
         /\ q.release.plan = r.release.plan
         /\ q.release.targets = Injected!TargetsOf(r.release.plan, values)
<1>. DEFINE t == Injected!TargetsOf(r.release.plan, values)
<1>1. q = [r EXCEPT !.release = [r.release EXCEPT !.targets = t, !.dirty = TRUE]]
  <2>1. q = [r EXCEPT !.release.targets = t, !.release.dirty = TRUE]
    BY DEF Injected!PushRelease
  <2>. DEFINE u == [r EXCEPT !.release.targets = t]
  <2>. HIDE DEF t
  <2>2. q = [u EXCEPT !.release.dirty = TRUE]
    BY <2>1
  <2>3. u = [r EXCEPT !.release = [r.release EXCEPT !.targets = t]]
    BY DEF SweepSound, IsSweep, IsCheck
  <2>. HIDE DEF u
  <2>4. QED
    BY <2>2, <2>3 DEF SweepSound, IsSweep, IsCheck
<1>. DEFINE c == [r.release EXCEPT !.targets = t, !.dirty = TRUE]
<1>. HIDE DEF t
<1>2. c = [plan |-> r.release.plan, targets |-> t, dirty |-> TRUE]
  BY CheckExcept DEF SweepSound, IsSweep
<1>. HIDE DEF c
<1>3. /\ IsSweep(q) /\ q.inj = r.inj /\ q.gp = r.gp /\ q.driver = r.driver
      /\ q.gen_v = r.gen_v /\ q.injDirty = r.injDirty /\ q.gvDirty = r.gvDirty /\ q.release = c
  <2>1. q = [r EXCEPT !.release = c]
    BY <1>1 DEF c
  <2>2. IsCheck(c)
    BY <1>2 DEF IsCheck
  <2>3. QED
    BY <2>1, <2>2 DEF SweepSound, IsSweep
<1>4. QED
  BY <1>2, <1>3 DEF SweepSound, CheckSound, DriverSound, RowsLoaded, t

LEMMA WithInjectionsSound ==
  ASSUME NEW r, SweepSound(r), NEW values, NEW q, q = Injected!WithInjections(r, values)
  PROVE  /\ SweepSound(q) /\ q.inj = values /\ q.gen_v = r.gen_v
         /\ q.gp = r.gp /\ q.release = r.release
<1>1. /\ IsSweep(q) /\ q.inj = values /\ q.gp = r.gp /\ q.release = r.release
      /\ q.driver = r.driver /\ q.gen_v = r.gen_v /\ q.injDirty = TRUE
  BY DEF SweepSound, IsSweep, Injected!WithInjections
<1>2. QED
  BY <1>1 DEF SweepSound, DriverSound

LEMMA WithGenVSound ==
  ASSUME NEW r, SweepSound(r), NEW values, Settable(values),
         NEW q, q = Injected!WithGenV(r, values)
  PROVE  /\ SweepSound(q) /\ q.inj = r.inj /\ q.gen_v = values
         /\ q.gp = r.gp /\ q.release = r.release
<1>1. /\ IsSweep(q) /\ q.inj = r.inj /\ q.gp = r.gp /\ q.release = r.release
      /\ q.driver = r.driver /\ q.gen_v = values /\ q.gvDirty = TRUE
  BY DEF SweepSound, IsSweep, Injected!WithGenV
<1>2. QED
  BY <1>1 DEF SweepSound, DriverSound

LEMMA WithGenPPlanSound ==
  ASSUME NEW r, SweepSound(r), NEW plan, NEW q, q = Injected!WithGenPPlan(r, plan)
  PROVE  /\ SweepSound(q) /\ q.inj = r.inj /\ q.gen_v = r.gen_v /\ q.release = r.release
         /\ Injected!Pushable(plan, facade.gen_p) =>
              q.gp.targets = Injected!TargetsOf(q.gp.plan, facade.gen_p)
<1>. DEFINE new == [r EXCEPT !.gp.plan = plan]
<1>1. new = [r EXCEPT !.gp = [r.gp EXCEPT !.plan = plan]]
  BY DEF SweepSound, IsSweep, IsCheck
<1>. HIDE DEF new
<1>2. /\ IsSweep(new) /\ new.inj = r.inj /\ new.release = r.release /\ new.driver = r.driver
      /\ new.gen_v = r.gen_v /\ new.injDirty = r.injDirty /\ new.gvDirty = r.gvDirty
      /\ new.gp = [r.gp EXCEPT !.plan = plan]
  BY <1>1 DEF SweepSound, IsSweep, IsCheck
<1>3. new.gp.plan = plan /\ new.gp.targets = r.gp.targets /\ new.gp.dirty = r.gp.dirty
  BY <1>2 DEF SweepSound, IsSweep, IsCheck
<1>4. SweepSound(new)
  BY <1>2, <1>3 DEF SweepSound, CheckSound, DriverSound, RowsLoaded
<1>5. q = IF Injected!Pushable(plan, facade.gen_p)
          THEN Injected!PushGenP(new, facade.gen_p) ELSE new
  BY DEF Injected!WithGenPPlan, new
<1>6. QED
  BY <1>2, <1>3, <1>4, <1>5, PushGenPSound

LEMMA WithReleasePlanSound ==
  ASSUME NEW r, SweepSound(r), NEW plan, NEW q, q = Injected!WithReleasePlan(r, plan)
  PROVE  /\ SweepSound(q) /\ q.inj = r.inj /\ q.gen_v = r.gen_v /\ q.gp = r.gp
         /\ Injected!Pushable(plan, facade.gen_v) =>
              q.release.targets = Injected!TargetsOf(q.release.plan, facade.gen_v)
<1>. DEFINE new == [r EXCEPT !.release.plan = plan]
<1>1. new = [r EXCEPT !.release = [r.release EXCEPT !.plan = plan]]
  BY DEF SweepSound, IsSweep, IsCheck
<1>. HIDE DEF new
<1>2. /\ IsSweep(new) /\ new.inj = r.inj /\ new.gp = r.gp /\ new.driver = r.driver
      /\ new.gen_v = r.gen_v /\ new.injDirty = r.injDirty /\ new.gvDirty = r.gvDirty
      /\ new.release = [r.release EXCEPT !.plan = plan]
  BY <1>1 DEF SweepSound, IsSweep, IsCheck
<1>3. /\ new.release.plan = plan /\ new.release.targets = r.release.targets
      /\ new.release.dirty = r.release.dirty
  BY <1>2 DEF SweepSound, IsSweep, IsCheck
<1>4. SweepSound(new)
  BY <1>2, <1>3 DEF SweepSound, CheckSound, DriverSound, RowsLoaded
<1>5. q = IF Injected!Pushable(plan, facade.gen_v)
          THEN Injected!PushRelease(new, facade.gen_v) ELSE new
  BY DEF Injected!WithReleasePlan, new
<1>6. QED
  BY <1>2, <1>3, <1>4, <1>5, PushReleaseSound

(* The plan of the grid fits every set-point.                               *)
LEMMA GridPlanPushable ==
  ASSUME grid \in Grids, NEW values
  PROVE  Injected!Pushable(GridPlan, values)
BY InjectionAssumption DEF Injected!RowAssumption, Injected!Pushable, Injected!Entries

LEMMA WithPlansSound ==
  ASSUME NEW r, SweepSound(r), Pushed(r), grid \in Grids, NEW q, q = Injected!WithPlans(r)
  PROVE  SweepSound(q) /\ q.inj = r.inj /\ q.gen_v = r.gen_v /\ Pushed(q)
<1>. DEFINE r1 == IF r.gp.plan = Absent THEN Injected!WithGenPPlan(r, GridPlan) ELSE r
<1>1. SweepSound(r1) /\ r1.inj = r.inj /\ r1.gen_v = r.gen_v /\ Pushed(r1)
  BY WithGenPPlanSound, GridPlanPushable DEF Pushed
<1>. HIDE DEF r1
<1>2. q = IF r1.release.plan = Absent THEN Injected!WithReleasePlan(r1, GridPlan) ELSE r1
  BY DEF Injected!WithPlans, r1
<1>3. QED
  BY <1>1, <1>2, WithReleasePlanSound, GridPlanPushable DEF Pushed

-----------------------------------------------------------------------------
(* The grid never changes, so a session sound before is sound after.        *)
LEMMA SoundAfter ==
  ASSUME grid' = grid, NEW r, r = sweep', SweepSound(r)
  PROVE  SweepSound(sweep)'
<1>1. \A values : Settable(values)' <=> Settable(values)
  BY DEF Settable
<1>2. DriverSound(sweep)'
  BY <1>1 DEF SweepSound, DriverSound, RowsLoaded
<1>3. QED
  BY <1>1, <1>2 DEF SweepSound, IsSweep, IsCheck, IsDriver, CheckSound

(* A call that is not a compute() that returned.                           *)
LEMMA StepHolds ==
  ASSUME InjectionInv, grid' = grid, ~returned', NEW r, r = sweep', SweepSound(r),
         Pushed(sweep)', RowsRemembered'
  PROVE  InjectionInv'
BY SoundAfter DEF InjectionInv, RunLoaded

LEMMA NotReturned ==
  ASSUME NEW how, how # "computed", Injected!Ends(how)
  PROVE  grid' = grid /\ ~returned'
BY DEF Injected!Ends

(* Each call keeps the invariant: set_injections(), accepted and refused,  *)
LEMMA SetInjectionsKeeps ==
  ASSUME InjectionInv, NEW values,
         Injected!SetInjections(values) \/ Injected!SetInjectionsRefused
  PROVE  InjectionInv'
<1>. DEFINE n == Injected!NoGenP(sweep)
<1>1. /\ SweepSound(n) /\ n.inj = sweep.inj /\ n.release = sweep.release
      /\ n.gp.targets = <<>>
  BY PushGenPSound, NoTargets DEF InjectionInv, Injected!NoGenP
<1>2. /\ SweepSound(sweep') /\ sweep'.gp.targets = <<>> /\ sweep'.release = sweep.release
      /\ facade' = [facade EXCEPT !.gen_p = <<>>]
  <2>1. CASE Injected!SetInjections(values)
    BY <1>1, <2>1, WithInjectionsSound DEF Injected!SetInjections
  <2>2. CASE Injected!SetInjectionsRefused
    BY <1>1, <2>2 DEF Injected!SetInjectionsRefused
  <2>3. QED
    BY <2>1, <2>2
<1>3. grid' = grid /\ ~returned'
  BY NotReturned DEF Injected!SetInjections, Injected!SetInjectionsRefused
<1>4. facade'.gen_p = <<>> /\ facade'.gen_v = facade.gen_v /\ facade'.onGrid = facade.onGrid
      /\ facade' = [onGrid |-> facade'.onGrid, gen_p |-> facade'.gen_p, gen_v |-> facade'.gen_v]
  BY <1>2 DEF InjectionInv, RowsRemembered
<1>5. "release" \notin lapse' => "release" \notin lapse
  BY DEF Injected!SetInjections, Injected!SetInjectionsRefused
<1>6. Pushed(sweep)'
  <2>1. "push" \notin lapse'
          => sweep'.gp.targets = Injected!TargetsOf(sweep'.gp.plan, facade'.gen_p)
    BY <1>2, <1>4, NoTargets
  <2>2. "release" \notin lapse'
          => sweep'.release.targets = Injected!TargetsOf(sweep'.release.plan, facade'.gen_v)
    BY <1>2, <1>4, <1>5 DEF InjectionInv, Pushed
  <2>3. QED
    BY <2>1, <2>2 DEF Pushed
<1>7. RowsRemembered'
  <2>1. CASE Injected!SetInjections(values)
    BY <1>4, <2>1 DEF InjectionInv, RowsRemembered, Injected!SetInjections
  <2>2. CASE Injected!SetInjectionsRefused
    BY <1>4, <2>2 DEF InjectionInv, RowsRemembered, Injected!SetInjectionsRefused
  <2>3. QED
    BY <2>1, <2>2
<1>8. QED
  BY <1>2, <1>3, <1>6, <1>7, StepHolds

(* set_injections_from_elements(),                                         *)
LEMMA SetElementsKeeps ==
  ASSUME InjectionInv, NEW e, Injected!SetInjectionsFromElements(e)
  PROVE  InjectionInv'
<1>. DEFINE given == Injected!WithInjections(sweep, Injected!FromElements(e))
            pushed == Injected!Pushable(sweep.gp.plan, e.gen_p)
<1>1. /\ SweepSound(given) /\ given.inj = Injected!FromElements(e)
      /\ given.gp = sweep.gp /\ given.release = sweep.release
  BY WithInjectionsSound DEF InjectionInv
<1>2. /\ facade' = [facade EXCEPT !.gen_p = e.gen_p]
      /\ sweep' = IF pushed THEN Injected!PushGenP(given, e.gen_p) ELSE given
      /\ asked' = [asked EXCEPT !.bus = <<>>, !.elements = {e}]
      /\ lapse' = (lapse \ {"rows", "push"}) \cup (IF pushed THEN {} ELSE {"push"})
  BY DEF Injected!SetInjectionsFromElements
<1>3. grid' = grid /\ ~returned'
  BY NotReturned DEF Injected!SetInjectionsFromElements
<1>. HIDE DEF given, pushed
<1>4. /\ facade'.gen_p = e.gen_p /\ facade'.gen_v = facade.gen_v
      /\ facade' = [onGrid |-> facade'.onGrid, gen_p |-> facade'.gen_p, gen_v |-> facade'.gen_v]
  BY <1>2 DEF InjectionInv, RowsRemembered
<1>5. /\ SweepSound(sweep') /\ sweep'.inj = given.inj /\ sweep'.release = sweep.release
      /\ pushed => sweep'.gp.targets = Injected!TargetsOf(sweep'.gp.plan, e.gen_p)
  BY <1>1, <1>2, PushGenPSound
<1>6. Pushed(sweep)'
  BY <1>2, <1>4, <1>5 DEF InjectionInv, Pushed
<1>7. DOMAIN Injected!FromElements(e) = DOMAIN e.gen_p
  BY DEF Injected!FromElements, Injected!BuildBusInjections
<1>8. /\ asked'.elements = {e} /\ asked'.gen_v = asked.gen_v
      /\ asked' = [bus |-> asked'.bus, elements |-> asked'.elements, gen_v |-> asked'.gen_v]
  BY <1>2 DEF InjectionInv, RowsRemembered
<1>9. RowsRemembered'
  BY <1>1, <1>4, <1>5, <1>7, <1>8 DEF InjectionInv, RowsRemembered
<1>10. QED
  BY <1>3, <1>5, <1>6, <1>9, StepHolds

(* set_gen_v(),                                                            *)
LEMMA SetGenVKeeps ==
  ASSUME InjectionInv, NEW values \in GenVs, Injected!SetGenV(values)
  PROVE  InjectionInv'
<1>. DEFINE given == Injected!WithGenV(sweep, values)
            fits == Injected!Pushable(sweep.release.plan, values)
<1>1. /\ SweepSound(given) /\ given.inj = sweep.inj
      /\ given.gp = sweep.gp /\ given.release = sweep.release
  <2>1. Settable(values)
    BY DEF Settable, Injected!SetGenV
  <2>2. QED
    BY <2>1, WithGenVSound DEF InjectionInv
<1>2. /\ facade' = [facade EXCEPT !.gen_v = values]
      /\ sweep' = IF fits THEN Injected!PushRelease(given, values) ELSE given
      /\ asked' = [asked EXCEPT !.gen_v = values]
      /\ lapse' = (lapse \ {"release"}) \cup (IF fits THEN {} ELSE {"release"})
  BY DEF Injected!SetGenV
<1>3. grid' = grid /\ ~returned'
  BY NotReturned DEF Injected!SetGenV
<1>. HIDE DEF given, fits
<1>4. /\ facade'.gen_v = values /\ facade'.gen_p = facade.gen_p
      /\ facade' = [onGrid |-> facade'.onGrid, gen_p |-> facade'.gen_p, gen_v |-> facade'.gen_v]
  BY <1>2 DEF InjectionInv, RowsRemembered
<1>5. /\ SweepSound(sweep') /\ sweep'.inj = sweep.inj /\ sweep'.gp = sweep.gp
      /\ fits => sweep'.release.targets = Injected!TargetsOf(sweep'.release.plan, values)
  BY <1>1, <1>2, PushReleaseSound
<1>6. Pushed(sweep)'
  BY <1>2, <1>4, <1>5 DEF InjectionInv, Pushed
<1>7. /\ asked'.elements = asked.elements /\ asked'.gen_v = values
      /\ asked' = [bus |-> asked'.bus, elements |-> asked'.elements, gen_v |-> asked'.gen_v]
  BY <1>2 DEF InjectionInv, RowsRemembered
<1>8. "rows" \notin lapse' => "rows" \notin lapse
  BY <1>2
<1>9. RowsRemembered'
  BY <1>4, <1>5, <1>7, <1>8 DEF InjectionInv, RowsRemembered
<1>10. QED
  BY <1>3, <1>5, <1>6, <1>9, StepHolds

(* the plans of the two checks,                                            *)
LEMMA SetPlansKeep ==
  ASSUME InjectionInv, NEW plan, Injected!SetGenPPlan(plan) \/ Injected!SetReleasePlan(plan)
  PROVE  InjectionInv'
<1>1. grid' = grid /\ ~returned' /\ facade' = facade /\ asked' = asked
  BY NotReturned DEF Injected!SetGenPPlan, Injected!SetReleasePlan
<1>2. SweepSound(sweep') /\ sweep'.inj = sweep.inj /\ Pushed(sweep)'
  <2>1. CASE Injected!SetGenPPlan(plan)
    <3>1. /\ SweepSound(sweep') /\ sweep'.inj = sweep.inj /\ sweep'.release = sweep.release
          /\ Injected!Pushable(plan, facade.gen_p) =>
               sweep'.gp.targets = Injected!TargetsOf(sweep'.gp.plan, facade.gen_p)
      BY <2>1, WithGenPPlanSound DEF InjectionInv, Injected!SetGenPPlan
    <3>2. QED
      BY <1>1, <2>1, <3>1 DEF InjectionInv, Pushed, Injected!SetGenPPlan
  <2>2. CASE Injected!SetReleasePlan(plan)
    <3>1. /\ SweepSound(sweep') /\ sweep'.inj = sweep.inj /\ sweep'.gp = sweep.gp
          /\ Injected!Pushable(plan, facade.gen_v) =>
               sweep'.release.targets = Injected!TargetsOf(sweep'.release.plan, facade.gen_v)
      BY <2>2, WithReleasePlanSound DEF InjectionInv, Injected!SetReleasePlan
    <3>2. QED
      BY <1>1, <2>2, <3>1 DEF InjectionInv, Pushed, Injected!SetReleasePlan
  <2>3. QED
    BY <2>1, <2>2
<1>3. "rows" \notin lapse' => "rows" \notin lapse
  BY DEF Injected!SetGenPPlan, Injected!SetReleasePlan
<1>4. RowsRemembered'
  BY <1>1, <1>2, <1>3 DEF InjectionInv, RowsRemembered
<1>5. QED
  BY <1>1, <1>2, <1>4, StepHolds

(* the switch of the checks, the solver, and what is refused untouched.    *)
LEMMA SetOptionsKeep ==
  ASSUME InjectionInv,
         \/ \E v \in BOOLEAN : Injected!SetChecks(v)
         \/ \E x \in Solvers : Injected!SetSolver(x)
         \/ Injected!Refused
  PROVE  InjectionInv'
<1>1. /\ grid' = grid /\ ~returned'
      /\ facade' = facade /\ asked' = asked /\ lapse' = lapse
  BY NotReturned DEF Injected!SetChecks, Injected!SetSolver, Injected!Refused
<1>2. SweepSound(sweep') /\ sweep'.inj = sweep.inj /\ Pushed(sweep')
  <2>1. ASSUME NEW v \in BOOLEAN, Injected!SetChecks(v)
        PROVE  SweepSound(sweep') /\ sweep'.inj = sweep.inj /\ Pushed(sweep')
    <3>. DEFINE q == IF v /\ facade.onGrid THEN Injected!WithPlans(sweep) ELSE sweep
    <3>1. SweepSound(q) /\ q.inj = sweep.inj /\ Pushed(q)
      BY WithPlansSound DEF InjectionInv
    <3>2. sweep' = [q EXCEPT !.checks = v]
      BY <2>1 DEF Injected!SetChecks
    <3>. HIDE DEF q
    <3>3. /\ IsSweep(sweep') /\ sweep'.inj = q.inj /\ sweep'.gp = q.gp
          /\ sweep'.release = q.release /\ sweep'.driver = q.driver /\ sweep'.gen_v = q.gen_v
          /\ sweep'.injDirty = q.injDirty /\ sweep'.gvDirty = q.gvDirty
      BY <3>1, <3>2 DEF SweepSound, IsSweep
    <3>4. QED
      BY <3>1, <3>3 DEF SweepSound, DriverSound, RowsLoaded, Pushed
  <2>2. ASSUME NEW x \in Solvers, Injected!SetSolver(x)
        PROVE  SweepSound(sweep') /\ sweep'.inj = sweep.inj /\ Pushed(sweep')
    <3>1. sweep' = [sweep EXCEPT !.solver = x]
      BY <2>2 DEF Injected!SetSolver
    <3>2. /\ IsSweep(sweep') /\ sweep'.inj = sweep.inj /\ sweep'.gp = sweep.gp
          /\ sweep'.release = sweep.release /\ sweep'.driver = sweep.driver
          /\ sweep'.gen_v = sweep.gen_v
          /\ sweep'.injDirty = sweep.injDirty /\ sweep'.gvDirty = sweep.gvDirty
      BY <3>1 DEF InjectionInv, SweepSound, IsSweep
    <3>3. QED
      BY <3>2 DEF InjectionInv, SweepSound, DriverSound, RowsLoaded, Pushed
  <2>3. CASE Injected!Refused
    BY <2>3 DEF InjectionInv, Injected!Refused
  <2>4. QED
    BY <2>1, <2>2, <2>3
<1>3. RowsRemembered' /\ Pushed(sweep)'
  BY <1>1, <1>2 DEF InjectionInv, RowsRemembered, Pushed
<1>4. QED
  BY <1>1, <1>2, <1>3, StepHolds

-----------------------------------------------------------------------------
(* Only what the driver holds changes, and rows stay dirty.                 *)
LEMMA InjectionNotComputed ==
  ASSUME InjectionInv, NEW k \in Sizes,
         Injected!ComputeRefused(k) \/ Injected!ComputeTorn(k) \/ Injected!ChecksRefuse(k)
  PROVE  InjectionInv'
<1>. DEFINE z == Injected!Sized(k)
            r == Injected!Loaded(Injected!Sized(k))
<1>1. /\ grid' = grid /\ ~returned'
      /\ facade' = facade /\ asked' = asked /\ lapse' = lapse
  BY NotReturned DEF Injected!ComputeRefused, Injected!ComputeTorn, Injected!ChecksRefuse
<1>2. /\ IsSweep(z) /\ z.inj = sweep.inj /\ z.gen_v = sweep.gen_v
      /\ z.gp = sweep.gp /\ z.release = sweep.release /\ z.driver = sweep.driver
      /\ z.injDirty = sweep.injDirty /\ z.gvDirty = sweep.gvDirty
  BY DEF InjectionInv, SweepSound, IsSweep, Injected!Sized
<1>3. /\ SweepSound(sweep') /\ sweep'.inj = sweep.inj
      /\ sweep'.gp = sweep.gp /\ sweep'.release = sweep.release
  <2>1. CASE Injected!ComputeRefused(k)
    <3>1. sweep' = z
      BY <2>1 DEF Injected!ComputeRefused
    <3>. HIDE DEF z
    <3>2. QED
      BY <1>2, <3>1 DEF InjectionInv, SweepSound, DriverSound, RowsLoaded
  <2>2. CASE Injected!ComputeTorn(k)
    <3>1. /\ \/ sweep' = z
             \/ sweep' = [z EXCEPT !.driver = Injected!NoDriver]
             \/ /\ sweep' = [z EXCEPT !.driver.rows = <<>>, !.driver.gen_v = <<>>]
                /\ ~Injected!Cold(z)
          /\ Injected!NewRows(z)
      BY <2>2 DEF Injected!ComputeTorn
    <3>. HIDE DEF z
    <3>2. CASE sweep' = z
      BY <1>2, <3>2 DEF InjectionInv, SweepSound, DriverSound, RowsLoaded
    <3>3. CASE sweep' = [z EXCEPT !.driver = Injected!NoDriver]
      <4>1. /\ IsSweep(sweep') /\ sweep'.inj = z.inj /\ sweep'.gen_v = z.gen_v
            /\ sweep'.gp = z.gp /\ sweep'.release = z.release
            /\ sweep'.driver = Injected!NoDriver
        BY <1>2, <3>3 DEF IsSweep, IsDriver, Injected!NoDriver
      <4>2. /\ Injected!NoDriver.gen_v = <<>> /\ Injected!NoDriver.alive = FALSE
            /\ Injected!NoDriver.gp = <<>> /\ Injected!NoDriver.release = <<>>
        BY DEF Injected!NoDriver
      <4>3. DriverSound(sweep')
        BY <4>1, <4>2 DEF DriverSound
      <4>4. QED
        BY <1>2, <4>1, <4>2, <4>3 DEF InjectionInv, SweepSound, CheckSound
    <3>4. CASE /\ sweep' = [z EXCEPT !.driver.rows = <<>>, !.driver.gen_v = <<>>]
               /\ ~Injected!Cold(z)
      <4>. DEFINE a == z.driver
                  d == Reloaded(a, <<>>, <<>>)
      <4>1. IsDriver(a)
        BY <1>2 DEF IsSweep
      <4>. HIDE DEF a
      <4>2. /\ IsDriver(d) /\ d.gen_v = <<>> /\ d.gp = a.gp /\ d.release = a.release
        BY <4>1, DriverTorn
      <4>3. sweep' = [z EXCEPT !.driver = d]
        BY <1>2, <3>4 DEF IsSweep, IsDriver, Reloaded, a
      <4>. HIDE DEF d
      <4>4. /\ IsSweep(sweep') /\ sweep'.inj = z.inj /\ sweep'.gen_v = z.gen_v
            /\ sweep'.gp = z.gp /\ sweep'.release = z.release /\ sweep'.driver = d
            /\ sweep'.injDirty = z.injDirty /\ sweep'.gvDirty = z.gvDirty
        BY <1>2, <4>2, <4>3 DEF IsSweep
      <4>5. z.injDirty \/ z.gvDirty
        BY <3>1, <3>4 DEF Injected!NewRows
      <4>6. DriverSound(sweep')
        BY <4>2, <4>4, <4>5 DEF DriverSound
      <4>7. QED
        BY <1>2, <4>2, <4>4, <4>6 DEF InjectionInv, SweepSound, CheckSound, a
    <3>5. QED
      BY <3>1, <3>2, <3>3, <3>4
  <2>3. CASE Injected!ChecksRefuse(k)
    <3>1. /\ SweepSound(r) /\ r.inj = sweep.inj /\ r.gp = sweep.gp /\ r.release = sweep.release
      BY LoadedSound DEF InjectionInv
    <3>2. \/ sweep' = r
          \/ sweep' = [r EXCEPT !.driver.gp = Injected!Synced(r.gp, r.driver.gp)]
      BY <2>3 DEF Injected!ChecksRefuse
    <3>. HIDE DEF r
    <3>3. CASE sweep' = r
      BY <3>1, <3>3
    <3>4. CASE sweep' = [r EXCEPT !.driver.gp = Injected!Synced(r.gp, r.driver.gp)]
      <4>. DEFINE t == Injected!Synced(r.gp, r.driver.gp)
                  d == [r.driver EXCEPT !.gp = t]
      <4>1. t = r.gp.targets
        BY <3>1, SyncedTargets DEF SweepSound
      <4>. HIDE DEF t
      <4>2. /\ IsDriver(d) /\ d.gp = t /\ d.release = r.driver.release /\ d.rows = r.driver.rows
            /\ d.gen_v = r.driver.gen_v /\ d.alive = r.driver.alive
        BY <3>1 DEF SweepSound, IsSweep, IsDriver
      <4>3. sweep' = [r EXCEPT !.driver = d]
        BY <3>1, <3>4 DEF SweepSound, IsSweep, t
      <4>. HIDE DEF d
      <4>4. /\ IsSweep(sweep') /\ sweep'.inj = r.inj /\ sweep'.gen_v = r.gen_v
            /\ sweep'.gp = r.gp /\ sweep'.release = r.release /\ sweep'.driver = d
            /\ sweep'.injDirty = r.injDirty /\ sweep'.gvDirty = r.gvDirty
        BY <3>1, <4>2, <4>3 DEF SweepSound, IsSweep
      <4>5. QED
        BY <3>1, <4>1, <4>2, <4>4 DEF SweepSound, DriverSound, RowsLoaded, CheckSound
    <3>5. QED
      BY <3>2, <3>3, <3>4
  <2>4. QED
    BY <2>1, <2>2, <2>3
<1>4. RowsRemembered' /\ Pushed(sweep)'
  BY <1>1, <1>3 DEF InjectionInv, RowsRemembered, Pushed
<1>5. QED
  BY <1>1, <1>3, <1>4, StepHolds

(* A run that reaches solve() has the rows and, with checks, the targets of *)
(* the session on the driver.                                               *)
LEMMA InjectionComputed ==
  ASSUME InjectionInv, NEW k \in Sizes, Injected!Compute(k)
  PROVE  InjectionInv'
<1>. DEFINE r == Injected!Loaded(Injected!Sized(k))
            q == Injected!Targeted(r)
<1>1. /\ SweepSound(r) /\ RowsLoaded(r) /\ r.inj = sweep.inj
      /\ r.gp = sweep.gp /\ r.release = sweep.release
  BY LoadedSound DEF InjectionInv
<1>2. /\ grid' = grid /\ facade' = facade /\ asked' = asked /\ lapse' = lapse
      /\ sweep' = Injected!Cleaned(q)
  BY DEF Injected!Compute, Injected!Ends
<1>. HIDE DEF r
<1>3. CASE ~r.checks
  <2>1. sweep' = r
    BY <1>2, <1>3 DEF Injected!Targeted, Injected!Cleaned
  <2>2. SweepSound(sweep)' /\ RowsLoaded(sweep)'
    BY <1>1, <1>2, <2>1, SoundAfter DEF RowsLoaded
  <2>3. Pushed(sweep)' /\ RowsRemembered'
    BY <1>1, <1>2, <2>1 DEF InjectionInv, Pushed, RowsRemembered
  <2>4. QED
    BY <1>2, <1>3, <2>1, <2>2, <2>3 DEF InjectionInv, RunLoaded
<1>4. CASE r.checks
  <2>. DEFINE a == r.driver
              d == Retargeted(a, r.gp.targets, r.release.targets)
              g == [r.gp EXCEPT !.dirty = FALSE]
              h == [r.release EXCEPT !.dirty = FALSE]
  <2>1. /\ Injected!Synced(r.gp, r.driver.gp) = r.gp.targets
        /\ Injected!Synced(r.release, r.driver.release) = r.release.targets
    BY <1>1, SyncedTargets DEF SweepSound
  <2>2. q = [r EXCEPT !.driver.gp = r.gp.targets, !.driver.release = r.release.targets]
    BY <1>4, <2>1 DEF Injected!Targeted
  <2>3. q = [r EXCEPT !.driver = d]
    BY <1>1, <2>2 DEF SweepSound, IsSweep, Retargeted
  <2>. HIDE DEF q
  <2>4. /\ IsDriver(d) /\ d.gp = r.gp.targets /\ d.release = r.release.targets
        /\ d.rows = a.rows /\ d.gen_v = a.gen_v
    <3>1. IsDriver(a)
      BY <1>1 DEF SweepSound, IsSweep
    <3>. HIDE DEF a
    <3>2. QED
      BY <3>1, DriverTargeted
  <2>. HIDE DEF d
  <2>5. /\ q.checks = r.checks /\ q.gp = r.gp /\ q.release = r.release /\ q.driver = d
        /\ q.inj = r.inj /\ q.gen_v = r.gen_v
        /\ q.injDirty = r.injDirty /\ q.gvDirty = r.gvDirty /\ IsSweep(q)
    BY <1>1, <2>3, <2>4 DEF SweepSound, IsSweep
  <2>6. sweep' = [q EXCEPT !.gp.dirty = FALSE, !.release.dirty = FALSE]
    BY <1>2, <1>4, <2>5 DEF Injected!Cleaned, Injected!CleanedAlways
  <2>7. sweep' = [q EXCEPT !.gp = g, !.release = h]
    BY <2>5, <2>6 DEF IsSweep
  <2>8. /\ IsCheck(g) /\ g.plan = r.gp.plan /\ g.targets = r.gp.targets
        /\ IsCheck(h) /\ h.plan = r.release.plan /\ h.targets = r.release.targets
    BY <1>1, CheckCleaned DEF SweepSound, IsSweep
  <2>. HIDE DEF g, h
  <2>9. /\ IsSweep(sweep') /\ sweep'.gp = g /\ sweep'.release = h /\ sweep'.driver = d
        /\ sweep'.inj = r.inj /\ sweep'.gen_v = r.gen_v
        /\ sweep'.injDirty = r.injDirty /\ sweep'.gvDirty = r.gvDirty
    BY <2>5, <2>7, <2>8 DEF IsSweep
  <2>10. RowsLoaded(sweep')
    BY <1>1, <2>4, <2>9 DEF RowsLoaded, a
  <2>11. SweepSound(sweep')
    <3>1. DriverSound(sweep')
      BY <1>1, <2>4, <2>9, <2>10 DEF DriverSound, SweepSound, a
    <3>2. QED
      BY <1>1, <2>4, <2>8, <2>9, <3>1 DEF SweepSound, CheckSound
  <2>12. SweepSound(sweep)' /\ RowsLoaded(sweep)'
    BY <1>2, <2>10, <2>11, SoundAfter DEF RowsLoaded
  <2>13. Pushed(sweep)' /\ RowsRemembered'
    BY <1>1, <1>2, <2>8, <2>9 DEF InjectionInv, Pushed, RowsRemembered
  <2>14. QED
    BY <1>2, <2>4, <2>8, <2>9, <2>12, <2>13 DEF InjectionInv, RunLoaded
<1>5. QED
  BY <1>3, <1>4

(* A session without rows, set-points or driver.                            *)
Fresh(r) ==
  /\ IsSweep(r) /\ r.gen_v = <<>> /\ r.driver = Injected!NoDriver
  /\ r.gp.targets = <<>> /\ r.release.targets = <<>>

LEMMA FreshSound ==
  ASSUME NEW r, Fresh(r)
  PROVE  SweepSound(r)
<1>1. /\ Injected!NoDriver.gp = <<>> /\ Injected!NoDriver.release = <<>>
      /\ Injected!NoDriver.gen_v = <<>> /\ Injected!NoDriver.alive = FALSE
  BY DEF Injected!NoDriver
<1>2. QED
  BY <1>1, NothingSet DEF Fresh, SweepSound, DriverSound, CheckSound

(* Both ways to build the engine give such a session.                      *)
LEMMA BuiltFresh ==
  ASSUME NEW v, NEW x, NEW k
  PROVE  Fresh(Injected!FromArrays(v, x, k)) /\ Fresh(Injected!FromGrid(v, x, k))
<1>. DEFINE n == Injected!NewSession(x, k)
            c == Injected!NewCheck(GridPlan)
            n1 == [n EXCEPT !.checks = TRUE]
            n2 == [n1 EXCEPT !.gp = c]
            n3 == [n2 EXCEPT !.release = c]
<1>1. \A p : IsCheck(Injected!NewCheck(p)) /\ Injected!NewCheck(p).targets = <<>>
  BY DEF IsCheck, Injected!NewCheck
<1>2. IsDriver(Injected!NoDriver)
  BY DEF IsDriver, Injected!NoDriver
<1>3. Fresh(n)
  BY <1>1, <1>2 DEF Fresh, IsSweep, Injected!NewSession
<1>. HIDE DEF n
<1>4. \A u : Fresh([n EXCEPT !.checks = u])
  <2>1. TAKE u
  <2>. DEFINE m == [n EXCEPT !.checks = u]
  <2>2. /\ IsSweep(m) /\ m.gen_v = n.gen_v /\ m.driver = n.driver
        /\ m.gp = n.gp /\ m.release = n.release
    BY <1>3 DEF Fresh, IsSweep
  <2>. HIDE DEF m
  <2>3. Fresh(m)
    BY <1>3, <2>2 DEF Fresh
  <2>4. QED
    BY <2>3 DEF m
<1>5. Fresh(n1)
  BY <1>4
<1>6. IsCheck(c) /\ c.targets = <<>>
  BY <1>1
<1>. HIDE DEF c, n1
<1>7. Fresh(n2)
  <2>1. /\ IsSweep(n2) /\ n2.gen_v = n1.gen_v /\ n2.driver = n1.driver
        /\ n2.gp = c /\ n2.release = n1.release
    BY <1>5, <1>6 DEF Fresh, IsSweep
  <2>. HIDE DEF n2
  <2>2. QED
    BY <1>5, <1>6, <2>1 DEF Fresh
<1>. HIDE DEF n2
<1>8. Fresh(n3)
  <2>1. /\ IsSweep(n3) /\ n3.gen_v = n2.gen_v /\ n3.driver = n2.driver
        /\ n3.gp = n2.gp /\ n3.release = c
    BY <1>6, <1>7 DEF Fresh, IsSweep
  <2>. HIDE DEF n3
  <2>2. QED
    BY <1>6, <1>7, <2>1 DEF Fresh
<1>9. n3 = [n EXCEPT !.checks = TRUE, !.gp = c, !.release = c]
  BY DEF n1, n2
<1>. HIDE DEF n3
<1>10. Fresh(Injected!FromGrid(v, x, k))
  BY <1>3, <1>8, <1>9 DEF Injected!FromGrid, n, c
<1>11. Fresh(Injected!FromArrays(v, x, k))
  BY <1>4 DEF Injected!FromArrays, n
<1>12. QED
  BY <1>10, <1>11

LEMMA InjectionStarts == Injected!Init => InjectionInv
<1>. SUFFICES ASSUME Injected!Init PROVE InjectionInv
  OBVIOUS
<1>1. Fresh(sweep)
  BY BuiltFresh DEF Injected!Init
<1>2. /\ facade.gen_p = <<>> /\ facade.gen_v = <<>>
      /\ facade = [onGrid |-> facade.onGrid, gen_p |-> facade.gen_p, gen_v |-> facade.gen_v]
  BY DEF Injected!Init, Injected!NewFacade
<1>3. Pushed(sweep)
  BY <1>1, <1>2, NoTargets DEF Pushed, Fresh
<1>4. RowsRemembered /\ RunLoaded /\ grid \in Grids
  BY <1>2 DEF Injected!Init, RowsRemembered, RunLoaded
<1>5. QED
  BY <1>1, <1>3, <1>4, FreshSound DEF InjectionInv

(* Every step of the injection sweep keeps the invariant.                  *)
LEMMA InjectionInductive ==
  InjectionInv /\ [Injected!Next]_(Injected!vars) => InjectionInv'
<1>. SUFFICES ASSUME InjectionInv, [Injected!Next]_(Injected!vars) PROVE InjectionInv'
  OBVIOUS
<1>1. CASE UNCHANGED Injected!vars
  <2>1. /\ grid' = grid /\ facade' = facade /\ sweep' = sweep
        /\ returned' = returned /\ asked' = asked /\ lapse' = lapse
    BY <1>1 DEF Injected!vars
  <2>2. SweepSound(sweep)'
    BY <2>1, SoundAfter DEF InjectionInv
  <2>3. QED
    BY <2>1, <2>2 DEF InjectionInv, Pushed, RowsRemembered, RunLoaded, RowsLoaded
<1>2. CASE Injected!Next
  <2>1. ASSUME \/ \E e \in Elements : Injected!SetInjectionsFromElementsRefused(e)
               \/ \E values \in GenVs : Injected!SetGenVRefused(values)
               \/ Injected!SetSolverRefused
        PROVE  Injected!Refused
    BY <2>1 DEF Injected!SetInjectionsFromElementsRefused, Injected!SetGenVRefused,
                Injected!SetSolverRefused
  <2>2. QED
    BY <1>2, <2>1, SetInjectionsKeeps, SetElementsKeeps, SetGenVKeeps, SetPlansKeep,
       SetOptionsKeep, InjectionNotComputed, InjectionComputed DEF Injected!Next
<1>3. QED
  BY <1>1, <1>2

-----------------------------------------------------------------------------
(* Whatever set_gen_v() accepts, refuses and replaces, the set-points on    *)
(* the driver ask no bus for two magnitudes (build_gen_v_override()), for   *)
(* any grids, rows, plans and number of calls.                              *)
THEOREM VoltagesCorrect == InjectionSpec => []OneVoltagePerBus
<1>1. ASSUME InjectionInv PROVE OneVoltagePerBus
  <2>. DEFINE gv == sweep.driver.gen_v
  <2>. SUFFICES ASSUME NEW n \in DOMAIN gv, NEW b \in Injected!Buses(grid),
                       NEW v \in gv[n][b] \cup (IF gv[n][b] = {} THEN {} ELSE Injected!Pin(grid, b)),
                       NEW w \in gv[n][b] \cup (IF gv[n][b] = {} THEN {} ELSE Injected!Pin(grid, b))
                PROVE  v - w <= Tol
    BY DEF OneVoltagePerBus, Injected!OneVoltagePerBus
  <2>1. gv # <<>>
    OBVIOUS
  <2>2. PICK values : Settable(values) /\ gv = Injected!Override(grid, values)
    BY <1>1, <2>1 DEF InjectionInv, SweepSound, DriverSound
  <2>. HIDE DEF gv
  <2>3. values \in GenVs /\ n \in DOMAIN values /\ ~Injected!Conflicting(grid, values)
    BY <2>2 DEF Settable, Injected!Override
  <2>4. /\ values[n] \in [DOMAIN grid.gens -> Int \cup {Absent}]
        /\ Injected!Pin(grid, b) \subseteq Int /\ Tol \in Nat /\ Absent \notin Int
    <3>1. grid \in Grids
      BY <1>1 DEF InjectionInv
    <3>2. /\ GenVs \subseteq Seq([DOMAIN grid.gens -> Int \cup {Absent}])
          /\ Injected!Pin(grid, b) \subseteq Int /\ Tol \in Nat /\ Absent \notin Int
      BY <3>1, InjectionAssumption DEF Injected!RowAssumption
    <3>3. values \in Seq([DOMAIN grid.gens -> Int \cup {Absent}])
      BY <2>3, <3>2
    <3>4. values[n] \in [DOMAIN grid.gens -> Int \cup {Absent}]
      BY <2>3, <3>3
    <3>5. QED
      BY <3>2, <3>4
  <2>5. gv[n][b] = {values[n][j] : j \in {j \in Injected!ActiveColumns(grid) :
                                          Injected!GenVBus(grid, j) = b}} \ {Absent}
    BY <2>2, <2>3 DEF Injected!Override
  <2>6. \A j \in Injected!ActiveColumns(grid) : j \in DOMAIN values[n] /\ Injected!Driven(grid, j)
    BY <2>4 DEF Injected!ActiveColumns, Injected!Driven, Injected!Buses
  <2>7. gv[n][b] \subseteq Injected!Given(grid, values[n], b) /\ gv[n][b] \subseteq Int
    BY <2>4, <2>5, <2>6 DEF Injected!Given, Injected!ActiveColumns
  <2>8. \E j \in DOMAIN grid.gens : Injected!Driven(grid, j) /\ Injected!GenVBus(grid, j) = b
    <3>1. gv[n][b] # {}
      OBVIOUS
    <3>2. QED
      BY <2>5, <2>6, <3>1 DEF Injected!ActiveColumns
  <2>9. ~Injected!Apart(Injected!Given(grid, values[n], b) \cup Injected!Pin(grid, b))
    BY <2>3, <2>8 DEF Injected!Conflicting
  <2>10. /\ v \in Injected!Given(grid, values[n], b) \cup Injected!Pin(grid, b)
         /\ w \in Injected!Given(grid, values[n], b) \cup Injected!Pin(grid, b)
         /\ v \in Int /\ w \in Int
    BY <2>4, <2>7
  <2>11. ~(v - w > Tol)
    BY <2>9, <2>10 DEF Injected!Apart
  <2>12. QED
    BY <2>4, <2>10, <2>11
<1>2. QED
  BY <1>1, InjectionStarts, InjectionInductive, PTL DEF InjectionSpec, Injected!Spec

(* The checks of a run read the gen_p and the set-points that run solved,   *)
(* however the rows, the plans and the switch of the checks were ordered    *)
(* (_push_gen_p_targets() and its like for the release; sync_targets()),    *)
(* for any grids, rows, plans and number of calls.                          *)
THEOREM TargetsCorrect == InjectionSpec => []ChecksUseWhatIsSolved
<1>1. ASSUME InjectionInv PROVE ChecksUseWhatIsSolved
  <2>1. Injected!ChecksUseSolvedGenP
    <3>. SUFFICES ASSUME returned, sweep.checks, "rows" \notin lapse, "push" \notin lapse
                  PROVE  LET plan == Injected!Entries(sweep.gp.plan) IN
                         /\ asked.elements = {} \/ plan = <<>> => sweep.driver.gp = <<>>
                         /\ plan # <<>> => \A e \in asked.elements :
                              /\ DOMAIN sweep.driver.gp = DOMAIN sweep.driver.rows
                              /\ \A r \in DOMAIN sweep.driver.gp, k \in DOMAIN plan :
                                   sweep.driver.gp[r][k] =
                                     IF plan[k].type = "gen" THEN e.gen_p[r][plan[k].id] ELSE Absent
      BY DEF Injected!ChecksUseSolvedGenP
    <3>. DEFINE plan == sweep.gp.plan
    <3>1. /\ sweep.driver.gp = Injected!TargetsOf(plan, facade.gen_p)
          /\ sweep.driver.rows = sweep.inj
      BY <1>1 DEF InjectionInv, RunLoaded, RowsLoaded, Pushed
    <3>2. /\ asked.elements = {} => facade.gen_p = <<>>
          /\ \A e \in asked.elements :
               facade.gen_p = e.gen_p /\ DOMAIN sweep.inj = DOMAIN e.gen_p
      BY <1>1 DEF InjectionInv, RowsRemembered
    <3>3. Injected!Entries(plan) # <<>> => Injected!Entries(plan) = plan
      BY DEF Injected!Entries
    <3>. HIDE DEF plan
    <3>4. asked.elements = {} \/ Injected!Entries(plan) = <<>> => sweep.driver.gp = <<>>
      BY <3>1, <3>2, NoTargets DEF Injected!TargetsOf
    <3>5. ASSUME Injected!Entries(plan) # <<>>, NEW e \in asked.elements
          PROVE  /\ DOMAIN sweep.driver.gp = DOMAIN sweep.driver.rows
                 /\ \A r \in DOMAIN sweep.driver.gp, k \in DOMAIN plan :
                      sweep.driver.gp[r][k] =
                        IF plan[k].type = "gen" THEN e.gen_p[r][plan[k].id] ELSE Absent
      BY <3>1, <3>2, <3>5, TargetsAre
    <3>6. QED
      BY <3>3, <3>4, <3>5 DEF plan
  <2>2. Injected!ChecksUseSolvedGenV
    <3>. SUFFICES ASSUME returned, sweep.checks, "release" \notin lapse
                  PROVE  LET plan == Injected!Entries(sweep.release.plan) IN
                         /\ DOMAIN sweep.driver.release =
                              (IF plan = <<>> THEN {} ELSE DOMAIN asked.gen_v)
                         /\ \A r \in DOMAIN sweep.driver.release, k \in DOMAIN plan :
                              sweep.driver.release[r][k] =
                                IF plan[k].type = "gen" THEN asked.gen_v[r][plan[k].id] ELSE Absent
      BY DEF Injected!ChecksUseSolvedGenV
    <3>. DEFINE plan == sweep.release.plan
    <3>1. sweep.driver.release = Injected!TargetsOf(plan, asked.gen_v)
      BY <1>1 DEF InjectionInv, RunLoaded, Pushed, RowsRemembered
    <3>2. Injected!Entries(plan) # <<>> => Injected!Entries(plan) = plan
      BY DEF Injected!Entries
    <3>. HIDE DEF plan
    <3>3. CASE Injected!Entries(plan) = <<>>
      <4>1. sweep.driver.release = <<>>
        BY <3>1, <3>3 DEF Injected!TargetsOf
      <4>2. QED
        BY <3>3, <4>1 DEF plan
    <3>4. CASE Injected!Entries(plan) # <<>>
      <4>1. /\ DOMAIN sweep.driver.release = DOMAIN asked.gen_v
            /\ \A r \in DOMAIN sweep.driver.release, k \in DOMAIN plan :
                 sweep.driver.release[r][k] =
                   IF plan[k].type = "gen" THEN asked.gen_v[r][plan[k].id] ELSE Absent
        BY <3>1, <3>4, TargetsAre
      <4>2. QED
        BY <3>2, <3>4, <4>1 DEF plan
    <3>5. QED
      BY <3>3, <3>4
  <2>3. QED
    BY <2>1, <2>2 DEF ChecksUseWhatIsSolved, Injected!ChecksUseWhatIsSolved
<1>2. QED
  BY <1>1, InjectionStarts, InjectionInductive, PTL DEF InjectionSpec, Injected!Spec

-----------------------------------------------------------------------------
(* Sums, from their equation: what the rows of injections are made of.       *)

(* A set of sizes has a smallest one.                                        *)
LEMMA SmallestOf ==
  ASSUME NEW T \in SUBSET Nat, T # {}
  PROVE  \E n \in T : \A m \in T : ~(m < n)
<1>1. \E n \in T : \A m \in T : ~(<<m, n>> \in OpToRel(<, Nat))
  BY NatLessThanWellFounded, WFMin, Zenon
<1>2. QED
  BY <1>1 DEF OpToRel

(* Induction over the subsets of a finite set: a set of them to which T      *)
(* belongs as soon as T without any of its elements does has them all.      *)
LEMMA SubsetInduction ==
  ASSUME NEW S, IsFiniteSet(S), NEW Good,
         \A T \in SUBSET S : (\A x \in T : T \ {x} \in Good) => T \in Good
  PROVE  SUBSET S \subseteq Good
<1>. DEFINE Cards == {Cardinality(T) : T \in {T \in SUBSET S : T \notin Good}}
<1>1. \A T \in SUBSET S : IsFiniteSet(T) /\ Cardinality(T) \in Nat
  BY FS_Subset, FS_CardinalityType
<1>2. SUFFICES ASSUME Cards # {} PROVE FALSE
  OBVIOUS
<1>3. Cards \in SUBSET Nat
  BY <1>1
<1>4. PICK n \in Cards : \A m \in Cards : ~(m < n)
  <2>. HIDE DEF Cards
  <2>1. QED
    BY <1>2, <1>3, SmallestOf
<1>5. PICK T \in SUBSET S : T \notin Good /\ Cardinality(T) = n
  BY <1>4
<1>6. PICK x \in T : T \ {x} \notin Good
  BY <1>5
<1>7. T \ {x} \in SUBSET S /\ Cardinality(T \ {x}) = n - 1
  BY <1>1, <1>5, <1>6, FS_RemoveElement
<1>8. n - 1 \in Cards
  BY <1>6, <1>7
<1>9. n \in Nat /\ n - 1 \in Nat
  BY <1>3, <1>4, <1>8
<1>10. QED
  BY <1>4, <1>8, <1>9

-----------------------------------------------------------------------------
(* Sums over finite sets.                                                    *)
SumOf(f, S) == Injected!MapThenSumSet(LAMBDA k : f[k], S)
Any(s) == CHOOSE x \in s : TRUE

(* The equation of the sums of f over the subsets of S.                      *)
Step(it, f, s) == IF s = {} THEN 0 ELSE f[Any(s)] + it[s \ {Any(s)}]
Adds(it, f, S) == it = [s \in SUBSET S |-> Step(it, f, s)]

LEMMA SumIs == \A f, S : SumOf(f, S) = (CHOOSE it : Adds(it, f, S))[S]
<1>1. ASSUME NEW f, NEW S PROVE SumOf(f, S) = (CHOOSE it : Adds(it, f, S))[S]
  BY DEF SumOf, Injected!MapThenSumSet, Injected!MapThenFoldSet, Adds, Step, Any
<1>2. QED
  BY <1>1

LEMMA AnyOf == \A s : s # {} => Any(s) \in s
BY DEF Any

(* It has a solution, built size by size.                                    *)
LEMMA SumsExist ==
  ASSUME NEW S, IsFiniteSet(S), NEW f
  PROVE  \E it : Adds(it, f, S)
<1>. DEFINE Below(n) == {s \in SUBSET S : Cardinality(s) <= n}
            Solved(it, n) == it = [s \in Below(n) |-> Step(it, f, s)]
            Bad == {n \in Nat : ~\E it : Solved(it, n)}
<1>1. \A s \in SUBSET S : IsFiniteSet(s) /\ Cardinality(s) \in Nat
  BY FS_Subset, FS_CardinalityType
<1>2. Bad = {}
  <2>1. SUFFICES ASSUME Bad # {} PROVE FALSE
    OBVIOUS
  <2>2. PICK n \in Bad : \A m \in Bad : ~(m < n)
    <3>1. Bad \in SUBSET Nat
      OBVIOUS
    <3>. HIDE DEF Bad
    <3>2. QED
      BY <2>1, <3>1, SmallestOf
  <2>3. CASE n = 0
    <3>1. \A s \in Below(0) : s = {}
      BY <1>1, FS_EmptySet
    <3>. DEFINE it == [s \in Below(0) |-> 0]
    <3>2. Solved(it, 0)
      BY <3>1 DEF Step
    <3>3. QED
      BY <2>2, <2>3, <3>2
  <2>4. CASE n # 0
    <3>1. n - 1 \in Nat /\ n \in Nat
      BY <2>2, <2>4
    <3>2. PICK it : Solved(it, n - 1)
      <4>1. n - 1 \notin Bad
        <5>. HIDE DEF Bad
        <5>1. n - 1 < n
          BY <3>1
        <5>2. QED
          BY <2>2, <5>1
      <4>2. QED
        BY <3>1, <4>1
    <3>. DEFINE more == [s \in Below(n) |-> Step(it, f, s)]
    <3>3. \A s \in Below(n) : s # {} => s \ {Any(s)} \in Below(n - 1) /\ s \ {Any(s)} \in Below(n)
      <4>. SUFFICES ASSUME NEW s \in SUBSET S, Cardinality(s) <= n, s # {}
                    PROVE  /\ s \ {Any(s)} \in SUBSET S
                           /\ Cardinality(s \ {Any(s)}) <= n - 1
                           /\ Cardinality(s \ {Any(s)}) <= n
        OBVIOUS
      <4>1. IsFiniteSet(s) /\ Cardinality(s) \in Nat /\ Any(s) \in s
        BY <1>1, AnyOf
      <4>2. Cardinality(s \ {Any(s)}) = Cardinality(s) - 1
        BY <4>1, FS_RemoveElement
      <4>3. QED
        BY <3>1, <4>1, <4>2
    <3>4. \A s \in Below(n - 1) : s \in Below(n) /\ more[s] = it[s]
      BY <1>1, <3>1, <3>2
    <3>5. \A s \in Below(n) : Step(it, f, s) = Step(more, f, s)
      <4>. HIDE DEF Below, more, Solved
      <4>1. QED
        BY <3>3, <3>4 DEF Step
    <3>6. Solved(more, n)
      <4>1. more = [s \in Below(n) |-> Step(more, f, s)]
        <5>1. \A B, g : (\A s \in B : Step(it, f, s) = Step(g, f, s))
                 => [s \in B |-> Step(it, f, s)] = [s \in B |-> Step(g, f, s)]
          OBVIOUS
        <5>2. QED
          BY <3>5, <5>1
      <4>2. QED
        BY <4>1
    <3>7. QED
      <4>1. n \notin Bad
        BY <3>6
      <4>2. QED
        BY <2>2, <4>1
  <2>5. QED
    BY <2>3, <2>4
<1>3. Cardinality(S) \in Nat /\ Below(Cardinality(S)) = SUBSET S
  BY <1>1, FS_Subset, FS_CardinalityType
<1>4. PICK it : Solved(it, Cardinality(S))
  BY <1>2, <1>3
<1>5. QED
  BY <1>3, <1>4 DEF Adds

(* And only one, on any of the sets.                                         *)
LEMMA SumsUnique ==
  ASSUME NEW S, IsFiniteSet(S), NEW f, NEW g, NEW A \in SUBSET S, NEW B, S \subseteq B,
         NEW i, Adds(i, f, S), NEW j, Adds(j, g, B), \A k \in A : f[k] = g[k]
  PROVE  i[A] = j[A]
<1>. DEFINE Good == {T \in SUBSET A : i[T] = j[T]}
<1>0. IsFiniteSet(A)
  BY FS_Subset
<1>1. ASSUME NEW T \in SUBSET A, \A x \in T : T \ {x} \in Good PROVE T \in Good
  <2>1. i[T] = Step(i, f, T) /\ j[T] = Step(j, g, T)
    BY DEF Adds
  <2>2. T # {} => Any(T) \in T /\ Any(T) \in A /\ i[T \ {Any(T)}] = j[T \ {Any(T)}]
    BY <1>1, AnyOf
  <2>3. QED
    BY <2>1, <2>2 DEF Step
<1>2. QED
  <2>. HIDE DEF Good
  <2>1. SUBSET A \subseteq Good
    BY <1>0, <1>1, SubsetInduction
  <2>2. QED
    BY <2>1 DEF Good

(* So a sum is computed by it, one element after the other.                  *)
LEMMA SumSteps ==
  ASSUME NEW S, IsFiniteSet(S), NEW f
  PROVE  SumOf(f, S) = IF S = {} THEN 0 ELSE f[Any(S)] + SumOf(f, S \ {Any(S)})
<1>1. \A T : SumOf(f, T) = (CHOOSE it : Adds(it, f, T))[T]
  BY SumIs
<1>. DEFINE A(T) == CHOOSE it : Adds(it, f, T)
<1>2. \A T : IsFiniteSet(T) => Adds(A(T), f, T)
  BY SumsExist
<1>. HIDE DEF A
<1>3. A(S)[S] = Step(A(S), f, S)
  BY <1>2 DEF Adds
<1>4. CASE S = {}
  BY <1>1, <1>3, <1>4 DEF A, Step
<1>5. CASE S # {}
  <2>. DEFINE T == S \ {Any(S)}
  <2>1. T \in SUBSET S /\ IsFiniteSet(T)
    BY FS_RemoveElement
  <2>. HIDE DEF T
  <2>2. A(T)[T] = A(S)[T]
    BY <1>2, <2>1, SumsUnique
  <2>3. QED
    BY <1>1, <1>3, <1>5, <2>2 DEF A, Step, T
<1>6. QED
  BY <1>4, <1>5

(* Sums of functions that agree.                                             *)
LEMMA SumAlike ==
  ASSUME NEW S, IsFiniteSet(S), NEW f, NEW g, \A k \in S : f[k] = g[k]
  PROVE  SumOf(f, S) = SumOf(g, S)
<1>. DEFINE Good == {T \in SUBSET S : SumOf(f, T) = SumOf(g, T)}
<1>1. ASSUME NEW T \in SUBSET S, \A x \in T : T \ {x} \in Good PROVE T \in Good
  <2>1. IsFiniteSet(T)
    BY FS_Subset
  <2>2. CASE T = {}
    <3>1. SumOf(f, T) = 0 /\ SumOf(g, T) = 0
      BY <2>1, <2>2, SumSteps
    <3>2. QED
      BY <3>1
  <2>3. CASE T # {}
    <3>. DEFINE a == Any(T)
    <3>1. a \in T
      BY <2>3, AnyOf
    <3>2. SumOf(f, T) = f[a] + SumOf(f, T \ {a}) /\ SumOf(g, T) = g[a] + SumOf(g, T \ {a})
      BY <2>1, <2>3, SumSteps
    <3>. HIDE DEF a
    <3>3. f[a] = g[a] /\ SumOf(f, T \ {a}) = SumOf(g, T \ {a})
      BY <1>1, <3>1
    <3>4. QED
      BY <3>2, <3>3
  <2>4. QED
    BY <2>2, <2>3
<1>2. QED
  <2>. HIDE DEF Good
  <2>1. SUBSET S \subseteq Good
    BY <1>1, SubsetInduction
  <2>2. QED
    BY <2>1 DEF Good

(* By induction, for a property of the subsets of S.                         *)
LEMMA SumOfRest ==
  ASSUME NEW T, IsFiniteSet(T), T # {}
  PROVE  /\ Any(T) \in T /\ IsFiniteSet(T \ {Any(T)})
         /\ \A f : SumOf(f, T) = f[Any(T)] + SumOf(f, T \ {Any(T)})
<1>1. Any(T) \in T /\ IsFiniteSet(T \ {Any(T)})
  BY AnyOf, FS_RemoveElement
<1>2. ASSUME NEW f PROVE SumOf(f, T) = f[Any(T)] + SumOf(f, T \ {Any(T)})
  BY SumSteps
<1>3. QED
  BY <1>1, <1>2

(* The sum of integers is one, and any element may be taken out of it.       *)
LEMMA SumInteger ==
  ASSUME NEW S, IsFiniteSet(S), NEW f, \A k \in S : f[k] \in Int
  PROVE  SumOf(f, S) \in Int
<1>. DEFINE Good == {T \in SUBSET S : SumOf(f, T) \in Int}
<1>1. ASSUME NEW T \in SUBSET S, \A x \in T : T \ {x} \in Good PROVE T \in Good
  <2>1. IsFiniteSet(T)
    BY FS_Subset
  <2>2. CASE T = {}
    BY <2>1, <2>2, SumSteps
  <2>3. CASE T # {}
    <3>. DEFINE a == Any(T)
    <3>1. a \in T /\ SumOf(f, T) = f[a] + SumOf(f, T \ {a})
      BY <2>1, <2>3, SumOfRest
    <3>. HIDE DEF a
    <3>2. QED
      BY <1>1, <3>1
  <2>4. QED
    BY <2>2, <2>3
<1>2. QED
  <2>. HIDE DEF Good
  <2>1. SUBSET S \subseteq Good
    BY <1>1, SubsetInduction
  <2>2. QED
    BY <2>1 DEF Good

LEMMA SumWithout ==
  ASSUME NEW S, IsFiniteSet(S), NEW f, \A k \in S : f[k] \in Int, NEW k \in S
  PROVE  SumOf(f, S) = f[k] + SumOf(f, S \ {k})
<1>. DEFINE Taken(T) == \A x \in T : SumOf(f, T) = f[x] + SumOf(f, T \ {x})
            Good == {T \in SUBSET S : Taken(T)}
<1>1. ASSUME NEW T \in SUBSET S, \A x \in T : T \ {x} \in Good PROVE T \in Good
  <2>1. IsFiniteSet(T)
    BY FS_Subset
  <2>. DEFINE a == Any(T)
  <2>2. SUFFICES ASSUME NEW x \in T, x # a PROVE SumOf(f, T) = f[x] + SumOf(f, T \ {x})
    BY <2>1, SumOfRest
  <2>3. a \in T /\ SumOf(f, T) = f[a] + SumOf(f, T \ {a})
    BY <2>1, SumOfRest
  <2>. HIDE DEF a
  <2>4. \A y \in T : Taken(T \ {y}) /\ f[y] \in Int
    BY <1>1
  <2>5. x \in T \ {a} /\ a \in T \ {x} /\ (T \ {a}) \ {x} = (T \ {x}) \ {a}
    BY <2>2, <2>3
  <2>6. SumOf(f, T \ {a}) = f[x] + SumOf(f, (T \ {a}) \ {x})
    BY <2>3, <2>4, <2>5
  <2>7. SumOf(f, T \ {x}) = f[a] + SumOf(f, (T \ {x}) \ {a})
    BY <2>2, <2>4, <2>5
  <2>8. SumOf(f, (T \ {x}) \ {a}) \in Int
    <3>1. IsFiniteSet((T \ {x}) \ {a}) /\ (T \ {x}) \ {a} \subseteq S
      BY <2>1, FS_RemoveElement
    <3>2. QED
      BY <3>1, SumInteger
  <2>. DEFINE z == SumOf(f, (T \ {x}) \ {a})
  <2>9. /\ f[x] \in Int /\ f[a] \in Int /\ z \in Int
        /\ SumOf(f, T) = f[a] + (f[x] + z) /\ SumOf(f, T \ {x}) = f[a] + z
    BY <2>2, <2>3, <2>4, <2>5, <2>6, <2>7, <2>8
  <2>. HIDE DEF z
  <2>10. QED
    BY <2>9
<1>2. QED
  <2>. HIDE DEF Good
  <2>1. SUBSET S \subseteq Good
    BY <1>1, SubsetInduction
  <2>2. QED
    BY <2>1 DEF Good

(* Terms that come to the same, one by one: what is not in A adds nothing.   *)
LEMMA SumCombined ==
  ASSUME NEW S, IsFiniteSet(S), NEW u \in Int, NEW f, NEW g, NEW h,
         \A k \in S : f[k] \in Int /\ g[k] \in Int /\ h[k] \in Int /\ h[k] = f[k] + u * g[k]
  PROVE  SumOf(h, S) = SumOf(f, S) + u * SumOf(g, S)
<1>. DEFINE Good == {T \in SUBSET S : SumOf(h, T) = SumOf(f, T) + u * SumOf(g, T)}
<1>1. ASSUME NEW T \in SUBSET S, \A x \in T : T \ {x} \in Good PROVE T \in Good
  <2>1. IsFiniteSet(T)
    BY FS_Subset
  <2>2. CASE T = {}
    <3>1. SumOf(f, T) = 0 /\ SumOf(g, T) = 0 /\ SumOf(h, T) = 0
      BY <2>1, <2>2, SumSteps
    <3>2. u * 0 = 0
      OBVIOUS
    <3>3. QED
      BY <3>1, <3>2
  <2>3. CASE T # {}
    <3>. DEFINE a == Any(T)
                R == T \ {a}
    <3>1. a \in T /\ R \in SUBSET S /\ IsFiniteSet(R) /\ R \in Good
      BY <1>1, <2>1, <2>3, SumOfRest
    <3>2. /\ SumOf(h, T) = h[a] + SumOf(h, R) /\ SumOf(f, T) = f[a] + SumOf(f, R)
          /\ SumOf(g, T) = g[a] + SumOf(g, R)
      BY <2>1, <2>3, SumOfRest
    <3>. HIDE DEF a, R
    <3>3. SumOf(f, R) \in Int /\ SumOf(g, R) \in Int
      BY <3>1, SumInteger
    <3>4. \A v, w \in Int : u * (v + w) = u * v + u * w
      OBVIOUS
    <3>5. u * (g[a] + SumOf(g, R)) = u * g[a] + u * SumOf(g, R)
      BY <3>1, <3>3, <3>4
    <3>6. u * SumOf(g, R) \in Int /\ u * g[a] \in Int
      BY <3>1, <3>3
    <3>7. QED
      BY <3>1, <3>2, <3>3, <3>5, <3>6
  <2>4. QED
    BY <2>2, <2>3
<1>2. QED
  <2>. HIDE DEF Good
  <2>1. SUBSET S \subseteq Good
    BY <1>1, SubsetInduction
  <2>2. QED
    BY <2>1 DEF Good

LEMMA SumZero ==
  ASSUME NEW S, IsFiniteSet(S), NEW f, \A k \in S : f[k] = 0
  PROVE  SumOf(f, S) = 0
<1>. DEFINE Good == {T \in SUBSET S : SumOf(f, T) = 0}
<1>1. ASSUME NEW T \in SUBSET S, \A x \in T : T \ {x} \in Good PROVE T \in Good
  <2>1. IsFiniteSet(T)
    BY FS_Subset
  <2>2. CASE T = {}
    BY <2>1, <2>2, SumSteps
  <2>3. CASE T # {}
    <3>. DEFINE a == Any(T)
    <3>1. a \in T /\ SumOf(f, T) = f[a] + SumOf(f, T \ {a})
      BY <2>1, <2>3, SumOfRest
    <3>. HIDE DEF a
    <3>2. f[a] = 0 /\ SumOf(f, T \ {a}) = 0
      BY <1>1, <3>1
    <3>3. QED
      BY <3>1, <3>2
  <2>4. QED
    BY <2>2, <2>3
<1>2. QED
  <2>. HIDE DEF Good
  <2>1. SUBSET S \subseteq Good
    BY <1>1, SubsetInduction
  <2>2. QED
    BY <2>1 DEF Good

-----------------------------------------------------------------------------
(* The elements connected to a bus.                                          *)
On(h, els, b) == {k \in Injected!Selected(els) : Injected!ElementBus(h, els)[k] = b}
OnBus(h, els, b) == {k \in DOMAIN els : els[k].on /\ Injected!Relabel(h, els[k].bus) = b}

LEMMA OnIsOnBus == \A h, els, b : On(h, els, b) = OnBus(h, els, b)
BY DEF On, OnBus, Injected!Selected, Injected!ElementBus

LEMMA ScatterIs ==
  \A h, els, x, b :
    Injected!Scatter(Injected!ElementBus(h, els), Injected!Selected(els), x, b)
      = SumOf(x, OnBus(h, els, b))
<1>1. ASSUME NEW h, NEW els, NEW x, NEW b
      PROVE  Injected!Scatter(Injected!ElementBus(h, els), Injected!Selected(els), x, b)
               = SumOf(x, On(h, els, b))
  BY DEF Injected!Scatter, SumOf, On
<1>2. QED
  BY <1>1, OnIsOnBus

(* What BuildBusInjections() and PyTorch make of one row.                    *)
Gens(h, b) == OnBus(h, h.gens, b)
Loads(h, b) == OnBus(h, h.loads, b)
Base(els) == Injected!BaseOf(els)

Const(h, b) ==
  h.sbus[b] - SumOf(Base(h.gens), Gens(h, b)) + SumOf(Base(h.loads), Loads(h, b))
KeptOf(gp, off) == [k \in DOMAIN gp |-> IF k \in off THEN 0 ELSE gp[k]]
QOffOf(h, gp, off) ==
  [k \in DOMAIN gp |-> IF k \in off /\ ~h.gens[k].vreg THEN h.gens[k].q ELSE 0]

IsRow(h, gp, ld) ==
  /\ DOMAIN gp = DOMAIN h.gens /\ DOMAIN ld = DOMAIN h.loads
  /\ \A k \in DOMAIN gp : gp[k] \in Int
  /\ \A k \in DOMAIN ld : ld[k] \in Int

LEMMA GridFacts ==
  ASSUME NEW h, Injected!IsGrid(h), NEW b
  PROVE  /\ IsFiniteSet(Gens(h, b)) /\ IsFiniteSet(Loads(h, b))
         /\ Gens(h, b) \subseteq DOMAIN h.gens /\ Loads(h, b) \subseteq DOMAIN h.loads
         /\ \A k \in DOMAIN h.gens : h.gens[k] \in Injected!Generator
         /\ \A k \in DOMAIN h.loads : h.loads[k] \in Injected!Load
         /\ \A k \in DOMAIN h.gens : Base(h.gens)[k] \in Int /\ Base(h.gens)[k] = h.gens[k].p
         /\ \A k \in DOMAIN h.loads : Base(h.loads)[k] \in Int /\ Base(h.loads)[k] = h.loads[k].p
         /\ SumOf(Base(h.gens), Gens(h, b)) \in Int /\ SumOf(Base(h.loads), Loads(h, b)) \in Int
<1>1. /\ DOMAIN h.gens = 1 .. Len(h.gens) /\ Len(h.gens) \in Nat
      /\ DOMAIN h.loads = 1 .. Len(h.loads) /\ Len(h.loads) \in Nat
      /\ \A k \in DOMAIN h.gens : h.gens[k] \in Injected!Generator
      /\ \A k \in DOMAIN h.loads : h.loads[k] \in Injected!Load
  BY DEF Injected!IsGrid
<1>2. Gens(h, b) \subseteq DOMAIN h.gens /\ Loads(h, b) \subseteq DOMAIN h.loads
  BY DEF Gens, Loads, OnBus
<1>3. IsFiniteSet(DOMAIN h.gens) /\ IsFiniteSet(DOMAIN h.loads)
  <2>1. \A n \in Nat : IsFiniteSet(1 .. n)
    BY FS_Interval
  <2>2. QED
    BY <1>1, <2>1
<1>4. IsFiniteSet(Gens(h, b)) /\ IsFiniteSet(Loads(h, b))
  BY <1>2, <1>3, FS_Subset
<1>5. /\ \A k \in DOMAIN h.gens : Base(h.gens)[k] \in Int /\ Base(h.gens)[k] = h.gens[k].p
      /\ \A k \in DOMAIN h.loads : Base(h.loads)[k] \in Int /\ Base(h.loads)[k] = h.loads[k].p
  <2>1. /\ \A k \in DOMAIN h.gens : Base(h.gens)[k] = h.gens[k].p
        /\ \A k \in DOMAIN h.loads : Base(h.loads)[k] = h.loads[k].p
    BY DEF Base, Injected!BaseOf
  <2>2. \A x \in Injected!Generator : x.p \in Int
    BY DEF Injected!Generator
  <2>3. \A x \in Injected!Load : x.p \in Int
    BY DEF Injected!Load
  <2>4. QED
    BY <1>1, <2>1, <2>2, <2>3
<1>6. SumOf(Base(h.gens), Gens(h, b)) \in Int /\ SumOf(Base(h.loads), Loads(h, b)) \in Int
  BY <1>2, <1>4, <1>5, SumInteger
<1>7. QED
  BY <1>1, <1>2, <1>4, <1>5, <1>6

LEMMA ConstMwIs == \A h, b : Injected!ConstMw(h, b) = Const(h, b)
BY ScatterIs DEF Injected!ConstMw, Const, Base, Gens, Loads

LEMMA BuiltRow ==
  ASSUME NEW h, NEW e, NEW off, NEW r \in DOMAIN e.gen_p, NEW b \in Injected!Buses(h),
         IsRow(h, e.gen_p[r], e.load[r])
  PROVE  Injected!BuildBusInjections(Injected!InjectionElements(h), e, off)[r][b]
           = Const(h, b) + SumOf(KeptOf(e.gen_p[r], off[r]), Gens(h, b))
               - ImaginaryUnit * SumOf(QOffOf(h, e.gen_p[r], off[r]), Gens(h, b))
               - SumOf(e.load[r], Loads(h, b))
<1>. DEFINE el == Injected!InjectionElements(h)
            gp == e.gen_p[r]
            q == [k \in DOMAIN KeptOf(gp, off[r]) |->
                   IF k \in off[r] /\ ~el.gen_vreg_on[k] THEN el.gen_target_q_mvar[k] ELSE 0]
<1>1. /\ el.buses = Injected!Buses(h) /\ el.const_mw = [c \in Injected!Buses(h) |-> Injected!ConstMw(h, c)]
      /\ el.scatter_gen = Injected!ElementBus(h, h.gens) /\ el.gen_sel = Injected!Selected(h.gens)
      /\ el.scatter_load = Injected!ElementBus(h, h.loads) /\ el.load_sel = Injected!Selected(h.loads)
      /\ el.gen_vreg_on = [k \in DOMAIN h.gens |-> h.gens[k].vreg]
      /\ el.gen_target_q_mvar = [k \in DOMAIN h.gens |-> h.gens[k].q]
  BY DEF Injected!InjectionElements
<1>2. q = QOffOf(h, gp, off[r])
  <2>1. DOMAIN KeptOf(gp, off[r]) = DOMAIN gp /\ DOMAIN gp = DOMAIN h.gens
    BY DEF KeptOf, IsRow
  <2>. HIDE DEF el
  <2>2. QED
    BY <1>1, <2>1 DEF QOffOf
<1>3. Injected!BuildBusInjections(el, e, off)[r][b]
        = el.const_mw[b] + Injected!Scatter(el.scatter_gen, el.gen_sel, KeptOf(gp, off[r]), b)
            - ImaginaryUnit * Injected!Scatter(el.scatter_gen, el.gen_sel, q, b)
            - Injected!Scatter(el.scatter_load, el.load_sel, e.load[r], b)
  <2>1. b \in el.buses
    BY <1>1
  <2>. HIDE DEF el
  <2>2. QED
    BY <2>1 DEF Injected!BuildBusInjections, KeptOf
<1>. HIDE DEF el, q
<1>4. QED
  BY <1>1, <1>2, <1>3, ScatterIs, ConstMwIs DEF Gens, Loads, el

(* index_add() adds to each entry of a row what the elements there come to. *)
Added(row, index, x, s) ==
  [b \in DOMAIN row |-> row[b] + SumOf(x, {k \in s : index[k] = b})]
AddStep(it, row, index, x, s) ==
  IF s = {} THEN row ELSE [it[s \ {Any(s)}] EXCEPT ![index[Any(s)]] = @ + x[Any(s)]]
IndexAdds(it, row, index, x) ==
  it = [s \in SUBSET DOMAIN index |-> AddStep(it, row, index, x, s)]

LEMMA IndexAddUnfolds ==
  \A row, index, x :
    Injected!IndexAdd(row, index, x) = (CHOOSE it : IndexAdds(it, row, index, x))[DOMAIN index]
<1>1. ASSUME NEW row, NEW index, NEW x
      PROVE  Injected!IndexAdd(row, index, x)
               = (CHOOSE it : IndexAdds(it, row, index, x))[DOMAIN index]
  BY DEF Injected!IndexAdd, Injected!FoldSet, Injected!MapThenFoldSet, IndexAdds, AddStep, Any
<1>2. QED
  BY <1>1

(* Integers to add to the entries of a row of integers.                      *)
Addable(row, index, x) ==
  /\ row = [b \in DOMAIN row |-> row[b]] /\ \A b \in DOMAIN row : row[b] \in Int
  /\ \A k \in DOMAIN index : index[k] \in DOMAIN row /\ x[k] \in Int

LEMMA AddedSteps ==
  ASSUME NEW row, NEW index, NEW x, Addable(row, index, x),
         NEW s \in SUBSET DOMAIN index, IsFiniteSet(s),
         NEW it, s # {} => it[s \ {Any(s)}] = Added(row, index, x, s \ {Any(s)})
  PROVE  Added(row, index, x, s) = AddStep(it, row, index, x, s)
<1>. USE DEF Addable
<1>. DEFINE T(b) == {k \in s : index[k] = b}
<1>1. \A b : IsFiniteSet(T(b)) /\ T(b) \subseteq DOMAIN index
  BY FS_Subset
<1>2. CASE s = {}
  <2>1. \A b : T(b) = {} /\ SumOf(x, T(b)) = 0
    BY <1>1, <1>2, SumSteps
  <2>2. Added(row, index, x, s) = [b \in DOMAIN row |-> row[b] + 0]
    BY <2>1 DEF Added
  <2>3. \A b \in DOMAIN row : row[b] + 0 = row[b]
    OBVIOUS
  <2>4. QED
    BY <1>2, <2>2, <2>3 DEF AddStep
<1>3. CASE s # {}
  <2>. DEFINE a == Any(s)
              R(b) == {k \in s \ {a} : index[k] = b}
  <2>1. a \in s /\ index[a] \in DOMAIN row /\ x[a] \in Int
    BY <1>3, AnyOf
  <2>. HIDE DEF a
  <2>2. \A b : index[a] # b => T(b) = R(b)
    OBVIOUS
  <2>3. T(index[a]) \ {a} = R(index[a]) /\ a \in T(index[a])
    BY <2>1
  <2>4. SumOf(x, T(index[a])) = x[a] + SumOf(x, R(index[a]))
    <3>. DEFINE U == T(index[a])
    <3>1. IsFiniteSet(U) /\ a \in U /\ \A k \in U : x[k] \in Int
      BY <1>1, <2>3
    <3>2. U \ {a} = R(index[a])
      BY <2>3
    <3>. HIDE DEF U, T, R
    <3>3. SumOf(x, U) = x[a] + SumOf(x, U \ {a})
      BY <3>1, SumWithout
    <3>4. QED
      BY <3>2, <3>3 DEF U
  <2>5. SumOf(x, R(index[a])) \in Int
    <3>1. IsFiniteSet(R(index[a])) /\ \A k \in R(index[a]) : x[k] \in Int
      BY <1>1, FS_Subset
    <3>2. QED
      BY <3>1, SumInteger
  <2>6. Added(row, index, x, s \ {a}) = [b \in DOMAIN row |-> row[b] + SumOf(x, R(b))]
    BY DEF Added
  <2>7. Added(row, index, x, s) = [b \in DOMAIN row |-> row[b] + SumOf(x, T(b))]
    BY DEF Added
  <2>8. \A b \in DOMAIN row :
          row[b] + SumOf(x, T(b))
            = IF b = index[a] THEN (row[b] + SumOf(x, R(b))) + x[a] ELSE row[b] + SumOf(x, R(b))
    <3>. HIDE DEF T, R
    <3>1. ASSUME NEW b \in DOMAIN row
          PROVE  row[b] + SumOf(x, T(b))
                   = IF b = index[a] THEN (row[b] + SumOf(x, R(b))) + x[a] ELSE row[b] + SumOf(x, R(b))
      <4>1. CASE b = index[a]
        <5>. DEFINE z == SumOf(x, R(index[a]))
        <5>1. z \in Int /\ SumOf(x, T(b)) = x[a] + z /\ row[b] \in Int
          BY <2>4, <2>5, <4>1
        <5>. HIDE DEF z
        <5>2. row[b] + SumOf(x, T(b)) = (row[b] + z) + x[a]
          BY <2>1, <5>1
        <5>3. QED
          BY <4>1, <5>2 DEF z
      <4>2. CASE b # index[a]
        BY <2>2, <4>2
      <4>3. QED
        BY <4>1, <4>2
    <3>2. QED
      BY <3>1
  <2>9. QED
    <3>. DEFINE less == [b \in DOMAIN row |-> row[b] + SumOf(x, R(b))]
                more == [b \in DOMAIN row |-> row[b] + SumOf(x, T(b))]
    <3>1. /\ DOMAIN less = DOMAIN row /\ DOMAIN more = DOMAIN row
          /\ less = [b \in DOMAIN less |-> less[b]] /\ more = [b \in DOMAIN more |-> more[b]]
          /\ \A b \in DOMAIN row : more[b] = IF b = index[a] THEN less[b] + x[a] ELSE less[b]
      BY <2>8
    <3>. HIDE DEF less, more
    <3>2. more = [less EXCEPT ![index[a]] = @ + x[a]]
      BY <2>1, <3>1
    <3>3. QED
      BY <1>3, <2>6, <2>7, <3>2 DEF less, more, a, AddStep
<1>4. QED
  BY <1>2, <1>3

LEMMA IndexAddIs ==
  ASSUME NEW row, NEW index, NEW x, Addable(row, index, x), IsFiniteSet(DOMAIN index)
  PROVE  Injected!IndexAdd(row, index, x) = Added(row, index, x, DOMAIN index)
<1>. DEFINE closed == [s \in SUBSET DOMAIN index |-> Added(row, index, x, s)]
            it == CHOOSE it : IndexAdds(it, row, index, x)
            Good == {T \in SUBSET DOMAIN index : it[T] = Added(row, index, x, T)}
<1>1. \A s \in SUBSET DOMAIN index : IsFiniteSet(s)
  BY FS_Subset
<1>2. \A g : \A s \in SUBSET DOMAIN index :
        (s # {} => g[s \ {Any(s)}] = Added(row, index, x, s \ {Any(s)}))
          => Added(row, index, x, s) = AddStep(g, row, index, x, s)
  <2>. HIDE DEF closed, it, Good
  <2>1. QED
    BY <1>1, AddedSteps
<1>3. \A s \in SUBSET DOMAIN index : Added(row, index, x, s) = AddStep(closed, row, index, x, s)
  <2>1. \A s \in SUBSET DOMAIN index : closed[s \ {Any(s)}] = Added(row, index, x, s \ {Any(s)})
    OBVIOUS
  <2>. HIDE DEF closed
  <2>2. QED
    BY <1>2, <2>1
<1>4. IndexAdds(closed, row, index, x)
  <2>1. \A B, g : (\A s \in B : Added(row, index, x, s) = AddStep(g, row, index, x, s))
          => [s \in B |-> Added(row, index, x, s)] = [s \in B |-> AddStep(g, row, index, x, s)]
    OBVIOUS
  <2>2. closed = [s \in SUBSET DOMAIN index |-> AddStep(closed, row, index, x, s)]
    BY <1>3, <2>1
  <2>3. QED
    BY <2>2 DEF IndexAdds
<1>5. IndexAdds(it, row, index, x)
  <2>. HIDE DEF closed
  <2>1. QED
    BY <1>4
<1>. HIDE DEF it
<1>6. ASSUME NEW T \in SUBSET DOMAIN index, \A y \in T : T \ {y} \in Good PROVE T \in Good
  <2>1. it[T] = AddStep(it, row, index, x, T)
    BY <1>5 DEF IndexAdds
  <2>2. T # {} => it[T \ {Any(T)}] = Added(row, index, x, T \ {Any(T)})
    BY <1>6, AnyOf
  <2>3. it[T] = Added(row, index, x, T)
    BY <1>2, <2>1, <2>2
  <2>4. QED
    BY <2>3
<1>7. SUBSET DOMAIN index \subseteq Good
  <2>. DEFINE D == DOMAIN index
  <2>1. \A T \in SUBSET D : (\A y \in T : T \ {y} \in Good) => T \in Good
    BY <1>6
  <2>2. IsFiniteSet(D)
    OBVIOUS
  <2>. HIDE DEF Good, D
  <2>3. SUBSET D \subseteq Good
    BY <2>1, <2>2, SubsetInduction
  <2>4. QED
    BY <2>3 DEF D
<1>8. it[DOMAIN index] = Added(row, index, x, DOMAIN index)
  BY <1>7
<1>9. QED
  BY <1>8, IndexAddUnfolds DEF it

(* What a row holds at a bus, however it is built.                           *)
RowAt(h, gp, ld, off, b) ==
  Const(h, b) + SumOf(KeptOf(gp, off), Gens(h, b))
    - ImaginaryUnit * SumOf(QOffOf(h, gp, off), Gens(h, b)) - SumOf(ld, Loads(h, b))
RowOf(h, gp, ld, off) == [b \in Injected!Buses(h) |-> RowAt(h, gp, ld, off, b)]

(* The row that PyTorch builds, from the elements of the grid h.             *)
LostOf(h, gp, off) ==
  [k \in DOMAIN gp |->
    IF k \in off THEN -ImaginaryUnit * Injected!GenQOff(Injected!InjectionElements(h))[k] ELSE 0]
DrawnOf(ld) == [k \in DOMAIN ld |-> -ld[k]]
GenIndex(h) == [k \in Injected!Selected(h.gens) |-> Injected!BusOut(h, h.gens)[k]]
LoadIndex(h) == [k \in Injected!Selected(h.loads) |-> Injected!BusOut(h, h.loads)[k]]
ConstRow(h) == [b \in Injected!Buses(h) |-> Injected!ConstMw(h, b)]
DeviceRow(h, gp, ld, off) ==
  Injected!IndexAdd(
    Injected!IndexAdd(
      Injected!IndexAdd(ConstRow(h), GenIndex(h), LostOf(h, gp, off)), GenIndex(h), KeptOf(gp, off)),
    LoadIndex(h), DrawnOf(ld))

(* Terms of a row are integers.                                              *)
LEMMA TermsOf ==
  ASSUME NEW h, Injected!IsGrid(h), NEW gp, NEW ld, IsRow(h, gp, ld), NEW off, NEW b
  PROVE  /\ \A k \in Gens(h, b) : /\ KeptOf(gp, off)[k] \in Int
                                  /\ KeptOf(gp, off)[k] = IF k \in off THEN 0 ELSE gp[k]
                                  /\ QOffOf(h, gp, off)[k] \in Int
                                  /\ QOffOf(h, gp, off)[k]
                                       = IF k \in off /\ ~h.gens[k].vreg THEN h.gens[k].q ELSE 0
                                  /\ gp[k] \in Int
         /\ \A k \in Loads(h, b) : ld[k] \in Int
         /\ SumOf(KeptOf(gp, off), Gens(h, b)) \in Int /\ SumOf(QOffOf(h, gp, off), Gens(h, b)) \in Int
         /\ SumOf(gp, Gens(h, b)) \in Int /\ SumOf(ld, Loads(h, b)) \in Int
<1>1. \A k \in Gens(h, b) : k \in DOMAIN gp /\ gp[k] \in Int /\ h.gens[k] \in Injected!Generator
  BY GridFacts DEF IsRow
<1>2. \A k \in Loads(h, b) : ld[k] \in Int
  BY GridFacts DEF IsRow
<1>3. \A k \in Gens(h, b) : h.gens[k].q \in Int
  BY <1>1 DEF Injected!Generator
<1>4. \A k \in Gens(h, b) : /\ KeptOf(gp, off)[k] = IF k \in off THEN 0 ELSE gp[k]
                            /\ QOffOf(h, gp, off)[k]
                                 = IF k \in off /\ ~h.gens[k].vreg THEN h.gens[k].q ELSE 0
  BY <1>1 DEF KeptOf, QOffOf
<1>5. \A k \in Gens(h, b) : KeptOf(gp, off)[k] \in Int /\ QOffOf(h, gp, off)[k] \in Int
  BY <1>1, <1>3, <1>4
<1>6. IsFiniteSet(Gens(h, b)) /\ IsFiniteSet(Loads(h, b))
  BY GridFacts
<1>7. QED
  BY <1>1, <1>2, <1>4, <1>5, <1>6, SumInteger

LEMMA IndexOf ==
  ASSUME NEW h, Injected!IsGrid(h), Injected!Buildable(h)
  PROVE  /\ IsFiniteSet(DOMAIN GenIndex(h)) /\ IsFiniteSet(DOMAIN LoadIndex(h))
         /\ DOMAIN GenIndex(h) \subseteq DOMAIN h.gens /\ DOMAIN LoadIndex(h) \subseteq DOMAIN h.loads
         /\ \A k \in DOMAIN GenIndex(h) : GenIndex(h)[k] \in Injected!Buses(h)
         /\ \A k \in DOMAIN LoadIndex(h) : LoadIndex(h)[k] \in Injected!Buses(h)
         /\ \A b : {k \in DOMAIN GenIndex(h) : GenIndex(h)[k] = b} = Gens(h, b)
         /\ \A b : {k \in DOMAIN LoadIndex(h) : LoadIndex(h)[k] = b} = Loads(h, b)
<1>1. /\ DOMAIN GenIndex(h) = {k \in DOMAIN h.gens : h.gens[k].on}
      /\ DOMAIN LoadIndex(h) = {k \in DOMAIN h.loads : h.loads[k].on}
      /\ \A k \in DOMAIN GenIndex(h) : GenIndex(h)[k] = Injected!Relabel(h, h.gens[k].bus)
      /\ \A k \in DOMAIN LoadIndex(h) : LoadIndex(h)[k] = Injected!Relabel(h, h.loads[k].bus)
  BY DEF GenIndex, LoadIndex, Injected!Selected, Injected!BusOut
<1>2. IsFiniteSet(DOMAIN h.gens) /\ IsFiniteSet(DOMAIN h.loads)
  <2>1. /\ DOMAIN h.gens = 1 .. Len(h.gens) /\ Len(h.gens) \in Nat
        /\ DOMAIN h.loads = 1 .. Len(h.loads) /\ Len(h.loads) \in Nat
    BY DEF Injected!IsGrid
  <2>2. \A n \in Nat : IsFiniteSet(1 .. n)
    BY FS_Interval
  <2>3. QED
    BY <2>1, <2>2
<1>3. IsFiniteSet(DOMAIN GenIndex(h)) /\ IsFiniteSet(DOMAIN LoadIndex(h))
  BY <1>1, <1>2, FS_Subset
<1>4. /\ \A k \in DOMAIN GenIndex(h) : GenIndex(h)[k] \in Injected!Buses(h)
      /\ \A k \in DOMAIN LoadIndex(h) : LoadIndex(h)[k] \in Injected!Buses(h)
  BY <1>1 DEF Injected!Buildable
<1>5. \A b : {k \in DOMAIN GenIndex(h) : GenIndex(h)[k] = b} = Gens(h, b)
  BY <1>1 DEF Gens, OnBus
<1>6. \A b : {k \in DOMAIN LoadIndex(h) : LoadIndex(h)[k] = b} = Loads(h, b)
  BY <1>1 DEF Loads, OnBus
<1>7. QED
  BY <1>1, <1>3, <1>4, <1>5, <1>6

(* One index_add() over the generators or the loads.                         *)
AddedOn(D, row, index, x) ==
  [b \in D |-> row[b] + SumOf(x, {k \in DOMAIN index : index[k] = b})]
LEMMA OneAdd ==
  ASSUME NEW D, NEW row, row = [b \in D |-> row[b]], \A b \in D : row[b] \in Int,
         NEW index, IsFiniteSet(DOMAIN index), NEW x,
         \A k \in DOMAIN index : index[k] \in D /\ x[k] \in Int
  PROVE  Injected!IndexAdd(row, index, x) = AddedOn(D, row, index, x)
<1>1. DOMAIN row = D
  OBVIOUS
<1>2. Addable(row, index, x)
  BY <1>1 DEF Addable
<1>3. Injected!IndexAdd(row, index, x) = Added(row, index, x, DOMAIN index)
  BY <1>2, IndexAddIs
<1>4. Added(row, index, x, DOMAIN index) = AddedOn(D, row, index, x)
  BY <1>1 DEF Added, AddedOn
<1>5. QED
  BY <1>3, <1>4

LEMMA ConstInteger ==
  ASSUME NEW h, Injected!IsGrid(h), Injected!Buildable(h), NEW b \in Injected!Buses(h)
  PROVE  Const(h, b) \in Int /\ h.sbus[b] \in Int
<1>1. h.sbus[b] \in Int
  BY DEF Injected!IsGrid, Injected!Buildable
<1>2. QED
  BY <1>1, GridFacts DEF Const

(* PyTorch builds the row that numpy builds.                                 *)
LEMMA DeviceRowIs ==
  ASSUME NEW h, Injected!IsGrid(h), Injected!Buildable(h),
         NEW gp, NEW ld, IsRow(h, gp, ld), NEW off, ImaginaryUnit \in Int
  PROVE  DeviceRow(h, gp, ld, off) = RowOf(h, gp, ld, off)
<1>. DEFINE D == Injected!Buses(h)
            lost == LostOf(h, gp, off)
            kept == KeptOf(gp, off)
            drawn == DrawnOf(ld)
            v0 == [b \in D |-> Const(h, b)]
            v1 == [b \in D |-> v0[b] + SumOf(lost, Gens(h, b))]
            v2 == [b \in D |-> v1[b] + SumOf(kept, Gens(h, b))]
            v3 == [b \in D |-> v2[b] + SumOf(drawn, Loads(h, b))]
<1>1. \A b \in D : /\ IsFiniteSet(Gens(h, b)) /\ IsFiniteSet(Loads(h, b))
                   /\ Const(h, b) \in Int
  BY GridFacts, ConstInteger
<1>2. \A k \in DOMAIN h.gens : lost[k] = -(ImaginaryUnit * QOffOf(h, gp, off)[k]) /\ lost[k] \in Int
                               /\ kept[k] \in Int /\ QOffOf(h, gp, off)[k] \in Int
  <2>1. ASSUME NEW k \in DOMAIN h.gens
        PROVE  lost[k] = -(ImaginaryUnit * QOffOf(h, gp, off)[k]) /\ lost[k] \in Int
               /\ kept[k] \in Int /\ QOffOf(h, gp, off)[k] \in Int
    <3>1. k \in DOMAIN gp /\ gp[k] \in Int
      BY DEF IsRow
    <3>2. h.gens[k].q \in Int /\ h.gens[k].vreg \in BOOLEAN
      BY GridFacts DEF Injected!Generator
    <3>3. Injected!GenQOff(Injected!InjectionElements(h))[k]
            = IF h.gens[k].vreg THEN 0 ELSE h.gens[k].q
      BY DEF Injected!GenQOff, Injected!InjectionElements
    <3>4. lost[k] = IF k \in off THEN -(ImaginaryUnit * (IF h.gens[k].vreg THEN 0 ELSE h.gens[k].q)) ELSE 0
      BY <3>1, <3>3 DEF LostOf
    <3>5. QOffOf(h, gp, off)[k] = IF k \in off /\ ~h.gens[k].vreg THEN h.gens[k].q ELSE 0
      BY <3>1 DEF QOffOf
    <3>6. kept[k] = IF k \in off THEN 0 ELSE gp[k]
      BY <3>1 DEF KeptOf
    <3>. HIDE DEF lost, kept
    <3>7. ImaginaryUnit * 0 = 0
      OBVIOUS
    <3>8. QED
      BY <3>1, <3>2, <3>4, <3>5, <3>6, <3>7
  <2>2. QED
    BY <2>1
<1>3. \A k \in DOMAIN h.loads : drawn[k] = -ld[k] /\ drawn[k] \in Int /\ ld[k] \in Int
  BY DEF IsRow, DrawnOf
<1>4. \A b : /\ \A k \in Gens(h, b) : k \in DOMAIN h.gens
             /\ \A k \in Loads(h, b) : k \in DOMAIN h.loads
  BY GridFacts
<1>. HIDE DEF lost, kept, drawn
<1>5. \A b \in D : /\ SumOf(lost, Gens(h, b)) \in Int /\ SumOf(kept, Gens(h, b)) \in Int
                   /\ SumOf(drawn, Loads(h, b)) \in Int
  BY <1>1, <1>2, <1>3, <1>4, SumInteger
<1>6. \A b \in D : SumOf(lost, Gens(h, b))
                     = -(ImaginaryUnit * SumOf(QOffOf(h, gp, off), Gens(h, b)))
  <2>1. ASSUME NEW b \in D
        PROVE  SumOf(lost, Gens(h, b)) = -(ImaginaryUnit * SumOf(QOffOf(h, gp, off), Gens(h, b)))
    <3>. DEFINE G == Gens(h, b)
                q == QOffOf(h, gp, off)
                zero == [k \in G |-> 0]
                U == -ImaginaryUnit
    <3>1. U \in Int /\ IsFiniteSet(G) /\ \A k \in G : k \in DOMAIN h.gens
      BY <1>1, <1>4
    <3>2. \A k \in G : zero[k] = 0
      OBVIOUS
    <3>3. \A w \in Int : U * w = -(ImaginaryUnit * w) /\ 0 + U * w = U * w
      OBVIOUS
    <3>. HIDE DEF G, q, zero, U
    <3>4. \A k \in G : lost[k] = zero[k] + U * q[k] /\ lost[k] \in Int /\ q[k] \in Int /\ zero[k] \in Int
      <4>1. \A k \in G : lost[k] = -(ImaginaryUnit * q[k]) /\ lost[k] \in Int /\ q[k] \in Int
        BY <1>2, <3>1 DEF q
      <4>2. ASSUME NEW k \in G PROVE lost[k] = zero[k] + U * q[k]
        <5>1. U * q[k] = -(ImaginaryUnit * q[k]) /\ 0 + U * q[k] = U * q[k]
          BY <3>3, <4>1
        <5>2. QED
          BY <3>2, <4>1, <5>1
      <4>3. QED
        BY <3>2, <4>1, <4>2
    <3>5. SumOf(lost, G) = SumOf(zero, G) + U * SumOf(q, G)
      BY <3>1, <3>4, SumCombined
    <3>6. SumOf(zero, G) = 0 /\ SumOf(q, G) \in Int
      BY <3>1, <3>2, <3>4, SumZero, SumInteger
    <3>7. SumOf(lost, G) = -(ImaginaryUnit * SumOf(q, G))
      BY <3>3, <3>5, <3>6
    <3>8. QED
      BY <3>7 DEF G, q
  <2>2. QED
    BY <2>1
<1>7. \A b \in D : SumOf(drawn, Loads(h, b)) = -SumOf(ld, Loads(h, b)) /\ SumOf(ld, Loads(h, b)) \in Int
  <2>1. ASSUME NEW b \in D
        PROVE  SumOf(drawn, Loads(h, b)) = -SumOf(ld, Loads(h, b)) /\ SumOf(ld, Loads(h, b)) \in Int
    <3>. DEFINE L == Loads(h, b)
                zero == [k \in L |-> 0]
    <3>1. IsFiniteSet(L) /\ \A k \in L : zero[k] = 0 /\ k \in DOMAIN h.loads
      BY <1>1, <1>4
    <3>. HIDE DEF L, zero
    <3>2. \A k \in L : drawn[k] = zero[k] + (-1) * ld[k] /\ drawn[k] \in Int /\ ld[k] \in Int /\ zero[k] \in Int
      BY <1>3, <3>1
    <3>3. SumOf(drawn, L) = SumOf(zero, L) + (-1) * SumOf(ld, L)
      BY <3>1, <3>2, SumCombined
    <3>4. SumOf(zero, L) = 0 /\ SumOf(ld, L) \in Int
      BY <3>1, <3>2, SumZero, SumInteger
    <3>5. SumOf(drawn, L) = -SumOf(ld, L)
      BY <3>3, <3>4
    <3>6. QED
      BY <3>4, <3>5 DEF L
  <2>2. QED
    BY <2>1
<1>8. /\ \A b \in D : v0[b] \in Int /\ v1[b] \in Int /\ v2[b] \in Int
      /\ \A b \in D : v0[b] = Const(h, b) /\ v1[b] = v0[b] + SumOf(lost, Gens(h, b))
                      /\ v2[b] = v1[b] + SumOf(kept, Gens(h, b))
                      /\ v3[b] = v2[b] + SumOf(drawn, Loads(h, b))
      /\ v0 = [b \in D |-> v0[b]] /\ v1 = [b \in D |-> v1[b]] /\ v2 = [b \in D |-> v2[b]]
  BY <1>1, <1>5
<1>9. /\ v1 = AddedOn(D, v0, GenIndex(h), lost) /\ v2 = AddedOn(D, v1, GenIndex(h), kept)
      /\ v3 = AddedOn(D, v2, LoadIndex(h), drawn)
  BY IndexOf DEF AddedOn
<1>10. ConstRow(h) = v0
  BY ConstMwIs DEF ConstRow
<1>. HIDE DEF v0, v1, v2, v3
<1>11. /\ \A k \in DOMAIN GenIndex(h) : GenIndex(h)[k] \in D /\ lost[k] \in Int /\ kept[k] \in Int
       /\ \A k \in DOMAIN LoadIndex(h) : LoadIndex(h)[k] \in D /\ drawn[k] \in Int
       /\ IsFiniteSet(DOMAIN GenIndex(h)) /\ IsFiniteSet(DOMAIN LoadIndex(h))
  BY <1>2, <1>3, IndexOf
<1>. HIDE DEF D
<1>12. Injected!IndexAdd(v0, GenIndex(h), lost) = v1
  <2>1. /\ v0 = [b \in D |-> v0[b]] /\ \A b \in D : v0[b] \in Int
        /\ IsFiniteSet(DOMAIN GenIndex(h))
        /\ \A k \in DOMAIN GenIndex(h) : GenIndex(h)[k] \in D /\ lost[k] \in Int
    BY <1>8, <1>11
  <2>2. Injected!IndexAdd(v0, GenIndex(h), lost) = AddedOn(D, v0, GenIndex(h), lost)
    BY <2>1, OneAdd
  <2>3. QED
    BY <1>9, <2>2
<1>13. Injected!IndexAdd(v1, GenIndex(h), kept) = v2
  BY <1>8, <1>9, <1>11, OneAdd
<1>14. Injected!IndexAdd(v2, LoadIndex(h), drawn) = v3
  <2>1. /\ v2 = [b \in D |-> v2[b]] /\ \A b \in D : v2[b] \in Int
        /\ IsFiniteSet(DOMAIN LoadIndex(h))
        /\ \A k \in DOMAIN LoadIndex(h) : LoadIndex(h)[k] \in D /\ drawn[k] \in Int
    BY <1>8, <1>11
  <2>2. Injected!IndexAdd(v2, LoadIndex(h), drawn) = AddedOn(D, v2, LoadIndex(h), drawn)
    BY <2>1, OneAdd
  <2>3. QED
    BY <1>9, <2>2
<1>15. DeviceRow(h, gp, ld, off) = v3
  BY <1>10, <1>12, <1>13, <1>14 DEF DeviceRow, lost, kept, drawn
<1>16. \A b \in D : SumOf(QOffOf(h, gp, off), Gens(h, b)) \in Int
  BY <1>1, <1>2, <1>4, SumInteger
<1>17. \A b \in D : v3[b] = RowAt(h, gp, ld, off, b)
  <2>1. ASSUME NEW b \in D PROVE v3[b] = RowAt(h, gp, ld, off, b)
    <3>. DEFINE c == Const(h, b)
                l == SumOf(lost, Gens(h, b))
                k == SumOf(kept, Gens(h, b))
                d == SumOf(drawn, Loads(h, b))
                q == ImaginaryUnit * SumOf(QOffOf(h, gp, off), Gens(h, b))
                w == SumOf(ld, Loads(h, b))
    <3>1. v3[b] = ((c + l) + k) + d /\ l = -q /\ d = -w
      BY <1>6, <1>7, <1>8
    <3>2. c \in Int /\ l \in Int /\ k \in Int /\ d \in Int /\ w \in Int /\ q \in Int
      BY <1>1, <1>5, <1>7, <1>16
    <3>3. RowAt(h, gp, ld, off, b) = c + k - q - w
      BY DEF RowAt, kept
    <3>. HIDE DEF c, l, k, d, q, w
    <3>4. QED
      BY <3>1, <3>2, <3>3
  <2>2. QED
    BY <2>1
<1>18. v3 = [b \in D |-> v3[b]]
  BY DEF v3
<1>19. QED
  <2>1. v3 = [b \in D |-> RowAt(h, gp, ld, off, b)]
    BY <1>17, <1>18
  <2>2. QED
    BY <1>15, <2>1 DEF RowOf, D

(* Inputs that fit the grid h, row by row.                                   *)
FitsGrid(h, e) ==
  /\ e.gen_p \in Seq(Seq(Int)) /\ e.load \in Seq(Seq(Int)) /\ Len(e.gen_p) = Len(e.load)
  /\ e.gen_p # <<>>
  /\ \A r \in DOMAIN e.gen_p : IsRow(h, e.gen_p[r], e.load[r])

LEMMA BuiltRows ==
  ASSUME NEW h, NEW e, NEW off, \A r \in DOMAIN e.gen_p : IsRow(h, e.gen_p[r], e.load[r])
  PROVE  Injected!BuildBusInjections(Injected!InjectionElements(h), e, off)
           = [r \in DOMAIN e.gen_p |-> RowOf(h, e.gen_p[r], e.load[r], off[r])]
<1>. DEFINE el == Injected!InjectionElements(h)
            made == Injected!BuildBusInjections(el, e, off)
<1>1. /\ DOMAIN made = DOMAIN e.gen_p /\ made = [r \in DOMAIN made |-> made[r]]
      /\ \A r \in DOMAIN made : DOMAIN made[r] = el.buses /\ made[r] = [b \in DOMAIN made[r] |-> made[r][b]]
  BY DEF Injected!BuildBusInjections
<1>2. el.buses = Injected!Buses(h)
  BY DEF Injected!InjectionElements
<1>3. \A r \in DOMAIN e.gen_p, b \in Injected!Buses(h) :
        made[r][b] = RowAt(h, e.gen_p[r], e.load[r], off[r], b)
  BY BuiltRow DEF RowAt
<1>. HIDE DEF made, el
<1>4. \A r \in DOMAIN e.gen_p : made[r] = RowOf(h, e.gen_p[r], e.load[r], off[r])
  BY <1>1, <1>2, <1>3 DEF RowOf
<1>5. made = [r \in DOMAIN e.gen_p |-> RowOf(h, e.gen_p[r], e.load[r], off[r])]
  BY <1>1, <1>4
<1>6. QED
  BY <1>5 DEF made, el

LEMMA DeviceRows ==
  ASSUME NEW h, NEW e, NEW off
  PROVE  LET n == IF e.gen_p = <<>> THEN Len(e.load) ELSE Len(e.gen_p)
             gens == Injected!AsInput(e.gen_p, Base(h.gens), n)
             loads == Injected!AsInput(e.load, Base(h.loads), n)
         IN Injected!DeviceInjections(Injected!InjectionElements(h), e, off)
              = [r \in 1 .. n |-> DeviceRow(h, gens[r], loads[r], off[r])]
<1>. DEFINE el == Injected!InjectionElements(h)
            d == Injected!OnDevice(el)
<1>1. d.const = ConstRow(h) /\ d.gen_bus_sel = GenIndex(h) /\ d.load_bus_sel = LoadIndex(h)
      /\ d.q_off = Injected!GenQOff(el)
  <2>1. /\ el.const_mw = ConstRow(h) /\ el.gen_sel = Injected!Selected(h.gens)
        /\ el.load_sel = Injected!Selected(h.loads)
        /\ el.gen_bus = Injected!BusOut(h, h.gens) /\ el.load_bus = Injected!BusOut(h, h.loads)
    BY DEF Injected!InjectionElements, ConstRow
  <2>. HIDE DEF el
  <2>2. /\ d.const = el.const_mw /\ d.gen_bus_sel = [k \in el.gen_sel |-> el.gen_bus[k]]
        /\ d.load_bus_sel = [k \in el.load_sel |-> el.load_bus[k]] /\ d.q_off = Injected!GenQOff(el)
    BY DEF Injected!OnDevice
  <2>. HIDE DEF d
  <2>3. QED
    BY <2>1, <2>2 DEF GenIndex, LoadIndex
<1>2. el.gen_p_base = Base(h.gens) /\ el.load_base = Base(h.loads)
  BY DEF Injected!InjectionElements, Base
<1>. DEFINE n == IF e.gen_p = <<>> THEN Len(e.load) ELSE Len(e.gen_p)
            gens == Injected!AsInput(e.gen_p, el.gen_p_base, n)
            loads == Injected!AsInput(e.load, el.load_base, n)
            lost(r) == [k \in DOMAIN gens[r] |-> IF k \in off[r] THEN -ImaginaryUnit * d.q_off[k] ELSE 0]
            kept(r) == [k \in DOMAIN gens[r] |-> IF k \in off[r] THEN 0 ELSE gens[r][k]]
            drawn(r) == [k \in DOMAIN loads[r] |-> -loads[r][k]]
<1>3. Injected!DeviceInjections(el, e, off)
        = [r \in 1 .. n |->
            Injected!IndexAdd(
              Injected!IndexAdd(Injected!IndexAdd(d.const, d.gen_bus_sel, lost(r)), d.gen_bus_sel, kept(r)),
              d.load_bus_sel, drawn(r))]
  <2>. HIDE DEF el
  <2>1. QED
    BY DEF Injected!DeviceInjections
<1>4. \A r : lost(r) = LostOf(h, gens[r], off[r]) /\ kept(r) = KeptOf(gens[r], off[r])
             /\ drawn(r) = DrawnOf(loads[r])
  <2>. HIDE DEF gens, loads, d
  <2>1. QED
    BY <1>1 DEF LostOf, KeptOf, DrawnOf
<1>. HIDE DEF d, el, lost, kept, drawn, n, gens, loads
<1>5. Injected!DeviceInjections(el, e, off) = [r \in 1 .. n |-> DeviceRow(h, gens[r], loads[r], off[r])]
  BY <1>1, <1>3, <1>4 DEF DeviceRow
<1>6. QED
  BY <1>2, <1>5 DEF el, n, gens, loads

LEMMA DeviceAlike ==
  ASSUME NEW h, Injected!IsGrid(h), Injected!Buildable(h), ImaginaryUnit \in Int,
         NEW e, FitsGrid(h, e), NEW off
  PROVE  Injected!DeviceInjections(Injected!InjectionElements(h), e, off)
           = [r \in DOMAIN e.gen_p |-> RowOf(h, e.gen_p[r], e.load[r], off[r])]
<1>1. e.gen_p # <<>> /\ e.load # <<>> /\ DOMAIN e.gen_p = 1 .. Len(e.gen_p)
  BY DEF FitsGrid
<1>2. Injected!DeviceInjections(Injected!InjectionElements(h), e, off)
        = [r \in 1 .. Len(e.gen_p) |-> DeviceRow(h, e.gen_p[r], e.load[r], off[r])]
  <2>1. /\ Injected!AsInput(e.gen_p, Base(h.gens), Len(e.gen_p)) = e.gen_p
        /\ Injected!AsInput(e.load, Base(h.loads), Len(e.gen_p)) = e.load
    BY <1>1 DEF Injected!AsInput
  <2>2. QED
    BY <1>1, <2>1, DeviceRows
<1>3. \A r \in DOMAIN e.gen_p :
        DeviceRow(h, e.gen_p[r], e.load[r], off[r]) = RowOf(h, e.gen_p[r], e.load[r], off[r])
  BY DeviceRowIs DEF FitsGrid
<1>4. QED
  BY <1>1, <1>2, <1>3

-----------------------------------------------------------------------------
(* The base case.                                                            *)
LEMMA BaseRow ==
  ASSUME NEW h, Injected!IsGrid(h), Injected!Buildable(h), ImaginaryUnit \in Int
  PROVE  RowOf(h, Base(h.gens), Base(h.loads), {}) = h.sbus
<1>. DEFINE gp == Base(h.gens)
            ld == Base(h.loads)
<1>1. IsRow(h, gp, ld)
  BY GridFacts DEF IsRow, Base, Injected!BaseOf
<1>2. ASSUME NEW b \in Injected!Buses(h) PROVE RowAt(h, gp, ld, {}, b) = h.sbus[b]
  <2>. DEFINE G == Gens(h, b)
              L == Loads(h, b)
  <2>1. IsFiniteSet(G) /\ IsFiniteSet(L) /\ SumOf(gp, G) \in Int /\ SumOf(ld, L) \in Int
    BY GridFacts
  <2>2. \A k \in G : KeptOf(gp, {})[k] = gp[k] /\ QOffOf(h, gp, {})[k] = 0
    BY <1>1, TermsOf
  <2>. HIDE DEF G
  <2>3. SumOf(KeptOf(gp, {}), G) = SumOf(gp, G) /\ SumOf(QOffOf(h, gp, {}), G) = 0
    BY <2>1, <2>2, SumAlike, SumZero
  <2>4. h.sbus[b] \in Int
    BY ConstInteger
  <2>5. RowAt(h, gp, ld, {}, b)
          = (h.sbus[b] - SumOf(gp, G) + SumOf(ld, L)) + SumOf(gp, G) - ImaginaryUnit * 0 - SumOf(ld, L)
    BY <2>3 DEF RowAt, Const, G
  <2>6. ImaginaryUnit * 0 = 0
    OBVIOUS
  <2>. HIDE DEF gp, ld, L
  <2>7. QED
    BY <2>1, <2>4, <2>5, <2>6
<1>3. h.sbus = [b \in Injected!Buses(h) |-> h.sbus[b]]
  BY DEF Injected!IsGrid, Injected!Buildable
<1>4. QED
  BY <1>2, <1>3 DEF RowOf

LEMMA BaseBuilt ==
  ASSUME NEW h, Injected!IsGrid(h), Injected!Buildable(h), ImaginaryUnit \in Int,
         NEW case, case.gen_p = <<Base(h.gens)>>, case.load = <<Base(h.loads)>>
  PROVE  Injected!BuildBusInjections(Injected!InjectionElements(h), case, Injected!NoneOff(case))
           = <<h.sbus>>
<1>1. IsRow(h, Base(h.gens), Base(h.loads))
  BY GridFacts DEF IsRow, Base, Injected!BaseOf
<1>2. DOMAIN case.gen_p = {1} /\ case.gen_p[1] = Base(h.gens) /\ case.load[1] = Base(h.loads)
  OBVIOUS
<1>3. Injected!NoneOff(case)[1] = {}
  BY <1>2 DEF Injected!NoneOff
<1>4. Injected!BuildBusInjections(Injected!InjectionElements(h), case, Injected!NoneOff(case))
        = [r \in {1} |-> RowOf(h, case.gen_p[r], case.load[r], Injected!NoneOff(case)[r])]
  BY <1>1, <1>2, BuiltRows
<1>5. RowOf(h, case.gen_p[1], case.load[1], Injected!NoneOff(case)[1]) = h.sbus
  BY <1>2, <1>3, BaseRow
<1>. DEFINE f == [r \in {1} |-> RowOf(h, case.gen_p[r], case.load[r], Injected!NoneOff(case)[r])]
<1>6. DOMAIN f = {1} /\ f[1] = h.sbus /\ f = [r \in DOMAIN f |-> f[r]]
  BY <1>5
<1>. HIDE DEF f
<1>7. f = <<h.sbus>>
  BY <1>6
<1>8. QED
  BY <1>4, <1>7 DEF f

LEMMA BaseOnDevice ==
  ASSUME NEW h, Injected!IsGrid(h), Injected!Buildable(h), ImaginaryUnit \in Int,
         NEW case, case.gen_p = <<>>, case.load = <<Base(h.loads)>>
  PROVE  Injected!DeviceInjections(Injected!InjectionElements(h), case, <<{}>>) = <<h.sbus>>
<1>1. IsRow(h, Base(h.gens), Base(h.loads))
  BY GridFacts DEF IsRow, Base, Injected!BaseOf
<1>. DEFINE gens == Injected!AsInput(case.gen_p, Base(h.gens), 1)
            loads == Injected!AsInput(case.load, Base(h.loads), 1)
<1>2. Len(case.load) = 1 /\ case.load # <<>> /\ 1 .. 1 = {1} /\ gens[1] = Base(h.gens) /\ loads[1] = Base(h.loads)
  BY DEF Injected!AsInput
<1>. HIDE DEF gens, loads
<1>3. Injected!DeviceInjections(Injected!InjectionElements(h), case, <<{}>>)
        = [r \in {1} |-> DeviceRow(h, gens[r], loads[r], <<{}>>[r])]
  BY <1>2, DeviceRows DEF gens, loads
<1>4. DeviceRow(h, gens[1], loads[1], <<{}>>[1]) = h.sbus
  <2>1. <<{}>>[1] = {}
    OBVIOUS
  <2>2. QED
    BY <1>1, <1>2, <2>1, DeviceRowIs, BaseRow
<1>. DEFINE f == [r \in {1} |-> DeviceRow(h, gens[r], loads[r], <<{}>>[r])]
<1>5. DOMAIN f = {1} /\ f[1] = h.sbus /\ f = [r \in DOMAIN f |-> f[r]]
  BY <1>4
<1>. HIDE DEF f
<1>6. f = <<h.sbus>>
  BY <1>5
<1>7. QED
  BY <1>3, <1>6 DEF f

(* A regulation forced on or off changes the flag only.                      *)
LEMMA RegulatingFacts ==
  ASSUME NEW g, Injected!IsGrid(g), Injected!Buildable(g), NEW on
  PROVE  LET h == Injected!Regulating(g, on)
         IN /\ Injected!IsGrid(h) /\ Injected!Buildable(h)
            /\ DOMAIN h.gens = DOMAIN g.gens /\ DOMAIN h.loads = DOMAIN g.loads /\ h.sbus = g.sbus
<1>. DEFINE h == Injected!Regulating(g, on)
            G(k) == [g.gens[k] EXCEPT !.vreg = k \in on]
<1>1. \A k \in DOMAIN g.gens : g.gens[k] \in Injected!Generator
  BY GridFacts
<1>2. \A k \in DOMAIN g.gens : /\ G(k) \in Injected!Generator
                               /\ G(k).on = g.gens[k].on /\ G(k).bus = g.gens[k].bus
  <2>1. ASSUME NEW r \in Injected!Generator, NEW v \in BOOLEAN
        PROVE  /\ [r EXCEPT !.vreg = v] \in Injected!Generator
               /\ [r EXCEPT !.vreg = v].on = r.on /\ [r EXCEPT !.vreg = v].bus = r.bus
    BY DEF Injected!Generator
  <2>2. \A k : (k \in on) \in BOOLEAN
    OBVIOUS
  <2>3. QED
    BY <1>1, <2>1, <2>2
<1>. HIDE DEF G
<1>3. h = [g EXCEPT !.gens = [k \in DOMAIN g.gens |-> G(k)]]
  BY DEF Injected!Regulating, G
<1>. HIDE DEF h
<1>4. /\ DOMAIN h = DOMAIN g /\ h.gens = [k \in DOMAIN g.gens |-> G(k)] /\ h.loads = g.loads
      /\ h.sbus = g.sbus /\ h.toSolver = g.toSolver /\ h.buses = g.buses
  BY <1>3 DEF Injected!IsGrid
<1>5. DOMAIN g.gens = 1 .. Len(g.gens) /\ Len(g.gens) \in Nat
  BY DEF Injected!IsGrid
<1>6. h.gens \in Seq(Injected!Generator) /\ DOMAIN h.gens = DOMAIN g.gens
  BY <1>2, <1>4, <1>5
<1>7. Injected!IsGrid(h)
  BY <1>4, <1>6 DEF Injected!IsGrid
<1>8. Injected!Buses(h) = Injected!Buses(g) /\ \A id : Injected!Relabel(h, id) = Injected!Relabel(g, id)
  BY <1>4 DEF Injected!Buses, Injected!Relabel
<1>9. Injected!Buildable(h)
  <2>1. DOMAIN h.sbus = Injected!Buses(h)
    BY <1>4, <1>8 DEF Injected!Buildable
  <2>2. /\ \A k \in DOMAIN h.gens : h.gens[k].on => Injected!Relabel(h, h.gens[k].bus) \in Injected!Buses(h)
        /\ \A k \in DOMAIN h.loads : h.loads[k].on => Injected!Relabel(h, h.loads[k].bus) \in Injected!Buses(h)
    BY <1>2, <1>4, <1>8 DEF Injected!Buildable
  <2>3. QED
    BY <2>1, <2>2 DEF Injected!Buildable
<1>10. QED
  BY <1>4, <1>6, <1>7, <1>9 DEF h

(* The grid without generator k: what it takes along at its bus.             *)
TakenBy(h, k) == h.gens[k].p + (IF h.gens[k].vreg THEN 0 ELSE ImaginaryUnit * h.gens[k].q)

LEMMA WithoutFields ==
  ASSUME NEW h, Injected!IsGrid(h), Injected!Buildable(h), ImaginaryUnit \in Int,
         NEW k \in DOMAIN h.gens, NEW w, w = Injected!Without(h, k)
  PROVE  /\ Injected!IsGrid(w) /\ DOMAIN w.gens = DOMAIN h.gens /\ w.loads = h.loads
         /\ w.toSolver = h.toSolver /\ w.buses = h.buses /\ DOMAIN w.sbus = DOMAIN h.sbus
         /\ \A j \in DOMAIN h.gens :
              /\ (w.gens[j].on <=> (h.gens[j].on /\ j # k)) /\ w.gens[j].bus = h.gens[j].bus
              /\ w.gens[j].p = h.gens[j].p /\ w.gens[j].q = h.gens[j].q
              /\ w.gens[j].vreg = h.gens[j].vreg
         /\ \A b \in DOMAIN h.sbus :
              w.sbus[b] = h.sbus[b] - IF k \in Gens(h, b) THEN TakenBy(h, k) ELSE 0
<1>. DEFINE at == Injected!Relabel(h, h.gens[k].bus)
<1>1. \A j \in DOMAIN h.gens : h.gens[j] \in Injected!Generator
  BY GridFacts
<1>2. \A b \in DOMAIN h.sbus : h.sbus[b] \in Int
  BY DEF Injected!IsGrid
<1>3. \A b : k \in Gens(h, b) <=> (h.gens[k].on /\ at = b)
  BY DEF Gens, OnBus
<1>4. CASE ~h.gens[k].on
  <2>1. w = h
    BY <1>4 DEF Injected!Without
  <2>2. \A j \in DOMAIN h.gens : (h.gens[j].on <=> (h.gens[j].on /\ j # k))
    <3>1. \A j \in DOMAIN h.gens : h.gens[j].on \in BOOLEAN
      BY <1>1 DEF Injected!Generator
    <3>2. QED
      BY <1>4, <3>1
  <2>3. \A b \in DOMAIN h.sbus : h.sbus[b] = h.sbus[b] - IF k \in Gens(h, b) THEN TakenBy(h, k) ELSE 0
    BY <1>2, <1>3, <1>4
  <2>4. QED
    BY <2>1, <2>2, <2>3
<1>5. CASE h.gens[k].on
  <2>. DEFINE lost == TakenBy(h, k)
  <2>1. w = [h EXCEPT !.gens[k].on = FALSE, !.sbus[at] = @ - lost]
    BY <1>5 DEF Injected!Without, TakenBy
  <2>2. lost \in Int
    <3>1. h.gens[k].p \in Int /\ h.gens[k].q \in Int
      BY <1>1 DEF Injected!Generator
    <3>2. ImaginaryUnit * h.gens[k].q \in Int
      BY <3>1
    <3>3. QED
      BY <3>1, <3>2 DEF TakenBy
  <2>3. at \in DOMAIN h.sbus
    BY <1>5 DEF Injected!Buildable
  <2>. HIDE DEF lost, at
  <2>. DEFINE off == [h.gens[k] EXCEPT !.on = FALSE]
              gens == [h.gens EXCEPT ![k] = off]
              sbus == [h.sbus EXCEPT ![at] = @ - lost]
  <2>4. "gens" \in DOMAIN h /\ "sbus" \in DOMAIN h
    BY DEF Injected!IsGrid
  <2>5. gens = [h.gens EXCEPT ![k].on = FALSE]
    OBVIOUS
  <2>6. w = [[h EXCEPT !.gens = gens] EXCEPT !.sbus = sbus]
    BY <2>1, <2>4
  <2>7. off \in Injected!Generator /\ off.on = FALSE /\ off.bus = h.gens[k].bus /\ off.p = h.gens[k].p
        /\ off.q = h.gens[k].q /\ off.vreg = h.gens[k].vreg
    BY <1>1 DEF Injected!Generator
  <2>. HIDE DEF off
  <2>8. /\ gens \in Seq(Injected!Generator) /\ DOMAIN gens = DOMAIN h.gens
        /\ \A j \in DOMAIN h.gens : gens[j] = IF j = k THEN off ELSE h.gens[j]
    BY <2>7 DEF Injected!IsGrid
  <2>9. /\ DOMAIN sbus = DOMAIN h.sbus /\ sbus \in [DOMAIN h.sbus -> Int]
        /\ \A b \in DOMAIN h.sbus : sbus[b] = IF b = at THEN h.sbus[b] - lost ELSE h.sbus[b]
    BY <1>2, <2>2, <2>3 DEF Injected!IsGrid
  <2>. HIDE DEF gens, sbus
  <2>10. /\ DOMAIN w = DOMAIN h /\ w.gens = gens /\ w.sbus = sbus /\ w.loads = h.loads
         /\ w.toSolver = h.toSolver /\ w.buses = h.buses
    BY <2>4, <2>6
  <2>11. Injected!IsGrid(w)
    BY <2>8, <2>9, <2>10 DEF Injected!IsGrid
  <2>12. \A j \in DOMAIN h.gens :
           /\ (w.gens[j].on <=> (h.gens[j].on /\ j # k)) /\ w.gens[j].bus = h.gens[j].bus
           /\ w.gens[j].p = h.gens[j].p /\ w.gens[j].q = h.gens[j].q
           /\ w.gens[j].vreg = h.gens[j].vreg
    <3>1. \A j \in DOMAIN h.gens : h.gens[j].on \in BOOLEAN
      BY <1>1 DEF Injected!Generator
    <3>2. ASSUME NEW j \in DOMAIN h.gens
          PROVE  /\ (w.gens[j].on <=> (h.gens[j].on /\ j # k)) /\ w.gens[j].bus = h.gens[j].bus
                 /\ w.gens[j].p = h.gens[j].p /\ w.gens[j].q = h.gens[j].q
                 /\ w.gens[j].vreg = h.gens[j].vreg
      <4>1. CASE j = k
        <5>1. w.gens[j] = off
          BY <2>8, <2>10, <4>1
        <5>2. QED
          BY <2>7, <4>1, <5>1
      <4>2. CASE j # k
        <5>1. w.gens[j] = h.gens[j]
          BY <2>8, <2>10, <4>2
        <5>2. QED
          BY <3>1, <4>2, <5>1
      <4>3. QED
        BY <4>1, <4>2
    <3>3. QED
      BY <3>2
  <2>13. \A b \in DOMAIN h.sbus :
           w.sbus[b] = h.sbus[b] - IF k \in Gens(h, b) THEN TakenBy(h, k) ELSE 0
    BY <1>2, <1>3, <1>5, <2>2, <2>9, <2>10 DEF at, lost
  <2>14. QED
    BY <2>8, <2>9, <2>10, <2>11, <2>12, <2>13
<1>6. QED
  <2>1. h.gens[k].on \in BOOLEAN
    BY <1>1 DEF Injected!Generator
  <2>2. QED
    BY <1>4, <1>5, <2>1

LEMMA WithoutFacts ==
  ASSUME NEW h, Injected!IsGrid(h), Injected!Buildable(h), ImaginaryUnit \in Int,
         NEW k \in DOMAIN h.gens, NEW w, w = Injected!Without(h, k)
  PROVE  /\ Injected!Buildable(w) /\ Injected!Buses(w) = Injected!Buses(h)
         /\ \A b : Gens(w, b) = Gens(h, b) \ {k} /\ Loads(w, b) = Loads(h, b)
         /\ \A gp, ld : IsRow(h, gp, ld) => IsRow(w, gp, ld)
         /\ \A j \in DOMAIN h.gens : Base(w.gens)[j] = Base(h.gens)[j]
         /\ Base(w.loads) = Base(h.loads)
         /\ \A gp, off : DOMAIN gp = DOMAIN h.gens => QOffOf(w, gp, off) = QOffOf(h, gp, off)
<1>1. /\ DOMAIN w.gens = DOMAIN h.gens /\ w.loads = h.loads
      /\ w.toSolver = h.toSolver /\ w.buses = h.buses /\ DOMAIN w.sbus = DOMAIN h.sbus
      /\ \A j \in DOMAIN h.gens :
           /\ (w.gens[j].on <=> (h.gens[j].on /\ j # k)) /\ w.gens[j].bus = h.gens[j].bus
           /\ w.gens[j].p = h.gens[j].p /\ w.gens[j].q = h.gens[j].q
           /\ w.gens[j].vreg = h.gens[j].vreg
  BY WithoutFields
<1>2. Injected!Buses(w) = Injected!Buses(h) /\ \A id : Injected!Relabel(w, id) = Injected!Relabel(h, id)
  BY <1>1 DEF Injected!Buses, Injected!Relabel
<1>3. Injected!Buildable(w)
  <2>1. DOMAIN w.sbus = Injected!Buses(w)
    BY <1>1, <1>2 DEF Injected!Buildable
  <2>2. /\ \A j \in DOMAIN w.gens : w.gens[j].on => Injected!Relabel(w, w.gens[j].bus) \in Injected!Buses(w)
        /\ \A j \in DOMAIN w.loads : w.loads[j].on => Injected!Relabel(w, w.loads[j].bus) \in Injected!Buses(w)
    BY <1>1, <1>2 DEF Injected!Buildable
  <2>3. QED
    BY <2>1, <2>2 DEF Injected!Buildable
<1>4. \A b : Gens(w, b) = Gens(h, b) \ {k} /\ Loads(w, b) = Loads(h, b)
  BY <1>1, <1>2 DEF Gens, Loads, OnBus
<1>5. \A gp, ld : IsRow(h, gp, ld) => IsRow(w, gp, ld)
  BY <1>1 DEF IsRow
<1>6. /\ \A j \in DOMAIN h.gens : Base(w.gens)[j] = Base(h.gens)[j]
      /\ Base(w.loads) = Base(h.loads)
  BY <1>1 DEF Base, Injected!BaseOf
<1>7. ASSUME NEW gp, NEW off, DOMAIN gp = DOMAIN h.gens PROVE QOffOf(w, gp, off) = QOffOf(h, gp, off)
  BY <1>1, <1>7 DEF QOffOf
<1>8. QED
  BY <1>2, <1>3, <1>4, <1>5, <1>6, <1>7

(* A generator off leaves the row of the grid without it.                    *)
LEMMA WithoutRow ==
  ASSUME NEW h, Injected!IsGrid(h), Injected!Buildable(h), ImaginaryUnit \in Int,
         NEW k \in DOMAIN h.gens, NEW w, w = Injected!Without(h, k),
         NEW gp, NEW ld, IsRow(h, gp, ld), NEW off
  PROVE  RowOf(w, gp, ld, off) = RowOf(h, gp, ld, off \cup {k})
<1>1. /\ Injected!IsGrid(w) /\ Injected!Buildable(w) /\ Injected!Buses(w) = Injected!Buses(h)
      /\ \A b : Gens(w, b) = Gens(h, b) \ {k} /\ Loads(w, b) = Loads(h, b)
      /\ IsRow(w, gp, ld)
      /\ \A j \in DOMAIN h.gens : Base(w.gens)[j] = Base(h.gens)[j]
      /\ Base(w.loads) = Base(h.loads)
      /\ QOffOf(w, gp, off) = QOffOf(h, gp, off)
      /\ \A b \in DOMAIN h.sbus :
           w.sbus[b] = h.sbus[b] - IF k \in Gens(h, b) THEN TakenBy(h, k) ELSE 0
  <2>1. DOMAIN gp = DOMAIN h.gens
    BY DEF IsRow
  <2>2. QED
    BY <2>1, WithoutFields, WithoutFacts
<1>2. ASSUME NEW b \in Injected!Buses(h)
      PROVE  RowAt(w, gp, ld, off, b) = RowAt(h, gp, ld, off \cup {k}, b)
  <2>. DEFINE G == Gens(h, b)
              R == G \ {k}
              L == Loads(h, b)
              B == Base(h.gens)
              K == KeptOf(gp, off)
              K2 == KeptOf(gp, off \cup {k})
              Q == QOffOf(h, gp, off)
              Q2 == QOffOf(h, gp, off \cup {k})
  <2>1. /\ IsFiniteSet(G) /\ IsFiniteSet(R) /\ R \subseteq G /\ G \subseteq DOMAIN h.gens
        /\ SumOf(Base(h.loads), L) \in Int /\ SumOf(ld, L) \in Int
        /\ \A j \in G : B[j] \in Int /\ B[j] = h.gens[j].p
    <3>1. IsFiniteSet(G) /\ G \subseteq DOMAIN h.gens
      BY GridFacts
    <3>2. IsFiniteSet(R) /\ R \subseteq G
      BY <3>1, FS_Subset
    <3>3. SumOf(Base(h.loads), L) \in Int /\ SumOf(ld, L) \in Int
      BY GridFacts, TermsOf
    <3>4. \A j \in G : B[j] \in Int /\ B[j] = h.gens[j].p
      BY <3>1, GridFacts
    <3>5. QED
      BY <3>1, <3>2, <3>3, <3>4
  <2>2. /\ \A j \in G : K[j] \in Int /\ K2[j] \in Int /\ Q[j] \in Int /\ Q2[j] \in Int
        /\ \A j \in R : K[j] = K2[j] /\ Q[j] = Q2[j]
        /\ k \in G => K2[k] = 0 /\ Q2[k] = IF h.gens[k].vreg THEN 0 ELSE h.gens[k].q
    <3>1. \A j \in G : /\ K[j] \in Int /\ K[j] = IF j \in off THEN 0 ELSE gp[j]
                       /\ Q[j] \in Int
                       /\ Q[j] = IF j \in off /\ ~h.gens[j].vreg THEN h.gens[j].q ELSE 0
      BY TermsOf
    <3>2. \A j \in G : /\ K2[j] \in Int /\ K2[j] = IF j \in off \cup {k} THEN 0 ELSE gp[j]
                       /\ Q2[j] \in Int
                       /\ Q2[j] = IF j \in off \cup {k} /\ ~h.gens[j].vreg THEN h.gens[j].q ELSE 0
      BY TermsOf
    <3>. HIDE DEF K, K2, Q, Q2, G
    <3>3. QED
      BY <3>1, <3>2
  <2>3. h.sbus[b] \in Int /\ b \in DOMAIN h.sbus
    BY ConstInteger DEF Injected!Buildable
  <2>4. RowAt(w, gp, ld, off, b)
          = w.sbus[b] - SumOf(B, R) + SumOf(Base(h.loads), L) + SumOf(K, R)
              - ImaginaryUnit * SumOf(Q, R) - SumOf(ld, L)
    <3>1. SumOf(Base(w.gens), R) = SumOf(B, R)
      <4>1. \A j \in R : Base(w.gens)[j] = B[j]
        BY <1>1, <2>1
      <4>. HIDE DEF B, R
      <4>2. QED
        BY <2>1, <4>1, SumAlike
    <3>2. QED
      BY <1>1, <3>1 DEF RowAt, Const
  <2>5. RowAt(h, gp, ld, off \cup {k}, b)
          = h.sbus[b] - SumOf(B, G) + SumOf(Base(h.loads), L) + SumOf(K2, G)
              - ImaginaryUnit * SumOf(Q2, G) - SumOf(ld, L)
    BY DEF RowAt, Const
  <2>. HIDE DEF B, K, K2, Q, Q2, R, G
  <2>6. /\ SumOf(B, R) \in Int /\ SumOf(K, R) \in Int /\ SumOf(Q, R) \in Int
        /\ SumOf(K, R) = SumOf(K2, R) /\ SumOf(Q, R) = SumOf(Q2, R)
    BY <2>1, <2>2, SumInteger, SumAlike
  <2>7. CASE k \notin G
    <3>1. R = G /\ w.sbus[b] = h.sbus[b]
      BY <1>1, <2>3, <2>7 DEF R, G
    <3>2. QED
      BY <2>4, <2>5, <2>6, <3>1
  <2>8. CASE k \in G
    <3>1. /\ SumOf(B, G) = B[k] + SumOf(B, R) /\ SumOf(K2, G) = K2[k] + SumOf(K2, R)
          /\ SumOf(Q2, G) = Q2[k] + SumOf(Q2, R)
      BY <2>1, <2>2, <2>8, SumWithout DEF R
    <3>2. w.sbus[b] = h.sbus[b] - TakenBy(h, k)
      BY <1>1, <2>3, <2>8 DEF G
    <3>3. TakenBy(h, k) = B[k] + ImaginaryUnit * Q2[k]
      <4>1. h.gens[k].vreg \in BOOLEAN /\ h.gens[k].p \in Int
        BY GridFacts DEF Injected!Generator
      <4>2. ImaginaryUnit * 0 = 0
        OBVIOUS
      <4>3. B[k] = h.gens[k].p
        BY <2>1, <2>8
      <4>4. h.gens[k].p + 0 = h.gens[k].p
        BY <4>1
      <4>5. CASE h.gens[k].vreg
        BY <2>2, <2>8, <4>2, <4>3, <4>4, <4>5 DEF TakenBy
      <4>6. CASE ~h.gens[k].vreg
        BY <2>2, <2>8, <4>3, <4>6 DEF TakenBy
      <4>7. QED
        BY <4>5, <4>6
    <3>4. ImaginaryUnit * SumOf(Q2, G) = ImaginaryUnit * Q2[k] + ImaginaryUnit * SumOf(Q2, R)
      <4>1. \A u, v, z \in Int : u * (v + z) = u * v + u * z
        OBVIOUS
      <4>2. Q2[k] \in Int /\ SumOf(Q2, R) \in Int
        BY <2>2, <2>6, <2>8
      <4>3. QED
        BY <3>1, <4>1, <4>2
    <3>5. /\ B[k] \in Int /\ ImaginaryUnit * Q2[k] \in Int /\ ImaginaryUnit * SumOf(Q2, R) \in Int
          /\ K2[k] = 0
      BY <2>1, <2>2, <2>6, <2>8
    <3>. DEFINE uq == ImaginaryUnit * Q2[k]
                ur == ImaginaryUnit * SumOf(Q2, R)
                s == h.sbus[b]
                c == SumOf(Base(h.loads), L)
                d == SumOf(ld, L)
                br == SumOf(B, R)
                kr == SumOf(K2, R)
    <3>6. /\ s \in Int /\ c \in Int /\ d \in Int /\ br \in Int /\ kr \in Int /\ uq \in Int /\ ur \in Int
          /\ B[k] \in Int
      BY <2>1, <2>3, <2>6, <3>5
    <3>7. RowAt(w, gp, ld, off, b) = (s - (B[k] + uq)) - br + c + kr - ur - d
      BY <2>4, <2>6, <3>2, <3>3
    <3>8. RowAt(h, gp, ld, off \cup {k}, b) = s - (B[k] + br) + c + (0 + kr) - (uq + ur) - d
      BY <2>5, <3>1, <3>4, <3>5
    <3>. HIDE DEF uq, ur, s, c, d, br, kr
    <3>9. QED
      BY <3>6, <3>7, <3>8
  <2>9. QED
    BY <2>7, <2>8
<1>3. QED
  BY <1>1, <1>2 DEF RowOf

-----------------------------------------------------------------------------
(* The rows that the three ways to assemble them give.                       *)
AlikeFor(h, e, k, j) ==
  LET el == Injected!InjectionElements(h)
      off == [r \in DOMAIN e.gen_p |-> IF r % 2 = 1 THEN {k, j} ELSE {}]
      out == Injected!InjectionElements(
               Injected!Without(Injected!Without(h, k), IF j = k THEN k ELSE j))
      made == Injected!BuildBusInjections(el, e, off)
  IN /\ made = Injected!DeviceInjections(el, e, off)
     /\ made = [r \in DOMAIN made |->
          Injected!BuildBusInjections(IF r % 2 = 1 THEN out ELSE el, e, Injected!NoneOff(e))[r]]

LEMMA AlikeOne ==
  ASSUME NEW g, Injected!IsGrid(g), Injected!Buildable(g), ImaginaryUnit \in Int,
         NEW on, NEW h, h = Injected!Regulating(g, on),
         NEW e, FitsGrid(g, e), NEW k \in DOMAIN g.gens, NEW j \in DOMAIN g.gens
  PROVE  AlikeFor(h, e, k, j)
<1>. DEFINE el == Injected!InjectionElements(h)
            off == [r \in DOMAIN e.gen_p |-> IF r % 2 = 1 THEN {k, j} ELSE {}]
            w == Injected!Without(h, k)
            v == Injected!Without(w, IF j = k THEN k ELSE j)
            out == Injected!InjectionElements(v)
            made == Injected!BuildBusInjections(el, e, off)
            none == Injected!NoneOff(e)
            direct(r) == Injected!BuildBusInjections(IF r % 2 = 1 THEN out ELSE el, e, none)[r]
<1>1. /\ Injected!IsGrid(h) /\ Injected!Buildable(h) /\ DOMAIN h.gens = DOMAIN g.gens
      /\ DOMAIN h.loads = DOMAIN g.loads
  BY RegulatingFacts
<1>2. FitsGrid(h, e) /\ \A r \in DOMAIN e.gen_p : IsRow(h, e.gen_p[r], e.load[r])
  BY <1>1 DEF FitsGrid, IsRow
<1>3. /\ Injected!IsGrid(w) /\ Injected!Buildable(w) /\ DOMAIN w.gens = DOMAIN h.gens
      /\ \A gp, ld : IsRow(h, gp, ld) => IsRow(w, gp, ld)
  <2>1. k \in DOMAIN h.gens /\ w = Injected!Without(h, k)
    BY <1>1
  <2>. HIDE DEF w
  <2>2. Injected!IsGrid(w) /\ DOMAIN w.gens = DOMAIN h.gens
    BY <1>1, <2>1, WithoutFields
  <2>3. Injected!Buildable(w) /\ \A gp, ld : IsRow(h, gp, ld) => IsRow(w, gp, ld)
    BY <1>1, <2>1, WithoutFacts
  <2>4. QED
    BY <2>2, <2>3
<1>4. v = Injected!Without(w, j)
  <2>1. (IF j = k THEN k ELSE j) = j
    OBVIOUS
  <2>2. QED
    <3>. HIDE DEF w
    <3>1. QED
      BY <2>1
<1>. HIDE DEF v, w, el, out
<1>5. \A gp, ld : IsRow(w, gp, ld) => IsRow(v, gp, ld)
  BY <1>1, <1>3, <1>4, WithoutFacts
<1>6. \A r \in DOMAIN e.gen_p :
        RowOf(v, e.gen_p[r], e.load[r], {}) = RowOf(h, e.gen_p[r], e.load[r], {k, j})
  <2>1. ASSUME NEW r \in DOMAIN e.gen_p
        PROVE  RowOf(v, e.gen_p[r], e.load[r], {}) = RowOf(h, e.gen_p[r], e.load[r], {k, j})
    <3>1. IsRow(h, e.gen_p[r], e.load[r]) /\ IsRow(w, e.gen_p[r], e.load[r])
      BY <1>2, <1>3
    <3>2. RowOf(v, e.gen_p[r], e.load[r], {}) = RowOf(w, e.gen_p[r], e.load[r], {} \cup {j})
      BY <1>1, <1>3, <1>4, <3>1, WithoutRow
    <3>3. RowOf(w, e.gen_p[r], e.load[r], {j}) = RowOf(h, e.gen_p[r], e.load[r], {j} \cup {k})
      BY <1>1, <3>1, WithoutRow DEF w
    <3>4. {} \cup {j} = {j} /\ {j} \cup {k} = {k, j}
      OBVIOUS
    <3>5. QED
      BY <3>2, <3>3, <3>4
  <2>2. QED
    BY <2>1
<1>7. made = [r \in DOMAIN e.gen_p |-> RowOf(h, e.gen_p[r], e.load[r], off[r])]
  <2>. HIDE DEF off
  <2>1. QED
    BY <1>2, BuiltRows DEF el
<1>8. Injected!DeviceInjections(el, e, off)
        = [r \in DOMAIN e.gen_p |-> RowOf(h, e.gen_p[r], e.load[r], off[r])]
  <2>. HIDE DEF off
  <2>1. QED
    BY <1>1, <1>2, DeviceAlike DEF el
<1>9. \A r \in DOMAIN e.gen_p : none[r] = {} /\ off[r] = IF r % 2 = 1 THEN {k, j} ELSE {}
  BY DEF Injected!NoneOff
<1>. HIDE DEF none, off, made
<1>10. /\ Injected!BuildBusInjections(el, e, none)
            = [r \in DOMAIN e.gen_p |-> RowOf(h, e.gen_p[r], e.load[r], none[r])]
       /\ Injected!BuildBusInjections(out, e, none)
            = [r \in DOMAIN e.gen_p |-> RowOf(v, e.gen_p[r], e.load[r], none[r])]
  <2>1. \A r \in DOMAIN e.gen_p : IsRow(v, e.gen_p[r], e.load[r])
    BY <1>2, <1>3, <1>5
  <2>2. QED
    BY <1>2, <2>1, BuiltRows DEF el, out
<1>11. DOMAIN made = DOMAIN e.gen_p
  BY <1>7
<1>12. \A r \in DOMAIN e.gen_p : direct(r) = RowOf(h, e.gen_p[r], e.load[r], off[r])
  <2>1. ASSUME NEW r \in DOMAIN e.gen_p PROVE direct(r) = RowOf(h, e.gen_p[r], e.load[r], off[r])
    <3>1. CASE r % 2 = 1
      <4>1. direct(r) = RowOf(v, e.gen_p[r], e.load[r], {})
        BY <1>9, <1>10, <3>1
      <4>2. QED
        BY <1>6, <1>9, <3>1, <4>1
    <3>2. CASE r % 2 # 1
      BY <1>9, <1>10, <3>2
    <3>3. QED
      BY <3>1, <3>2
  <2>2. QED
    BY <2>1
<1>. HIDE DEF direct
<1>13. made = [r \in DOMAIN made |-> direct(r)]
  BY <1>7, <1>11, <1>12
<1>14. QED
  BY <1>7, <1>8, <1>13 DEF made, el, off, direct, none, out, v, w, AlikeFor

LEMMA AssembledOf ==
  ASSUME NEW g, Injected!IsGrid(g), Injected!Buildable(g), ImaginaryUnit \in Int,
         NEW es, \A e \in es : FitsGrid(g, e)
  PROVE  Injected!AssembledAlike(g, es)
<1>. SUFFICES ASSUME NEW on \in SUBSET DOMAIN g.gens
              PROVE  LET h == Injected!Regulating(g, on)
                         el == Injected!InjectionElements(h)
                         case == [gen_p |-> <<el.gen_p_base>>, load |-> <<el.load_base>>]
                     IN /\ Injected!BuildBusInjections(el, case, Injected!NoneOff(case)) = <<g.sbus>>
                        /\ Injected!DeviceInjections(el, [case EXCEPT !.gen_p = <<>>], <<{}>>) = <<g.sbus>>
                        /\ \A e \in es, k \in DOMAIN g.gens, j \in DOMAIN g.gens : AlikeFor(h, e, k, j)
  BY DEF Injected!AssembledAlike, AlikeFor
<1>. DEFINE h == Injected!Regulating(g, on)
            el == Injected!InjectionElements(h)
            case == [gen_p |-> <<el.gen_p_base>>, load |-> <<el.load_base>>]
<1>1. Injected!IsGrid(h) /\ Injected!Buildable(h) /\ h.sbus = g.sbus
  BY RegulatingFacts
<1>2. el.gen_p_base = Base(h.gens) /\ el.load_base = Base(h.loads)
  BY DEF Injected!InjectionElements, Base
<1>3. Injected!BuildBusInjections(el, case, Injected!NoneOff(case)) = <<g.sbus>>
  <2>1. case.gen_p = <<Base(h.gens)>> /\ case.load = <<Base(h.loads)>>
    BY <1>2
  <2>. HIDE DEF h, case
  <2>2. QED
    BY <1>1, <2>1, BaseBuilt
<1>4. Injected!DeviceInjections(el, [case EXCEPT !.gen_p = <<>>], <<{}>>) = <<g.sbus>>
  <2>. DEFINE given == [case EXCEPT !.gen_p = <<>>]
  <2>1. given.gen_p = <<>> /\ given.load = <<Base(h.loads)>>
    BY <1>2
  <2>. HIDE DEF h, given
  <2>2. Injected!DeviceInjections(el, given, <<{}>>) = <<g.sbus>>
    BY <1>1, <2>1, BaseOnDevice
  <2>3. QED
    BY <2>2 DEF given
<1>5. \A e \in es, k \in DOMAIN g.gens, j \in DOMAIN g.gens : AlikeFor(h, e, k, j)
  BY AlikeOne
<1>. HIDE DEF case, el, h
<1>6. QED
  BY <1>3, <1>4, <1>5 DEF case, el, h

(* What the elements of a set change, all together.                          *)
ChangeStep(it, p, els, s) ==
  IF s = {} THEN 0 ELSE (p[Any(s)] - els[Any(s)].p) + it[s \ {Any(s)}]
Changes(it, p, els, S) == it = [s \in SUBSET S |-> ChangeStep(it, p, els, s)]

ChangeSum(p, els, S) == Injected!MapThenSumSet(LAMBDA k : p[k] - els[k].p, S)

LEMMA ChangeUnfolds ==
  \A p, els, S :
    ChangeSum(p, els, S) = (CHOOSE it : Changes(it, p, els, S))[S]
<1>1. ASSUME NEW p, NEW els, NEW S
      PROVE  ChangeSum(p, els, S)
               = (CHOOSE it : Changes(it, p, els, S))[S]
  BY DEF ChangeSum, Injected!MapThenSumSet, Injected!MapThenFoldSet, Changes, ChangeStep, Any
<1>2. QED
  BY <1>1

LEMMA ChangeIs ==
  ASSUME NEW S, IsFiniteSet(S), NEW p, NEW els, \A k \in S : p[k] \in Int /\ els[k].p \in Int
  PROVE  ChangeSum(p, els, S)
           = SumOf(p, S) - SumOf([k \in S |-> els[k].p], S)
<1>. DEFINE f == [k \in S |-> p[k] - els[k].p]
            case == [k \in S |-> els[k].p]
            c == CHOOSE it : Changes(it, p, els, S)
<1>1. \A k \in S : f[k] = p[k] + (-1) * case[k] /\ f[k] \in Int /\ case[k] \in Int
  OBVIOUS
<1>2. ASSUME NEW it PROVE Changes(it, p, els, S) <=> Adds(it, f, S)
  <2>1. \A s \in SUBSET S : ChangeStep(it, p, els, s) = Step(it, f, s)
    <3>1. \A s \in SUBSET S : s # {} => Any(s) \in S
      BY AnyOf
    <3>2. QED
      BY <3>1 DEF ChangeStep, Step
  <2>. HIDE DEF f
  <2>2. [s \in SUBSET S |-> ChangeStep(it, p, els, s)] = [s \in SUBSET S |-> Step(it, f, s)]
    BY <2>1
  <2>3. QED
    BY <2>2 DEF Changes, Adds
<1>. HIDE DEF f, case
<1>3. PICK j : Adds(j, f, S)
  BY SumsExist
<1>4. Adds(c, f, S)
  <2>1. Changes(j, p, els, S)
    BY <1>2, <1>3
  <2>2. Changes(c, p, els, S)
    BY <2>1
  <2>. HIDE DEF c
  <2>3. QED
    BY <1>2, <2>2
<1>5. SumOf(f, S) = c[S]
  <2>. DEFINE d == CHOOSE it : Adds(it, f, S)
  <2>1. Adds(d, f, S)
    BY <1>3
  <2>2. SumOf(f, S) = d[S]
    BY SumIs
  <2>. HIDE DEF c, d
  <2>3. d[S] = c[S]
    BY <1>4, <2>1, SumsUnique
  <2>4. QED
    BY <2>2, <2>3
<1>6. SumOf(f, S) = SumOf(p, S) + (-1) * SumOf(case, S)
  BY <1>1, SumCombined
<1>7. SumOf(p, S) \in Int /\ SumOf(case, S) \in Int
  BY <1>1, SumInteger
<1>8. SumOf(f, S) = SumOf(p, S) - SumOf(case, S)
  BY <1>6, <1>7
<1>9. ChangeSum(p, els, S) = c[S]
  BY ChangeUnfolds DEF c
<1>. HIDE DEF c
<1>10. QED
  BY <1>5, <1>8, <1>9 DEF case

(* A row differs from the base case, at every bus, by the change of the      *)
(* connected elements there.                                                 *)
LEMMA RowChanges ==
  ASSUME Injected!IsGrid(grid), Injected!Buildable(grid), ImaginaryUnit \in Int,
         NEW gp, NEW ld, IsRow(grid, gp, ld), NEW b \in Injected!Buses(grid)
  PROVE  RowAt(grid, gp, ld, {}, b) - grid.sbus[b]
           = Injected!Change(grid.gens, gp, b) - Injected!Change(grid.loads, ld, b)
<1>. DEFINE G == Gens(grid, b)
            L == Loads(grid, b)
            bg == SumOf(Base(grid.gens), G)
            bl == SumOf(Base(grid.loads), L)
            s == grid.sbus[b]
            g == SumOf(gp, G)
            l == SumOf(ld, L)
<1>1. /\ IsFiniteSet(G) /\ IsFiniteSet(L) /\ bg \in Int /\ bl \in Int /\ s \in Int
      /\ g \in Int /\ l \in Int
  BY GridFacts, TermsOf, ConstInteger
<1>2. /\ \A k \in G : gp[k] \in Int /\ grid.gens[k].p \in Int /\ Base(grid.gens)[k] = grid.gens[k].p
      /\ \A k \in L : ld[k] \in Int /\ grid.loads[k].p \in Int /\ Base(grid.loads)[k] = grid.loads[k].p
  <2>1. G \subseteq DOMAIN grid.gens /\ L \subseteq DOMAIN grid.loads
    BY GridFacts
  <2>2. /\ \A k \in DOMAIN grid.gens : /\ Base(grid.gens)[k] \in Int
                                       /\ Base(grid.gens)[k] = grid.gens[k].p
        /\ \A k \in DOMAIN grid.loads : /\ Base(grid.loads)[k] \in Int
                                        /\ Base(grid.loads)[k] = grid.loads[k].p
    BY GridFacts
  <2>3. /\ \A k \in G : gp[k] \in Int
        /\ \A k \in L : ld[k] \in Int
    BY TermsOf
  <2>. HIDE DEF G, L
  <2>4. QED
    BY <2>1, <2>2, <2>3
<1>3. RowAt(grid, gp, ld, {}, b) = (s - bg + bl) + g - ImaginaryUnit * 0 - l
  <2>1. \A k \in G : KeptOf(gp, {})[k] = gp[k] /\ QOffOf(grid, gp, {})[k] = 0
    BY TermsOf
  <2>. HIDE DEF G
  <2>2. SumOf(KeptOf(gp, {}), G) = g /\ SumOf(QOffOf(grid, gp, {}), G) = 0
    BY <1>1, <2>1, SumAlike, SumZero
  <2>3. QED
    BY <2>2 DEF RowAt, Const, G
<1>4. Injected!Change(grid.gens, gp, b) = g - bg
  <2>1. Injected!Change(grid.gens, gp, b)
          = ChangeSum(gp, grid.gens, G)
    BY DEF Injected!Change, ChangeSum, Gens, OnBus
  <2>. HIDE DEF G
  <2>2. ChangeSum(gp, grid.gens, G)
          = g - SumOf([k \in G |-> grid.gens[k].p], G)
    BY <1>1, <1>2, ChangeIs
  <2>. DEFINE p == [k \in G |-> grid.gens[k].p]
  <2>3. \A k \in G : p[k] = Base(grid.gens)[k]
    BY <1>2
  <2>. HIDE DEF p
  <2>4. SumOf(p, G) = bg
    BY <1>1, <2>3, SumAlike
  <2>5. QED
    BY <2>1, <2>2, <2>4 DEF p
<1>5. Injected!Change(grid.loads, ld, b) = l - bl
  <2>1. Injected!Change(grid.loads, ld, b)
          = ChangeSum(ld, grid.loads, L)
    BY DEF Injected!Change, ChangeSum, Loads, OnBus
  <2>. HIDE DEF L
  <2>2. ChangeSum(ld, grid.loads, L)
          = l - SumOf([k \in L |-> grid.loads[k].p], L)
    BY <1>1, <1>2, ChangeIs
  <2>. DEFINE p == [k \in L |-> grid.loads[k].p]
  <2>3. \A k \in L : p[k] = Base(grid.loads)[k]
    BY <1>2
  <2>. HIDE DEF p
  <2>4. SumOf(p, L) = bl
    BY <1>1, <2>3, SumAlike
  <2>5. QED
    BY <2>1, <2>2, <2>4 DEF p
<1>6. ImaginaryUnit * 0 = 0
  OBVIOUS
<1>. HIDE DEF bg, bl, s, g, l
<1>7. RowAt(grid, gp, ld, {}, b) = (s - bg + bl) + g - 0 - l
  BY <1>3, <1>6
<1>8. RowAt(grid, gp, ld, {}, b) - s = (g - bg) - (l - bl)
  BY <1>1, <1>7
<1>9. RowAt(grid, gp, ld, {}, b) - grid.sbus[b] = (g - bg) - (l - bl)
  BY <1>8 DEF s
<1>10. QED
  BY <1>4, <1>5, <1>9

-----------------------------------------------------------------------------
(* The requests.                                                             *)
(* What the session holds is what was asked.                                 *)
GridGiven == facade.onGrid => Injected!Buildable(grid)
ElementsGiven ==
  \A e \in asked.elements :
    facade.onGrid /\ e \in Elements /\ Injected!Fits(e) /\ sweep.inj = Injected!FromElements(e)
LengthsAgree == returned => Len(sweep.gen_v) \in {0, Len(sweep.inj)}
RequestInv ==
  /\ sweep.gen_v = asked.gen_v
  /\ asked.elements = {} => sweep.inj = asked.bus
  /\ GridGiven /\ ElementsGiven /\ LengthsAgree

(* Calls that leave the requests alone.                                      *)
LEMMA RequestStays ==
  ASSUME RequestInv, grid' = grid, facade'.onGrid = facade.onGrid, asked' = asked,
         sweep'.inj = sweep.inj, sweep'.gen_v = sweep.gen_v, LengthsAgree'
  PROVE  RequestInv'
<1>1. ElementsGiven'
  BY DEF RequestInv, ElementsGiven, Injected!Fits, Injected!NGens, Injected!NLoads,
         Injected!FromElements
<1>2. GridGiven'
  BY DEF RequestInv, GridGiven
<1>3. QED
  BY <1>1, <1>2 DEF RequestInv

LEMMA RequestSetInjections ==
  ASSUME InjectionInv, RequestInv, NEW values,
         Injected!SetInjections(values) \/ Injected!SetInjectionsRefused
  PROVE  RequestInv'
<1>. DEFINE n == Injected!NoGenP(sweep)
<1>1. SweepSound(n) /\ n.inj = sweep.inj /\ n.gen_v = sweep.gen_v
  BY PushGenPSound DEF InjectionInv, Injected!NoGenP
<1>. HIDE DEF n
<1>2. grid' = grid /\ ~returned' /\ facade' = [facade EXCEPT !.gen_p = <<>>]
  BY NotReturned DEF Injected!SetInjections, Injected!SetInjectionsRefused
<1>3. facade'.onGrid = facade.onGrid
  BY <1>2 DEF InjectionInv, RowsRemembered
<1>4. CASE Injected!SetInjections(values)
  <2>1. /\ sweep' = Injected!WithInjections(n, values)
        /\ asked' = [asked EXCEPT !.bus = values, !.elements = {}]
    BY <1>4 DEF Injected!SetInjections, n
  <2>2. sweep'.inj = values /\ sweep'.gen_v = sweep.gen_v
    BY <1>1, <2>1, WithInjectionsSound
  <2>3. asked'.bus = values /\ asked'.elements = {} /\ asked'.gen_v = asked.gen_v
    BY <2>1 DEF InjectionInv, RowsRemembered
  <2>4. QED
    BY <1>2, <1>3, <2>2, <2>3 DEF RequestInv, ElementsGiven, GridGiven, LengthsAgree
<1>5. CASE Injected!SetInjectionsRefused
  <2>1. sweep' = n /\ asked' = asked
    BY <1>5 DEF Injected!SetInjectionsRefused, n
  <2>2. QED
    BY <1>1, <1>2, <1>3, <2>1, RequestStays DEF LengthsAgree
<1>6. QED
  BY <1>4, <1>5

LEMMA RequestSetElements ==
  ASSUME InjectionInv, RequestInv, NEW e \in Elements, Injected!SetInjectionsFromElements(e)
  PROVE  RequestInv'
<1>. DEFINE given == Injected!WithInjections(sweep, Injected!FromElements(e))
            pushed == Injected!Pushable(sweep.gp.plan, e.gen_p)
<1>1. /\ SweepSound(given) /\ given.inj = Injected!FromElements(e) /\ given.gen_v = sweep.gen_v
  BY WithInjectionsSound DEF InjectionInv
<1>2. /\ facade' = [facade EXCEPT !.gen_p = e.gen_p]
      /\ sweep' = IF pushed THEN Injected!PushGenP(given, e.gen_p) ELSE given
      /\ asked' = [asked EXCEPT !.bus = <<>>, !.elements = {e}]
      /\ facade.onGrid /\ Injected!Fits(e)
  BY DEF Injected!SetInjectionsFromElements
<1>3. grid' = grid /\ ~returned'
  BY NotReturned DEF Injected!SetInjectionsFromElements
<1>. HIDE DEF given, pushed
<1>4. facade'.onGrid = facade.onGrid
  BY <1>2 DEF InjectionInv, RowsRemembered
<1>5. sweep'.inj = Injected!FromElements(e) /\ sweep'.gen_v = sweep.gen_v
  BY <1>1, <1>2, PushGenPSound
<1>6. asked'.elements = {e} /\ asked'.gen_v = asked.gen_v
  BY <1>2 DEF InjectionInv, RowsRemembered
<1>7. \A x : (Injected!Fits(x) <=> Injected!Fits(x)')
             /\ Injected!FromElements(x) = Injected!FromElements(x)'
  BY <1>3 DEF Injected!Fits, Injected!NGens, Injected!NLoads, Injected!FromElements
<1>8. ElementsGiven'
  BY <1>2, <1>4, <1>5, <1>6, <1>7 DEF ElementsGiven
<1>9. QED
  BY <1>3, <1>4, <1>5, <1>6, <1>8 DEF RequestInv, GridGiven, LengthsAgree

LEMMA RequestSetGenV ==
  ASSUME InjectionInv, RequestInv, NEW values \in GenVs, Injected!SetGenV(values)
  PROVE  RequestInv'
<1>. DEFINE given == Injected!WithGenV(sweep, values)
            fits == Injected!Pushable(sweep.release.plan, values)
<1>1. SweepSound(given) /\ given.inj = sweep.inj /\ given.gen_v = values
  <2>1. Settable(values)
    BY DEF Settable, Injected!SetGenV
  <2>2. QED
    BY <2>1, WithGenVSound DEF InjectionInv
<1>2. /\ facade' = [facade EXCEPT !.gen_v = values]
      /\ sweep' = IF fits THEN Injected!PushRelease(given, values) ELSE given
      /\ asked' = [asked EXCEPT !.gen_v = values]
  BY DEF Injected!SetGenV
<1>3. grid' = grid /\ ~returned'
  BY NotReturned DEF Injected!SetGenV
<1>. HIDE DEF given, fits
<1>4. facade'.onGrid = facade.onGrid
  BY <1>2 DEF InjectionInv, RowsRemembered
<1>5. sweep'.inj = sweep.inj /\ sweep'.gen_v = values
  BY <1>1, <1>2, PushReleaseSound
<1>6. asked'.elements = asked.elements /\ asked'.bus = asked.bus /\ asked'.gen_v = values
  BY <1>2 DEF InjectionInv, RowsRemembered
<1>7. ElementsGiven'
  BY <1>3, <1>4, <1>5, <1>6 DEF RequestInv, ElementsGiven, Injected!Fits, Injected!NGens,
     Injected!NLoads, Injected!FromElements
<1>8. QED
  BY <1>3, <1>4, <1>5, <1>6, <1>7 DEF RequestInv, GridGiven, LengthsAgree

LEMMA RequestOthers ==
  ASSUME InjectionInv, RequestInv,
         \/ \E plan : Injected!SetGenPPlan(plan) \/ Injected!SetReleasePlan(plan)
         \/ \E v \in BOOLEAN : Injected!SetChecks(v)
         \/ \E x \in Solvers : Injected!SetSolver(x)
         \/ Injected!Refused
  PROVE  RequestInv'
<1>1. grid' = grid /\ ~returned' /\ facade' = facade /\ asked' = asked
  BY NotReturned DEF Injected!SetGenPPlan, Injected!SetReleasePlan, Injected!SetChecks,
     Injected!SetSolver, Injected!Refused
<1>2. sweep'.inj = sweep.inj /\ sweep'.gen_v = sweep.gen_v
  <2>1. ASSUME NEW plan, Injected!SetGenPPlan(plan) \/ Injected!SetReleasePlan(plan)
        PROVE  sweep'.inj = sweep.inj /\ sweep'.gen_v = sweep.gen_v
    <3>1. CASE Injected!SetGenPPlan(plan)
      BY <3>1, WithGenPPlanSound DEF InjectionInv, Injected!SetGenPPlan
    <3>2. CASE Injected!SetReleasePlan(plan)
      BY <3>2, WithReleasePlanSound DEF InjectionInv, Injected!SetReleasePlan
    <3>3. QED
      BY <2>1, <3>1, <3>2
  <2>2. ASSUME NEW v \in BOOLEAN, Injected!SetChecks(v)
        PROVE  sweep'.inj = sweep.inj /\ sweep'.gen_v = sweep.gen_v
    <3>. DEFINE q == IF v /\ facade.onGrid THEN Injected!WithPlans(sweep) ELSE sweep
    <3>1. SweepSound(q) /\ q.inj = sweep.inj /\ q.gen_v = sweep.gen_v
      BY WithPlansSound DEF InjectionInv
    <3>2. sweep' = [q EXCEPT !.checks = v]
      BY <2>2 DEF Injected!SetChecks
    <3>. HIDE DEF q
    <3>3. QED
      BY <3>1, <3>2 DEF SweepSound, IsSweep
  <2>3. ASSUME NEW x \in Solvers, Injected!SetSolver(x)
        PROVE  sweep'.inj = sweep.inj /\ sweep'.gen_v = sweep.gen_v
    BY <2>3 DEF Injected!SetSolver, InjectionInv, SweepSound, IsSweep
  <2>4. CASE Injected!Refused
    BY <2>4 DEF Injected!Refused
  <2>5. QED
    BY <2>1, <2>2, <2>3, <2>4
<1>3. QED
  BY <1>1, <1>2, RequestStays DEF LengthsAgree

LEMMA RequestNotComputed ==
  ASSUME InjectionInv, RequestInv, NEW k,
         Injected!ComputeRefused(k) \/ Injected!ComputeTorn(k) \/ Injected!ChecksRefuse(k)
  PROVE  RequestInv'
<1>. DEFINE z == Injected!Sized(k)
            r == Injected!Loaded(Injected!Sized(k))
<1>1. grid' = grid /\ ~returned' /\ facade' = facade /\ asked' = asked
  BY NotReturned DEF Injected!ComputeRefused, Injected!ComputeTorn, Injected!ChecksRefuse
<1>2. /\ IsSweep(z) /\ z.inj = sweep.inj /\ z.gen_v = sweep.gen_v
  BY DEF InjectionInv, SweepSound, IsSweep, Injected!Sized
<1>3. SweepSound(r) /\ r.inj = sweep.inj /\ r.gen_v = sweep.gen_v
  BY LoadedSound DEF InjectionInv
<1>4. \/ sweep' = z
      \/ \E d : sweep' = [z EXCEPT !.driver = d]
      \/ sweep' = r
      \/ \E d : sweep' = [r EXCEPT !.driver = d]
  <2>. HIDE DEF z, r
  <2>1. CASE Injected!ComputeRefused(k)
    BY <2>1 DEF Injected!ComputeRefused, z
  <2>2. CASE Injected!ComputeTorn(k)
    <3>1. \/ sweep' = z
          \/ sweep' = [z EXCEPT !.driver = Injected!NoDriver]
          \/ sweep' = [z EXCEPT !.driver.rows = <<>>, !.driver.gen_v = <<>>]
      BY <2>2 DEF Injected!ComputeTorn, z
    <3>. DEFINE d == Reloaded(z.driver, <<>>, <<>>)
    <3>2. [z EXCEPT !.driver.rows = <<>>, !.driver.gen_v = <<>>] = [z EXCEPT !.driver = d]
      BY <1>2 DEF IsSweep, IsDriver, Reloaded
    <3>. HIDE DEF d
    <3>3. QED
      BY <3>1, <3>2
  <2>3. CASE Injected!ChecksRefuse(k)
    <3>1. \/ sweep' = r
          \/ sweep' = [r EXCEPT !.driver.gp = Injected!Synced(r.gp, r.driver.gp)]
      BY <2>3 DEF Injected!ChecksRefuse, r
    <3>. DEFINE t == Injected!Synced(r.gp, r.driver.gp)
                d == [r.driver EXCEPT !.gp = t]
    <3>2. [r EXCEPT !.driver.gp = t] = [r EXCEPT !.driver = d]
      BY <1>3 DEF SweepSound, IsSweep
    <3>. HIDE DEF d
    <3>3. QED
      BY <3>1, <3>2
  <2>4. QED
    BY <2>1, <2>2, <2>3
<1>. HIDE DEF z, r
<1>5. sweep'.inj = sweep.inj /\ sweep'.gen_v = sweep.gen_v
  BY <1>2, <1>3, <1>4 DEF SweepSound, IsSweep
<1>6. QED
  BY <1>1, <1>5, RequestStays DEF LengthsAgree

LEMMA RequestComputed ==
  ASSUME InjectionInv, RequestInv, NEW k, Injected!Compute(k)
  PROVE  RequestInv'
<1>. DEFINE r == Injected!Loaded(Injected!Sized(k))
            q == Injected!Targeted(r)
<1>1. SweepSound(r) /\ r.inj = sweep.inj /\ r.gen_v = sweep.gen_v
  BY LoadedSound DEF InjectionInv
<1>2. /\ grid' = grid /\ facade' = facade /\ asked' = asked
      /\ sweep' = Injected!Cleaned(q) /\ ~Injected!RunRefuses(sweep)
  BY DEF Injected!Compute, Injected!Ends
<1>. HIDE DEF r
<1>3. sweep'.inj = sweep.inj /\ sweep'.gen_v = sweep.gen_v
  <2>1. CASE ~r.checks
    BY <1>1, <1>2, <2>1 DEF Injected!Targeted, Injected!Cleaned
  <2>2. CASE r.checks
    <3>. DEFINE u == [r EXCEPT !.driver.gp = Injected!Synced(r.gp, r.driver.gp)]
    <3>1. q = [u EXCEPT !.driver.release = Injected!Synced(r.release, r.driver.release)]
      BY <2>2 DEF Injected!Targeted
    <3>2. /\ u.inj = r.inj /\ u.gen_v = r.gen_v /\ DOMAIN u = DOMAIN r /\ u.checks = r.checks
          /\ {"inj", "gen_v", "checks"} \subseteq DOMAIN r
      BY <1>1 DEF SweepSound, IsSweep
    <3>. HIDE DEF u, q
    <3>3. /\ q.inj = r.inj /\ q.gen_v = r.gen_v /\ DOMAIN q = DOMAIN r /\ q.checks = r.checks
      BY <3>1, <3>2
    <3>. DEFINE c == [q EXCEPT !.gp.dirty = FALSE]
    <3>4. sweep' = [c EXCEPT !.release.dirty = FALSE]
      BY <1>2, <2>2, <3>3 DEF Injected!Cleaned, Injected!CleanedAlways
    <3>5. c.inj = q.inj /\ c.gen_v = q.gen_v /\ DOMAIN c = DOMAIN r
      BY <3>2, <3>3
    <3>. HIDE DEF c
    <3>6. QED
      BY <1>1, <3>2, <3>3, <3>4, <3>5
  <2>3. QED
    BY <2>1, <2>2
<1>4. Len(sweep.gen_v) \in {0, Len(sweep.inj)}
  <2>1. sweep.gen_v = <<>> \/ Len(sweep.gen_v) = Len(sweep.inj)
    BY <1>2 DEF Injected!RunRefuses
  <2>2. QED
    BY <2>1
<1>5. QED
  BY <1>2, <1>3, <1>4, RequestStays DEF LengthsAgree

LEMMA RequestStarts == Injected!Init => RequestInv
<1>. SUFFICES ASSUME Injected!Init PROVE RequestInv
  OBVIOUS
<1>1. \A v, x, k : /\ Injected!FromArrays(v, x, k).inj = <<>> /\ Injected!FromArrays(v, x, k).gen_v = <<>>
                   /\ Injected!FromGrid(v, x, k).inj = <<>> /\ Injected!FromGrid(v, x, k).gen_v = <<>>
  BY DEF Injected!FromArrays, Injected!FromGrid, Injected!NewSession
<1>2. sweep.inj = <<>> /\ sweep.gen_v = <<>>
  BY <1>1 DEF Injected!Init
<1>3. asked.bus = <<>> /\ asked.gen_v = <<>> /\ asked.elements = {} /\ ~returned
  BY DEF Injected!Init
<1>4. GridGiven
  BY DEF Injected!Init, GridGiven, Injected!NewFacade
<1>5. QED
  BY <1>2, <1>3, <1>4 DEF RequestInv, ElementsGiven, LengthsAgree

LEMMA RequestInductive ==
  InjectionInv /\ RequestInv /\ [Injected!Next]_(Injected!vars) => RequestInv'
<1>. SUFFICES ASSUME InjectionInv, RequestInv, [Injected!Next]_(Injected!vars) PROVE RequestInv'
  OBVIOUS
<1>1. CASE UNCHANGED Injected!vars
  <2>1. /\ grid' = grid /\ facade' = facade /\ sweep' = sweep /\ returned' = returned /\ asked' = asked
    BY <1>1 DEF Injected!vars
  <2>2. LengthsAgree'
    BY <2>1 DEF RequestInv, LengthsAgree
  <2>3. QED
    BY <2>1, <2>2, RequestStays
<1>2. CASE Injected!Next
  <2>1. ASSUME \/ \E e \in Elements : Injected!SetInjectionsFromElementsRefused(e)
               \/ \E values \in GenVs : Injected!SetGenVRefused(values)
               \/ Injected!SetSolverRefused
        PROVE  Injected!Refused
    BY <2>1 DEF Injected!SetInjectionsFromElementsRefused, Injected!SetGenVRefused,
                Injected!SetSolverRefused
  <2>2. QED
    BY <1>2, <2>1, RequestSetInjections, RequestSetElements, RequestSetGenV, RequestOthers,
       RequestNotComputed, RequestComputed DEF Injected!Next
<1>3. QED
  BY <1>1, <1>2

(* Inputs that set_injections_from_elements() accepts fit the grid.          *)
LEMMA FitsTheGrid ==
  ASSUME grid \in Grids, NEW e \in Elements, Injected!Fits(e)
  PROVE  FitsGrid(grid, e)
<1>1. /\ e.gen_p \in Seq(Seq(Int)) /\ e.load \in Seq(Seq(Int)) /\ Len(e.gen_p) = Len(e.load)
      /\ e.gen_p # <<>>
  BY InjectionAssumption DEF Injected!RowAssumption
<1>2. /\ DOMAIN grid.gens = 1 .. Len(grid.gens) /\ DOMAIN grid.loads = 1 .. Len(grid.loads)
  BY InjectionAssumption DEF Injected!RowAssumption, Injected!IsGrid
<1>3. ASSUME NEW r \in DOMAIN e.gen_p PROVE IsRow(grid, e.gen_p[r], e.load[r])
  <2>1. e.gen_p[r] \in Seq(Int) /\ e.load[r] \in Seq(Int)
    BY <1>1
  <2>2. Len(e.gen_p[r]) = Len(grid.gens) /\ Len(e.load[r]) = Len(grid.loads)
    BY DEF Injected!Fits, Injected!NGens, Injected!NLoads
  <2>3. QED
    BY <1>2, <2>1, <2>2 DEF IsRow
<1>4. QED
  BY <1>1, <1>3 DEF FitsGrid

LEMMA GridAssumed ==
  grid \in Grids => Injected!IsGrid(grid) /\ ImaginaryUnit \in Int
<1>1. ImaginaryUnit \in Int
  <2>1. Injected!UnitAssumption
    BY InjectionAssumption DEF Injected!RowAssumption
  <2>2. QED
    BY <2>1 DEF Injected!UnitAssumption
<1>2. grid \in Grids => Injected!IsGrid(grid)
  BY InjectionAssumption DEF Injected!RowAssumption
<1>3. QED
  BY <1>1, <1>2

(* The rows of FromElements(), bus by bus.                                   *)
LEMMA FromElementsIs ==
  ASSUME grid \in Grids, Injected!Buildable(grid), NEW e \in Elements, Injected!Fits(e)
  PROVE  LET made == Injected!FromElements(e) IN
         /\ Len(made) = Len(e.gen_p) /\ DOMAIN made = DOMAIN e.gen_p
         /\ \A r \in DOMAIN made, b \in Injected!Buses(grid) :
              made[r][b] - grid.sbus[b] =
                Injected!Change(grid.gens, e.gen_p[r], b) - Injected!Change(grid.loads, e.load[r], b)
<1>. DEFINE made == Injected!FromElements(e)
            none == Injected!NoneOff(e)
<1>1. Injected!IsGrid(grid) /\ ImaginaryUnit \in Int /\ FitsGrid(grid, e)
  BY GridAssumed, FitsTheGrid
<1>2. made = [r \in DOMAIN e.gen_p |-> RowOf(grid, e.gen_p[r], e.load[r], none[r])]
  <2>1. \A r \in DOMAIN e.gen_p : IsRow(grid, e.gen_p[r], e.load[r])
    BY <1>1 DEF FitsGrid
  <2>. HIDE DEF none
  <2>2. QED
    BY <2>1, BuiltRows DEF Injected!FromElements, none
<1>3. \A r \in DOMAIN e.gen_p : none[r] = {}
  BY DEF Injected!NoneOff
<1>. HIDE DEF made, none
<1>4. DOMAIN made = DOMAIN e.gen_p /\ Len(made) = Len(e.gen_p)
  <2>1. DOMAIN e.gen_p = 1 .. Len(e.gen_p) /\ Len(e.gen_p) \in Nat
    BY <1>1 DEF FitsGrid
  <2>2. DOMAIN made = 1 .. Len(e.gen_p)
    BY <1>2, <2>1
  <2>3. Len(made) = Len(e.gen_p)
    BY <1>2, <2>1
  <2>4. QED
    BY <2>1, <2>2, <2>3
<1>5. ASSUME NEW r \in DOMAIN made, NEW b \in Injected!Buses(grid)
      PROVE  made[r][b] - grid.sbus[b] =
               Injected!Change(grid.gens, e.gen_p[r], b) - Injected!Change(grid.loads, e.load[r], b)
  <2>1. made[r][b] = RowAt(grid, e.gen_p[r], e.load[r], {}, b)
    BY <1>2, <1>3, <1>4 DEF RowOf
  <2>2. IsRow(grid, e.gen_p[r], e.load[r])
    BY <1>1, <1>4 DEF FitsGrid
  <2>3. QED
    BY <1>1, <2>1, <2>2, RowChanges
<1>6. QED
  BY <1>4, <1>5 DEF made

(* What a run() of any session solves is what was last accepted: injections *)
(* per bus as they were given, injections per element as the change of the  *)
(* elements at each bus, set-points on the bus that each generator          *)
(* regulates; and numpy, PyTorch and lightsim2grid assemble the same rows   *)
(* from elements, whichever generators are off.  For any grids, rows and    *)
(* number of calls.                                                         *)
THEOREM SolvedCorrect == InjectionSpec => []SolvesWhatIsAsked
<1>1. ASSUME InjectionInv, RequestInv PROVE SolvesWhatIsAsked
  <2>0. grid \in Grids
    BY <1>1 DEF InjectionInv
  <2>1. Injected!SolvesInjectionsAsked
    <3>. SUFFICES ASSUME returned
                  PROVE  /\ asked.elements = {} => sweep.driver.rows = asked.bus
                         /\ \A e \in asked.elements :
                              /\ Len(sweep.driver.rows) = Len(e.gen_p)
                              /\ \A r \in DOMAIN sweep.driver.rows, b \in Injected!Buses(grid) :
                                   sweep.driver.rows[r][b] - grid.sbus[b] =
                                     Injected!Change(grid.gens, e.gen_p[r], b)
                                       - Injected!Change(grid.loads, e.load[r], b)
      BY DEF Injected!SolvesInjectionsAsked
    <3>1. sweep.driver.rows = sweep.inj
      BY <1>1 DEF InjectionInv, RunLoaded, RowsLoaded
    <3>2. asked.elements = {} => sweep.driver.rows = asked.bus
      BY <1>1, <3>1 DEF RequestInv
    <3>3. \A e \in asked.elements :
            /\ e \in Elements /\ Injected!Fits(e) /\ Injected!Buildable(grid)
            /\ sweep.driver.rows = Injected!FromElements(e)
      BY <1>1, <3>1 DEF RequestInv, ElementsGiven, GridGiven
    <3>4. QED
      BY <2>0, <3>2, <3>3, FromElementsIs
  <2>2. Injected!SolvesSetPointsAsked
    <3>. SUFFICES ASSUME returned
                  PROVE  /\ Len(sweep.driver.gen_v) \in {0, Len(sweep.driver.rows)}
                         /\ DOMAIN sweep.driver.gen_v = DOMAIN asked.gen_v
                         /\ \A r \in DOMAIN sweep.driver.gen_v, k \in DOMAIN grid.gens :
                              LET b == Injected!GenVBus(grid, k) IN
                              (b >= 0 /\ Injected!Movable(grid, b) /\ asked.gen_v[r][k] # Absent)
                                => asked.gen_v[r][k] \in sweep.driver.gen_v[r][b]
      BY DEF Injected!SolvesSetPointsAsked
    <3>. DEFINE values == asked.gen_v
                gv == sweep.driver.gen_v
    <3>1. /\ gv = Injected!Override(grid, values) /\ sweep.driver.rows = sweep.inj
          /\ values \in {<<>>} \cup GenVs /\ Len(values) \in {0, Len(sweep.inj)}
      BY <1>1 DEF InjectionInv, SweepSound, Settable, RunLoaded, RowsLoaded, RequestInv, LengthsAgree
    <3>2. DOMAIN values = 1 .. Len(values) /\ Len(values) \in Nat
      <4>1. CASE values = <<>>
        BY <4>1
      <4>2. CASE values \in GenVs
        <5>1. values \in Seq([DOMAIN grid.gens -> Int \cup {Absent}])
          BY <2>0, <4>2, InjectionAssumption DEF Injected!RowAssumption
        <5>. HIDE DEF values
        <5>2. QED
          BY <5>1
      <4>3. QED
        BY <3>1, <4>1, <4>2
    <3>. HIDE DEF values, gv
    <3>3. DOMAIN gv = DOMAIN values /\ Len(gv) = Len(values)
      <4>1. gv = [r \in 1 .. Len(values) |-> gv[r]]
        BY <3>1, <3>2 DEF Injected!Override
      <4>2. QED
        BY <3>2, <4>1
    <3>4. ASSUME NEW r \in DOMAIN gv, NEW k \in DOMAIN grid.gens,
                 Injected!GenVBus(grid, k) >= 0, Injected!Movable(grid, Injected!GenVBus(grid, k)),
                 values[r][k] # Absent
          PROVE  values[r][k] \in gv[r][Injected!GenVBus(grid, k)]
      <4>. DEFINE b == Injected!GenVBus(grid, k)
      <4>1. b \in Injected!Buses(grid)
        BY <3>4 DEF Injected!GenVBus
      <4>2. k \in Injected!ActiveColumns(grid)
        BY <3>4, <4>1 DEF Injected!ActiveColumns
      <4>3. gv[r][b] = {values[r][j] : j \in {j \in Injected!ActiveColumns(grid) :
                                               Injected!GenVBus(grid, j) = b}} \ {Absent}
        BY <3>1, <3>3, <4>1 DEF Injected!Override
      <4>4. QED
        BY <3>4, <4>2, <4>3
    <3>5. QED
      BY <3>1, <3>3, <3>4 DEF values, gv
  <2>3. ASSUME callsMade = 0, facade.onGrid
        PROVE  Injected!AssembledAlike(grid, {e \in Elements : Injected!Fits(e)})
    <3>1. Injected!Buildable(grid) /\ Injected!IsGrid(grid) /\ ImaginaryUnit \in Int
      BY <1>1, <2>0, <2>3, GridAssumed DEF RequestInv, GridGiven
    <3>2. \A e \in {e \in Elements : Injected!Fits(e)} : FitsGrid(grid, e)
      BY <2>0, FitsTheGrid
    <3>3. QED
      BY <3>1, <3>2, AssembledOf
  <2>4. QED
    BY <2>1, <2>2, <2>3 DEF SolvesWhatIsAsked, Injected!SolvesWhatIsAsked
<1>2. QED
  BY <1>1, InjectionStarts, InjectionInductive, RequestStarts, RequestInductive, PTL
     DEF InjectionSpec, Injected!Spec
=============================================================================
