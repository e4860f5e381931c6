------------------------ MODULE ScenarioSweepSession ------------------------
(***************************************************************************)
(* ScenarioSweepSession (src/src/_cpp/scenario_sweep_session.hpp / .cu):   *)
(* a long-lived session that stages row-aligned inputs (injections, branch *)
(* trips, generator voltages, generator outages, skipped rows) and solves  *)
(* them on a PERSISTENT batch driver.  A run() is cold (new driver), warm  *)
(* (new batch source in the live driver) or hot (only rows are gathered    *)
(* again), decided from dirty flags and from a snapshot of the settings,   *)
(* so the whole correctness of the session is a caching problem: what the  *)
(* driver solves has to be what the caller staged.                         *)
(*                                                                         *)
(* run() is one call of a single-threaded object.  It is cut here at the   *)
(* places where it can throw, because what it did up to the throw stays    *)
(* done: the next run() starts from there.  pc is "idle" between calls.    *)
(* Chunk capacities, the physical checks and the adjoint have modules of   *)
(* their own; here they only show as extra reasons to throw or to rebuild. *)
(***************************************************************************)
EXTENDS Naturals, FiniteSets

CONSTANTS
    None,           \* "not given" / "no such object"
    Injections,     \* (p_mw, q_mvar) matrices a caller may stage
    Topologies,     \* lists of tripped branches, one per row
    GenVs,          \* generator voltage matrices
    GenMasks,       \* generator outage masks
    SkipMasks,      \* masks of the rows declared not simulable
    ExtSats,        \* saturated slack units per row, given by the caller
    BranchSets,     \* branch data (end buses and admittances)
    Settings,       \* values of the driver configuration attributes
    MaskModes,      \* the settings with handle_disconnected_grid
    FactorReuse,    \* the settings with direct_base_case_factors
    Rows,           \* rows of every row-aligned input
    MaxTrip,        \* 1 + largest branch id of a topology
    NumBranches,    \* number of branches of a branch set
    Reserved,       \* buses that lose every local controller in some row
    SlackOff,       \* the masks that take a slack participant out of a row
    StrandsSlack,   \* <<mask, reference>>: some row keeps no participant and
                    \* the reference owns no base weight to take their share
    Buses, GridRef, \* slack buses; the grid's own angle reference
    BestRef         \* slack bus stranded by the fewest rows of a topology

RowInputs ==
    Injections \cup Topologies \cup GenVs \cup GenMasks \cup SkipMasks \cup ExtSats

ASSUME ConstantsAssumption ==
    /\ None \notin RowInputs \cup BranchSets \cup Settings \cup Buses
    /\ Injections # {} /\ Settings # {}
    /\ MaskModes \subseteq Settings
    /\ FactorReuse \subseteq Settings
    /\ Rows \in [RowInputs -> Nat \ {0}]
    /\ MaxTrip \in [Topologies -> Nat]
    /\ NumBranches \in [BranchSets -> Nat]
    /\ Reserved \in [GenMasks -> SUBSET Buses]
    /\ SlackOff \subseteq GenMasks
    /\ StrandsSlack \subseteq SlackOff \X Buses
    /\ GridRef \in Buses
    /\ BestRef \in [Topologies -> Buses]

VARIABLES
    inj,         \* p_mw_ / q_mvar_, or what the device setter was given
    onDevice,    \* injections_on_device_
    sbusOrig,    \* dev_->d_Sbus_orig: the injections it holds
    trips,       \* contingencies_: the lists it holds and their admittances
    hasTopology, \* has_topology_
    genV,        \* gen_v_ (None: has_gen_v_ is false)
    genOff,      \* gen_off_ (None: has_gen_off_ is false)
    skip,        \* skip_rows_ (None: has_skip_ is false)
    branch,      \* h_branch_*_ (None: has_branch_data_ is false)
    dirty,       \* the *_dirty_ flags
    settings,    \* the attributes _current_config() reads
    autoRef,     \* auto_reference_slack_
    forced,      \* forced_ref_bus_
    refChoice,   \* auto_ref_choice_ (None: auto_ref_valid_ is false)
    refBus,      \* ref_bus_
    base,        \* what base_state_ and mask_cfg_ were built with
    redistribute,\* redistribute_slack_
    extSat,      \* ext_sat_units_ (None: has_ext_sat_ is false)
    rdApplied,   \* rd_applied_
    keepJ,       \* keep_final_jacobian_
    keptJ,       \* last_run_kept_jacobian_
    drvCfg,      \* driver_cfg_ (None: solver_ is null)
    src,         \* what the batch source of the live driver carries
    flags,       \* what the per-row flags of contingencies_ were computed on
    pc,          \* how far the current run() got
    path,        \* "cold", "warm" or "hot"
    delivered,   \* history: what the run() that is returning has solved
    jacLive,     \* history: the driver's J is the converged one of its source
    gaps         \* history: open paths on which a guarantee is known to lapse

inputVars  == <<inj, onDevice, trips, hasTopology, genV, genOff, skip, branch>>
refVars    == <<autoRef, forced, refChoice>>
slackVars  == <<redistribute, extSat>>
driverVars == <<drvCfg, src, jacLive>>
runVars    == <<pc, path, delivered>>
vars == <<inputVars, sbusOrig, dirty, settings, refVars, refBus, base, slackVars,
          rdApplied, keepJ, keptJ, driverVars, flags, runVars, gaps>>

Input == {"injections", "topology", "gen_v", "gen_off", "skip"}
Gap   == {"refused_topology", "kept_topology", "unstaged_slack", "lost_reference"}

NumRows == IF inj = None THEN 0 ELSE Rows[inj]
Maybe(S) == S \cup {None}

(* contingencies_: which topology, how many of its rows, whose admittances *)
Trips  == [list : Maybe(Topologies), rows : Nat, branch : Maybe(BranchSets)]
NoTrips(n) == [list |-> None, rows |-> n, branch |-> None]

(* Per-row slack weights on the source.  "base" is what a source without   *)
(* any uses: the base case's shared weights.                               *)
BaseWeights == [kind |-> "base", mask |-> None, from |-> None]
Weights == [kind : {"base", "plain", "prepass", "external"},
            mask : Maybe(GenMasks), from : Maybe(Injections \cup ExtSats)]

PlainWeights(g) ==
    IF g \in SlackOff THEN [kind |-> "plain", mask |-> g, from |-> None]
                      ELSE BaseWeights

Sources == [trips : Trips, genOff : Maybe(GenMasks), skip : Maybe(SkipMasks),
            sbus : Maybe(Injections), genV : Maybe(GenVs), weights : Weights]
RowFlags == [trips : Trips, genOff : Maybe(GenMasks), skip : Maybe(SkipMasks)]
Config == [settings : Settings, rows : Nat]

(* What a run() that returns has solved.                                   *)
Answers == [trips : Trips, genOff : Maybe(GenMasks), skip : Maybe(SkipMasks),
            inj : Maybe(Injections), genV : Maybe(GenVs), settings : Settings]

ASSUME NoneAssumption == None \notin Config \cup Sources \cup Answers

InputTypes ==
    /\ inj \in Maybe(Injections) /\ sbusOrig \in Maybe(Injections)
    /\ onDevice \in BOOLEAN /\ hasTopology \in BOOLEAN
    /\ trips \in Trips /\ (hasTopology => trips.list # None)
    /\ genV \in Maybe(GenVs) /\ genOff \in Maybe(GenMasks) /\ skip \in Maybe(SkipMasks)
    /\ branch \in Maybe(BranchSets)
    /\ dirty \in [Input -> BOOLEAN]

OptionTypes ==
    /\ settings \in Settings
    /\ autoRef \in BOOLEAN /\ forced \in Maybe(Buses) /\ refChoice \in Maybe(Buses)
    /\ refBus \in Buses
    /\ base \in [reserved : SUBSET Buses, ref : Buses]
    /\ redistribute \in BOOLEAN /\ extSat \in Maybe(ExtSats) /\ rdApplied \in BOOLEAN
    /\ keepJ \in BOOLEAN /\ keptJ \in BOOLEAN

DriverTypes ==
    /\ drvCfg \in Maybe(Config)
    /\ src \in Maybe(Sources)
    /\ (drvCfg = None) = (src = None)
    /\ pc \in {"stage", "slack", "solve", "return"} => src # None
    /\ jacLive \in BOOLEAN
    /\ flags \in Maybe(RowFlags)

RunTypes ==
    /\ pc \in {"idle", "path", "stage", "slack", "solve", "return"}
    /\ path \in {"cold", "warm", "hot"}
    /\ delivered \in Maybe(Answers)
    /\ gaps \subseteq Gap

(* The state is well typed; in particular driver and source come and go    *)
(* together, and no step of run() past the path choice is without them.    *)
TypeOK == InputTypes /\ OptionTypes /\ DriverTypes /\ RunTypes

(* The constructor has built the base state on the un-extended ledger.     *)
Init ==
    /\ inj = None /\ onDevice = FALSE /\ sbusOrig = None
    /\ trips = NoTrips(0) /\ hasTopology = FALSE
    /\ genV = None /\ genOff = None /\ skip = None /\ branch = None
    /\ dirty = [i \in Input |-> FALSE]
    /\ settings \in Settings
    /\ autoRef = FALSE /\ forced = None /\ refChoice = None
    /\ refBus = GridRef /\ base = [reserved |-> {}, ref |-> GridRef]
    /\ redistribute = FALSE /\ extSat = None /\ rdApplied = FALSE
    /\ keepJ = FALSE /\ keptJ = FALSE /\ jacLive = FALSE
    /\ drvCfg = None /\ src = None /\ flags = None
    /\ pc = "idle" /\ path = "cold" /\ delivered = None
    /\ gaps = {}

-----------------------------------------------------------------------------
(* The setters.  Each one only stages; the next run() looks at the flags.  *)

SetInjections(v) ==
    /\ pc = "idle"
    /\ inj' = v /\ onDevice' = FALSE
    /\ dirty' = [dirty EXCEPT !["injections"] = TRUE]
    /\ UNCHANGED <<trips, hasTopology, genV, genOff, skip, branch, sbusOrig, settings, refVars,
                   refBus, base, slackVars, rdApplied, keepJ, keptJ, driverVars, flags, runVars, gaps>>

(* The device path copies into the canonical buffer right away.            *)
SetInjectionsDevice(v) ==
    /\ pc = "idle"
    /\ inj' = v /\ onDevice' = TRUE /\ sbusOrig' = v
    /\ dirty' = [dirty EXCEPT !["injections"] = TRUE]
    /\ UNCHANGED <<trips, hasTopology, genV, genOff, skip, branch, settings, refVars,
                   refBus, base, slackVars, rdApplied, keepJ, keptJ, driverVars, flags, runVars, gaps>>

SetGenV(v) ==
    /\ pc = "idle"
    /\ v # None \/ genV # None                     \* clear_gen_v() returns early
    /\ genV' = v
    /\ dirty' = [dirty EXCEPT !["gen_v"] = TRUE]
    /\ UNCHANGED <<inj, onDevice, trips, hasTopology, genOff, skip, branch, sbusOrig, settings,
                   refVars, refBus, base, slackVars, rdApplied, keepJ, keptJ, driverVars, flags,
                   runVars, gaps>>

SetContingencyGens(g) ==
    /\ pc = "idle"
    /\ inj # None => Rows[g] = NumRows
    /\ genOff' = g
    /\ dirty' = [dirty EXCEPT !["gen_off"] = TRUE]
    /\ UNCHANGED <<inj, onDevice, trips, hasTopology, genV, skip, branch, sbusOrig, settings,
                   refVars, refBus, base, slackVars, rdApplied, keepJ, keptJ, driverVars, flags,
                   runVars, gaps>>

SetSkippedRows(s) ==
    /\ pc = "idle"
    /\ IF s = None THEN skip # None                \* clear_skipped_rows() returns early
                   ELSE inj # None => Rows[s] = NumRows
    /\ skip' = s
    /\ dirty' = [dirty EXCEPT !["skip"] = TRUE]
    /\ UNCHANGED <<inj, onDevice, trips, hasTopology, genV, genOff, branch, sbusOrig, settings,
                   refVars, refBus, base, slackVars, rdApplied, keepJ, keptJ, driverVars, flags,
                   runVars, gaps>>

(* set_topology() with valid branch ids.  Its rows are new ones: no flag.  *)
SetTopology(t) ==
    /\ pc = "idle"
    /\ branch # None
    /\ inj # None => Rows[t] = NumRows
    /\ MaxTrip[t] <= NumBranches[branch]
    /\ trips' = [list |-> t, rows |-> Rows[t], branch |-> branch]
    /\ hasTopology' = TRUE
    /\ flags' = None
    /\ refChoice' = None
    /\ dirty' = [dirty EXCEPT !["topology"] = TRUE]
    /\ gaps' = gaps \ {"refused_topology", "kept_topology"}
    /\ UNCHANGED <<inj, onDevice, genV, genOff, skip, branch, sbusOrig, settings, autoRef, forced,
                   refBus, base, slackVars, rdApplied, keepJ, keptJ, driverVars, runVars>>

(* An id out of range throws from row n + 1, after the previous rows were  *)
(* dropped and the first n of the new ones stored.                         *)
SetTopologyRefused(t) ==
    /\ pc = "idle"
    /\ branch # None
    /\ inj # None => Rows[t] = NumRows
    /\ MaxTrip[t] > NumBranches[branch]
    /\ \E n \in 0 .. Rows[t] - 1 : trips' = [list |-> t, rows |-> n, branch |-> branch]
    /\ flags' = None
    /\ gaps' = gaps \cup {"refused_topology"}
    /\ UNCHANGED <<inj, onDevice, hasTopology, genV, genOff, skip, branch, sbusOrig, dirty, settings,
                   refVars, refBus, base, slackVars, rdApplied, keepJ, keptJ, driverVars, runVars>>

(* The rows of a topology are rebuilt from the new admittances, except     *)
(* when their number no longer is that of the injections.                  *)
(* The rows a refused list left behind hold valid ids only.                *)
TripsFit(b) ==
    hasTopology /\ trips.rows = Rows[trips.list] => MaxTrip[trips.list] <= NumBranches[b]

RowsFollow == hasTopology /\ (inj = None \/ trips.rows = NumRows)

SetBranchData(b) ==
    /\ pc = "idle"
    /\ TripsFit(b)
    /\ branch' = b
    /\ \/ /\ RowsFollow
          /\ trips' = [trips EXCEPT !.branch = b]
          /\ flags' = None /\ refChoice' = None
          /\ dirty' = [dirty EXCEPT !["topology"] = TRUE]
          /\ gaps' = gaps \ {"kept_topology"}
       \/ /\ ~RowsFollow
          /\ gaps' = IF hasTopology /\ inj # None /\ trips.rows # NumRows
                        THEN gaps \cup {"kept_topology"} ELSE gaps
          /\ UNCHANGED <<trips, flags, refChoice, dirty>>
    /\ UNCHANGED <<inj, onDevice, hasTopology, genV, genOff, skip, sbusOrig, settings, autoRef,
                   forced, refBus, base, slackVars, rdApplied, keepJ, keptJ, driverVars, runVars>>

(* Plain attributes, compared with the driver's snapshot by run().         *)
SetSettings(s) ==
    /\ pc = "idle"
    /\ settings' = s
    /\ UNCHANGED <<inputVars, sbusOrig, dirty, refVars, refBus, base, slackVars, rdApplied, keepJ,
                   keptJ, driverVars, flags, runVars, gaps>>

SetReference(auto, b) ==
    /\ pc = "idle"
    /\ autoRef' = auto /\ forced' = b
    /\ refChoice' = None
    /\ UNCHANGED <<inputVars, sbusOrig, dirty, settings, refBus, base, slackVars, rdApplied, keepJ,
                   keptJ, driverVars, flags, runVars, gaps>>

(* redistribute_slack, set_/clear_external_slack_saturation()              *)
SetSlack(rd, sat) ==
    /\ pc = "idle"
    /\ redistribute' = rd /\ extSat' = sat
    /\ UNCHANGED <<inputVars, sbusOrig, dirty, settings, refVars, refBus, base, rdApplied, keepJ,
                   keptJ, driverVars, flags, runVars, gaps>>

SetKeepJacobian(k) ==
    /\ pc = "idle"
    /\ keepJ' = k
    /\ UNCHANGED <<inputVars, sbusOrig, dirty, settings, refVars, refBus, base, slackVars, rdApplied,
                   keptJ, driverVars, flags, runVars, gaps>>

-----------------------------------------------------------------------------
(* run(), 1: the checks, and the base state the generator outages and the  *)
(* angle reference ask for.                                                *)

NotRunnable ==
    \/ inj = None
    \/ genV # None /\ Rows[genV] # NumRows
    \/ hasTopology /\ trips.rows # NumRows
    \/ settings \in MaskModes \cap FactorReuse
    \/ genOff # None /\ Rows[genOff] # NumRows
    \/ skip # None /\ Rows[skip] # NumRows

RunRefused ==
    /\ pc = "idle"
    /\ NotRunnable
    /\ keptJ' = FALSE
    /\ UNCHANGED <<inputVars, sbusOrig, dirty, settings, refVars, refBus, base, slackVars, rdApplied,
                   keepJ, driverVars, flags, runVars, gaps>>

Needed == IF genOff = None THEN {} ELSE Reserved[genOff]

(* _wanted_reference_bus(): the choice is cached until it is invalidated.  *)
ChoosesReference == autoRef /\ settings \in MaskModes /\ hasTopology
ChooseReference  == IF forced # None THEN forced ELSE BestRef[trips.list]
CachedChoice     == IF refChoice # None THEN refChoice ELSE ChooseReference
WantedReference  == IF ChoosesReference THEN CachedChoice ELSE GridRef

(* Mutant: a moved reference does not rebuild the base state.              *)
BaseIgnoresReference == base.reserved = Needed

BaseIsCurrent == base.reserved = Needed /\ refBus = WantedReference

(* Base-case factors cannot release a bus or re-weight the slack per row.  *)
FactorsRefuse ==
    settings \in FactorReuse /\ genOff # None /\ (Needed # {} \/ genOff \in SlackOff)

AfterChecks == IF FactorsRefuse THEN "idle" ELSE "path"

(* Mutant: run() forgets to take back the right to read the Jacobian.      *)
StartRunKeepsJacobian ==
    /\ pc = "idle"
    /\ ~NotRunnable
    /\ refChoice' = IF ChoosesReference THEN CachedChoice ELSE refChoice
    /\ UNCHANGED <<inputVars, sbusOrig, dirty, settings, autoRef, forced, slackVars, rdApplied,
                   keepJ, keptJ, flags, path, delivered>>

StartRun ==
    /\ pc = "idle"
    /\ ~NotRunnable
    /\ keptJ' = FALSE
    /\ refChoice' = IF ChoosesReference THEN CachedChoice ELSE refChoice
    /\ UNCHANGED <<inputVars, sbusOrig, dirty, settings, autoRef, forced, slackVars, rdApplied,
                   keepJ, flags, path, delivered>>

RunKeepsBase ==
    /\ StartRun
    /\ BaseIsCurrent
    /\ pc' = AfterChecks
    /\ UNCHANGED <<refBus, base, driverVars, gaps>>

(* Mutant: the source goes, the driver configuration stays.                *)
DropSourceOnly == UNCHANGED drvCfg /\ src' = None /\ jacLive' = FALSE

(* _build_base_state(): the driver references the base state, it goes.     *)
DropDriver == drvCfg' = None /\ src' = None /\ jacLive' = FALSE

RunRebuildsBase ==
    /\ StartRun
    /\ ~BaseIsCurrent
    /\ DropDriver
    /\ refBus' = WantedReference
    /\ base' = [reserved |-> Needed, ref |-> WantedReference]
    /\ pc' = AfterChecks
    /\ gaps' = gaps \ {"lost_reference"}

(* The base-case solve throws: ref_bus_ already holds the wanted bus.      *)
RunFailsToRebuildBase ==
    /\ StartRun
    /\ ~BaseIsCurrent
    /\ DropDriver
    /\ refBus' = WantedReference
    /\ pc' = "idle"
    /\ gaps' = IF base.ref = WantedReference THEN gaps \ {"lost_reference"}
                                             ELSE gaps \cup {"lost_reference"}
    /\ UNCHANGED base

-----------------------------------------------------------------------------
(* run(), 2: cold, warm or hot.                                            *)

CurrentConfig == [settings |-> settings, rows |-> NumRows]
Cold == drvCfg # CurrentConfig
(* Mutants: one flag is left out of the warm condition.                    *)
DirtyWithoutSkip == dirty["topology"] \/ dirty["gen_off"]
DirtyWithoutGenOff == dirty["topology"] \/ dirty["skip"]

SourceDirty == dirty["topology"] \/ dirty["gen_off"] \/ dirty["skip"]
Warm == ~Cold /\ SourceDirty
ChosenPath == IF Cold THEN "cold" ELSE IF Warm THEN "warm" ELSE "hot"

SourceTrips == IF hasTopology THEN trips ELSE NoTrips(NumRows)

(* Mutant: injections travel with a new source only.                       *)
UploadWithNewSource ==
    sbusOrig' = IF (Cold \/ Warm) /\ ~onDevice THEN inj ELSE sbusOrig

UploadInjections ==
    sbusOrig' = IF dirty["injections"] /\ ~onDevice THEN inj ELSE sbusOrig

(* Mutant: the rows keep the skip marks of the previous source.            *)
ResetRowsKeepsSkips ==
    /\ trips' = SourceTrips
    /\ flags' = [trips |-> SourceTrips, genOff |-> genOff,
                 skip |-> IF flags = None THEN None ELSE flags.skip]

(* A new source resets the per-row flags and computes them again.          *)
ResetRows ==
    /\ trips' = SourceTrips
    /\ flags' = [trips |-> SourceTrips, genOff |-> genOff, skip |-> skip]

TakePath ==
    /\ pc = "path"
    /\ path' = ChosenPath
    /\ UploadInjections
    /\ UNCHANGED <<inj, onDevice, hasTopology, genV, genOff, skip, branch, dirty, settings, refVars,
                   refBus, base, slackVars, rdApplied, keepJ, keptJ, delivered>>

RunHot ==
    /\ TakePath
    /\ ~Cold /\ ~Warm
    /\ pc' = "stage"
    /\ UNCHANGED <<trips, driverVars, flags, gaps>>

ClearedGaps == IF hasTopology THEN gaps ELSE gaps \ {"refused_topology"}

(* Injections, voltages and weights of the rows come later.                *)
BareSource ==
    [trips |-> SourceTrips, genOff |-> genOff, skip |-> skip,
     sbus |-> None, genV |-> None, weights |-> BaseWeights]

(* Warm: the source is swapped into the live driver, or a new driver is    *)
(* built when the live chunk capacity does not suit it (BatchDriver).      *)
(* Cold: always a new driver.  The state seen here is the same.            *)
RunNewSource ==
    /\ TakePath
    /\ Cold \/ Warm
    /\ pc' = "stage"
    /\ ResetRows
    /\ drvCfg' = CurrentConfig
    /\ src' = BareSource
    /\ jacLive' = FALSE
    /\ gaps' = ClearedGaps

(* replace_source() has swapped the source in when its initialize() runs   *)
(* out of memory: it stays, bare, in the live driver.                      *)
RunFailsInNewSource ==
    /\ TakePath
    /\ Warm
    /\ pc' = "idle"
    /\ ResetRows
    /\ src' = BareSource
    /\ jacLive' = FALSE
    /\ gaps' = ClearedGaps
    /\ UNCHANGED drvCfg

(* The old driver is freed before the new one is made, which may throw     *)
(* (sizes beyond 32 bits, device memory).                                  *)
RunFailsToBuildDriver ==
    /\ TakePath
    /\ Cold \/ Warm
    /\ pc' = "idle"
    /\ ResetRows
    /\ DropDriver
    /\ gaps' = ClearedGaps

-----------------------------------------------------------------------------
(* run(), 3: injections and generator voltages onto the live source.       *)
RunStage ==
    /\ pc = "stage"
    /\ pc' = "slack"
    /\ src' = [src EXCEPT !.sbus = sbusOrig,
                          !.genV = IF path # "hot" \/ dirty["gen_v"] THEN genV ELSE @]
    /\ jacLive' = FALSE
    /\ UNCHANGED <<inputVars, sbusOrig, dirty, settings, refVars, refBus, base, slackVars, rdApplied,
                   keepJ, keptJ, drvCfg, flags, path, delivered, gaps>>

(* run(), 4: the per-row slack.  A hot run with no pre-pass and no         *)
(* external saturation, now or in the weights it inherits, stages nothing. *)
SlackActive == redistribute \/ extSat # None

(* Mutant: weights missing from a source swapped into the live driver are  *)
(* not staged again.                                                       *)
StagesWhenCold == path = "cold" \/ SlackActive \/ rdApplied

StagesSlack == path # "hot" \/ SlackActive \/ rdApplied

SlackRefused ==
    \/ redistribute /\ extSat # None
    \/ redistribute /\ (onDevice \/ settings \in FactorReuse)
    \/ ~redistribute /\ extSat # None /\ Rows[extSat] # NumRows
    \/ StagesSlack /\ ~SlackActive /\ <<genOff, base.ref>> \in StrandsSlack

WantedWeights ==
    IF redistribute THEN [kind |-> "prepass", mask |-> genOff, from |-> inj]
    ELSE IF extSat # None THEN [kind |-> "external", mask |-> genOff, from |-> extSat]
    ELSE PlainWeights(genOff)

(* Besides, the pre-pass and the external saturation need participants,    *)
(* a common sn_mva and a survivor to take the share: not modelled, so they *)
(* may always throw.                                                       *)
RunSlackRefused ==
    /\ pc = "slack"
    /\ SlackRefused \/ SlackActive
    /\ pc' = "idle"
    /\ gaps' = IF path = "hot" THEN gaps ELSE gaps \cup {"unstaged_slack"}
    /\ UNCHANGED <<inputVars, sbusOrig, dirty, settings, refVars, refBus, base, slackVars, rdApplied,
                   keepJ, keptJ, driverVars, flags, path, delivered>>

RunSlack ==
    /\ pc = "slack"
    /\ ~SlackRefused
    /\ pc' = "solve"
    /\ \/ /\ StagesSlack
          /\ src' = [src EXCEPT !.weights = WantedWeights]
          /\ rdApplied' = SlackActive
          /\ gaps' = gaps \ {"unstaged_slack"}
       \/ /\ ~StagesSlack
          /\ UNCHANGED <<src, rdApplied, gaps>>
    /\ UNCHANGED <<inputVars, sbusOrig, dirty, settings, refVars, refBus, base, slackVars, keepJ,
                   keptJ, drvCfg, jacLive, flags, path, delivered>>

-----------------------------------------------------------------------------
(* run(), 5: limits, physical checks, solve.  A missing limit or plan, or  *)
(* a batch of several chunks with keep_final_jacobian, throws.             *)
RunSolveRefused ==
    /\ pc = "solve"
    /\ pc' = "idle"
    /\ UNCHANGED <<inputVars, sbusOrig, dirty, settings, refVars, refBus, base, slackVars, rdApplied,
                   keepJ, keptJ, driverVars, flags, path, delivered, gaps>>

RunSolve ==
    /\ pc = "solve"
    /\ pc' = "return"
    /\ delivered' = [trips |-> src.trips, genOff |-> src.genOff, skip |-> src.skip,
                     inj |-> src.sbus, genV |-> src.genV, settings |-> drvCfg.settings]
    /\ dirty' = [i \in Input |-> FALSE]
    /\ keptJ' = keepJ
    /\ jacLive' = keepJ
    /\ UNCHANGED <<inputVars, sbusOrig, settings, refVars, refBus, base, slackVars, rdApplied, keepJ,
                   drvCfg, src, flags, path, gaps>>

RunReturn ==
    /\ pc = "return"
    /\ pc' = "idle"
    /\ delivered' = None
    /\ UNCHANGED <<inputVars, sbusOrig, dirty, settings, refVars, refBus, base, slackVars, rdApplied,
                   keepJ, keptJ, driverVars, flags, path, gaps>>

-----------------------------------------------------------------------------
Setters ==
    \/ \E v \in Injections : SetInjections(v) \/ SetInjectionsDevice(v)
    \/ \E v \in Maybe(GenVs) : SetGenV(v)
    \/ \E g \in GenMasks : SetContingencyGens(g)
    \/ \E s \in Maybe(SkipMasks) : SetSkippedRows(s)
    \/ \E t \in Topologies : SetTopology(t) \/ SetTopologyRefused(t)
    \/ \E b \in BranchSets : SetBranchData(b)
    \/ \E s \in Settings : SetSettings(s)
    \/ \E a \in BOOLEAN, b \in Maybe(Buses) : SetReference(a, b)
    \/ \E rd \in BOOLEAN, sat \in Maybe(ExtSats) : SetSlack(rd, sat)
    \/ \E k \in BOOLEAN : SetKeepJacobian(k)

Run ==
    \/ RunRefused \/ RunKeepsBase \/ RunRebuildsBase \/ RunFailsToRebuildBase
    \/ RunHot \/ RunNewSource \/ RunFailsInNewSource \/ RunFailsToBuildDriver
    \/ RunStage \/ RunSlackRefused \/ RunSlack
    \/ RunSolveRefused \/ RunSolve \/ RunReturn

Next == Setters \/ Run

Spec == Init /\ [][Next]_vars

-----------------------------------------------------------------------------
(* What the kernels read is what the caller staged last, whatever calls    *)
(* and failures came before: run()'s cold / warm / hot choice loses no     *)
(* change.  (A refused set_topology() leaves rows nobody asked for, see    *)
(* SetTopologyRefused.)                                                    *)
SolveReadsStagedInputs ==
    pc = "solve" =>
        /\ src.sbus = inj /\ src.genV = genV
        /\ src.genOff = genOff /\ src.skip = skip
        /\ "refused_topology" \notin gaps => src.trips = trips

(* The live driver was built for the current settings and row count, on a  *)
(* base state that reserves exactly the buses the generator mask releases, *)
(* with the angle reference _wanted_reference_bus() would choose from      *)
(* scratch.                                                                *)
DriverMatchesSession ==
    pc \in {"stage", "slack", "solve"} =>
        /\ drvCfg = CurrentConfig
        /\ base.reserved = Needed
        /\ gaps \cap {"lost_reference", "refused_topology"} = {} =>
              base.ref = IF ChoosesReference THEN ChooseReference ELSE GridRef

(* The Ybus patches come from the branch data set last (set_branch_data()  *)
(* rebuilds the rows of the current topology), unless it left them alone   *)
(* because their number was not that of the injections.                    *)
PatchesUseCurrentAdmittances ==
    pc = "solve" /\ hasTopology /\ "kept_topology" \notin gaps => src.trips.branch = branch

(* Every row's slack is shared by the weights its outages, pre-pass or     *)
(* external saturation ask for -- unless the run that made the source      *)
(* threw before it staged them.                                            *)
SlackWeightsFollowMask ==
    pc = "solve" /\ "unstaged_slack" \notin gaps => src.weights = WantedWeights

(* get_disconnected() and the voltages tell of the same source: the flags  *)
(* are recomputed exactly when a source is built.                          *)
FlagsDescribeSource ==
    src # None /\ flags # None =>
        flags = [trips |-> src.trips, genOff |-> src.genOff, skip |-> src.skip]

(* solve_JT_batch() in alias mode reads the driver's J only while that is  *)
(* the Jacobian refilled at the converged point of the last forward: a     *)
(* run() that throws part-way ends the right to read it.                   *)
KeptJacobianIsLive == keptJ => src # None /\ jacLive

-----------------------------------------------------------------------------
(* Why SolveReadsStagedInputs holds: a clean flag means the driver already *)
(* holds the input, between calls and after any throw; and run() leaves    *)
(* the path choice with a source that holds the flagged ones, too.         *)
CleanMeansCached ==
    /\ onDevice \/ ~dirty["injections"] => sbusOrig = inj
    /\ src # None =>
          /\ ~dirty["gen_off"] => src.genOff = genOff
          /\ ~dirty["skip"] => src.skip = skip
          /\ ~dirty["topology"] /\ "refused_topology" \notin gaps => src.trips = trips
          /\ ~dirty["gen_v"] /\ ~SourceDirty /\ ~(pc = "stage" /\ path # "hot") =>
                src.genV = genV

RunHoldsInputs ==
    /\ pc \in {"stage", "slack", "solve", "return"} =>
          /\ drvCfg = CurrentConfig /\ sbusOrig = inj
          /\ src.genOff = genOff /\ src.skip = skip
          /\ "refused_topology" \notin gaps => src.trips = trips
    /\ pc = "stage" /\ path = "hot" => ~SourceDirty
    /\ pc \in {"slack", "solve", "return"} => src.sbus = inj /\ src.genV = genV

AnswerIsTheSource ==
    delivered = IF pc # "return" THEN None
                ELSE [trips |-> src.trips, genOff |-> src.genOff, skip |-> src.skip,
                      inj |-> src.sbus, genV |-> src.genV, settings |-> drvCfg.settings]

FreshnessInv == CleanMeansCached /\ RunHoldsInputs /\ AnswerIsTheSource

-----------------------------------------------------------------------------
(* Why BatchMatchesSession holds: what each of the four open paths in gaps *)
(* leaves behind is all that can differ from the session's inputs.         *)

(* The cached choice of the reference is the one a fresh choice makes.     *)
ReferenceIsCached ==
    /\ ~hasTopology => refChoice = None
    /\ refChoice # None /\ "refused_topology" \notin gaps => refChoice = ChooseReference

(* Past the checks of run(), ref_bus_ and the reserved buses are wanted.   *)
BaseFollowsReference ==
    /\ "lost_reference" \notin gaps => base.ref = refBus
    /\ pc \in {"path", "stage", "slack", "solve"} =>
          base.reserved = Needed /\ refBus = WantedReference

(* A clean topology flag means the source has the admittances of the       *)
(* branch data, even when the rows of a refused list are staged.           *)
PatchesFollowBranches ==
    hasTopology /\ "kept_topology" \notin gaps =>
        /\ trips.branch = branch
        /\ src # None /\ (~dirty["topology"] \/ pc \in {"stage", "slack", "solve"}) =>
              src.trips.branch = branch

(* A clean source whose weights are neither a pre-pass's nor external has  *)
(* the weights of its own outages, so a hot run() may leave them there.    *)
WeightsFollowSource ==
    /\ pc \in {"stage", "slack"} /\ path = "hot" => ~SourceDirty
    /\ src # None /\ "unstaged_slack" \notin gaps /\ ~SourceDirty /\ ~rdApplied
          /\ ~(pc \in {"stage", "slack"} /\ path # "hot") =>
          src.weights = PlainWeights(src.genOff)
    /\ pc = "solve" => rdApplied = SlackActive
    /\ SlackWeightsFollowMask

BatchInv ==
    ReferenceIsCached /\ BaseFollowsReference /\ PatchesFollowBranches /\ WeightsFollowSource

-----------------------------------------------------------------------------
(* What the comments of the code say without the exceptions above.         *)

(* set_branch_data(): a list whose row count is not that of the injections *)
(* "is left as is: run() refuses it anyway".                               *)
PatchesAlwaysCurrent == pc = "solve" /\ hasTopology => src.trips.branch = branch

(* run(): the generator contingencies' weights are staged whenever the     *)
(* source has none yet.                                                    *)
SlackWeightsAlwaysStaged == pc = "solve" => src.weights = WantedWeights

(* ref_bus_ is the bus base_state_ was built with.                         *)
ReferenceIsTheBasesOwn == pc = "solve" => base.ref = refBus

(* The batch a run() is about to solve has the patches of the branch data,  *)
(* the slack weights, the settings, the base state and the angle reference  *)
(* that the session's inputs call for.                                      *)
BatchMatchesSession ==
    PatchesUseCurrentAdmittances /\ SlackWeightsFollowMask /\ DriverMatchesSession
=============================================================================
