---------------------------- MODULE PhysicalChecks ----------------------------
(***************************************************************************)
(* The post-solve physical checks of ScenarioSweepSession: their settings  *)
(* (contingency/physical_checks_data.hpp), what before_solve() puts on the *)
(* live driver (contingency/physical_checks_impl.cuh and the set_*_check   *)
(* of batch_pf_driver.cu), and the part of run() around them.              *)
(*                                                                         *)
(* A driver outlives a run(), and so do the tables of the checks: a key of *)
(* the settings they were made with tells whether they can be kept.  Per   *)
(* row set-points and the generator mask live beside the key, with flags   *)
(* of their own, and setting all this up may throw at any point.  What     *)
(* could go wrong is a report of earlier settings, masks or set-points.    *)
(*                                                                         *)
(* A report is what it was computed from.  One row stands for any of them: *)
(* the source solves it (active) or leaves it out.  The base case has      *)
(* converged (base_converged); the physics of the checks is left out.      *)
(***************************************************************************)
EXTENDS Naturals

CONSTANTS
    None,
    Settings,    \* tolerances and capacity of the checks
    Masks,       \* generator outage masks
    Targets,     \* per-row set-points a caller may give
    Columns,     \* of a matrix of set-points
    Moves,       \* what the slack pre-pass may do to the units of a batch
    Shifts,      \* those of them that give a unit another set-point
    Sizes,       \* entries of a plan
    MaxPlans     \* bound on the calls that give a plan

ASSUME ChecksAssumption ==
    /\ None \notin Settings \cup Masks \cup Targets \cup Moves
    /\ Settings # {} /\ Sizes \subseteq Nat
    /\ Columns \in [Targets -> Nat \ {0}]
    /\ Shifts \subseteq Moves
    /\ MaxPlans \in Nat

Maybe(S) == S \cup {None}

(* In the order before_solve() sets them up.                               *)
Checks    == <<"bus_q", "hvdc_p", "gen_p", "release">>
Check     == {"bus_q", "hvdc_p", "gen_p", "release"}
Planned   == {"bus_q", "gen_p", "release"}
Targeted  == {"gen_p", "release"}
NoPlan    == [id |-> 0, size |-> 0]

VARIABLES
    on,          \* compute_physical_violations
    setting,     \* the tolerances and the capacity
    plan,        \* *_plan, told apart by the plan_generation that gave it
    planGen,     \* plan_generation
    hasResult,   \* has_result
    mask,        \* gen_off_ (None: has_gen_off_ is false)
    dirty,       \* topology_dirty_, gen_off_dirty_ or skip_dirty_
    targets,     \* gen_p_targets_, gen_pv_release_targets_ (None: empty)
    targetsDirty,\* gen_p_targets_dirty_, gen_pv_release_targets_dirty_
    moved,       \* what the pre-pass of redistribute_slack would do now
    rdLast,      \* rd_gp_last_
    devMask,     \* dev_->d_gen_off
    alive,       \* solver_ is not null
    active,      \* the source of the live driver solves the row
    table,       \* per check, what its device tables hold (None: not enabled)
    key,         \* phys_setup_key_ (None: phys_setup_valid_ is false)
    devTargets,  \* d_gp_targets, d_gr_targets
    noShare,     \* d_gp_no_share_gen / _sto
    report,      \* per check, the row's report (None: -1, never simulated)
    baseReport,  \* per check, the base case's report
    pc,          \* "idle", "driver", "same", "fresh", "solve" or "return"
    refreshed,   \* cold or warm, in run()
    excused      \* history: open paths on which a guarantee is known to lapse

configVars == <<on, setting, plan, planGen>>
stageVars  == <<mask, targets, moved>>
driverVars == <<alive, active, table, key, devTargets, noShare, report, baseReport>>
vars == <<configVars, stageVars, hasResult, dirty, targetsDirty, rdLast, devMask, driverVars,
          pc, refreshed, excused>>

Blank(S) == [c \in S |-> None]

MovedTargets == [over : Maybe(Targets), by : Shifts, size : Sizes]
Table   == [plan : Nat, setting : Settings, masked : BOOLEAN]
Report  == [plan : Nat, setting : Settings, mask : Maybe(Masks),
            targets : Maybe(Targets \cup MovedTargets), share : Maybe(Moves)]
Basis   == [plan : Nat, setting : Settings]
Key     == [gen : Nat, setting : Settings, masked : BOOLEAN]

ASSUME NoneAssumption == None \notin Table \cup Key

ConfigTypes ==
    /\ on \in BOOLEAN /\ setting \in Settings /\ hasResult \in BOOLEAN
    /\ planGen \in 0 .. MaxPlans
    /\ plan \in [Planned -> [id : 0 .. planGen, size : Sizes \cup {0}]]

StagedTypes ==
    /\ mask \in Maybe(Masks) /\ devMask \in Maybe(Masks) /\ dirty \in BOOLEAN
    /\ targets \in [Targeted -> Maybe(Targets)] /\ targetsDirty \in [Targeted -> BOOLEAN]
    /\ moved \in Maybe(Moves) /\ rdLast \in BOOLEAN

DriverTypes ==
    /\ alive \in BOOLEAN /\ active \in BOOLEAN
    /\ table \in [Check -> Maybe(Table)] /\ key \in Maybe(Key)
    /\ devTargets \in [Targeted -> Maybe(Targets \cup MovedTargets)]
    /\ noShare \in Maybe(Moves)
    /\ key # None \/ pc \in {"same", "fresh"} => alive /\ \A c \in Check : table[c] # None

ReportTypes ==
    /\ report \in [Check -> Maybe(Report)] /\ baseReport \in [Check -> Maybe(Basis)]

RunTypes ==
    /\ pc \in {"idle", "driver", "same", "fresh", "solve", "return"}
    /\ refreshed \in BOOLEAN /\ excused \subseteq {"mask", "setup", "moved"}
    /\ pc # "idle" => alive

(* The state is well typed; in particular a valid key means that all four  *)
(* checks are set up on a live driver.                                     *)
TypeOK == ConfigTypes /\ StagedTypes /\ DriverTypes /\ ReportTypes /\ RunTypes

Init ==
    /\ on = FALSE /\ setting \in Settings /\ hasResult = FALSE
    /\ plan = [c \in Planned |-> NoPlan] /\ planGen = 0
    /\ mask = None /\ dirty = FALSE /\ moved = None
    /\ targets = Blank(Targeted) /\ targetsDirty = [c \in Targeted |-> FALSE]
    /\ rdLast = FALSE /\ devMask = None
    /\ alive = FALSE /\ active = FALSE /\ table = Blank(Check) /\ key = None
    /\ devTargets = Blank(Targeted) /\ noShare = None
    /\ report = Blank(Check) /\ baseReport = Blank(Check)
    /\ pc = "idle" /\ refreshed = FALSE /\ excused = {}

-----------------------------------------------------------------------------
(* Between two run(): the settings drop the report they do not describe.   *)
Setter ==
    /\ pc = "idle"
    /\ UNCHANGED <<rdLast, devMask, driverVars, pc, refreshed, excused>>

SetComputePhysicalViolations(v) ==
    /\ Setter
    /\ on # v
    /\ on' = v /\ hasResult' = FALSE
    /\ UNCHANGED <<setting, plan, planGen, stageVars, dirty, targetsDirty>>

(* Mutant: a new tolerance leaves the report of the old one readable.      *)
SetToleranceOnly(s) ==
    /\ Setter
    /\ setting' = s
    /\ UNCHANGED <<on, plan, planGen, hasResult, stageVars, dirty, targetsDirty>>

SetTolerance(s) ==
    /\ Setter
    /\ setting' = s
    /\ hasResult' = (hasResult /\ s = setting)
    /\ UNCHANGED <<on, plan, planGen, stageVars, dirty, targetsDirty>>

SetPlan(c, n) ==
    /\ Setter
    /\ planGen < MaxPlans
    /\ planGen' = planGen + 1
    /\ plan' = [plan EXCEPT ![c] = [id |-> planGen + 1, size |-> n]]
    /\ hasResult' = FALSE
    /\ UNCHANGED <<on, setting, stageVars, dirty, targetsDirty>>

SetTargets(c, t) ==
    /\ Setter
    /\ targets' = [targets EXCEPT ![c] = t]
    /\ targetsDirty' = [targetsDirty EXCEPT ![c] = TRUE]
    /\ UNCHANGED <<configVars, hasResult, mask, moved, dirty>>

SetContingencyGens(g) ==
    /\ Setter
    /\ mask' = g /\ dirty' = TRUE
    /\ UNCHANGED <<configVars, hasResult, targets, moved, targetsDirty>>

(* Another topology, or other rows to skip.                                *)
ChangeSource ==
    /\ Setter
    /\ dirty' = TRUE
    /\ UNCHANGED <<configVars, hasResult, stageVars, targetsDirty>>

(* redistribute_slack on or off, or injections that make the pre-pass move *)
(* other units.                                                            *)
Redistribute(m) ==
    /\ Setter
    /\ moved' = m
    /\ UNCHANGED <<configVars, hasResult, mask, targets, dirty, targetsDirty>>

-----------------------------------------------------------------------------
(* run(), up to the driver.  A cold run can always be asked for, by any of *)
(* the attributes a driver is built with; a warm one that builds a driver  *)
(* of another capacity looks the same.                                     *)
Entering ==
    /\ pc = "idle"
    /\ UNCHANGED <<configVars, stageVars, hasResult, dirty, targetsDirty, rdLast, devMask>>

NoChecks ==
    /\ table' = Blank(Check) /\ key' = None
    /\ devTargets' = Blank(Targeted) /\ noShare' = None
    /\ report' = Blank(Check) /\ baseReport' = Blank(Check)

RunCold ==
    /\ Entering
    /\ alive' = TRUE /\ active' \in BOOLEAN
    /\ NoChecks
    /\ pc' = "driver" /\ refreshed' = TRUE
    /\ excused' = excused \ {"setup", "moved"}

(* replace_source() keeps what the checks have on the driver.              *)
RunWarm ==
    /\ Entering
    /\ alive /\ dirty
    /\ active' \in BOOLEAN
    /\ pc' = "driver" /\ refreshed' = TRUE
    /\ UNCHANGED <<alive, table, key, devTargets, noShare, report, baseReport, excused>>

RunHot ==
    /\ Entering
    /\ alive /\ ~dirty
    /\ pc' = "driver" /\ refreshed' = FALSE
    /\ UNCHANGED <<driverVars, excused>>

RunLosesDriver ==
    /\ Entering
    /\ alive' = FALSE /\ active' = FALSE
    /\ NoChecks
    /\ excused' = excused \ {"setup", "moved"}
    /\ UNCHANGED <<pc, refreshed>>

(* The slack checks, limits: everything between the driver and the checks. *)
RunFails ==
    /\ pc = "driver"
    /\ pc' = "idle"
    /\ UNCHANGED <<configVars, stageVars, hasResult, dirty, targetsDirty, rdLast, devMask,
                   driverVars, refreshed, excused>>

-----------------------------------------------------------------------------
(* run() and before_solve(): the generator mask, then the tables.          *)

RefreshesMask == mask # None /\ (refreshed \/ dirty \/ devMask = None)

MaskRefreshed ==
    /\ devMask' = IF RefreshesMask THEN mask ELSE devMask
    /\ excused' = IF RefreshesMask THEN excused \ {"mask"} ELSE excused

Checking ==
    /\ pc = "driver"
    /\ UNCHANGED <<configVars, stageVars, hasResult, dirty, targetsDirty, rdLast, alive, active,
                   noShare, refreshed>>

(* Mutant: the checks stop, the key of their set-up stays.                 *)
StopChecksOnly == table' = Blank(Check) /\ UNCHANGED key

DisablePhysicalChecks == table' = Blank(Check) /\ key' = None

ChecksOff ==
    /\ Checking
    /\ ~on
    /\ DisablePhysicalChecks
    /\ excused' = excused \ {"setup"}
    /\ pc' = "solve"
    /\ UNCHANGED <<devMask, devTargets, report, baseReport>>

PlanMissing ==
    /\ Checking
    /\ on /\ plan["bus_q"].id = 0
    /\ MaskRefreshed
    /\ pc' = "idle"
    /\ UNCHANGED <<table, key, devTargets, report, baseReport>>

(* Mutant: the key does not tell tolerances apart.                         *)
KeyWithoutSettings ==
    [gen |-> planGen, setting |-> IF key = None THEN setting ELSE key.setting,
     masked |-> mask # None]

SetupKey == [gen |-> planGen, setting |-> setting, masked |-> mask # None]

ResetPhysicalOutputs == report' = Blank(Check)

SetUpKept ==
    /\ Checking
    /\ on /\ plan["bus_q"].id # 0
    /\ key = SetupKey
    /\ MaskRefreshed
    /\ ResetPhysicalOutputs
    /\ pc' = "same"
    /\ UNCHANGED <<table, key, devTargets, baseReport>>

PlanOf(c) == IF c = "hvdc_p" THEN 0 ELSE plan[c].id
NewTable(c) ==
    [plan |-> PlanOf(c), setting |-> setting, masked |-> c # "hvdc_p" /\ mask # None]
NewBasis(c) == [plan |-> PlanOf(c), setting |-> setting]

Stride(v) == IF v = None THEN 0 ELSE IF v \in Targets THEN Columns[v] ELSE v.size

(* The set_*_check of the first n checks, each followed for the first two  *)
(* by its base case report.  Set-points of another plan's size are dropped.*)
SetChecks(n) ==
    LET done == {Checks[i] : i \in 1 .. n} IN
    /\ table' = [c \in Check |-> IF c \in done THEN NewTable(c) ELSE table[c]]
    /\ report' = [c \in Check |-> IF c \in done THEN None ELSE report[c]]
    /\ baseReport' = [c \in Check |->
          IF c \in done THEN IF c \in Targeted THEN None ELSE NewBasis(c) ELSE baseReport[c]]
    /\ devTargets' = [c \in Targeted |->
          IF c \in done /\ Stride(devTargets[c]) # plan[c].size THEN None ELSE devTargets[c]]

SetUpAnew ==
    /\ Checking
    /\ on /\ plan["bus_q"].id # 0
    /\ key # SetupKey
    /\ MaskRefreshed
    /\ SetChecks(4)
    /\ pc' = "fresh"
    /\ UNCHANGED key

(* A generator of a plan outside of the mask's columns, or a device error. *)
SetUpFails(n) ==
    /\ Checking
    /\ on /\ plan["bus_q"].id # 0
    /\ key # SetupKey
    /\ SetChecks(n)
    /\ devMask' = IF RefreshesMask THEN mask ELSE devMask
    /\ excused' = (IF RefreshesMask THEN excused \ {"mask"} ELSE excused)
                  \cup (IF n > 0 /\ key # None THEN {"setup"} ELSE {})
    /\ pc' = "idle"
    /\ UNCHANGED key

-----------------------------------------------------------------------------
(* The set-points: gen_p_check_inputs() and sync_targets().                *)
Fits(c) == targets[c] = None \/ Columns[targets[c]] = plan[c].size

PrepassTargets ==
    IF moved \in Shifts /\ plan["gen_p"].size > 0
      THEN [over |-> IF Fits("gen_p") THEN targets["gen_p"] ELSE None, by |-> moved,
            size |-> plan["gen_p"].size]
      ELSE None

WantedTargets(c) ==
    IF c = "gen_p" /\ PrepassTargets # None THEN PrepassTargets ELSE targets[c]

(* Mutant: what a pre-pass left on the driver is not replaced.             *)
DirtyIgnoresLast(c) == targetsDirty[c] \/ (c = "gen_p" /\ moved # None)

IsDirty(c) == targetsDirty[c] \/ (c = "gen_p" /\ (moved # None \/ rdLast))

Uploads(c) == WantedTargets(c) # None /\ (IsDirty(c) \/ devTargets[c] = None)
Misfit(c)  == Uploads(c) /\ ~Fits(c) /\ WantedTargets(c) = targets[c]
Synced(c)  == IF Uploads(c) \/ WantedTargets(c) = None THEN WantedTargets(c) ELSE devTargets[c]

SettingTargets ==
    /\ pc \in {"same", "fresh"}
    /\ UNCHANGED <<configVars, stageVars, hasResult, dirty, devMask, alive, active, table,
                   report, refreshed>>

(* Tables made anew count as set up only from here on.                     *)
TornSetup == IF pc = "fresh" /\ key # None THEN {"setup"} ELSE {}

GenPTargetsRefused ==
    /\ SettingTargets
    /\ Misfit("gen_p")
    /\ pc' = "idle"
    /\ excused' = excused \cup TornSetup
    /\ UNCHANGED <<targetsDirty, rdLast, key, devTargets, noShare, baseReport>>

(* The set-points of the active check are on the driver by then.           *)
ReleaseTargetsRefused ==
    /\ SettingTargets
    /\ ~Misfit("gen_p") /\ Misfit("release")
    /\ devTargets' = [devTargets EXCEPT !["gen_p"] = Synced("gen_p")]
    /\ pc' = "idle"
    /\ excused' = (IF devTargets'["gen_p"] # WantedTargets("gen_p") THEN excused
                   ELSE excused \ {"moved"})
                  \cup TornSetup
                  \cup (IF PrepassTargets # None /\ ~rdLast THEN {"moved"} ELSE {})
    /\ UNCHANGED <<targetsDirty, rdLast, key, noShare, baseReport>>

ChecksReady ==
    /\ SettingTargets
    /\ ~Misfit("gen_p") /\ ~Misfit("release")
    /\ devTargets' = [c \in Targeted |-> Synced(c)]
    /\ noShare' = moved                       \* upload_gen_p_no_share()
    /\ rdLast' = (moved # None)
    /\ targetsDirty' = [c \in Targeted |-> FALSE]
    /\ key' = SetupKey
    /\ baseReport' = IF pc = "fresh" THEN [c \in Check |->
                        IF c \in Targeted THEN [plan |-> table[c].plan, setting |-> table[c].setting]
                        ELSE baseReport[c]] ELSE baseReport
    /\ excused' = (IF devTargets'["gen_p"] # WantedTargets("gen_p") THEN excused
                   ELSE excused \ {"moved"}) \ (IF pc = "fresh" THEN {"setup"} ELSE {})
    /\ pc' = "solve"

-----------------------------------------------------------------------------
(* solve() runs the enabled checks on the rows it solves.                  *)
MadeFrom(c) ==
    [plan |-> table[c].plan, setting |-> table[c].setting,
     mask |-> IF table[c].masked THEN devMask ELSE None,
     targets |-> IF c \in Targeted THEN devTargets[c] ELSE None,
     share |-> IF c = "gen_p" THEN noShare ELSE None]

Solved == [c \in Check |-> IF active /\ table[c] # None THEN MadeFrom(c) ELSE report[c]]

SolveFails ==
    /\ pc = "solve"
    /\ report' \in {report, Solved}
    /\ pc' = "idle"
    /\ UNCHANGED <<configVars, stageVars, hasResult, dirty, targetsDirty, rdLast, devMask, alive,
                   active, table, key, devTargets, noShare, baseReport, refreshed, excused>>

(* The flag of the mask is cleared whether or not the checks looked at it. *)
Solve ==
    /\ pc = "solve"
    /\ report' = Solved
    /\ hasResult' = on
    /\ dirty' = FALSE
    /\ pc' = "return"
    /\ excused' = IF ~on /\ devMask # None /\ devMask # mask THEN excused \cup {"mask"} ELSE excused
    /\ UNCHANGED <<configVars, stageVars, targetsDirty, rdLast, devMask, alive, active, table, key,
                   devTargets, noShare, baseReport, refreshed>>

Return ==
    /\ pc = "return"
    /\ pc' = "idle"
    /\ UNCHANGED <<configVars, stageVars, hasResult, dirty, targetsDirty, rdLast, devMask,
                   driverVars, refreshed, excused>>

-----------------------------------------------------------------------------
Setters ==
    \/ \E v \in BOOLEAN : SetComputePhysicalViolations(v)
    \/ \E s \in Settings : SetTolerance(s)
    \/ \E c \in Planned, n \in Sizes : SetPlan(c, n)
    \/ \E c \in Targeted, t \in Maybe(Targets) : SetTargets(c, t)
    \/ \E g \in Masks : SetContingencyGens(g)
    \/ ChangeSource
    \/ \E m \in Maybe(Moves) : Redistribute(m)

Run ==
    \/ RunCold \/ RunWarm \/ RunHot \/ RunLosesDriver \/ RunFails
    \/ ChecksOff \/ PlanMissing \/ SetUpKept \/ SetUpAnew
    \/ \E n \in 0 .. 4 : SetUpFails(n)
    \/ GenPTargetsRefused \/ ReleaseTargetsRefused \/ ChecksReady
    \/ SolveFails \/ Solve \/ Return

Next == Setters \/ Run

Spec == Init /\ [][Next]_vars

-----------------------------------------------------------------------------
Wanted(c) ==
    [plan |-> PlanOf(c), setting |-> setting,
     mask |-> IF c = "hvdc_p" THEN None ELSE mask,
     targets |-> IF c \in Targeted THEN WantedTargets(c) ELSE None,
     share |-> IF c = "gen_p" THEN moved ELSE None]

(* The reports of a returning run() are made with the plans, tolerances,   *)
(* outage mask, set-points and pre-pass of now, whichever of them a live   *)
(* driver kept, and whatever calls failed before; a row left out of the    *)
(* batch has none.                                                         *)
ReportIsCurrent ==
    pc = "return" /\ on /\ excused = {} =>
        report = [c \in Check |-> IF active THEN Wanted(c) ELSE None]

(* So is the base case's report, which is made by a set-up only.           *)
BaseReportIsCurrent ==
    pc = "return" /\ on /\ "setup" \notin excused =>
        baseReport = [c \in Check |-> NewBasis(c)]

(* Between calls, the getters never show a report of other tolerances or   *)
(* plans than the ones set: it is dropped with them, and not brought back  *)
(* by a run() that fails.                                                  *)
ReadableReportFitsSettings ==
    pc = "idle" /\ alive /\ hasResult /\ "setup" \notin excused =>
        \A c \in Check : report[c] # None =>
            report[c].setting = setting /\ report[c].plan = PlanOf(c)

-----------------------------------------------------------------------------
(* Why they hold.  The key of a live driver names the tables and the base  *)
(* case's report, unless a set-up failed half-way.                         *)
KeyNamesTables ==
    /\ key # None => key.gen <= planGen
    /\ key # None /\ key.gen = planGen /\ pc # "fresh" /\ "setup" \notin excused =>
          \A c \in Check :
             /\ table[c] = [plan |-> PlanOf(c), setting |-> key.setting,
                            masked |-> c # "hvdc_p" /\ key.masked]
             /\ baseReport[c] = [plan |-> PlanOf(c), setting |-> key.setting]
    /\ pc = "same" => on /\ key = SetupKey
    /\ pc = "fresh" =>
          /\ on
          /\ \A c \in Check :
                table[c] = NewTable(c) /\ (c \notin Targeted => baseReport[c] = NewBasis(c))
    /\ pc \in {"solve", "return"} => IF on THEN key = SetupKey ELSE table = Blank(Check)

(* A clean flag means that the device mask, if there is one, is the mask.  *)
CleanMaskIsDevices ==
    /\ pc = "driver" /\ ~refreshed => ~dirty
    /\ "mask" \notin excused /\ mask # None =>
          /\ ~dirty /\ devMask # None => devMask = mask
          /\ pc \in {"same", "fresh", "solve", "return"} /\ on => devMask = mask

(* Clean set-points on the driver are the caller's, unless the last run    *)
(* that got through had a pre-pass.                                        *)
CleanTargetsAreCallers ==
    /\ ~targetsDirty["release"] /\ devTargets["release"] # None =>
          devTargets["release"] = targets["release"]
    /\ ~targetsDirty["gen_p"] /\ devTargets["gen_p"] # None /\ ~rdLast /\ "moved" \notin excused =>
          devTargets["gen_p"] = targets["gen_p"]
    /\ pc \in {"solve", "return"} /\ on =>
          /\ noShare = moved
          /\ devTargets["release"] = WantedTargets("release")
          /\ "moved" \notin excused => devTargets["gen_p"] = WantedTargets("gen_p")

(* A report is seeded before the solve and made by it; between calls it    *)
(* fits the settings as long as it can be read.                            *)
ReportsAreSeeded ==
    /\ pc \in {"same", "fresh"} => report = Blank(Check)
    /\ pc = "solve" /\ on => report = Blank(Check)
    /\ pc = "return" /\ on => report = [c \in Check |-> IF active THEN MadeFrom(c) ELSE None]
    /\ hasResult => on
    /\ hasResult /\ "setup" \notin excused => \A c \in Check : report[c] # None =>
          report[c].setting = setting /\ report[c].plan = PlanOf(c)

ChecksInv ==
    KeyNamesTables /\ CleanMaskIsDevices /\ CleanTargetsAreCallers /\ ReportsAreSeeded

-----------------------------------------------------------------------------
(* What the comments of the code say without the exceptions above.         *)

(* run(): the device mask is refreshed whenever the mask changed.          *)
DeviceMaskIsCurrent == pc = "solve" /\ on /\ mask # None => devMask = mask

(* rd_gp_last_ tells when the driver holds the set-points of a pre-pass:   *)
(* they are replaced when there is none any more.                          *)
SetPointsAreCurrent ==
    pc = "solve" /\ on => \A c \in Targeted : devTargets[c] = WantedTargets(c)
=============================================================================
