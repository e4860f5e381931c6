------------------------ MODULE PhysicalChecks_proofs ------------------------
(***************************************************************************)
(* Theorems about the physical checks.  ReportIsCurrent needs to know what *)
(* a valid key and clean flags say of the driver between two run(), and    *)
(* after one that threw (ChecksInv); each of its four parts is about one   *)
(* of the things a driver keeps: tables, mask, set-points and reports.     *)
(*                                                                         *)
(* The second half is about the merged rows of PhysicalReports: what a     *)
(* kernel packs into a row's slice, what a fold over the rows leaves in    *)
(* the arrays, what a caller reads of them, and RowsInv, the invariant on  *)
(* the settings, the driver and the result.                                *)
(***************************************************************************)
EXTENDS PhysicalChecks, BatchReports, FiniteSetTheorems, SequenceTheorems, WellFoundedInduction,
        TLAPS

LEMMA SetupKeyType == ConfigTypes => SetupKey \in Key
BY DEF ConfigTypes, SetupKey, Key

LEMMA PlanOfType == ConfigTypes => \A c \in Check : PlanOf(c) \in Nat
BY ChecksAssumption DEF ConfigTypes, PlanOf, Check, Planned, ChecksAssumption

LEMMA NewTableType == ConfigTypes => \A c \in Check : NewTable(c) \in Table
BY PlanOfType DEF NewTable, Table, ConfigTypes

LEMMA NewBasisType == ConfigTypes => \A c \in Check : NewBasis(c) \in Basis
BY PlanOfType DEF NewBasis, Basis, ConfigTypes

(* A set-up of all four checks, and one that stops before.                 *)
LEMMA SetAllChecks ==
  SetChecks(4) =>
    /\ table' = [c \in Check |-> NewTable(c)] /\ report' = Blank(Check)
    /\ \A c \in Check \ Targeted : baseReport'[c] = NewBasis(c)
<1>1. {Checks[i] : i \in 1 .. 4} = Check
  BY DEF Checks, Check
<1>2. QED
  BY <1>1 DEF SetChecks, Blank, Check, Targeted

LEMMA SetSomeChecks ==
  ASSUME NEW n, SetChecks(n)
  PROVE  /\ \A c \in Check : report'[c] \in {report[c], None}
         /\ \A c \in Targeted : devTargets'[c] \in {devTargets[c], None}
BY DEF SetChecks

LEMMA WantedType ==
  ConfigTypes /\ StagedTypes =>
    \A c \in Targeted : WantedTargets(c) \in Maybe(Targets \cup MovedTargets)
<1>. SUFFICES ASSUME ConfigTypes, StagedTypes
     PROVE  \A c \in Targeted : WantedTargets(c) \in Maybe(Targets \cup MovedTargets)
  OBVIOUS
<1>1. PrepassTargets \in Maybe(MovedTargets)
  <2>1. CASE moved \in Shifts /\ plan["gen_p"].size > 0
    <3>1. plan["gen_p"].size \in Sizes
      BY <2>1, ChecksAssumption DEF ConfigTypes, Planned, ChecksAssumption
    <3>2. (IF Fits("gen_p") THEN targets["gen_p"] ELSE None) \in Maybe(Targets)
      BY DEF StagedTypes, Targeted, Maybe
    <3>3. QED
      BY <2>1, <3>1, <3>2 DEF PrepassTargets, MovedTargets, Maybe
  <2>2. CASE ~(moved \in Shifts /\ plan["gen_p"].size > 0)
    BY <2>2 DEF PrepassTargets, Maybe
  <2>3. QED
    BY <2>1, <2>2
<1>2. QED
  BY <1>1 DEF WantedTargets, StagedTypes, Maybe

LEMMA SyncedType ==
  ConfigTypes /\ StagedTypes /\ DriverTypes =>
    \A c \in Targeted : Synced(c) \in Maybe(Targets \cup MovedTargets)
BY WantedType DEF Synced, DriverTypes

LEMMA SolvedType ==
  StagedTypes /\ DriverTypes /\ ReportTypes => Solved \in [Check -> Maybe(Report)]
<1>. SUFFICES ASSUME StagedTypes, DriverTypes, ReportTypes PROVE Solved \in [Check -> Maybe(Report)]
  OBVIOUS
<1>1. ASSUME NEW c \in Check, table[c] # None PROVE MadeFrom(c) \in Report
  <2>1. table[c] \in Table
    BY <1>1 DEF DriverTypes, Maybe
  <2>2. table[c].plan \in Nat /\ table[c].setting \in Settings
    BY <2>1 DEF Table
  <2>3. (IF table[c].masked THEN devMask ELSE None) \in Maybe(Masks)
    BY DEF StagedTypes, Maybe
  <2>4. (IF c \in Targeted THEN devTargets[c] ELSE None) \in Maybe(Targets \cup MovedTargets)
    BY DEF DriverTypes, Maybe
  <2>5. (IF c = "gen_p" THEN noShare ELSE None) \in Maybe(Moves)
    BY DEF DriverTypes, Maybe
  <2>6. QED
    BY <2>2, <2>3, <2>4, <2>5 DEF MadeFrom, Report
<1>2. QED
  BY <1>1 DEF Solved, ReportTypes, Maybe

LEMMA TypeInit == Init => TypeOK
<1>. SUFFICES ASSUME Init PROVE TypeOK
  OBVIOUS
<1>1. ConfigTypes
  <2>1. MaxPlans \in Nat /\ 0 \in 0 .. MaxPlans /\ 0 \in 0 .. 0
    BY ChecksAssumption DEF ChecksAssumption
  <2>2. NoPlan \in [id : 0 .. planGen, size : Sizes \cup {0}]
    BY <2>1 DEF Init, NoPlan
  <2>3. QED
    BY <2>1, <2>2 DEF Init, ConfigTypes
<1>2. StagedTypes /\ DriverTypes /\ ReportTypes /\ RunTypes
  BY DEF Init, StagedTypes, DriverTypes, ReportTypes, RunTypes, Blank, Maybe
<1>3. QED
  BY <1>1, <1>2 DEF TypeOK

LEMMA TypeSetters == TypeOK /\ Setters => TypeOK'
<1>. SUFFICES ASSUME TypeOK, Setters PROVE TypeOK'
  OBVIOUS
<1>. USE DEF configVars, stageVars, driverVars
<1>. ConfigTypes /\ StagedTypes /\ DriverTypes /\ ReportTypes /\ RunTypes
  BY DEF TypeOK
<1>1. ASSUME NEW v \in BOOLEAN, SetComputePhysicalViolations(v) PROVE TypeOK'
  <2>1. ConfigTypes'
    BY <1>1 DEF SetComputePhysicalViolations, Setter, ConfigTypes
  <2>2. StagedTypes'
    BY <1>1 DEF SetComputePhysicalViolations, Setter, StagedTypes
  <2>3. DriverTypes'
    BY <1>1 DEF SetComputePhysicalViolations, Setter, DriverTypes
  <2>4. ReportTypes'
    BY <1>1 DEF SetComputePhysicalViolations, Setter, ReportTypes
  <2>5. RunTypes'
    BY <1>1 DEF SetComputePhysicalViolations, Setter, RunTypes
  <2>6. QED
    BY <2>1, <2>2, <2>3, <2>4, <2>5 DEF TypeOK
<1>2. ASSUME NEW s \in Settings, SetTolerance(s) PROVE TypeOK'
  <2>1. ConfigTypes'
    BY <1>2 DEF SetTolerance, Setter, ConfigTypes
  <2>2. StagedTypes'
    BY <1>2 DEF SetTolerance, Setter, StagedTypes
  <2>3. DriverTypes'
    BY <1>2 DEF SetTolerance, Setter, DriverTypes
  <2>4. ReportTypes'
    BY <1>2 DEF SetTolerance, Setter, ReportTypes
  <2>5. RunTypes'
    BY <1>2 DEF SetTolerance, Setter, RunTypes
  <2>6. QED
    BY <2>1, <2>2, <2>3, <2>4, <2>5 DEF TypeOK
<1>3. ASSUME NEW c \in Planned, NEW n \in Sizes, SetPlan(c, n) PROVE TypeOK'
  <2>1. ConfigTypes'
    <3>1. planGen \in Nat /\ MaxPlans \in Nat /\ planGen' = planGen + 1 /\ planGen' \in 0 .. MaxPlans
      BY <1>3, ChecksAssumption DEF SetPlan, ConfigTypes, ChecksAssumption
    <3>2. [id |-> planGen + 1, size |-> n] \in [id : 0 .. planGen', size : Sizes \cup {0}]
      BY <3>1
    <3>3. \A d \in Planned : plan[d] \in [id : 0 .. planGen', size : Sizes \cup {0}]
      <4>1. 0 .. planGen \subseteq 0 .. planGen'
        BY <3>1
      <4>2. \A d \in Planned : plan[d] \in [id : 0 .. planGen, size : Sizes \cup {0}]
        BY DEF ConfigTypes
      <4>3. QED
        BY <4>1, <4>2
    <3>4. plan' \in [Planned -> [id : 0 .. planGen', size : Sizes \cup {0}]]
      BY <1>3, <3>2, <3>3 DEF SetPlan, ConfigTypes
    <3>5. QED
      BY <1>3, <3>1, <3>4 DEF SetPlan, ConfigTypes
  <2>2. StagedTypes'
    BY <1>3 DEF SetPlan, Setter, StagedTypes
  <2>3. DriverTypes'
    BY <1>3 DEF SetPlan, Setter, DriverTypes
  <2>4. ReportTypes'
    BY <1>3 DEF SetPlan, Setter, ReportTypes
  <2>5. RunTypes'
    BY <1>3 DEF SetPlan, Setter, RunTypes
  <2>6. QED
    BY <2>1, <2>2, <2>3, <2>4, <2>5 DEF TypeOK
<1>4. ASSUME NEW c \in Targeted, NEW t \in Maybe(Targets), SetTargets(c, t) PROVE TypeOK'
  <2>1. ConfigTypes'
    BY <1>4 DEF SetTargets, Setter, ConfigTypes
  <2>2. StagedTypes'
    BY <1>4 DEF SetTargets, Setter, StagedTypes, Maybe
  <2>3. DriverTypes'
    BY <1>4 DEF SetTargets, Setter, DriverTypes
  <2>4. ReportTypes'
    BY <1>4 DEF SetTargets, Setter, ReportTypes
  <2>5. RunTypes'
    BY <1>4 DEF SetTargets, Setter, RunTypes
  <2>6. QED
    BY <2>1, <2>2, <2>3, <2>4, <2>5 DEF TypeOK
<1>5. ASSUME NEW g \in Masks, SetContingencyGens(g) PROVE TypeOK'
  <2>1. ConfigTypes'
    BY <1>5 DEF SetContingencyGens, Setter, ConfigTypes
  <2>2. StagedTypes'
    BY <1>5 DEF SetContingencyGens, Setter, StagedTypes, Maybe
  <2>3. DriverTypes'
    BY <1>5 DEF SetContingencyGens, Setter, DriverTypes
  <2>4. ReportTypes'
    BY <1>5 DEF SetContingencyGens, Setter, ReportTypes
  <2>5. RunTypes'
    BY <1>5 DEF SetContingencyGens, Setter, RunTypes
  <2>6. QED
    BY <2>1, <2>2, <2>3, <2>4, <2>5 DEF TypeOK
<1>6. CASE ChangeSource
  <2>1. ConfigTypes'
    BY <1>6 DEF ChangeSource, Setter, ConfigTypes
  <2>2. StagedTypes'
    BY <1>6 DEF ChangeSource, Setter, StagedTypes
  <2>3. DriverTypes'
    BY <1>6 DEF ChangeSource, Setter, DriverTypes
  <2>4. ReportTypes'
    BY <1>6 DEF ChangeSource, Setter, ReportTypes
  <2>5. RunTypes'
    BY <1>6 DEF ChangeSource, Setter, RunTypes
  <2>6. QED
    BY <2>1, <2>2, <2>3, <2>4, <2>5 DEF TypeOK
<1>7. ASSUME NEW m \in Maybe(Moves), Redistribute(m) PROVE TypeOK'
  <2>1. ConfigTypes'
    BY <1>7 DEF Redistribute, Setter, ConfigTypes
  <2>2. StagedTypes'
    BY <1>7 DEF Redistribute, Setter, StagedTypes
  <2>3. DriverTypes'
    BY <1>7 DEF Redistribute, Setter, DriverTypes
  <2>4. ReportTypes'
    BY <1>7 DEF Redistribute, Setter, ReportTypes
  <2>5. RunTypes'
    BY <1>7 DEF Redistribute, Setter, RunTypes
  <2>6. QED
    BY <2>1, <2>2, <2>3, <2>4, <2>5 DEF TypeOK
<1>8. QED
  BY <1>1, <1>2, <1>3, <1>4, <1>5, <1>6, <1>7 DEF Setters

LEMMA TypeRun == TypeOK /\ Run => TypeOK'
<1>. SUFFICES ASSUME TypeOK, Run PROVE TypeOK'
  OBVIOUS
<1>. USE DEF configVars, stageVars, driverVars
<1>. ConfigTypes /\ StagedTypes /\ DriverTypes /\ ReportTypes /\ RunTypes
  BY DEF TypeOK
<1>1. CASE RunCold
  <2>1. ConfigTypes'
    BY <1>1 DEF RunCold, Entering, NoChecks, ConfigTypes
  <2>2. StagedTypes'
    BY <1>1 DEF RunCold, Entering, NoChecks, StagedTypes
  <2>3. DriverTypes'
    BY <1>1 DEF RunCold, Entering, NoChecks, DriverTypes, Blank, Maybe
  <2>4. ReportTypes'
    BY <1>1 DEF RunCold, Entering, NoChecks, ReportTypes, Blank, Maybe
  <2>5. RunTypes'
    BY <1>1 DEF RunCold, Entering, NoChecks, RunTypes
  <2>6. QED
    BY <2>1, <2>2, <2>3, <2>4, <2>5 DEF TypeOK
<1>2. CASE RunWarm
  <2>1. ConfigTypes'
    BY <1>2 DEF RunWarm, Entering, ConfigTypes
  <2>2. StagedTypes'
    BY <1>2 DEF RunWarm, Entering, StagedTypes
  <2>3. DriverTypes'
    BY <1>2 DEF RunWarm, Entering, DriverTypes
  <2>4. ReportTypes'
    BY <1>2 DEF RunWarm, Entering, ReportTypes
  <2>5. RunTypes'
    BY <1>2 DEF RunWarm, Entering, RunTypes
  <2>6. QED
    BY <2>1, <2>2, <2>3, <2>4, <2>5 DEF TypeOK
<1>3. CASE RunHot
  <2>1. ConfigTypes'
    BY <1>3 DEF RunHot, Entering, ConfigTypes
  <2>2. StagedTypes'
    BY <1>3 DEF RunHot, Entering, StagedTypes
  <2>3. DriverTypes'
    BY <1>3 DEF RunHot, Entering, DriverTypes
  <2>4. ReportTypes'
    BY <1>3 DEF RunHot, Entering, ReportTypes
  <2>5. RunTypes'
    BY <1>3 DEF RunHot, Entering, RunTypes
  <2>6. QED
    BY <2>1, <2>2, <2>3, <2>4, <2>5 DEF TypeOK
<1>4. CASE RunLosesDriver
  <2>1. ConfigTypes'
    BY <1>4 DEF RunLosesDriver, Entering, NoChecks, ConfigTypes
  <2>2. StagedTypes'
    BY <1>4 DEF RunLosesDriver, Entering, NoChecks, StagedTypes
  <2>3. DriverTypes'
    BY <1>4 DEF RunLosesDriver, Entering, NoChecks, DriverTypes, Blank, Maybe
  <2>4. ReportTypes'
    BY <1>4 DEF RunLosesDriver, Entering, NoChecks, ReportTypes, Blank, Maybe
  <2>5. RunTypes'
    BY <1>4 DEF RunLosesDriver, Entering, NoChecks, RunTypes
  <2>6. QED
    BY <2>1, <2>2, <2>3, <2>4, <2>5 DEF TypeOK
<1>5. CASE RunFails
  <2>1. ConfigTypes'
    BY <1>5 DEF RunFails, ConfigTypes
  <2>2. StagedTypes'
    BY <1>5 DEF RunFails, StagedTypes
  <2>3. DriverTypes'
    BY <1>5 DEF RunFails, DriverTypes
  <2>4. ReportTypes'
    BY <1>5 DEF RunFails, ReportTypes
  <2>5. RunTypes'
    BY <1>5 DEF RunFails, RunTypes
  <2>6. QED
    BY <2>1, <2>2, <2>3, <2>4, <2>5 DEF TypeOK
<1>6. CASE ChecksOff
  <2>1. ConfigTypes'
    BY <1>6 DEF ChecksOff, Checking, ConfigTypes
  <2>2. StagedTypes'
    BY <1>6 DEF ChecksOff, Checking, StagedTypes
  <2>3. DriverTypes'
    BY <1>6 DEF ChecksOff, Checking, DriverTypes, DisablePhysicalChecks, Blank, Maybe
  <2>4. ReportTypes'
    BY <1>6 DEF ChecksOff, Checking, ReportTypes
  <2>5. RunTypes'
    BY <1>6 DEF ChecksOff, Checking, RunTypes
  <2>6. QED
    BY <2>1, <2>2, <2>3, <2>4, <2>5 DEF TypeOK
<1>7. CASE PlanMissing
  <2>1. ConfigTypes'
    BY <1>7 DEF PlanMissing, Checking, MaskRefreshed, ConfigTypes
  <2>2. StagedTypes'
    BY <1>7 DEF PlanMissing, Checking, MaskRefreshed, StagedTypes
  <2>3. DriverTypes'
    BY <1>7 DEF PlanMissing, Checking, MaskRefreshed, DriverTypes
  <2>4. ReportTypes'
    BY <1>7 DEF PlanMissing, Checking, MaskRefreshed, ReportTypes
  <2>5. RunTypes'
    BY <1>7 DEF PlanMissing, Checking, MaskRefreshed, RunTypes
  <2>6. QED
    BY <2>1, <2>2, <2>3, <2>4, <2>5 DEF TypeOK
<1>8. CASE SetUpKept
  <2>1. ConfigTypes'
    BY <1>8 DEF SetUpKept, Checking, MaskRefreshed, ConfigTypes
  <2>2. StagedTypes'
    BY <1>8 DEF SetUpKept, Checking, MaskRefreshed, StagedTypes
  <2>3. DriverTypes'
    BY <1>8, SetupKeyType, NoneAssumption
       DEF SetUpKept, Checking, MaskRefreshed, DriverTypes, RunTypes
  <2>4. ReportTypes'
    BY <1>8
       DEF SetUpKept, Checking, MaskRefreshed, ReportTypes, ResetPhysicalOutputs, Blank, Maybe
  <2>5. RunTypes'
    BY <1>8 DEF SetUpKept, Checking, MaskRefreshed, RunTypes
  <2>6. QED
    BY <2>1, <2>2, <2>3, <2>4, <2>5 DEF TypeOK
<1>9. CASE SetUpAnew
  <2>1. ConfigTypes'
    BY <1>9 DEF SetUpAnew, Checking, MaskRefreshed, SetChecks, ConfigTypes
  <2>2. StagedTypes'
    BY <1>9 DEF SetUpAnew, Checking, MaskRefreshed, SetChecks, StagedTypes
  <2>3. DriverTypes'
    <3>1. table' = [c \in Check |-> NewTable(c)]
      BY <1>9, SetAllChecks DEF SetUpAnew
    <3>2. \A c \in Check : NewTable(c) \in Table /\ NewTable(c) # None
      BY NewTableType, NoneAssumption
    <3>3. devTargets' \in [Targeted -> Maybe(Targets \cup MovedTargets)]
      BY <1>9 DEF SetUpAnew, SetChecks, DriverTypes, Maybe
    <3>4. QED
      BY <1>9, <3>1, <3>2, <3>3 DEF SetUpAnew, Checking, MaskRefreshed, DriverTypes, RunTypes, Maybe
  <2>4. ReportTypes'
    BY <1>9, NewBasisType DEF SetUpAnew, Checking, MaskRefreshed, SetChecks, ReportTypes, Maybe
  <2>5. RunTypes'
    BY <1>9 DEF SetUpAnew, Checking, MaskRefreshed, SetChecks, RunTypes
  <2>6. QED
    BY <2>1, <2>2, <2>3, <2>4, <2>5 DEF TypeOK
<1>10. ASSUME NEW k \in 0 .. 4, SetUpFails(k) PROVE TypeOK'
  <2>1. ConfigTypes'
    BY <1>10 DEF SetUpFails, Checking, SetChecks, ConfigTypes
  <2>2. StagedTypes'
    BY <1>10 DEF SetUpFails, Checking, SetChecks, StagedTypes
  <2>3. DriverTypes'
    BY <1>10, NewTableType, NoneAssumption DEF SetUpFails, Checking, SetChecks, DriverTypes, Maybe
  <2>4. ReportTypes'
    BY <1>10, NewBasisType DEF SetUpFails, Checking, SetChecks, ReportTypes, Maybe
  <2>5. RunTypes'
    BY <1>10 DEF SetUpFails, Checking, SetChecks, RunTypes
  <2>6. QED
    BY <2>1, <2>2, <2>3, <2>4, <2>5 DEF TypeOK
<1>11. CASE GenPTargetsRefused
  <2>1. ConfigTypes'
    BY <1>11 DEF GenPTargetsRefused, SettingTargets, ConfigTypes
  <2>2. StagedTypes'
    BY <1>11 DEF GenPTargetsRefused, SettingTargets, StagedTypes
  <2>3. DriverTypes'
    BY <1>11 DEF GenPTargetsRefused, SettingTargets, DriverTypes
  <2>4. ReportTypes'
    BY <1>11 DEF GenPTargetsRefused, SettingTargets, ReportTypes
  <2>5. RunTypes'
    BY <1>11 DEF GenPTargetsRefused, SettingTargets, RunTypes, TornSetup
  <2>6. QED
    BY <2>1, <2>2, <2>3, <2>4, <2>5 DEF TypeOK
<1>12. CASE ReleaseTargetsRefused
  <2>1. ConfigTypes'
    BY <1>12 DEF ReleaseTargetsRefused, SettingTargets, ConfigTypes
  <2>2. StagedTypes'
    BY <1>12 DEF ReleaseTargetsRefused, SettingTargets, StagedTypes
  <2>3. DriverTypes'
    BY <1>12, SyncedType DEF ReleaseTargetsRefused, SettingTargets, DriverTypes, Targeted
  <2>4. ReportTypes'
    BY <1>12 DEF ReleaseTargetsRefused, SettingTargets, ReportTypes
  <2>5. RunTypes'
    BY <1>12 DEF ReleaseTargetsRefused, SettingTargets, RunTypes, TornSetup
  <2>6. QED
    BY <2>1, <2>2, <2>3, <2>4, <2>5 DEF TypeOK
<1>13. CASE ChecksReady
  <2>1. ConfigTypes'
    BY <1>13 DEF ChecksReady, SettingTargets, ConfigTypes
  <2>2. StagedTypes'
    BY <1>13 DEF ChecksReady, SettingTargets, StagedTypes
  <2>3. DriverTypes'
    <3>1. devTargets' \in [Targeted -> Maybe(Targets \cup MovedTargets)]
      BY <1>13, SyncedType DEF ChecksReady
    <3>2. noShare' \in Maybe(Moves)
      BY <1>13 DEF ChecksReady, StagedTypes
    <3>3. key' \in Key
      BY <1>13, SetupKeyType DEF ChecksReady
    <3>4. QED
      BY <1>13, <3>1, <3>2, <3>3 DEF ChecksReady, SettingTargets, DriverTypes, Maybe
  <2>4. ReportTypes'
    BY <1>13 DEF ChecksReady, SettingTargets, ReportTypes, DriverTypes, Basis, Table, Maybe
  <2>5. RunTypes'
    BY <1>13 DEF ChecksReady, SettingTargets, RunTypes
  <2>6. QED
    BY <2>1, <2>2, <2>3, <2>4, <2>5 DEF TypeOK
<1>14. CASE SolveFails
  <2>1. ConfigTypes'
    BY <1>14 DEF SolveFails, ConfigTypes
  <2>2. StagedTypes'
    BY <1>14 DEF SolveFails, StagedTypes
  <2>3. DriverTypes'
    BY <1>14 DEF SolveFails, DriverTypes
  <2>4. ReportTypes'
    BY <1>14, SolvedType DEF SolveFails, ReportTypes
  <2>5. RunTypes'
    BY <1>14 DEF SolveFails, RunTypes
  <2>6. QED
    BY <2>1, <2>2, <2>3, <2>4, <2>5 DEF TypeOK
<1>15. CASE Solve
  <2>1. ConfigTypes'
    BY <1>15 DEF Solve, ConfigTypes
  <2>2. StagedTypes'
    BY <1>15 DEF Solve, StagedTypes
  <2>3. DriverTypes'
    BY <1>15 DEF Solve, DriverTypes
  <2>4. ReportTypes'
    BY <1>15, SolvedType DEF Solve, ReportTypes
  <2>5. RunTypes'
    BY <1>15 DEF Solve, RunTypes
  <2>6. QED
    BY <2>1, <2>2, <2>3, <2>4, <2>5 DEF TypeOK
<1>16. CASE Return
  <2>1. ConfigTypes'
    BY <1>16 DEF Return, ConfigTypes
  <2>2. StagedTypes'
    BY <1>16 DEF Return, StagedTypes
  <2>3. DriverTypes'
    BY <1>16 DEF Return, DriverTypes
  <2>4. ReportTypes'
    BY <1>16 DEF Return, ReportTypes
  <2>5. RunTypes'
    BY <1>16 DEF Return, RunTypes
  <2>6. QED
    BY <2>1, <2>2, <2>3, <2>4, <2>5 DEF TypeOK
<1>17. QED
  BY <1>1, <1>2, <1>3, <1>4, <1>5, <1>6, <1>7, <1>8, <1>9, <1>10, <1>11, <1>12, <1>13, <1>14, <1>15, <1>16
     DEF Run

(* Every variable keeps its type; a valid key is one of a live driver on   *)
(* which all four checks are set up.                                       *)
THEOREM TypeCorrect == Spec => []TypeOK
<1>1. Init => TypeOK
  BY TypeInit
<1>2. TypeOK /\ [Next]_vars => TypeOK'
  <2>. SUFFICES ASSUME TypeOK, [Next]_vars PROVE TypeOK'
    OBVIOUS
  <2>1. CASE UNCHANGED vars
    <3>. USE <2>1 DEF vars, configVars, stageVars, driverVars
    <3>1. ConfigTypes'
      BY DEF TypeOK, ConfigTypes
    <3>2. StagedTypes'
      BY DEF TypeOK, StagedTypes
    <3>3. DriverTypes'
      BY DEF TypeOK, DriverTypes
    <3>4. ReportTypes'
      BY DEF TypeOK, ReportTypes
    <3>5. RunTypes'
      BY DEF TypeOK, RunTypes
    <3>6. QED
      BY <3>1, <3>2, <3>3, <3>4, <3>5 DEF TypeOK
  <2>2. QED
    BY <2>1, TypeSetters, TypeRun DEF Next
<1>3. QED
  BY <1>1, <1>2, PTL DEF Spec

LEMMA ChecksInit == Init => ChecksInv
BY DEF Init, ChecksInv, KeyNamesTables, CleanMaskIsDevices, CleanTargetsAreCallers,
       ReportsAreSeeded, Blank, Targeted

(* What solve() computes when the checks are on.                           *)
LEMMA SolveReports ==
  ASSUME TypeOK, ChecksInv, on, pc = "solve"
  PROVE  /\ Solved = [c \in Check |-> IF active THEN MadeFrom(c) ELSE None]
         /\ "setup" \notin excused => \A c \in Check :
               MadeFrom(c).setting = setting /\ MadeFrom(c).plan = PlanOf(c)
<1>1. key = SetupKey /\ key # None
  BY SetupKeyType, NoneAssumption DEF TypeOK, ChecksInv, KeyNamesTables
<1>2. \A c \in Check : table[c] # None /\ report[c] = None
  BY <1>1 DEF TypeOK, DriverTypes, ChecksInv, ReportsAreSeeded, Blank
<1>3. "setup" \notin excused => \A c \in Check :
         table[c].setting = setting /\ table[c].plan = PlanOf(c)
  <2>1. key.gen = planGen /\ key.setting = setting
    BY <1>1 DEF SetupKey
  <2>2. SUFFICES ASSUME "setup" \notin excused, NEW c \in Check
                 PROVE  table[c].setting = setting /\ table[c].plan = PlanOf(c)
    OBVIOUS
  <2>3. table[c] = [plan |-> PlanOf(c), setting |-> key.setting,
                    masked |-> c # "hvdc_p" /\ key.masked]
    BY <1>1, <2>1, <2>2 DEF ChecksInv, KeyNamesTables
  <2>4. QED
    BY <2>1, <2>3
<1>4. QED
  BY <1>2, <1>3 DEF Solved, MadeFrom

(* Tables and base case's report.                                          *)
LEMMA KeyNext == TypeOK /\ ChecksInv /\ Next => KeyNamesTables'
<1>. SUFFICES ASSUME TypeOK, ChecksInv, Next PROVE KeyNamesTables'
  OBVIOUS
<1>. USE DEF configVars, stageVars, driverVars
<1>. /\ ConfigTypes /\ StagedTypes /\ DriverTypes
     /\ ReportTypes /\ RunTypes
     /\ KeyNamesTables /\ CleanMaskIsDevices /\ CleanTargetsAreCallers /\ ReportsAreSeeded
  BY DEF TypeOK, ChecksInv
<1>1. ASSUME NEW v \in BOOLEAN, SetComputePhysicalViolations(v) PROVE KeyNamesTables'
  BY <1>1 DEF SetComputePhysicalViolations, Setter, KeyNamesTables, PlanOf, SetupKey
<1>2. ASSUME NEW s \in Settings, SetTolerance(s) PROVE KeyNamesTables'
  BY <1>2 DEF SetTolerance, Setter, KeyNamesTables, PlanOf, SetupKey
<1>3. ASSUME NEW c \in Planned, NEW n \in Sizes, SetPlan(c, n) PROVE KeyNamesTables'
  <2>1. key # None => key.gen < planGen'
    BY <1>3 DEF SetPlan, Setter, KeyNamesTables, ConfigTypes, DriverTypes, Key, Maybe
  <2>2. QED
    BY <1>3, <2>1 DEF SetPlan, Setter, KeyNamesTables, ConfigTypes, DriverTypes, Key, Maybe
<1>4. ASSUME NEW c \in Targeted, NEW t \in Maybe(Targets), SetTargets(c, t) PROVE KeyNamesTables'
  BY <1>4 DEF SetTargets, Setter, KeyNamesTables, PlanOf, SetupKey
<1>5. ASSUME NEW g \in Masks, SetContingencyGens(g) PROVE KeyNamesTables'
  BY <1>5 DEF SetContingencyGens, Setter, KeyNamesTables, PlanOf, SetupKey
<1>6. CASE ChangeSource
  BY <1>6 DEF ChangeSource, Setter, KeyNamesTables, PlanOf, SetupKey
<1>7. ASSUME NEW m \in Maybe(Moves), Redistribute(m) PROVE KeyNamesTables'
  BY <1>7 DEF Redistribute, Setter, KeyNamesTables, PlanOf, SetupKey
<1>8. CASE RunCold
  BY <1>8 DEF RunCold, Entering, NoChecks, KeyNamesTables, PlanOf, SetupKey
<1>9. CASE RunWarm
  BY <1>9 DEF RunWarm, Entering, KeyNamesTables, PlanOf, SetupKey
<1>10. CASE RunHot
  BY <1>10 DEF RunHot, Entering, KeyNamesTables, PlanOf, SetupKey
<1>11. CASE RunLosesDriver
  BY <1>11 DEF RunLosesDriver, Entering, NoChecks, KeyNamesTables, PlanOf, SetupKey
<1>12. CASE RunFails
  BY <1>12 DEF RunFails, KeyNamesTables, PlanOf, SetupKey
<1>13. CASE ChecksOff
  BY <1>13 DEF ChecksOff, Checking, KeyNamesTables, DisablePhysicalChecks
<1>14. CASE PlanMissing
  BY <1>14 DEF PlanMissing, Checking, MaskRefreshed, KeyNamesTables, PlanOf, SetupKey
<1>15. CASE SetUpKept
  BY <1>15 DEF SetUpKept, Checking, MaskRefreshed, KeyNamesTables, SetupKey, PlanOf
<1>16. CASE SetUpAnew
  BY <1>16, SetAllChecks
     DEF SetUpAnew, Checking, MaskRefreshed, SetChecks, KeyNamesTables, NewTable, NewBasis, PlanOf
<1>17. ASSUME NEW k \in 0 .. 4, SetUpFails(k) PROVE KeyNamesTables'
  BY <1>17 DEF SetUpFails, Checking, SetChecks, KeyNamesTables, PlanOf
<1>18. CASE GenPTargetsRefused
  BY <1>18 DEF GenPTargetsRefused, SettingTargets, KeyNamesTables, TornSetup, PlanOf
<1>19. CASE ReleaseTargetsRefused
  BY <1>19 DEF ReleaseTargetsRefused, SettingTargets, KeyNamesTables, TornSetup, PlanOf
<1>20. CASE ChecksReady
  <2>1. key' = SetupKey /\ SetupKey' = SetupKey /\ SetupKey # None
    BY <1>20, SetupKeyType, NoneAssumption DEF ChecksReady, SettingTargets, SetupKey
  <2>2. \A c \in Check : PlanOf(c)' = PlanOf(c)
    BY <1>20 DEF ChecksReady, SettingTargets, PlanOf
  <2>3. CASE pc = "same"
    BY <1>20, <2>1, <2>2, <2>3 DEF ChecksReady, SettingTargets, KeyNamesTables, SetupKey
  <2>4. CASE pc = "fresh"
    <3>1. \A c \in Check : table'[c] = NewTable(c) /\ baseReport'[c] = NewBasis(c)
      BY <1>20, <2>4 DEF ChecksReady, SettingTargets, KeyNamesTables, NewTable, NewBasis
    <3>2. pc' = "solve" /\ on' = on /\ setting' = setting /\ mask' = mask /\ planGen' = planGen /\ on
      BY <1>20, <2>4 DEF ChecksReady, SettingTargets, KeyNamesTables
    <3>3. key'.gen = planGen /\ key'.setting = setting /\ key'.masked = (mask # None)
      BY <2>1 DEF SetupKey
    <3>4. planGen \in Nat
      BY ChecksAssumption DEF ConfigTypes, ChecksAssumption
    <3>5. \A c \in Check :
             /\ table'[c] = [plan |-> PlanOf(c), setting |-> setting,
                             masked |-> c # "hvdc_p" /\ mask # None]
             /\ baseReport'[c] = [plan |-> PlanOf(c), setting |-> setting]
      BY <3>1 DEF NewTable, NewBasis
    <3>6. \A c \in Check :
             /\ table'[c] = [plan |-> PlanOf(c)', setting |-> key'.setting,
                             masked |-> c # "hvdc_p" /\ key'.masked]
             /\ baseReport'[c] = [plan |-> PlanOf(c)', setting |-> key'.setting]
      BY <2>2, <3>3, <3>5
    <3>7. QED
      BY <2>1, <3>2, <3>3, <3>4, <3>6 DEF KeyNamesTables
  <2>5. QED
    BY <1>20, <2>3, <2>4 DEF ChecksReady, SettingTargets
<1>21. CASE SolveFails
  BY <1>21 DEF SolveFails, KeyNamesTables, PlanOf, SetupKey
<1>22. CASE Solve
  BY <1>22 DEF Solve, KeyNamesTables, PlanOf, SetupKey
<1>23. CASE Return
  BY <1>23 DEF Return, KeyNamesTables, PlanOf, SetupKey
<1>24. QED
  BY <1>1, <1>2, <1>3, <1>4, <1>5, <1>6, <1>7, <1>8, <1>9, <1>10, <1>11,
     <1>12, <1>13, <1>14, <1>15, <1>16, <1>17, <1>18, <1>19, <1>20, <1>21, <1>22, <1>23
     DEF Next, Setters, Run

(* The outage mask.                                                        *)
LEMMA MaskNext == TypeOK /\ ChecksInv /\ Next => CleanMaskIsDevices'
<1>. SUFFICES ASSUME TypeOK, ChecksInv, Next PROVE CleanMaskIsDevices'
  OBVIOUS
<1>. USE DEF configVars, stageVars, driverVars
<1>. /\ ConfigTypes /\ StagedTypes /\ DriverTypes
     /\ ReportTypes /\ RunTypes
     /\ KeyNamesTables /\ CleanMaskIsDevices /\ CleanTargetsAreCallers /\ ReportsAreSeeded
  BY DEF TypeOK, ChecksInv
<1>1. ASSUME NEW v \in BOOLEAN, SetComputePhysicalViolations(v) PROVE CleanMaskIsDevices'
  BY <1>1 DEF SetComputePhysicalViolations, Setter, CleanMaskIsDevices
<1>2. ASSUME NEW s \in Settings, SetTolerance(s) PROVE CleanMaskIsDevices'
  BY <1>2 DEF SetTolerance, Setter, CleanMaskIsDevices
<1>3. ASSUME NEW c \in Planned, NEW n \in Sizes, SetPlan(c, n) PROVE CleanMaskIsDevices'
  BY <1>3 DEF SetPlan, Setter, CleanMaskIsDevices
<1>4. ASSUME NEW c \in Targeted, NEW t \in Maybe(Targets), SetTargets(c, t) PROVE CleanMaskIsDevices'
  BY <1>4 DEF SetTargets, Setter, CleanMaskIsDevices
<1>5. ASSUME NEW g \in Masks, SetContingencyGens(g) PROVE CleanMaskIsDevices'
  BY <1>5 DEF SetContingencyGens, Setter, CleanMaskIsDevices
<1>6. CASE ChangeSource
  BY <1>6 DEF ChangeSource, Setter, CleanMaskIsDevices
<1>7. ASSUME NEW m \in Maybe(Moves), Redistribute(m) PROVE CleanMaskIsDevices'
  BY <1>7 DEF Redistribute, Setter, CleanMaskIsDevices
<1>8. CASE RunCold
  BY <1>8 DEF RunCold, Entering, NoChecks, CleanMaskIsDevices
<1>9. CASE RunWarm
  BY <1>9 DEF RunWarm, Entering, CleanMaskIsDevices
<1>10. CASE RunHot
  BY <1>10 DEF RunHot, Entering, CleanMaskIsDevices
<1>11. CASE RunLosesDriver
  BY <1>11 DEF RunLosesDriver, Entering, NoChecks, CleanMaskIsDevices
<1>12. CASE RunFails
  BY <1>12 DEF RunFails, CleanMaskIsDevices
<1>13. CASE ChecksOff
  BY <1>13 DEF ChecksOff, Checking, CleanMaskIsDevices
<1>14. CASE PlanMissing
  BY <1>14 DEF PlanMissing, Checking, MaskRefreshed, CleanMaskIsDevices, RefreshesMask
<1>15. CASE SetUpKept
  BY <1>15 DEF SetUpKept, Checking, MaskRefreshed, CleanMaskIsDevices, RefreshesMask
<1>16. CASE SetUpAnew
  BY <1>16 DEF SetUpAnew, Checking, MaskRefreshed, SetChecks, CleanMaskIsDevices, RefreshesMask
<1>17. ASSUME NEW k \in 0 .. 4, SetUpFails(k) PROVE CleanMaskIsDevices'
  BY <1>17 DEF SetUpFails, Checking, SetChecks, CleanMaskIsDevices, RefreshesMask
<1>18. CASE GenPTargetsRefused
  BY <1>18 DEF GenPTargetsRefused, SettingTargets, CleanMaskIsDevices
<1>19. CASE ReleaseTargetsRefused
  BY <1>19 DEF ReleaseTargetsRefused, SettingTargets, CleanMaskIsDevices
<1>20. CASE ChecksReady
  BY <1>20 DEF ChecksReady, SettingTargets, CleanMaskIsDevices
<1>21. CASE SolveFails
  BY <1>21 DEF SolveFails, CleanMaskIsDevices
<1>22. CASE Solve
  BY <1>22 DEF Solve, CleanMaskIsDevices
<1>23. CASE Return
  BY <1>23 DEF Return, CleanMaskIsDevices
<1>24. QED
  BY <1>1, <1>2, <1>3, <1>4, <1>5, <1>6, <1>7, <1>8, <1>9, <1>10, <1>11,
     <1>12, <1>13, <1>14, <1>15, <1>16, <1>17, <1>18, <1>19, <1>20, <1>21, <1>22, <1>23
     DEF Next, Setters, Run

(* The set-points.                                                         *)
LEMMA TargetsNext == TypeOK /\ ChecksInv /\ Next => CleanTargetsAreCallers'
<1>. SUFFICES ASSUME TypeOK, ChecksInv, Next PROVE CleanTargetsAreCallers'
  OBVIOUS
<1>. USE DEF configVars, stageVars, driverVars
<1>. /\ ConfigTypes /\ StagedTypes /\ DriverTypes
     /\ ReportTypes /\ RunTypes
     /\ KeyNamesTables /\ CleanMaskIsDevices /\ CleanTargetsAreCallers /\ ReportsAreSeeded
  BY DEF TypeOK, ChecksInv
<1>1. ASSUME NEW v \in BOOLEAN, SetComputePhysicalViolations(v) PROVE CleanTargetsAreCallers'
  BY <1>1 DEF SetComputePhysicalViolations, Setter, CleanTargetsAreCallers
<1>2. ASSUME NEW s \in Settings, SetTolerance(s) PROVE CleanTargetsAreCallers'
  BY <1>2 DEF SetTolerance, Setter, CleanTargetsAreCallers
<1>3. ASSUME NEW c \in Planned, NEW n \in Sizes, SetPlan(c, n) PROVE CleanTargetsAreCallers'
  BY <1>3 DEF SetPlan, Setter, CleanTargetsAreCallers
<1>4. ASSUME NEW c \in Targeted, NEW t \in Maybe(Targets), SetTargets(c, t) PROVE CleanTargetsAreCallers'
  BY <1>4 DEF SetTargets, Setter, CleanTargetsAreCallers, StagedTypes, Targeted
<1>5. ASSUME NEW g \in Masks, SetContingencyGens(g) PROVE CleanTargetsAreCallers'
  BY <1>5 DEF SetContingencyGens, Setter, CleanTargetsAreCallers
<1>6. CASE ChangeSource
  BY <1>6 DEF ChangeSource, Setter, CleanTargetsAreCallers
<1>7. ASSUME NEW m \in Maybe(Moves), Redistribute(m) PROVE CleanTargetsAreCallers'
  BY <1>7 DEF Redistribute, Setter, CleanTargetsAreCallers
<1>8. CASE RunCold
  BY <1>8 DEF RunCold, Entering, NoChecks, CleanTargetsAreCallers, Blank, Targeted
<1>9. CASE RunWarm
  BY <1>9 DEF RunWarm, Entering, CleanTargetsAreCallers
<1>10. CASE RunHot
  BY <1>10 DEF RunHot, Entering, CleanTargetsAreCallers
<1>11. CASE RunLosesDriver
  BY <1>11 DEF RunLosesDriver, Entering, NoChecks, CleanTargetsAreCallers, Blank, Targeted
<1>12. CASE RunFails
  BY <1>12 DEF RunFails, CleanTargetsAreCallers
<1>13. CASE ChecksOff
  BY <1>13 DEF ChecksOff, Checking, CleanTargetsAreCallers
<1>14. CASE PlanMissing
  BY <1>14 DEF PlanMissing, Checking, MaskRefreshed, CleanTargetsAreCallers
<1>15. CASE SetUpKept
  BY <1>15 DEF SetUpKept, Checking, MaskRefreshed, CleanTargetsAreCallers
<1>16. CASE SetUpAnew
  <2>1. \A c \in Targeted : devTargets'[c] \in {devTargets[c], None}
    BY <1>16, SetSomeChecks DEF SetUpAnew
  <2>2. "moved" \notin excused' => "moved" \notin excused
    BY <1>16 DEF SetUpAnew, MaskRefreshed
  <2>3. QED
    BY <1>16, <2>1, <2>2 DEF SetUpAnew, Checking, CleanTargetsAreCallers, Targeted
<1>17. ASSUME NEW k \in 0 .. 4, SetUpFails(k) PROVE CleanTargetsAreCallers'
  <2>1. \A c \in Targeted : devTargets'[c] \in {devTargets[c], None}
    BY <1>17, SetSomeChecks DEF SetUpFails
  <2>2. "moved" \notin excused' => "moved" \notin excused
    BY <1>17 DEF SetUpFails
  <2>3. QED
    BY <1>17, <2>1, <2>2 DEF SetUpFails, Checking, CleanTargetsAreCallers, Targeted
<1>18. CASE GenPTargetsRefused
  BY <1>18 DEF GenPTargetsRefused, SettingTargets, CleanTargetsAreCallers
<1>19. CASE ReleaseTargetsRefused
  <2>1. devTargets'["gen_p"] = Synced("gen_p") /\ devTargets'["release"] = devTargets["release"]
    BY <1>19 DEF ReleaseTargetsRefused, DriverTypes, Targeted
  <2>2. SUFFICES ASSUME ~targetsDirty["gen_p"], devTargets'["gen_p"] # None, ~rdLast,
                        "moved" \notin excused'
                 PROVE  devTargets'["gen_p"] = targets["gen_p"]
    BY <1>19, <2>1 DEF ReleaseTargetsRefused, SettingTargets, CleanTargetsAreCallers
  <2>3. PrepassTargets = None
    BY <1>19, <2>2 DEF ReleaseTargetsRefused
  <2>4. WantedTargets("gen_p") = targets["gen_p"]
    BY <2>3 DEF WantedTargets
  <2>5. devTargets'["gen_p"] # WantedTargets("gen_p") => "moved" \notin excused
    BY <1>19, <2>2 DEF ReleaseTargetsRefused
  <2>6. QED
    BY <2>1, <2>2, <2>4, <2>5 DEF Synced, Uploads, CleanTargetsAreCallers
<1>20. CASE ChecksReady
  <2>1. \A c \in Targeted : devTargets'[c] = Synced(c) /\ WantedTargets(c)' = WantedTargets(c)
    BY <1>20 DEF ChecksReady, SettingTargets, WantedTargets, PrepassTargets, Fits
  <2>2. devTargets'["release"] = WantedTargets("release") /\ WantedTargets("release") = targets["release"]
    BY <2>1 DEF Synced, Uploads, IsDirty, WantedTargets, CleanTargetsAreCallers, Targeted
  <2>3. moved = None => WantedTargets("gen_p") = targets["gen_p"]
    BY ChecksAssumption DEF WantedTargets, PrepassTargets, ChecksAssumption
  <2>4. "moved" \notin excused' => devTargets'["gen_p"] = WantedTargets("gen_p")
    <3>1. SUFFICES ASSUME "moved" \notin excused, devTargets'["gen_p"] # WantedTargets("gen_p")
                   PROVE  FALSE
      BY <1>20 DEF ChecksReady
    <3>2. Synced("gen_p") # WantedTargets("gen_p")
      BY <2>1, <3>1 DEF Targeted
    <3>3. QED
      BY <2>3, <3>1, <3>2 DEF Synced, Uploads, IsDirty, CleanTargetsAreCallers
  <2>5. ~rdLast' => moved = None
    BY <1>20 DEF ChecksReady
  <2>6. QED
    BY <1>20, <2>1, <2>2, <2>3, <2>4, <2>5
       DEF ChecksReady, SettingTargets, CleanTargetsAreCallers, Targeted
<1>21. CASE SolveFails
  BY <1>21 DEF SolveFails, CleanTargetsAreCallers
<1>22. CASE Solve
  BY <1>22 DEF Solve, CleanTargetsAreCallers, WantedTargets, PrepassTargets, Fits
<1>23. CASE Return
  BY <1>23 DEF Return, CleanTargetsAreCallers
<1>24. QED
  BY <1>1, <1>2, <1>3, <1>4, <1>5, <1>6, <1>7, <1>8, <1>9, <1>10, <1>11,
     <1>12, <1>13, <1>14, <1>15, <1>16, <1>17, <1>18, <1>19, <1>20, <1>21, <1>22, <1>23
     DEF Next, Setters, Run

(* The reports.                                                            *)
LEMMA ReportsNext == TypeOK /\ ChecksInv /\ Next => ReportsAreSeeded'
<1>. SUFFICES ASSUME TypeOK, ChecksInv, Next PROVE ReportsAreSeeded'
  OBVIOUS
<1>. USE DEF configVars, stageVars, driverVars
<1>. /\ ConfigTypes /\ StagedTypes /\ DriverTypes
     /\ ReportTypes /\ RunTypes
     /\ KeyNamesTables /\ CleanMaskIsDevices /\ CleanTargetsAreCallers /\ ReportsAreSeeded
  BY DEF TypeOK, ChecksInv
<1>1. ASSUME NEW v \in BOOLEAN, SetComputePhysicalViolations(v) PROVE ReportsAreSeeded'
  BY <1>1 DEF SetComputePhysicalViolations, Setter, ReportsAreSeeded
<1>2. ASSUME NEW s \in Settings, SetTolerance(s) PROVE ReportsAreSeeded'
  BY <1>2 DEF SetTolerance, Setter, ReportsAreSeeded, PlanOf
<1>3. ASSUME NEW c \in Planned, NEW n \in Sizes, SetPlan(c, n) PROVE ReportsAreSeeded'
  BY <1>3 DEF SetPlan, Setter, ReportsAreSeeded, PlanOf
<1>4. ASSUME NEW c \in Targeted, NEW t \in Maybe(Targets), SetTargets(c, t) PROVE ReportsAreSeeded'
  BY <1>4 DEF SetTargets, Setter, ReportsAreSeeded, PlanOf
<1>5. ASSUME NEW g \in Masks, SetContingencyGens(g) PROVE ReportsAreSeeded'
  BY <1>5 DEF SetContingencyGens, Setter, ReportsAreSeeded, PlanOf
<1>6. CASE ChangeSource
  BY <1>6 DEF ChangeSource, Setter, ReportsAreSeeded, PlanOf
<1>7. ASSUME NEW m \in Maybe(Moves), Redistribute(m) PROVE ReportsAreSeeded'
  BY <1>7 DEF Redistribute, Setter, ReportsAreSeeded, PlanOf
<1>8. CASE RunCold
  BY <1>8 DEF RunCold, Entering, NoChecks, ReportsAreSeeded, Blank
<1>9. CASE RunWarm
  BY <1>9 DEF RunWarm, Entering, ReportsAreSeeded, PlanOf
<1>10. CASE RunHot
  BY <1>10 DEF RunHot, Entering, ReportsAreSeeded, PlanOf
<1>11. CASE RunLosesDriver
  BY <1>11 DEF RunLosesDriver, Entering, NoChecks, ReportsAreSeeded, Blank
<1>12. CASE RunFails
  BY <1>12 DEF RunFails, ReportsAreSeeded, PlanOf
<1>13. CASE ChecksOff
  BY <1>13 DEF ChecksOff, Checking, ReportsAreSeeded, PlanOf
<1>14. CASE PlanMissing
  BY <1>14 DEF PlanMissing, Checking, MaskRefreshed, ReportsAreSeeded, PlanOf
<1>15. CASE SetUpKept
  BY <1>15 DEF SetUpKept, Checking, MaskRefreshed, ReportsAreSeeded, ResetPhysicalOutputs, Blank
<1>16. CASE SetUpAnew
  BY <1>16, SetAllChecks
     DEF SetUpAnew, Checking, MaskRefreshed, SetChecks, ReportsAreSeeded, Blank
<1>17. ASSUME NEW k \in 0 .. 4, SetUpFails(k) PROVE ReportsAreSeeded'
  <2>1. \A c \in Check : report'[c] \in {report[c], None}
    BY <1>17, SetSomeChecks DEF SetUpFails
  <2>2. "setup" \notin excused' => "setup" \notin excused
    BY <1>17 DEF SetUpFails
  <2>3. QED
    BY <1>17, <2>1, <2>2 DEF SetUpFails, Checking, ReportsAreSeeded, PlanOf
<1>18. CASE GenPTargetsRefused
  BY <1>18 DEF GenPTargetsRefused, SettingTargets, ReportsAreSeeded, TornSetup, PlanOf, Blank
<1>19. CASE ReleaseTargetsRefused
  BY <1>19 DEF ReleaseTargetsRefused, SettingTargets, ReportsAreSeeded, TornSetup, PlanOf, Blank
<1>20. CASE ChecksReady
  BY <1>20 DEF ChecksReady, SettingTargets, ReportsAreSeeded, TornSetup, PlanOf, Blank
<1>21. CASE SolveFails
  <2>1. CASE on
    BY <1>21, <2>1, SolveReports DEF SolveFails, ReportsAreSeeded, MadeFrom, PlanOf
  <2>2. CASE ~on
    BY <1>21, <2>2 DEF SolveFails, ReportsAreSeeded
  <2>3. QED
    BY <2>1, <2>2
<1>22. CASE Solve
  <2>1. CASE on
    BY <1>22, <2>1, SolveReports DEF Solve, ReportsAreSeeded, MadeFrom, PlanOf
  <2>2. CASE ~on
    BY <1>22, <2>2 DEF Solve, ReportsAreSeeded
  <2>3. QED
    BY <2>1, <2>2
<1>23. CASE Return
  BY <1>23 DEF Return, ReportsAreSeeded, PlanOf
<1>24. QED
  BY <1>1, <1>2, <1>3, <1>4, <1>5, <1>6, <1>7, <1>8, <1>9, <1>10, <1>11,
     <1>12, <1>13, <1>14, <1>15, <1>16, <1>17, <1>18, <1>19, <1>20, <1>21, <1>22, <1>23
     DEF Next, Setters, Run

LEMMA ChecksNext == TypeOK /\ ChecksInv /\ [Next]_vars => ChecksInv'
<1>. SUFFICES ASSUME TypeOK, ChecksInv, [Next]_vars PROVE ChecksInv'
  OBVIOUS
<1>1. CASE Next
  BY <1>1, KeyNext, MaskNext, TargetsNext, ReportsNext DEF ChecksInv
<1>2. CASE UNCHANGED vars
  BY <1>2
     DEF ChecksInv, KeyNamesTables, CleanMaskIsDevices, CleanTargetsAreCallers, ReportsAreSeeded,
         PlanOf, NewTable, NewBasis, SetupKey, WantedTargets, PrepassTargets, Fits, MadeFrom,
         vars, configVars, stageVars, driverVars
<1>3. QED
  BY <1>1, <1>2

(* What the key and the flags say of a driver holds whatever run() threw.  *)
THEOREM ChecksCorrect == Spec => []ChecksInv
<1>1. TypeOK /\ ChecksInv /\ [Next]_vars => ChecksInv'
  BY ChecksNext
<1>2. QED
  BY <1>1, ChecksInit, TypeCorrect, PTL DEF Spec

(* The reports of a returning run() are made from the plans, tolerances,   *)
(* outage mask, set-points and pre-pass of now.                            *)
THEOREM ReportsCorrect == Spec => []ReportIsCurrent
<1>1. TypeOK /\ ChecksInv => ReportIsCurrent
  <2>. SUFFICES ASSUME TypeOK, ChecksInv, pc = "return", on, excused = {}
       PROVE  report = [c \in Check |-> IF active THEN Wanted(c) ELSE None]
    BY DEF ReportIsCurrent
  <2>1. key = SetupKey /\ key # None
    BY SetupKeyType, NoneAssumption DEF TypeOK, ChecksInv, KeyNamesTables
  <2>2. \A c \in Check :
           table[c] = [plan |-> PlanOf(c), setting |-> setting,
                       masked |-> c # "hvdc_p" /\ mask # None]
    <3>1. key.gen = planGen /\ key.setting = setting /\ key.masked = (mask # None)
      BY <2>1 DEF SetupKey
    <3>2. QED
      BY <2>1, <3>1 DEF ChecksInv, KeyNamesTables
  <2>3. mask # None => devMask = mask
    BY DEF ChecksInv, CleanMaskIsDevices
  <2>4. noShare = moved /\ \A c \in Targeted : devTargets[c] = WantedTargets(c)
    BY DEF ChecksInv, CleanTargetsAreCallers, Targeted
  <2>5. \A c \in Check : MadeFrom(c) = Wanted(c)
    <3>. SUFFICES ASSUME NEW c \in Check PROVE MadeFrom(c) = Wanted(c)
      OBVIOUS
    <3>. DEFINE masked == c # "hvdc_p" /\ mask # None
    <3>0. table[c] = [plan |-> PlanOf(c), setting |-> setting, masked |-> masked]
      BY <2>2
    <3>. HIDE DEF masked
    <3>1. table[c].plan = PlanOf(c) /\ table[c].setting = setting
      BY <3>0
    <3>2. table[c].masked = masked
      BY <3>0
    <3>3. (IF table[c].masked THEN devMask ELSE None) = IF c = "hvdc_p" THEN None ELSE mask
      BY <2>3, <3>2 DEF masked
    <3>4. QED
      BY <2>4, <3>1, <3>3 DEF MadeFrom, Wanted
  <2>6. QED
    BY <2>5 DEF ChecksInv, ReportsAreSeeded
<1>2. QED
  BY <1>1, TypeCorrect, ChecksCorrect, PTL

(* So is the base case's report.                                           *)
THEOREM BaseReportCorrect == Spec => []BaseReportIsCurrent
<1>1. TypeOK /\ ChecksInv => BaseReportIsCurrent
  <2>. SUFFICES ASSUME TypeOK, ChecksInv, pc = "return", on, "setup" \notin excused
       PROVE  baseReport = [c \in Check |-> NewBasis(c)]
    BY DEF BaseReportIsCurrent
  <2>1. key = SetupKey /\ key # None
    BY SetupKeyType, NoneAssumption DEF TypeOK, ChecksInv, KeyNamesTables
  <2>2. key.gen = planGen /\ key.setting = setting
    BY <2>1 DEF SetupKey
  <2>3. \A c \in Check : baseReport[c] = NewBasis(c)
    BY <2>1, <2>2 DEF ChecksInv, KeyNamesTables, NewBasis
  <2>4. QED
    BY <2>3 DEF TypeOK, ReportTypes
<1>2. QED
  BY <1>1, TypeCorrect, ChecksCorrect, PTL

(* The getters never show a report of other tolerances or plans.           *)
THEOREM ReadableReportsCorrect == Spec => []ReadableReportFitsSettings
<1>1. ChecksInv => ReadableReportFitsSettings
  BY DEF ChecksInv, ReportsAreSeeded, ReadableReportFitsSettings
<1>2. QED
  BY <1>1, ChecksCorrect, PTL
-----------------------------------------------------------------------------
(* The reports of a batch (PhysicalReports, as BatchReports names it):      *)
(* checks that are on have the plans the grid can give.                     *)
PlansTyped == plans \in [Reports!Planned -> Reports!Plans \cup {Nothing}]
PlansInv == PlansTyped /\ Reports!OnMeansPlanned

(* An attempt to turn the flag on leaves it off unless every missing plan  *)
(* was pulled, and takes none away.                                        *)
LEMMA TurnOnKeeps == PlansInv /\ Reports!TurnOn => PlansInv'
<1>. SUFFICES ASSUME PlansInv, Reports!TurnOn PROVE PlansInv'
  OBVIOUS
<1>1. PICK got \in SUBSET Reports!Missing :
        Reports!Pull(got) /\ checksOn' = (checksOn \/ got = Reports!Missing) /\ UNCHANGED env
  BY DEF Reports!TurnOn, Reports!Unmoved
<1>2. plans' = [c \in Reports!Planned |-> IF c \in got THEN "full" ELSE plans[c]]
  BY <1>1 DEF Reports!Pull
<1>3. PlansTyped'
  BY <1>2 DEF PlansInv, PlansTyped, Reports!Plans
<1>4. Reports!OnMeansPlanned'
  <2>. SUFFICES ASSUME env.grid, checksOn'
       PROVE  \A c \in Reports!Planned :
              (c = "release" => env.release) => plans'[c] \in Reports!Plans
    BY <1>1 DEF Reports!OnMeansPlanned, Reports!Planned
  <2>. SUFFICES ASSUME NEW c \in Reports!Planned, c = "release" => env.release, c \notin got
       PROVE  plans[c] \in Reports!Plans
    BY <1>2 DEF Reports!Plans
  <2>1. CASE checksOn
    BY <2>1 DEF PlansInv, Reports!OnMeansPlanned, Reports!Planned
  <2>2. CASE got = Reports!Missing
    BY <2>2 DEF Reports!Missing, PlansInv, PlansTyped
  <2>3. QED
    BY <1>1, <2>1, <2>2
<1>5. QED
  BY <1>3, <1>4 DEF PlansInv

(* A plan is replaced, never withdrawn.                                    *)
LEMMA SetPlanKeeps ==
  ASSUME NEW c \in Reports!Planned, NEW p \in Reports!Plans, PlansInv, Reports!SetPlan(c, p)
  PROVE  PlansInv'
<1>1. plans' = [plans EXCEPT ![c] = p] /\ checksOn' = checksOn /\ env' = env
  BY DEF Reports!SetPlan, Reports!Unmoved
<1>2. PlansTyped'
  BY <1>1 DEF PlansInv, PlansTyped
<1>3. \A d \in Reports!Planned : plans'[d] = IF d = c THEN p ELSE plans[d]
  BY <1>1 DEF PlansInv, PlansTyped
<1>4. Reports!OnMeansPlanned'
  BY <1>1, <1>3 DEF PlansInv, Reports!OnMeansPlanned, Reports!Planned
<1>5. QED
  BY <1>2, <1>4 DEF PlansInv

LEMMA PlansInvInductive == PlansInv /\ [Reports!Next]_(Reports!vars) => PlansInv'
<1>. SUFFICES ASSUME PlansInv, [Reports!Next]_(Reports!vars) PROVE PlansInv'
  OBVIOUS
<1>1. CASE Reports!TurnOn
  BY <1>1, TurnOnKeeps
<1>2. ASSUME NEW c \in Reports!Planned, NEW p \in Reports!Plans, Reports!SetPlan(c, p) PROVE PlansInv'
  BY <1>2, SetPlanKeeps
<1>3. ASSUME NEW c \in Reports!Planned, Reports!SetPlanFromGrid(c) PROVE PlansInv'
  <2>1. CASE Reports!Refused
    BY <2>1 DEF Reports!Refused, Reports!settings, PlansInv, PlansTyped, Reports!OnMeansPlanned
  <2>2. CASE Reports!SetPlan(c, "full")
    BY <2>2, SetPlanKeeps DEF Reports!Plans
  <2>3. QED
    BY <1>3, <2>1, <2>2 DEF Reports!SetPlanFromGrid
<1>4. CASE UNCHANGED <<env, plans>> /\ (checksOn' => checksOn)
  BY <1>4 DEF PlansInv, PlansTyped, Reports!OnMeansPlanned
<1>5. UNCHANGED Reports!vars => UNCHANGED <<env, plans>> /\ (checksOn' => checksOn)
  BY DEF Reports!vars, Reports!settings
<1>6. Reports!TurnOff => UNCHANGED <<env, plans>> /\ (checksOn' => checksOn)
  BY DEF Reports!TurnOff, Reports!Unmoved
<1>7. ASSUME NEW t, Reports!SetTol(t) PROVE UNCHANGED <<env, plans>> /\ (checksOn' => checksOn)
  BY <1>7 DEF Reports!SetTol, Reports!Unmoved
<1>8. ASSUME NEW k, Reports!SetCapacity(k) PROVE UNCHANGED <<env, plans>> /\ (checksOn' => checksOn)
  BY <1>8 DEF Reports!SetCapacity, Reports!Refused, Reports!settings, Reports!Unmoved
<1>9. Reports!SetPlanRefused => UNCHANGED <<env, plans>> /\ (checksOn' => checksOn)
  BY DEF Reports!SetPlanRefused, Reports!Refused, Reports!settings
<1>10. ASSUME NEW rows, NEW cold, NEW n,
              \/ Reports!Run(rows, cold) \/ Reports!RunRefused(cold)
              \/ Reports!RunFailsToBuild \/ Reports!RunFails(rows, cold, n)
       PROVE  UNCHANGED <<env, plans>> /\ (checksOn' => checksOn)
  BY <1>10 DEF Reports!Run, Reports!RunRefused, Reports!RunFailsToBuild,
               Reports!RunFails, Reports!settings
<1>11. QED
  BY <1>1, <1>2, <1>3, <1>4, <1>5, <1>6, <1>7, <1>8, <1>9, <1>10 DEF Reports!Next

(* The facade never lets the checks be on with a plan missing that the     *)
(* grid could give (compute_physical_violations of _physical_checks.py),   *)
(* for any tolerances, capacities, rows and outcomes.                      *)
THEOREM PlansComplete == ReportsSpec => []OnMeansPlanned
<1>1. Reports!Init => PlansInv
  BY DEF Reports!Init, PlansInv, PlansTyped, Reports!OnMeansPlanned
<1>2. PlansInv => Reports!OnMeansPlanned
  BY DEF PlansInv
<1>3. QED
  BY <1>1, <1>2, PlansInvInductive, PTL DEF ReportsSpec, Reports!Spec, OnMeansPlanned

-----------------------------------------------------------------------------
(* Induction over the subsets of a finite set.                              *)

(* A set of sizes has a smallest one.                                       *)
LEMMA SmallestOf ==
  ASSUME NEW T \in SUBSET Nat, T # {}
  PROVE  \E n \in T : \A m \in T : ~(m < n)
<1>1. \E n \in T : \A m \in T : ~(<<m, n>> \in OpToRel(<, Nat))
  BY NatLessThanWellFounded, WFMin, Zenon
<1>2. QED
  BY <1>1 DEF OpToRel

(* A set of subsets to which T belongs as soon as T without any of its      *)
(* elements does has them all.                                              *)
LEMMA SubsetInduction ==
  ASSUME NEW S, IsFiniteSet(S), NEW Good,
         \A T \in SUBSET S : (\A x \in T : T \ {x} \in Good) => T \in Good
  PROVE  SUBSET S \subseteq Good
<1>. DEFINE Cards == {Cardinality(T) : T \in {T \in SUBSET S : T \notin Good}}
<1>1. \A T \in SUBSET S : IsFiniteSet(T) /\ Cardinality(T) \in Nat
  BY FS_Subset, FS_CardinalityType
<1>2. SUFFICES ASSUME Cards # {} PROVE FALSE
  OBVIOUS
<1>3. Cards \in SUBSET Nat
  BY <1>1
<1>4. PICK n \in Cards : \A m \in Cards : ~(m < n)
  <2>. HIDE DEF Cards
  <2>1. QED
    BY <1>2, <1>3, SmallestOf
<1>5. PICK T \in SUBSET S : T \notin Good /\ Cardinality(T) = n
  BY <1>4
<1>6. PICK x \in T : T \ {x} \notin Good
  BY <1>5
<1>7. T \ {x} \in SUBSET S /\ Cardinality(T \ {x}) = n - 1
  BY <1>1, <1>5, <1>6, FS_RemoveElement
<1>8. n - 1 \in Cards
  BY <1>6, <1>7
<1>9. n \in Nat /\ n - 1 \in Nat
  BY <1>3, <1>4, <1>8
<1>10. QED
  BY <1>4, <1>8, <1>9

-----------------------------------------------------------------------------
(* Parts of a sequence.                                                     *)
LEMMA PartIs ==
  ASSUME NEW S, NEW s, NEW m \in Int, NEW n \in Int, 0 <= m, m <= n,
         \A i \in m + 1 .. n : s[i] \in S
  PROVE  /\ SubSeq(s, m + 1, n) \in Seq(S) /\ Len(SubSeq(s, m + 1, n)) = n - m
         /\ \A i \in 1 .. n - m : SubSeq(s, m + 1, n)[i] = s[m + i]
<1>. DEFINE r == SubSeq(s, m + 1, n)
            k == m + 1
<1>1. k \in Int
  OBVIOUS
<1>2. /\ r \in Seq(S) /\ Len(r) = (IF k <= n THEN n - k + 1 ELSE 0)
      /\ \A i \in 1 .. n - k + 1 : r[i] = s[k + i - 1]
  BY SubSeqProperties
<1>. HIDE DEF r
<1>3. Len(r) = n - m /\ n - k + 1 = n - m
  BY <1>2
<1>4. ASSUME NEW i \in 1 .. n - m PROVE r[i] = s[m + i]
  <2>1. k + i - 1 = m + i
    OBVIOUS
  <2>2. QED
    BY <1>2, <1>3, <2>1
<1>5. QED
  BY <1>2, <1>3, <1>4 DEF r

LEMMA PrefixIs ==
  ASSUME NEW S, NEW s, NEW n \in Nat, \A i \in 1 .. n : s[i] \in S
  PROVE  /\ SubSeq(s, 1, n) \in Seq(S) /\ Len(SubSeq(s, 1, n)) = n
         /\ \A i \in 1 .. n : SubSeq(s, 1, n)[i] = s[i]
<1>. DEFINE r == SubSeq(s, 0 + 1, n)
<1>1. /\ r \in Seq(S) /\ Len(r) = n - 0
      /\ \A i \in 1 .. n - 0 : r[i] = s[0 + i]
  BY PartIs
<1>2. r = SubSeq(s, 1, n)
  OBVIOUS
<1>. HIDE DEF r
<1>3. QED
  BY <1>1, <1>2

LEMMA Strides ==
  ASSUME NEW i \in Nat \ {0}, NEW S \in Nat
  PROVE  /\ (i - 1) * S \in Nat /\ (i - 1) * S + S = i * S
         /\ \A r \in 1 .. i - 1 : (r - 1) * S \in Nat /\ (r - 1) * S + S <= (i - 1) * S
<1>1. i - 1 \in Nat
  OBVIOUS
<1>2. \A a, b \in Nat : a * b \in Nat
  OBVIOUS
<1>3. (i - 1) * S + S = i * S
  OBVIOUS
<1>4. ASSUME NEW r \in 1 .. i - 1 PROVE (r - 1) * S \in Nat /\ (r - 1) * S + S <= (i - 1) * S
  <2>1. r \in Nat /\ r - 1 \in Nat /\ i - 1 - r \in Nat
    OBVIOUS
  <2>2. (r - 1) * S + S = r * S
    BY <2>1
  <2>3. (i - 1) * S = r * S + (i - 1 - r) * S
    BY <2>1
  <2>4. (r - 1) * S \in Nat /\ (i - 1 - r) * S \in Nat /\ r * S \in Nat
    BY <1>2, <2>1
  <2>5. QED
    BY <2>2, <2>3, <2>4
<1>5. QED
  BY <1>1, <1>2, <1>3, <1>4

-----------------------------------------------------------------------------
(* Sequences end to end, from the equation of FlattenSeq().                 *)
FlatStep(fl, seqs, i) == IF i = 1 THEN seqs[i] ELSE fl[i - 1] \o seqs[i]
Flattens(fl, seqs, n) == fl = [i \in 1 .. n |-> FlatStep(fl, seqs, i)]

LEMMA FlattenIs ==
  \A seqs : Len(seqs) # 0 =>
    Reports!FlattenSeq(seqs) = (CHOOSE fl : Flattens(fl, seqs, Len(seqs)))[Len(seqs)]
<1>1. ASSUME NEW seqs, Len(seqs) # 0
      PROVE  Reports!FlattenSeq(seqs) = (CHOOSE fl : Flattens(fl, seqs, Len(seqs)))[Len(seqs)]
  BY <1>1 DEF Reports!FlattenSeq, Flattens, FlatStep
<1>2. QED
  BY <1>1

LEMMA FlatExists ==
  ASSUME NEW seqs, NEW n \in Nat
  PROVE  \E fl : Flattens(fl, seqs, n)
<1>. DEFINE Bad == {m \in Nat : ~\E fl : Flattens(fl, seqs, m)}
<1>1. SUFFICES ASSUME Bad # {} PROVE FALSE
  OBVIOUS
<1>2. PICK m \in Bad : \A k \in Bad : ~(k < m)
  <2>1. Bad \in SUBSET Nat
    OBVIOUS
  <2>. HIDE DEF Bad
  <2>2. QED
    BY <1>1, <2>1, SmallestOf
<1>3. m \in Nat /\ ~\E fl : Flattens(fl, seqs, m)
  BY <1>2
<1>4. CASE m = 0
  <2>. DEFINE none == [i \in 1 .. 0 |-> seqs]
  <2>1. none = [i \in 1 .. 0 |-> FlatStep(none, seqs, i)]
    OBVIOUS
  <2>2. Flattens(none, seqs, 0)
    BY <2>1 DEF Flattens
  <2>3. QED
    BY <1>3, <1>4, <2>2
<1>5. CASE m # 0
  <2>1. m - 1 \in Nat /\ m - 1 < m
    BY <1>3, <1>5
  <2>2. PICK fl : Flattens(fl, seqs, m - 1)
    BY <1>2, <2>1
  <2>. DEFINE more == [i \in 1 .. m |-> IF i = m THEN FlatStep(fl, seqs, m) ELSE fl[i]]
  <2>3. ASSUME NEW i \in 1 .. m PROVE more[i] = FlatStep(more, seqs, i)
    <3>1. i # 1 => i - 1 \in 1 .. m /\ i - 1 # m
      BY <1>3, <2>3
    <3>2. i # 1 => more[i - 1] = fl[i - 1]
      BY <3>1
    <3>3. i # m => fl[i] = FlatStep(fl, seqs, i)
      BY <1>3, <2>2, <2>3 DEF Flattens
    <3>4. more[i] = FlatStep(fl, seqs, i)
      BY <3>3
    <3>. HIDE DEF more
    <3>5. FlatStep(fl, seqs, i) = FlatStep(more, seqs, i)
      BY <3>2 DEF FlatStep
    <3>6. QED
      BY <3>4, <3>5
  <2>4. more = [i \in 1 .. m |-> more[i]]
    OBVIOUS
  <2>. HIDE DEF more
  <2>5. Flattens(more, seqs, m)
    BY <2>3, <2>4 DEF Flattens
  <2>6. QED
    BY <1>3, <2>5
<1>6. QED
  BY <1>4, <1>5

(* So they are joined one after the other.                                  *)
LEMMA FlattenSteps ==
  ASSUME NEW seqs, Len(seqs) \in Nat \ {0}
  PROVE  \E fl : /\ Reports!FlattenSeq(seqs) = fl[Len(seqs)]
                 /\ \A i \in 1 .. Len(seqs) : fl[i] = FlatStep(fl, seqs, i)
<1>. DEFINE fl == CHOOSE fl : Flattens(fl, seqs, Len(seqs))
<1>1. Flattens(fl, seqs, Len(seqs))
  BY FlatExists
<1>2. Reports!FlattenSeq(seqs) = fl[Len(seqs)]
  BY FlattenIs
<1>. HIDE DEF fl
<1>3. \A i \in 1 .. Len(seqs) : fl[i] = FlatStep(fl, seqs, i)
  BY <1>1 DEF Flattens
<1>4. QED
  BY <1>2, <1>3

-----------------------------------------------------------------------------
(* Folds over the rows, from their equation.                                *)
Latest(s) == Reports!Max(s)

LEMMA LatestOf ==
  ASSUME NEW N \in Nat, NEW s \in SUBSET (1 .. N), s # {}
  PROVE  Latest(s) \in s /\ \A i \in s \ {Latest(s)} : i < Latest(s)
<1>. DEFINE D == {N - i : i \in s}
<1>0. \A i \in s : i \in Nat /\ N - i \in Nat
  OBVIOUS
<1>1. D \in SUBSET Nat /\ D # {}
  BY <1>0
<1>2. PICK d \in D : \A e \in D : ~(e < d)
  <2>. HIDE DEF D
  <2>1. QED
    BY <1>1, SmallestOf
<1>3. PICK m \in s : d = N - m
  BY <1>2
<1>4. \A i \in s : m >= i
  <2>. SUFFICES ASSUME NEW i \in s PROVE m >= i
    OBVIOUS
  <2>1. ~(N - i < N - m)
    BY <1>2, <1>3
  <2>2. QED
    BY <2>1
<1>5. Latest(s) \in s /\ \A i \in s : Latest(s) >= i
  BY <1>4 DEF Latest, Reports!Max
<1>6. ASSUME NEW i \in s \ {Latest(s)} PROVE i < Latest(s)
  <2>1. i \in Nat /\ Latest(s) \in Nat /\ Latest(s) >= i /\ i # Latest(s)
    BY <1>0, <1>5
  <2>2. QED
    BY <2>1
<1>7. QED
  BY <1>5, <1>6

(* The kernel of check c has run on row r, after n kernels of a run.        *)
Behind(c, r, n) ==
  \E k \in DOMAIN Reports!KernelOrder :
    Reports!KernelOrder[k] = c /\ (r - 1) * Len(Reports!KernelOrder) + k <= n
RowStep(out, c, r, rows, n) ==
  IF Behind(c, r, n) THEN Reports!Checked(out, c, r, rows[r]) ELSE out

Numbered == [r \in Reports!Rows |-> r]
RowsFold(out, c, rows, n) ==
  Reports!FoldLeft(LAMBDA o, r : RowStep(o, c, r, rows, n), out, Numbered)
FoldStep(it, out, c, rows, n, T) ==
  IF T = {} THEN out
  ELSE RowStep(it[T \ {Latest(T)}], c, Numbered[Latest(T)], rows, n)
Folds(it, out, c, rows, n) ==
  it = [T \in SUBSET DOMAIN Numbered |-> FoldStep(it, out, c, rows, n, T)]

LEMMA AfterFolds ==
  ASSUME NEW d, NEW rows, NEW n, checksOn
  PROVE  Reports!After(d, rows, n)
           = [d EXCEPT !.out = [c \in Reports!Check |-> RowsFold(d.out[c], c, rows, n)]]
BY DEF Reports!After, RowsFold, RowStep, Behind, Numbered

LEMMA FoldIs ==
  \A out, c, rows, n :
    RowsFold(out, c, rows, n) = (CHOOSE it : Folds(it, out, c, rows, n))[DOMAIN Numbered]
<1>1. ASSUME NEW out, NEW c, NEW rows, NEW n
      PROVE  RowsFold(out, c, rows, n)
               = (CHOOSE it : Folds(it, out, c, rows, n))[DOMAIN Numbered]
  BY DEF RowsFold, Reports!FoldLeft, Reports!MapThenFoldSet, Folds, FoldStep, Latest
<1>2. QED
  BY <1>1

(* The equation has a solution: row after row, on the sets of rows so far.  *)
FoldsUpTo(it, out, c, rows, n, m) ==
  \A T \in SUBSET (1 .. m) : it[T] = FoldStep(it, out, c, rows, n, T)

LEMMA FoldExists ==
  ASSUME NEW out, NEW c, NEW rows, NEW n, NEW N \in Nat
  PROVE  \E it : FoldsUpTo(it, out, c, rows, n, N)
<1>. DEFINE Bad == {m \in Nat : ~\E it : FoldsUpTo(it, out, c, rows, n, m)}
<1>1. SUFFICES ASSUME Bad # {} PROVE FALSE
  OBVIOUS
<1>2. PICK m \in Bad : \A k \in Bad : ~(k < m)
  <2>1. Bad \in SUBSET Nat
    OBVIOUS
  <2>. HIDE DEF Bad
  <2>2. QED
    BY <1>1, <2>1, SmallestOf
<1>3. m \in Nat /\ ~\E it : FoldsUpTo(it, out, c, rows, n, m)
  BY <1>2
<1>4. CASE m = 0
  <2>. DEFINE none == [T \in SUBSET (1 .. 0) |-> out]
  <2>1. \A T \in SUBSET (1 .. 0) : T = {} /\ none[T] = out
    OBVIOUS
  <2>. HIDE DEF none
  <2>2. FoldsUpTo(none, out, c, rows, n, 0)
    BY <2>1 DEF FoldsUpTo, FoldStep
  <2>3. QED
    BY <1>3, <1>4, <2>2
<1>5. CASE m # 0
  <2>1. m - 1 \in Nat /\ m - 1 < m
    BY <1>3, <1>5
  <2>2. PICK it : FoldsUpTo(it, out, c, rows, n, m - 1)
    BY <1>2, <2>1
  <2>. DEFINE more == [T \in SUBSET (1 .. m) |->
                         IF m \in T THEN RowStep(it[T \ {m}], c, Numbered[m], rows, n) ELSE it[T]]
  <2>3. ASSUME NEW T \in SUBSET (1 .. m)
        PROVE  more[T] = FoldStep(more, out, c, rows, n, T)
    <3>1. \A U \in SUBSET (1 .. m) : m \notin U => U \in SUBSET (1 .. m - 1)
      BY <1>3
    <3>2. T # {} => Latest(T) \in T /\ \A i \in T \ {Latest(T)} : i < Latest(T)
      BY <1>3, LatestOf
    <3>3. \A i \in T : i \in 1 .. m
      OBVIOUS
    <3>4. CASE m \in T
      <4>1. Latest(T) = m
        <5>1. Latest(T) \in 1 .. m /\ \A i \in T \ {Latest(T)} : i < Latest(T)
          BY <3>2, <3>3, <3>4
        <5>2. m # Latest(T) => m < Latest(T)
          BY <3>4, <5>1
        <5>3. QED
          BY <1>3, <5>1, <5>2
      <4>2. T \ {m} \in SUBSET (1 .. m) /\ m \notin T \ {m}
        OBVIOUS
      <4>3. more[T \ {m}] = it[T \ {m}]
        BY <4>2
      <4>4. more[T] = RowStep(it[T \ {m}], c, Numbered[m], rows, n)
        BY <3>4
      <4>. HIDE DEF more
      <4>5. QED
        BY <3>4, <4>1, <4>3, <4>4 DEF FoldStep
    <3>5. CASE m \notin T
      <4>1. more[T] = it[T]
        BY <3>5
      <4>2. it[T] = FoldStep(it, out, c, rows, n, T)
        BY <2>2, <3>1, <3>5 DEF FoldsUpTo
      <4>3. T # {} => T \ {Latest(T)} \in SUBSET (1 .. m) /\ m \notin T \ {Latest(T)}
        BY <3>5
      <4>4. T # {} => more[T \ {Latest(T)}] = it[T \ {Latest(T)}]
        BY <4>3
      <4>. HIDE DEF more
      <4>5. QED
        BY <4>1, <4>2, <4>4 DEF FoldStep
    <3>6. QED
      BY <3>4, <3>5
  <2>. HIDE DEF more
  <2>4. FoldsUpTo(more, out, c, rows, n, m)
    BY <2>3 DEF FoldsUpTo
  <2>5. QED
    BY <1>3, <2>4
<1>6. QED
  BY <1>4, <1>5

LEMMA RowsAre == NumRows \in Nat \ {0} /\ Reports!Rows = 1 .. NumRows /\ DOMAIN Numbered = Reports!Rows
BY RowsAssumption DEF Reports!ReportsAssumption, Reports!Rows, Numbered

(* So the rows are taken one by one, from none to all of them.              *)
StepsOf(it, out, c, rows, n) ==
  \A T \in SUBSET Reports!Rows :
    it[T] = IF T = {} THEN out ELSE RowStep(it[T \ {Latest(T)}], c, Latest(T), rows, n)

LEMMA FoldSteps ==
  ASSUME NEW out, NEW c, NEW rows, NEW n
  PROVE  \E it : RowsFold(out, c, rows, n) = it[Reports!Rows] /\ StepsOf(it, out, c, rows, n)
<1>. DEFINE it == CHOOSE it : Folds(it, out, c, rows, n)
<1>1. PICK f : FoldsUpTo(f, out, c, rows, n, NumRows)
  BY RowsAre, FoldExists
<1>. DEFINE g == [T \in SUBSET DOMAIN Numbered |-> f[T]]
<1>2. Folds(g, out, c, rows, n)
  <2>1. \A T \in SUBSET DOMAIN Numbered : g[T] = FoldStep(f, out, c, rows, n, T)
    BY <1>1, RowsAre DEF FoldsUpTo
  <2>2. \A T \in SUBSET DOMAIN Numbered : g[T \ {Latest(T)}] = f[T \ {Latest(T)}]
    OBVIOUS
  <2>3. \A T \in SUBSET DOMAIN Numbered : g[T] = FoldStep(g, out, c, rows, n, T)
    <3>. HIDE DEF g
    <3>1. QED
      BY <2>1, <2>2 DEF FoldStep
  <2>4. g = [T \in SUBSET DOMAIN Numbered |-> g[T]]
    OBVIOUS
  <2>. HIDE DEF g
  <2>5. QED
    BY <2>3, <2>4 DEF Folds
<1>3. Folds(it, out, c, rows, n)
  <2>. HIDE DEF g
  <2>1. QED
    BY <1>2
<1>4. RowsFold(out, c, rows, n) = it[Reports!Rows]
  BY FoldIs, RowsAre
<1>. HIDE DEF it
<1>5. ASSUME NEW T \in SUBSET Reports!Rows
      PROVE  it[T] = IF T = {} THEN out
                     ELSE RowStep(it[T \ {Latest(T)}], c, Latest(T), rows, n)
  <2>1. it[T] = FoldStep(it, out, c, rows, n, T)
    BY <1>3, RowsAre DEF Folds
  <2>2. T # {} => Latest(T) \in T
    BY RowsAre, LatestOf
  <2>3. T # {} => Numbered[Latest(T)] = Latest(T)
    BY <2>2 DEF Numbered
  <2>4. QED
    BY <2>1, <2>3 DEF FoldStep
<1>6. QED
  BY <1>4, <1>5 DEF StepsOf

-----------------------------------------------------------------------------
(* The checks, their types and the order of a report.                       *)
LEMMA ChecksAre == Reports!Check = {"bus_q", "hvdc_p", "gen_p", "release"}
BY DEF Reports!Check, Reports!TypesOf

LEMMA TypesAre ==
  /\ Reports!TypesOf["bus_q"] = <<"LOW_Q", "HIGH_Q">>
  /\ Reports!TypesOf["hvdc_p"] = <<"HIGH_P">>
  /\ Reports!TypesOf["gen_p"] = <<"LOW_P", "HIGH_P">>
  /\ Reports!TypesOf["release"] =
       <<"LOW_VOLTAGE_AT_MIN_Q", "HIGH_VOLTAGE_AT_MAX_Q",
         "LOW_VOLTAGE_SVC_STANDBY", "HIGH_VOLTAGE_SVC_STANDBY">>
BY DEF Reports!TypesOf

LEMMA GroupsAre ==
  /\ Reports!Groups("bus_q") = 2 /\ Reports!Groups("hvdc_p") = 1
  /\ Reports!Groups("gen_p") = 2 /\ Reports!Groups("release") = 4
BY TypesAre DEF Reports!Groups

LEMMA GroupsFew == \A c \in Reports!Check : Reports!Groups(c) \in Nat \ {0} /\ Reports!Groups(c) <= 4
BY ChecksAre, GroupsAre

LEMMA OrderIs ==
  /\ DOMAIN Reports!ReportOrder = 1 .. 4 /\ Len(Reports!ReportOrder) = 4
  /\ Reports!ReportOrder[1] = "bus_q" /\ Reports!ReportOrder[2] = "release"
  /\ Reports!ReportOrder[3] = "hvdc_p" /\ Reports!ReportOrder[4] = "gen_p"
BY DEF Reports!ReportOrder

LEMMA OrderTells ==
  \A k, l \in 1 .. 4 : Reports!ReportOrder[k] = Reports!ReportOrder[l] => k = l
BY OrderIs

Position(c) == CHOOSE k \in DOMAIN Reports!ReportOrder : Reports!ReportOrder[k] = c
Group(c, t) == CHOOSE g \in 1 .. Reports!Groups(c) : Reports!TypesOf[c][g] = t

LEMMA PositionIs == \A k \in 1 .. 4 : Position(Reports!ReportOrder[k]) = k
<1>. SUFFICES ASSUME NEW k \in 1 .. 4 PROVE Position(Reports!ReportOrder[k]) = k
  OBVIOUS
<1>1. \E l \in DOMAIN Reports!ReportOrder : Reports!ReportOrder[l] = Reports!ReportOrder[k]
  BY OrderIs
<1>2. /\ Position(Reports!ReportOrder[k]) \in 1 .. 4
      /\ Reports!ReportOrder[Position(Reports!ReportOrder[k])] = Reports!ReportOrder[k]
  BY <1>1, OrderIs DEF Position
<1>3. QED
  BY <1>2, OrderTells

LEMMA PositionOf == \A c \in Reports!Check : \E k \in 1 .. 4 : c = Reports!ReportOrder[k]
BY ChecksAre, OrderIs

LEMMA TypesTell ==
  \A c \in Reports!Check : \A g, h \in 1 .. Reports!Groups(c) :
    Reports!TypesOf[c][g] = Reports!TypesOf[c][h] => g = h
<1>1. ASSUME NEW c \in Reports!Check, NEW g \in 1 .. Reports!Groups(c),
             NEW h \in 1 .. Reports!Groups(c), Reports!TypesOf[c][g] = Reports!TypesOf[c][h]
      PROVE  g = h
  <2>1. CASE c = "bus_q"
    BY <1>1, <2>1, GroupsAre, TypesAre
  <2>2. CASE c = "hvdc_p"
    BY <1>1, <2>2, GroupsAre
  <2>3. CASE c = "gen_p"
    BY <1>1, <2>3, GroupsAre, TypesAre
  <2>4. CASE c = "release"
    <3>1. g \in 1 .. 4 /\ h \in 1 .. 4
      BY <2>4, GroupsAre
    <3>2. QED
      BY <1>1, <2>4, <3>1, TypesAre
  <2>5. QED
    BY <2>1, <2>2, <2>3, <2>4, ChecksAre
<1>2. QED
  BY <1>1

LEMMA GroupIs ==
  \A c \in Reports!Check : \A g \in 1 .. Reports!Groups(c) : Group(c, Reports!TypesOf[c][g]) = g
<1>. SUFFICES ASSUME NEW c \in Reports!Check, NEW g \in 1 .. Reports!Groups(c)
              PROVE  Group(c, Reports!TypesOf[c][g]) = g
  OBVIOUS
<1>1. /\ Group(c, Reports!TypesOf[c][g]) \in 1 .. Reports!Groups(c)
      /\ Reports!TypesOf[c][Group(c, Reports!TypesOf[c][g])] = Reports!TypesOf[c][g]
  BY DEF Group
<1>2. QED
  BY <1>1, TypesTell

LEMMA TypesPhysical ==
  \A c \in Reports!Check : \A g \in 1 .. Reports!Groups(c) :
    Reports!Category(Reports!TypesOf[c][g]) = "physical"
<1>1. ASSUME NEW c \in Reports!Check, NEW g \in 1 .. Reports!Groups(c)
      PROVE  Reports!Category(Reports!TypesOf[c][g]) = "physical"
  <2>1. Reports!TypesOf[c][g] \in
          {"LOW_Q", "HIGH_Q", "HIGH_P", "LOW_P", "LOW_VOLTAGE_AT_MIN_Q", "HIGH_VOLTAGE_AT_MAX_Q",
           "LOW_VOLTAGE_SVC_STANDBY", "HIGH_VOLTAGE_SVC_STANDBY"}
    <3>1. CASE c = "bus_q"
      BY <3>1, GroupsAre, TypesAre
    <3>2. CASE c = "hvdc_p"
      BY <3>2, GroupsAre, TypesAre
    <3>3. CASE c = "gen_p"
      BY <3>3, GroupsAre, TypesAre
    <3>4. CASE c = "release"
      <4>1. g \in 1 .. 4
        BY <3>4, GroupsAre
      <4>2. QED
        BY <3>4, <4>1, TypesAre
    <3>5. QED
      BY <3>1, <3>2, <3>3, <3>4, ChecksAre
  <2>2. QED
    BY <2>1 DEF Reports!Category
<1>2. QED
  BY <1>1

(* Where a record of a check is in a report.                                *)
LEMMA RankIs ==
  ASSUME NEW c \in Reports!Check, NEW g \in 1 .. Reports!Groups(c), NEW i
  PROVE  /\ Reports!RankInReport(Reports!Rec(c, g, i)) = 10 * Position(c) + g
         /\ Reports!Rec(c, g, i).rank = i
<1>. DEFINE y == Reports!Rec(c, g, i)
<1>1. y.check = c /\ y.type = Reports!TypesOf[c][g] /\ y.rank = i
  BY DEF Reports!Rec
<1>2. Reports!RankInReport(y) = 10 * Position(y.check) + Group(y.check, y.type)
  BY DEF Reports!RankInReport, Position, Group
<1>. HIDE DEF y
<1>3. QED
  BY <1>1, <1>2, GroupIs DEF y

(* Records of one type follow their rank, those of a check its groups, and  *)
(* those of a report its checks.                                            *)
LEMMA RecordsOrdered ==
  ASSUME NEW c \in Reports!Check, NEW g \in 1 .. Reports!Groups(c), NEW i,
         NEW d \in Reports!Check, NEW h \in 1 .. Reports!Groups(d), NEW j,
         \/ Position(c) < Position(d)
         \/ c = d /\ g < h
         \/ c = d /\ g = h /\ i < j
  PROVE  Reports!Before(Reports!Rec(c, g, i), Reports!Rec(d, h, j))
<1>. DEFINE p == Position(c)
            q == Position(d)
<1>1. p \in 1 .. 4 /\ q \in 1 .. 4
  BY PositionOf, PositionIs
<1>2. /\ g \in Nat /\ g <= 4 /\ h \in Nat /\ 1 <= h
      /\ g \in Int /\ h \in Int
  BY GroupsFew
<1>3. /\ Reports!RankInReport(Reports!Rec(c, g, i)) = 10 * p + g
      /\ Reports!RankInReport(Reports!Rec(d, h, j)) = 10 * q + h
      /\ Reports!Rec(c, g, i).rank = i /\ Reports!Rec(d, h, j).rank = j
  BY RankIs
<1>4. \/ p < q
      \/ p = q /\ g < h
      \/ p = q /\ g = h /\ i < j
  OBVIOUS
<1>. HIDE DEF p, q
<1>5. 10 * p + g < 10 * q + h \/ (10 * p + g = 10 * q + h /\ i < j)
  <2>1. CASE p < q
    BY <1>1, <1>2, <2>1
  <2>2. CASE p = q /\ g < h
    BY <1>1, <1>2, <2>2
  <2>3. CASE p = q /\ g = h /\ i < j
    BY <2>3
  <2>4. QED
    BY <1>4, <2>1, <2>2, <2>3
<1>6. QED
  BY <1>3, <1>5 DEF Reports!Before

-----------------------------------------------------------------------------
(* A sequence that lists the records of D, once each, in their order.       *)
Orderly(q, D) ==
  /\ q \in Seq(D)
  /\ \A y \in D : \E i \in 1 .. Len(q) : q[i] = y
  /\ \A i, j \in 1 .. Len(q) : i < j => Reports!Before(q[i], q[j])

Precedes(D, E) == \A y \in D, z \in E : Reports!Before(y, z)

LEMMA OrderlyJoin ==
  ASSUME NEW D, NEW E, NEW a, NEW b, Orderly(a, D), Orderly(b, E), Precedes(D, E)
  PROVE  Orderly(a \o b, D \cup E)
<1>. DEFINE A == D \cup E
            m == Len(a)
            n == Len(b)
            q == a \o b
<1>1. a \in Seq(D) /\ b \in Seq(E) /\ m \in Nat /\ n \in Nat
  BY DEF Orderly
<1>2. a \in Seq(A) /\ b \in Seq(A)
  BY <1>1
<1>3. (\A i \in 1 .. m : a[i] \in D) /\ (\A i \in 1 .. n : b[i] \in E)
  BY <1>1
<1>. HIDE DEF A
<1>4. q \in Seq(A) /\ Len(q) = m + n
      /\ \A i \in 1 .. m + n : q[i] = IF i <= m THEN a[i] ELSE b[i - m]
  BY <1>2, ConcatProperties
<1>. HIDE DEF q, m, n
<1>5. ASSUME NEW i \in 1 .. m PROVE i \in 1 .. m + n /\ q[i] = a[i]
  BY <1>1, <1>4, <1>5
<1>6. ASSUME NEW i \in 1 .. n PROVE m + i \in 1 .. m + n /\ q[m + i] = b[i]
  <2>. DEFINE k == m + i
  <2>1. k \in 1 .. m + n /\ ~(k <= m) /\ k - m = i
    BY <1>1, <1>6
  <2>. HIDE DEF k
  <2>2. q[k] = b[i]
    BY <1>4, <2>1
  <2>3. QED
    BY <2>1, <2>2 DEF k
<1>7. ASSUME NEW y \in A PROVE \E i \in 1 .. Len(q) : q[i] = y
  <2>1. CASE y \in D
    <3>1. PICK i \in 1 .. m : a[i] = y
      BY <2>1 DEF Orderly, m
    <3>2. QED
      BY <1>4, <1>5, <3>1
  <2>2. CASE y \in E
    <3>1. PICK i \in 1 .. n : b[i] = y
      BY <2>2 DEF Orderly, n
    <3>2. QED
      BY <1>4, <1>6, <3>1
  <2>3. QED
    BY <2>1, <2>2 DEF A
<1>8. ASSUME NEW i \in 1 .. m + n, NEW j \in 1 .. m + n, i < j
      PROVE  Reports!Before(q[i], q[j])
  <2>1. i \in Int /\ j \in Int /\ 1 <= i /\ j <= m + n /\ m \in Int /\ n \in Int
    BY <1>1, <1>8
  <2>2. CASE j <= m
    <3>1. i \in 1 .. m /\ j \in 1 .. m
      BY <1>8, <2>1, <2>2
    <3>2. Reports!Before(a[i], a[j])
      BY <1>8, <3>1 DEF Orderly, m
    <3>3. QED
      BY <1>5, <3>1, <3>2
  <2>3. CASE i <= m /\ j > m
    <3>1. i \in 1 .. m /\ j - m \in 1 .. n /\ ~(j <= m)
      BY <2>1, <2>3
    <3>2. q[j] = b[j - m] /\ q[i] = a[i]
      BY <1>4, <1>5, <1>8, <3>1
    <3>3. QED
      BY <1>3, <3>1, <3>2 DEF Precedes
  <2>4. CASE i > m
    <3>1. i - m \in 1 .. n /\ j - m \in 1 .. n /\ i - m < j - m /\ ~(i <= m) /\ ~(j <= m)
      BY <1>8, <2>1, <2>4
    <3>2. q[i] = b[i - m] /\ q[j] = b[j - m]
      BY <1>4, <1>8, <3>1
    <3>3. Reports!Before(b[i - m], b[j - m])
      BY <3>1 DEF Orderly, n
    <3>4. QED
      BY <3>2, <3>3
  <2>5. QED
    BY <1>8, <2>1, <2>2, <2>3, <2>4
<1>9. Orderly(q, A)
  BY <1>4, <1>7, <1>8 DEF Orderly
<1>10. QED
  BY <1>9 DEF q, A

(* Parts that list their records in order, one part before the next.        *)
UpTo(D, i) == UNION {D[k] : k \in 1 .. i}

LEMMA FlattenOrderly ==
  ASSUME NEW seqs, Len(seqs) \in Nat \ {0}, NEW D,
         \A i \in 1 .. Len(seqs) : Orderly(seqs[i], D[i]),
         \A i, j \in 1 .. Len(seqs) : i < j => Precedes(D[i], D[j])
  PROVE  Orderly(Reports!FlattenSeq(seqs), UpTo(D, Len(seqs)))
<1>. DEFINE n == Len(seqs)
<1>1. PICK fl : /\ Reports!FlattenSeq(seqs) = fl[n]
                /\ \A i \in 1 .. n : fl[i] = FlatStep(fl, seqs, i)
  BY FlattenSteps
<1>. DEFINE Bad == {i \in 1 .. n : ~Orderly(fl[i], UpTo(D, i))}
<1>. HIDE DEF n
<1>2. SUFFICES ASSUME Bad # {} PROVE FALSE
  <2>1. n \in 1 .. n
    BY DEF n
  <2>2. QED
    BY <1>1, <2>1 DEF n
<1>3. PICK i \in Bad : \A k \in Bad : ~(k < i)
  <2>1. Bad \in SUBSET Nat
    OBVIOUS
  <2>. HIDE DEF Bad
  <2>2. QED
    BY <1>2, <2>1, SmallestOf
<1>4. i \in 1 .. n /\ ~Orderly(fl[i], UpTo(D, i)) /\ n \in Nat
  BY <1>3 DEF n
<1>5. Orderly(seqs[i], D[i]) /\ fl[i] = FlatStep(fl, seqs, i)
  BY <1>1, <1>4 DEF n
<1>6. CASE i = 1
  <2>1. UpTo(D, i) = D[i]
    <3>1. 1 .. 1 = {1}
      OBVIOUS
    <3>2. QED
      BY <1>6, <3>1 DEF UpTo
  <2>2. fl[i] = seqs[i]
    BY <1>5, <1>6 DEF FlatStep
  <2>3. QED
    BY <1>4, <1>5, <2>1, <2>2
<1>7. CASE i # 1
  <2>1. i - 1 \in 1 .. n /\ i - 1 < i /\ \A k \in 1 .. i - 1 : k \in 1 .. n /\ k < i
    BY <1>4, <1>7
  <2>2. Orderly(fl[i - 1], UpTo(D, i - 1))
    BY <1>3, <2>1
  <2>3. UpTo(D, i) = UpTo(D, i - 1) \cup D[i]
    <3>1. 1 .. i = (1 .. i - 1) \cup {i}
      BY <1>4, <2>1
    <3>2. QED
      BY <3>1 DEF UpTo
  <2>4. Precedes(UpTo(D, i - 1), D[i])
    <3>. SUFFICES ASSUME NEW y \in UpTo(D, i - 1), NEW z \in D[i] PROVE Reports!Before(y, z)
      BY DEF Precedes
    <3>1. PICK k \in 1 .. i - 1 : y \in D[k]
      BY DEF UpTo
    <3>2. Precedes(D[k], D[i])
      BY <1>4, <2>1 DEF n
    <3>3. QED
      BY <3>1, <3>2 DEF Precedes
  <2>5. fl[i] = fl[i - 1] \o seqs[i]
    BY <1>5, <1>7 DEF FlatStep
  <2>6. QED
    BY <1>4, <1>5, <2>2, <2>3, <2>4, <2>5, OrderlyJoin
<1>8. QED
  BY <1>6, <1>7

(* Parts of at most K elements each.                                        *)
LEMMA FlattenBound ==
  ASSUME NEW seqs, Len(seqs) \in Nat \ {0}, NEW A, NEW K \in Nat,
         \A i \in 1 .. Len(seqs) : seqs[i] \in Seq(A) /\ Len(seqs[i]) <= K
  PROVE  Reports!FlattenSeq(seqs) \in Seq(A) /\ Len(Reports!FlattenSeq(seqs)) <= Len(seqs) * K
<1>. DEFINE n == Len(seqs)
            Within(q, i) == q \in Seq(A) /\ Len(q) <= i * K
<1>1. PICK fl : /\ Reports!FlattenSeq(seqs) = fl[n]
                /\ \A i \in 1 .. n : fl[i] = FlatStep(fl, seqs, i)
  BY FlattenSteps
<1>. DEFINE Bad == {i \in 1 .. n : ~Within(fl[i], i)}
<1>. HIDE DEF n
<1>2. SUFFICES ASSUME Bad # {} PROVE FALSE
  <2>1. n \in 1 .. n
    BY DEF n
  <2>2. QED
    BY <1>1, <2>1 DEF n
<1>3. PICK i \in Bad : \A k \in Bad : ~(k < i)
  <2>1. Bad \in SUBSET Nat
    OBVIOUS
  <2>. HIDE DEF Bad
  <2>2. QED
    BY <1>2, <2>1, SmallestOf
<1>4. i \in 1 .. n /\ ~Within(fl[i], i) /\ n \in Nat
  BY <1>3 DEF n
<1>5. seqs[i] \in Seq(A) /\ Len(seqs[i]) <= K /\ fl[i] = FlatStep(fl, seqs, i)
  BY <1>1, <1>4 DEF n
<1>6. CASE i = 1
  <2>1. fl[i] = seqs[i] /\ i * K = K
    BY <1>5, <1>6 DEF FlatStep
  <2>2. QED
    BY <1>4, <1>5, <2>1
<1>7. CASE i # 1
  <2>1. i - 1 \in 1 .. n /\ i - 1 < i /\ i \in Nat \ {0}
    BY <1>4, <1>7
  <2>. DEFINE a == fl[i - 1]
              b == seqs[i]
  <2>2. Within(a, i - 1)
    BY <1>3, <2>1
  <2>3. fl[i] = a \o b
    BY <1>5, <1>7 DEF FlatStep
  <2>. DEFINE p == (i - 1) * K
              q == i * K
  <2>4. p \in Nat /\ p + K = q
    BY <2>1, Strides
  <2>5. Len(a) <= p
    BY <2>2
  <2>. HIDE DEF a, b, p, q
  <2>6. a \in Seq(A) /\ b \in Seq(A) /\ Len(a) \in Nat /\ Len(b) \in Nat
    BY <1>5, <2>2 DEF b
  <2>7. a \o b \in Seq(A) /\ Len(a \o b) = Len(a) + Len(b)
    BY <2>6, ConcatProperties
  <2>8. Len(b) <= K
    BY <1>5 DEF b
  <2>9. Len(a \o b) <= q
    BY <2>4, <2>5, <2>6, <2>7, <2>8
  <2>10. Within(fl[i], i)
    BY <2>3, <2>7, <2>9 DEF q
  <2>11. QED
    BY <1>4, <2>10
<1>8. QED
  BY <1>6, <1>7

-----------------------------------------------------------------------------
(* What a row reports, for plans p, a tolerance t and a capacity K.         *)
Observed(x) ==
  /\ x.how \in {"left_out", "diverged", "converged"}
  /\ \A c \in Reports!Check : x.found[c] \in [1 .. Reports!Groups(c) -> [Tolerances -> Nat]]

ExceedingAt(p, x, c, g, t) ==
  IF c \in Reports!Planned /\ p[c] # "full" THEN 0 ELSE x.found[c][g][t]
GroupAt(p, x, c, t, K, g) ==
  [i \in 1 .. Reports!Kept(ExceedingAt(p, x, c, g, t), K) |-> Reports!Rec(c, g, i)]
GroupsAt(p, x, c, t, K) == [g \in 1 .. Reports!Groups(c) |-> GroupAt(p, x, c, t, K, g)]
PackedAt(p, x, c, t, K) == Reports!FlattenSeq(GroupsAt(p, x, c, t, K))
DueAt(p, x, c, t, K, g) ==
  {Reports!Rec(c, g, k) :
     k \in {k \in 1 .. K : x.how = "converged" /\ k <= ExceedingAt(p, x, c, g, t)}}
DuesAt(p, x, c, t, K) == [g \in 1 .. Reports!Groups(c) |-> DueAt(p, x, c, t, K, g)]
AllDue(p, x, c, t, K) == UpTo(DuesAt(p, x, c, t, K), Reports!Groups(c))

RecordsOf(c) == {Reports!Rec(c, g, i) : g \in Int, i \in Int}
SlotsOf(c) == {Reports!Blank} \cup RecordsOf(c)

LEMMA PresentIs ==
  /\ \A x, c, g : Reports!Exceeding(x, c, g) = ExceedingAt(plans, x, c, g, tol)
  /\ \A c, x : Reports!Packed(c, x) = PackedAt(plans, x, c, tol, cap)
  /\ \A x, c, g : Reports!Due(x, c, g) = DueAt(plans, x, c, tol, cap, g)
BY DEF Reports!Exceeding, ExceedingAt, Reports!Packed, PackedAt, GroupsAt, GroupAt, Reports!Due,
       DueAt

LEMMA ExceedingTyped ==
  ASSUME NEW p, NEW x, Observed(x), NEW c \in Reports!Check, NEW g \in 1 .. Reports!Groups(c),
         NEW t \in Tolerances
  PROVE  ExceedingAt(p, x, c, g, t) \in Nat
<1>1. x.found[c] \in [1 .. Reports!Groups(c) -> [Tolerances -> Nat]]
  BY DEF Observed
<1>2. x.found[c][g] \in [Tolerances -> Nat]
  BY <1>1
<1>3. x.found[c][g][t] \in Nat
  BY <1>2
<1>4. QED
  BY <1>3 DEF ExceedingAt

LEMMA GroupTyped ==
  ASSUME NEW p, NEW x, Observed(x), NEW c \in Reports!Check, NEW g \in 1 .. Reports!Groups(c),
         NEW t \in Tolerances, NEW K \in Nat \ {0}
  PROVE  /\ GroupAt(p, x, c, t, K, g) \in Seq(RecordsOf(c))
         /\ Len(GroupAt(p, x, c, t, K, g)) <= K
         /\ x.how = "converged" => Orderly(GroupAt(p, x, c, t, K, g), DueAt(p, x, c, t, K, g))
<1>. DEFINE n == ExceedingAt(p, x, c, g, t)
            m == Reports!Kept(n, K)
            q == GroupAt(p, x, c, t, K, g)
            D == DueAt(p, x, c, t, K, g)
<1>1. n \in Nat
  BY ExceedingTyped
<1>2. m \in Nat /\ m <= K /\ m <= n /\ \A i \in 1 .. K : i <= n => i <= m
  <2>. HIDE DEF n
  <2>1. QED
    BY <1>1 DEF Reports!Kept
<1>3. q = [i \in 1 .. m |-> Reports!Rec(c, g, i)]
  BY DEF GroupAt
<1>4. x.how = "converged" => D = {Reports!Rec(c, g, k) : k \in {k \in 1 .. K : k <= n}}
  BY DEF DueAt
<1>. HIDE DEF m, n, q, D
<1>5. g \in Nat
  BY GroupsFew
<1>6. Len(q) = m /\ DOMAIN q = 1 .. m /\ \A i \in 1 .. m : q[i] = Reports!Rec(c, g, i)
  BY <1>2, <1>3
<1>7. q \in Seq(RecordsOf(c))
  <2>1. \A i \in 1 .. m : q[i] \in RecordsOf(c)
    BY <1>2, <1>5, <1>6 DEF RecordsOf
  <2>2. QED
    BY <1>2, <1>3, <2>1
<1>8. ASSUME x.how = "converged" PROVE Orderly(q, D)
  <2>1. \A i \in 1 .. m : q[i] \in D
    <3>1. \A i \in 1 .. m : i \in 1 .. K /\ i <= n
      <4>. SUFFICES ASSUME NEW i \in 1 .. m PROVE i \in 1 .. K /\ i <= n
        OBVIOUS
      <4>1. QED
        BY <1>1, <1>2
    <3>2. QED
      BY <1>4, <1>6, <1>8, <3>1
  <2>2. q \in Seq(D)
    BY <1>2, <1>3, <1>6, <2>1
  <2>3. ASSUME NEW y \in D PROVE \E i \in 1 .. Len(q) : q[i] = y
    <3>1. PICK k \in 1 .. K : k <= n /\ y = Reports!Rec(c, g, k)
      BY <1>4, <1>8
    <3>2. k \in 1 .. m
      BY <1>2, <3>1
    <3>3. QED
      BY <1>6, <3>1, <3>2
  <2>4. ASSUME NEW i \in 1 .. Len(q), NEW j \in 1 .. Len(q), i < j
        PROVE  Reports!Before(q[i], q[j])
    <3>1. Reports!Before(Reports!Rec(c, g, i), Reports!Rec(c, g, j))
      BY <2>4, RecordsOrdered
    <3>2. QED
      BY <1>6, <2>4, <3>1
  <2>5. QED
    BY <2>2, <2>3, <2>4 DEF Orderly
<1>9. QED
  BY <1>2, <1>6, <1>7, <1>8 DEF q, D

(* The packed groups of a row: what is due of each type, in order, within   *)
(* the stride.                                                              *)
LEMMA PackedIs ==
  ASSUME NEW p, NEW x, Observed(x), NEW c \in Reports!Check, NEW t \in Tolerances,
         NEW K \in Nat \ {0}
  PROVE  /\ PackedAt(p, x, c, t, K) \in Seq(RecordsOf(c))
         /\ Len(PackedAt(p, x, c, t, K)) \in Nat
         /\ Len(PackedAt(p, x, c, t, K)) <= Reports!Groups(c) * K
         /\ x.how = "converged" => Orderly(PackedAt(p, x, c, t, K), AllDue(p, x, c, t, K))
<1>. DEFINE n == Reports!Groups(c)
            seqs == GroupsAt(p, x, c, t, K)
            D == DuesAt(p, x, c, t, K)
<1>1. n \in Nat \ {0}
  BY GroupsFew
<1>2. Len(seqs) = n /\ \A g \in 1 .. n : seqs[g] = GroupAt(p, x, c, t, K, g)
  BY <1>1 DEF GroupsAt
<1>3. \A g \in 1 .. n : D[g] = DueAt(p, x, c, t, K, g)
  BY DEF DuesAt
<1>4. \A g \in 1 .. n : seqs[g] \in Seq(RecordsOf(c)) /\ Len(seqs[g]) <= K
  <2>. SUFFICES ASSUME NEW g \in 1 .. n PROVE seqs[g] \in Seq(RecordsOf(c)) /\ Len(seqs[g]) <= K
    OBVIOUS
  <2>1. QED
    BY <1>2, GroupTyped
<1>5. x.how = "converged" => \A g \in 1 .. n : Orderly(seqs[g], D[g])
  <2>. SUFFICES ASSUME x.how = "converged", NEW g \in 1 .. n PROVE Orderly(seqs[g], D[g])
    OBVIOUS
  <2>1. QED
    BY <1>2, <1>3, GroupTyped
<1>6. \A g, h \in 1 .. n : g < h => Precedes(D[g], D[h])
  <2>. SUFFICES ASSUME NEW g \in 1 .. n, NEW h \in 1 .. n, g < h,
                       NEW y \in DueAt(p, x, c, t, K, g), NEW z \in DueAt(p, x, c, t, K, h)
                PROVE  Reports!Before(y, z)
    BY <1>3 DEF Precedes
  <2>1. PICK i \in 1 .. K : y = Reports!Rec(c, g, i)
    BY DEF DueAt
  <2>2. PICK j \in 1 .. K : z = Reports!Rec(c, h, j)
    BY DEF DueAt
  <2>3. QED
    BY <2>1, <2>2, RecordsOrdered
<1>. HIDE DEF n, seqs, D
<1>7. /\ Reports!FlattenSeq(seqs) \in Seq(RecordsOf(c))
      /\ Len(Reports!FlattenSeq(seqs)) <= n * K
  <2>1. K \in Nat /\ Len(seqs) \in Nat \ {0}
    BY <1>1, <1>2
  <2>2. QED
    BY <1>2, <1>4, <2>1, FlattenBound
<1>8. x.how = "converged" => Orderly(Reports!FlattenSeq(seqs), UpTo(D, n))
  <2>1. Len(seqs) \in Nat \ {0}
    BY <1>1, <1>2
  <2>2. QED
    BY <1>2, <1>5, <1>6, <2>1, FlattenOrderly
<1>9. QED
  BY <1>7, <1>8 DEF PackedAt, AllDue, seqs, D, n

-----------------------------------------------------------------------------
(* A sequence with k elements from place m on replaced by those of s.       *)
Patched(q, m, k, s) == SubSeq(q, 1, m) \o s \o SubSeq(q, k + 1, Len(q))

IsPatched(r, S, q, m, k, s) ==
  /\ r \in Seq(S) /\ Len(r) = Len(q)
  /\ \A i \in 1 .. k - m : r[m + i] = s[i]
  /\ \A j \in 1 .. Len(q) : j <= m \/ j > k => r[j] = q[j]

LEMMA PatchedIs ==
  ASSUME NEW S, NEW q \in Seq(S), NEW m \in Nat, NEW k \in Nat, m <= k, k <= Len(q),
         NEW s \in Seq(S), Len(s) = k - m
  PROVE  IsPatched(Patched(q, m, k, s), S, q, m, k, s)
<1>. DEFINE a == SubSeq(q, 1, m)
            b == SubSeq(q, k + 1, Len(q))
            d == a \o s
            r == d \o b
            L == Len(q)
<1>1. L \in Nat /\ k <= L /\ \A i \in 1 .. L : q[i] \in S
  OBVIOUS
<1>2. a \in Seq(S) /\ Len(a) = m /\ \A i \in 1 .. m : a[i] = q[i]
  <2>1. \A i \in 1 .. m : q[i] \in S
    BY <1>1
  <2>2. QED
    BY <2>1, PrefixIs
<1>3. b \in Seq(S) /\ Len(b) = L - k /\ \A i \in 1 .. L - k : b[i] = q[k + i]
  <2>1. k \in Int /\ L \in Int /\ 0 <= k /\ k <= L /\ \A i \in k + 1 .. L : q[i] \in S
    BY <1>1
  <2>2. QED
    BY <2>1, PartIs
<1>4. s \in Seq(S) /\ Len(s) = k - m /\ k - m \in Nat
  OBVIOUS
<1>. HIDE DEF a, b, L
<1>5. /\ d \in Seq(S) /\ Len(d) = k
      /\ \A i \in 1 .. k : d[i] = IF i <= m THEN a[i] ELSE s[i - m]
  <2>1. /\ d \in Seq(S) /\ Len(d) = Len(a) + Len(s)
        /\ \A i \in 1 .. Len(a) + Len(s) : d[i] = IF i <= Len(a) THEN a[i] ELSE s[i - Len(a)]
    BY <1>2, <1>4, ConcatProperties
  <2>2. Len(a) + Len(s) = k /\ Len(a) = m
    BY <1>2, <1>4
  <2>3. QED
    BY <2>1, <2>2
<1>. HIDE DEF d
<1>6. /\ r \in Seq(S) /\ Len(r) = L
      /\ \A i \in 1 .. L : r[i] = IF i <= k THEN d[i] ELSE b[i - k]
  <2>1. /\ r \in Seq(S) /\ Len(r) = Len(d) + Len(b)
        /\ \A i \in 1 .. Len(d) + Len(b) : r[i] = IF i <= Len(d) THEN d[i] ELSE b[i - Len(d)]
    BY <1>3, <1>5, ConcatProperties
  <2>2. Len(d) + Len(b) = L /\ Len(d) = k
    BY <1>1, <1>3, <1>5
  <2>3. QED
    BY <2>1, <2>2
<1>7. Patched(q, m, k, s) = r
  BY DEF Patched, r, d, a, b
<1>. HIDE DEF r
<1>8. ASSUME NEW i \in 1 .. k - m PROVE r[m + i] = s[i]
  <2>. DEFINE j == m + i
  <2>1. j \in 1 .. L /\ j \in 1 .. k /\ ~(j <= m) /\ j <= k /\ j - m = i
    BY <1>1, <1>8
  <2>. HIDE DEF j
  <2>2. r[j] = d[j] /\ d[j] = s[j - m]
    BY <1>5, <1>6, <2>1
  <2>3. QED
    BY <2>1, <2>2 DEF j
<1>9. ASSUME NEW j \in 1 .. L, j <= m \/ j > k PROVE r[j] = q[j]
  <2>1. CASE j <= m
    <3>1. j <= k /\ j \in 1 .. k /\ j \in 1 .. m
      BY <1>9, <2>1
    <3>2. QED
      BY <1>2, <1>5, <1>6, <1>9, <2>1, <3>1
  <2>2. CASE j > k
    <3>. DEFINE i == j - k
    <3>1. i \in 1 .. L - k /\ k + i = j /\ ~(j <= k)
      BY <1>1, <1>9, <2>2
    <3>. HIDE DEF i
    <3>2. r[j] = b[j - k] /\ b[i] = q[k + i]
      BY <1>3, <1>6, <1>9, <3>1
    <3>3. QED
      BY <3>1, <3>2 DEF i
  <2>3. QED
    BY <1>9, <2>1, <2>2
<1>10. QED
  BY <1>6, <1>7, <1>8, <1>9 DEF IsPatched, L

-----------------------------------------------------------------------------
(* The slice of a row: its packed records, then what was there.             *)
IsSlice(s, c, n, q) ==
  /\ s \in Seq(SlotsOf(c)) /\ Len(s) = n
  /\ \A i \in 1 .. Len(q) : s[i] = q[i]

LEMMA LaidTyped ==
  ASSUME NEW c \in Reports!Check, NEW x, cap \in Nat \ {0}, NEW n, n = Reports!Groups(c) * cap,
         NEW old, \A j \in 1 .. n : old[j] \in SlotsOf(c)
  PROVE  \A j \in 1 .. n : Reports!Laid(c, x, old)[j] \in SlotsOf(c)
<1>. SUFFICES ASSUME NEW j \in 1 .. n PROVE Reports!Laid(c, x, old)[j] \in SlotsOf(c)
  OBVIOUS
<1>. DEFINE g == ((j - 1) \div cap) + 1
            i == ((j - 1) % cap) + 1
<1>1. g \in Int /\ i \in Int
  OBVIOUS
<1>2. Reports!Laid(c, x, old)[j]
        = IF i <= Reports!Kept(Reports!Exceeding(x, c, g), cap) THEN Reports!Rec(c, g, i) ELSE old[j]
  BY DEF Reports!Laid
<1>. HIDE DEF g, i
<1>3. Reports!Rec(c, g, i) \in SlotsOf(c)
  BY <1>1 DEF SlotsOf, RecordsOf
<1>4. QED
  BY <1>2, <1>3

LEMMA SliceIs ==
  ASSUME NEW c \in Reports!Check, NEW x, Observed(x), tol \in Tolerances, cap \in Nat \ {0},
         NEW n, n = Reports!Groups(c) * cap, NEW old \in Seq(SlotsOf(c)), Len(old) = n
  PROVE  IsSlice(Reports!Slice(c, x, old), c, n, PackedAt(plans, x, c, tol, cap))
<1>. DEFINE q == PackedAt(plans, x, c, tol, cap)
            l == Reports!Laid(c, x, old)
            b == SubSeq(l, Len(q) + 1, n)
            m == Len(q)
<1>1. n \in Nat
  <2>1. Reports!Groups(c) \in Nat
    BY GroupsFew
  <2>2. QED
    BY <2>1
<1>2. q \in Seq(RecordsOf(c)) /\ m \in Nat /\ m <= n
  BY PackedIs
<1>3. \A j \in 1 .. n : l[j] \in SlotsOf(c)
  <2>1. \A j \in 1 .. n : old[j] \in SlotsOf(c)
    BY <1>1
  <2>2. QED
    BY <2>1, LaidTyped
<1>4. q \in Seq(SlotsOf(c))
  BY <1>2 DEF SlotsOf
<1>5. Reports!Slice(c, x, old) = q \o b
  BY PresentIs DEF Reports!Slice
<1>. HIDE DEF q, l
<1>6. b \in Seq(SlotsOf(c)) /\ Len(b) = n - m
  <2>1. m \in Int /\ n \in Int /\ 0 <= m /\ m <= n /\ \A j \in m + 1 .. n : l[j] \in SlotsOf(c)
    BY <1>1, <1>2, <1>3
  <2>. HIDE DEF m
  <2>2. SubSeq(l, m + 1, n) \in Seq(SlotsOf(c)) /\ Len(SubSeq(l, m + 1, n)) = n - m
    BY <2>1, PartIs
  <2>3. QED
    BY <2>2 DEF m
<1>. HIDE DEF b
<1>7. /\ q \o b \in Seq(SlotsOf(c)) /\ Len(q \o b) = Len(q) + Len(b)
      /\ \A i \in 1 .. Len(q) + Len(b) : (q \o b)[i] = IF i <= Len(q) THEN q[i] ELSE b[i - Len(q)]
  BY <1>4, <1>6, ConcatProperties
<1>. DEFINE s == q \o b
<1>8. s \in Seq(SlotsOf(c)) /\ Len(s) = n /\ \A i \in 1 .. m : s[i] = q[i]
  <2>1. Len(q) + Len(b) = n
    BY <1>1, <1>2, <1>6
  <2>2. \A i \in 1 .. m : i \in 1 .. n /\ i <= Len(q)
    BY <1>1, <1>2
  <2>3. QED
    BY <1>7, <2>1, <2>2
<1>9. QED
  BY <1>5, <1>8 DEF IsSlice, q

-----------------------------------------------------------------------------
(* The arrays of a check c over n rows, at a capacity K.                    *)
StrideAt(c, K) == Reports!Groups(c) * K
OutTyped(out, c, n, K) ==
  /\ out \in [count : [1 .. n -> Int], truncated : [1 .. n -> BOOLEAN], slots : Seq(SlotsOf(c))]
  /\ Len(out.slots) = n * StrideAt(c, K)

(* What they say of row r when it is a row x; that no kernel ran on it.     *)
HasPacked(out, c, r, K, q) == \A i \in 1 .. Len(q) : out.slots[(r - 1) * StrideAt(c, K) + i] = q[i]
Overflows(p, x, c, t, K) == \E g \in 1 .. Reports!Groups(c) : ExceedingAt(p, x, c, g, t) > K
RowUnseen(out, r) == out.count[r] = -1 /\ out.truncated[r] = FALSE
RowIs(out, c, r, x, p, t, K) ==
  /\ x.how = "left_out" => RowUnseen(out, r)
  /\ x.how = "diverged" => out.count[r] = 0 /\ out.truncated[r] = FALSE
  /\ x.how = "converged" =>
       /\ out.count[r] = Len(PackedAt(p, x, c, t, K))
       /\ out.truncated[r] = Overflows(p, x, c, t, K)
       /\ HasPacked(out, c, r, K, PackedAt(p, x, c, t, K))

(* A row that is left alone.                                                *)
SameRow(o, out, c, r, K) ==
  /\ o.count[r] = out.count[r] /\ o.truncated[r] = out.truncated[r]
  /\ \A i \in 1 .. StrideAt(c, K) :
       o.slots[(r - 1) * StrideAt(c, K) + i] = out.slots[(r - 1) * StrideAt(c, K) + i]

LEMMA StrideTyped ==
  ASSUME NEW c \in Reports!Check, NEW K \in Nat \ {0}
  PROVE  StrideAt(c, K) \in Nat
<1>1. Reports!Groups(c) \in Nat
  BY GroupsFew
<1>2. QED
  BY <1>1 DEF StrideAt

LEMMA SameRowIs ==
  ASSUME NEW o, NEW out, NEW c \in Reports!Check, NEW r, NEW K \in Nat \ {0},
         SameRow(o, out, c, r, K), NEW x, Observed(x), NEW p, NEW t \in Tolerances,
         RowIs(out, c, r, x, p, t, K)
  PROVE  RowIs(o, c, r, x, p, t, K)
<1>. DEFINE q == PackedAt(p, x, c, t, K)
<1>1. Len(q) \in Nat /\ Len(q) <= StrideAt(c, K)
  BY PackedIs DEF StrideAt
<1>2. StrideAt(c, K) \in Nat
  BY StrideTyped
<1>. HIDE DEF q
<1>3. HasPacked(out, c, r, K, q) => HasPacked(o, c, r, K, q)
  BY <1>1, <1>2 DEF HasPacked, SameRow
<1>4. QED
  BY <1>3 DEF RowIs, RowUnseen, SameRow, q

(* Rows do not share slots.                                                 *)
LEMMA RowsApart ==
  ASSUME NEW n \in Nat, NEW S \in Nat, NEW r \in 1 .. n, NEW q \in 1 .. n, q # r,
         NEW i \in 1 .. S
  PROVE  LET j == (q - 1) * S + i
         IN j \in 1 .. n * S /\ (j <= (r - 1) * S \/ j > r * S)
<1>. DEFINE a == (q - 1) * S
            b == (r - 1) * S
            d == r * S
            e == n * S
<1>1. /\ q \in Nat \ {0} /\ r \in Nat \ {0} /\ n + 1 \in Nat \ {0} /\ (n + 1) - 1 = n
      /\ q \in 1 .. (n + 1) - 1
      /\ q < r => q \in 1 .. r - 1
      /\ r < q => r \in 1 .. q - 1
      /\ q < r \/ r < q
  OBVIOUS
<1>2. a \in Nat /\ b \in Nat /\ b + S = d
  BY <1>1, Strides
<1>3. a + S <= e
  BY <1>1, Strides
<1>4. q < r => a + S <= b
  BY <1>1, Strides
<1>5. r < q => b + S <= a
  BY <1>1, Strides
<1>6. e \in Nat
  <2>1. \A u, v \in Nat : u * v \in Nat
    OBVIOUS
  <2>2. QED
    BY <2>1
<1>. HIDE DEF a, b, d, e
<1>7. a + i \in 1 .. e /\ (a + i <= b \/ a + i > d)
  <2>1. i \in Nat /\ 1 <= i /\ i <= S
    OBVIOUS
  <2>2. d \in Nat
    BY <1>2
  <2>3. CASE q < r
    BY <1>2, <1>3, <1>4, <1>6, <2>1, <2>2, <2>3
  <2>4. CASE r < q
    BY <1>2, <1>3, <1>5, <1>6, <2>1, <2>2, <2>4
  <2>5. QED
    BY <1>1, <2>3, <2>4
<1>8. QED
  BY <1>7 DEF a, b, d, e

-----------------------------------------------------------------------------
(* One kernel on one row: the row is told, the other rows are untouched.    *)
ChecksRow(o, out, c, n, r, x) ==
  /\ OutTyped(o, c, n, cap)
  /\ RowIs(o, c, r, x, plans, tol, cap)
  /\ \A q \in 1 .. n : q # r => SameRow(o, out, c, q, cap)

ConvergedRow(out, c, r, x) ==
  [count     |-> [out.count EXCEPT ![r] = Len(Reports!Packed(c, x))],
   truncated |-> [out.truncated EXCEPT
                    ![r] = \E g \in 1 .. Reports!Groups(c) : Reports!Exceeding(x, c, g) > cap],
   slots     |-> Patched(out.slots, (r - 1) * Reports!Stride(c), r * Reports!Stride(c),
                   Reports!Slice(c, x, SubSeq(out.slots, (r - 1) * Reports!Stride(c) + 1,
                                              r * Reports!Stride(c))))]

DivergedRow(out, r) == [out EXCEPT !.count[r] = 0, !.truncated[r] = FALSE]

LEMMA CheckedIs ==
  \A out, c, r, x :
    /\ x.how = "left_out" => Reports!Checked(out, c, r, x) = out
    /\ x.how = "diverged" => Reports!Checked(out, c, r, x) = DivergedRow(out, r)
    /\ x.how = "converged" => Reports!Checked(out, c, r, x) = ConvergedRow(out, c, r, x)
<1>. SUFFICES ASSUME NEW out, NEW c, NEW r, NEW x
     PROVE  /\ x.how = "left_out" => Reports!Checked(out, c, r, x) = out
            /\ x.how = "diverged" => Reports!Checked(out, c, r, x) = DivergedRow(out, r)
            /\ x.how = "converged" => Reports!Checked(out, c, r, x) = ConvergedRow(out, c, r, x)
  OBVIOUS
<1>1. x.how = "left_out" => Reports!Checked(out, c, r, x) = out
  BY DEF Reports!Checked
<1>2. x.how = "diverged" => Reports!Checked(out, c, r, x) = DivergedRow(out, r)
  BY DEF Reports!Checked, DivergedRow
<1>3. x.how = "converged" => Reports!Checked(out, c, r, x) = ConvergedRow(out, c, r, x)
  BY DEF Reports!Checked, ConvergedRow, Patched
<1>4. QED
  BY <1>1, <1>2, <1>3

Settled == tol \in Tolerances /\ cap \in Nat \ {0}

(* The slots after a kernel that packed q into row r.                       *)
SlotsPacked(o, out, c, n, r, q) ==
  /\ o.slots \in Seq(SlotsOf(c)) /\ Len(o.slots) = n * StrideAt(c, cap)
  /\ HasPacked(o, c, r, cap, q)
  /\ \A l \in 1 .. n : l # r => \A i \in 1 .. StrideAt(c, cap) :
       o.slots[(l - 1) * StrideAt(c, cap) + i] = out.slots[(l - 1) * StrideAt(c, cap) + i]

LEMMA ConvergedSlots ==
  ASSUME NEW out, NEW c \in Reports!Check, NEW n \in Nat, NEW r \in 1 .. n, NEW x, Observed(x),
         Settled, OutTyped(out, c, n, cap)
  PROVE  SlotsPacked(ConvergedRow(out, c, r, x), out, c, n, r, PackedAt(plans, x, c, tol, cap))
<1>. DEFINE S == StrideAt(c, cap)
            m == (r - 1) * S
            k == r * S
            old == SubSeq(out.slots, m + 1, k)
            s == Reports!Slice(c, x, old)
            p == PackedAt(plans, x, c, tol, cap)
            new == Patched(out.slots, m, k, s)
            L == n * S
<1>1. ConvergedRow(out, c, r, x).slots = new
  BY DEF ConvergedRow, Reports!Stride, StrideAt
<1>2. S \in Nat /\ S = Reports!Groups(c) * cap
  BY StrideTyped DEF Settled, StrideAt
<1>. HIDE DEF S
<1>3. m \in Nat /\ m + S = k /\ k \in Nat
  <2>1. r \in Nat \ {0} /\ S \in Nat
    BY <1>2
  <2>2. (r - 1) * S \in Nat /\ (r - 1) * S + S = r * S
    BY <2>1, Strides
  <2>3. QED
    BY <1>2, <2>2
<1>4. k <= L /\ L \in Nat
  <2>1. n + 1 \in Nat \ {0} /\ r \in 1 .. (n + 1) - 1 /\ (n + 1) - 1 = n
    OBVIOUS
  <2>2. ((n + 1) - 1) * S \in Nat /\ (r - 1) * S + S <= ((n + 1) - 1) * S
    BY <1>2, <2>1, Strides
  <2>3. QED
    BY <1>3, <2>1, <2>2
<1>5. out.slots \in Seq(SlotsOf(c)) /\ Len(out.slots) = L
  BY DEF OutTyped, S
<1>. HIDE DEF m, k, L
<1>6. old \in Seq(SlotsOf(c)) /\ Len(old) = S
  <2>1. m \in Int /\ k \in Int /\ 0 <= m /\ m <= k
        /\ \A i \in m + 1 .. k : out.slots[i] \in SlotsOf(c)
    BY <1>2, <1>3, <1>4, <1>5
  <2>2. SubSeq(out.slots, m + 1, k) \in Seq(SlotsOf(c)) /\ Len(SubSeq(out.slots, m + 1, k)) = k - m
    BY <2>1, PartIs
  <2>3. k - m = S
    BY <1>2, <1>3
  <2>4. QED
    BY <2>2, <2>3
<1>. HIDE DEF old
<1>7. IsSlice(s, c, S, p)
  BY <1>2, <1>6, SliceIs DEF Settled
<1>8. Len(p) \in Nat /\ Len(p) <= S
  BY <1>2, PackedIs DEF Settled
<1>. HIDE DEF s, p
<1>9. IsPatched(new, SlotsOf(c), out.slots, m, k, s)
  <2>1. m <= k /\ k <= Len(out.slots) /\ s \in Seq(SlotsOf(c)) /\ Len(s) = k - m
    BY <1>2, <1>3, <1>4, <1>5, <1>7 DEF IsSlice
  <2>2. QED
    BY <1>3, <1>5, <2>1, PatchedIs
<1>. HIDE DEF new
<1>10. new \in Seq(SlotsOf(c)) /\ Len(new) = L
  BY <1>5, <1>9 DEF IsPatched
<1>11. ASSUME NEW i \in 1 .. Len(p) PROVE new[m + i] = p[i]
  <2>1. i \in 1 .. k - m
    BY <1>2, <1>3, <1>8
  <2>2. new[m + i] = s[i]
    BY <1>9, <2>1 DEF IsPatched
  <2>3. s[i] = p[i]
    BY <1>7 DEF IsSlice
  <2>4. QED
    BY <2>2, <2>3
<1>12. ASSUME NEW q \in 1 .. n, q # r, NEW i \in 1 .. S
       PROVE  new[(q - 1) * S + i] = out.slots[(q - 1) * S + i]
  <2>. DEFINE j == (q - 1) * S + i
  <2>1. j \in 1 .. L /\ (j <= m \/ j > k)
    BY <1>2, <1>12, RowsApart DEF m, k, L
  <2>. HIDE DEF j
  <2>2. new[j] = out.slots[j]
    BY <1>5, <1>9, <2>1 DEF IsPatched
  <2>3. QED
    BY <2>2 DEF j
<1>13. HasPacked(ConvergedRow(out, c, r, x), c, r, cap, p)
  BY <1>1, <1>11 DEF HasPacked, m, S
<1>14. QED
  BY <1>1, <1>10, <1>12, <1>13 DEF SlotsPacked, p, L, S

LEMMA ConvergedChecks ==
  ASSUME NEW out, NEW c \in Reports!Check, NEW n \in Nat, NEW r \in 1 .. n, NEW x, Observed(x),
         Settled, OutTyped(out, c, n, cap), x.how = "converged"
  PROVE  ChecksRow(ConvergedRow(out, c, r, x), out, c, n, r, x)
<1>. DEFINE o == ConvergedRow(out, c, r, x)
            p == PackedAt(plans, x, c, tol, cap)
            over == Overflows(plans, x, c, tol, cap)
<1>1. SlotsPacked(o, out, c, n, r, p)
  BY ConvergedSlots
<1>2. /\ o = [count |-> o.count, truncated |-> o.truncated, slots |-> o.slots]
      /\ o.count = [out.count EXCEPT ![r] = Len(p)]
      /\ o.truncated = [out.truncated EXCEPT ![r] = over]
  BY PresentIs DEF ConvergedRow, Overflows
<1>3. Len(p) \in Nat /\ over \in BOOLEAN
  BY PackedIs DEF Settled, Overflows
<1>4. out.count \in [1 .. n -> Int] /\ out.truncated \in [1 .. n -> BOOLEAN]
  BY DEF OutTyped
<1>. HIDE DEF o, p, over
<1>5. /\ o.count \in [1 .. n -> Int] /\ o.count[r] = Len(p)
      /\ \A q \in 1 .. n : q # r => o.count[q] = out.count[q]
  BY <1>2, <1>3, <1>4
<1>6. /\ o.truncated \in [1 .. n -> BOOLEAN] /\ o.truncated[r] = over
      /\ \A q \in 1 .. n : q # r => o.truncated[q] = out.truncated[q]
  BY <1>2, <1>3, <1>4, Zenon
<1>7. OutTyped(o, c, n, cap)
  BY <1>1, <1>2, <1>5, <1>6 DEF OutTyped, SlotsPacked
<1>8. RowIs(o, c, r, x, plans, tol, cap)
  BY <1>1, <1>5, <1>6 DEF RowIs, SlotsPacked, p, over
<1>9. \A q \in 1 .. n : q # r => SameRow(o, out, c, q, cap)
  BY <1>1, <1>5, <1>6 DEF SameRow, SlotsPacked
<1>10. QED
  BY <1>7, <1>8, <1>9 DEF ChecksRow, o

Zeroed(a, r) == [a EXCEPT ![r] = 0]
Cleared(b, r) == [b EXCEPT ![r] = FALSE]

LEMMA DivergedIs ==
  ASSUME NEW out, NEW r, NEW a, NEW b, NEW s, out = [count |-> a, truncated |-> b, slots |-> s]
  PROVE  DivergedRow(out, r) = [count |-> Zeroed(a, r), truncated |-> Cleared(b, r), slots |-> s]
<1>. DEFINE d == [out EXCEPT !.count = [a EXCEPT ![r] = 0]]
            v == [b EXCEPT ![r] = FALSE]
            u == [a EXCEPT ![r] = 0]
<1>1. DivergedRow(out, r) = [d EXCEPT !.truncated[r] = FALSE]
  BY DEF DivergedRow
<1>2. d = [count |-> u, truncated |-> b, slots |-> s]
  <2>. HIDE DEF u
  <2>1. [out EXCEPT !.count = u] = [count |-> u, truncated |-> b, slots |-> s]
    OBVIOUS
  <2>2. QED
    BY <2>1 DEF u
<1>3. [d EXCEPT !.truncated[r] = FALSE] = [d EXCEPT !.truncated = v]
  <2>1. d.truncated = b
    BY <1>2
  <2>2. QED
    BY <2>1
<1>. HIDE DEF d, u, v
<1>4. [d EXCEPT !.truncated = v] = [count |-> u, truncated |-> v, slots |-> s]
  BY <1>2
<1>5. QED
  BY <1>1, <1>3, <1>4 DEF u, v, Zeroed, Cleared

LEMMA DivergedChecks ==
  ASSUME NEW out, NEW c \in Reports!Check, NEW n \in Nat, NEW r \in 1 .. n, NEW x,
         OutTyped(out, c, n, cap), x.how = "diverged"
  PROVE  ChecksRow(DivergedRow(out, r), out, c, n, r, x)
<1>. DEFINE o == DivergedRow(out, r)
<1>1. /\ out = [count |-> out.count, truncated |-> out.truncated, slots |-> out.slots]
      /\ out.count \in [1 .. n -> Int] /\ out.truncated \in [1 .. n -> BOOLEAN]
      /\ out.slots \in Seq(SlotsOf(c)) /\ Len(out.slots) = n * StrideAt(c, cap)
  BY DEF OutTyped
<1>2. o = [count |-> Zeroed(out.count, r), truncated |-> Cleared(out.truncated, r),
           slots |-> out.slots]
  BY <1>1, DivergedIs
<1>. HIDE DEF o
<1>3. /\ o = [count |-> o.count, truncated |-> o.truncated, slots |-> o.slots]
      /\ o.count = [out.count EXCEPT ![r] = 0]
      /\ o.truncated = [out.truncated EXCEPT ![r] = FALSE] /\ o.slots = out.slots
  <2>1. /\ o = [count |-> o.count, truncated |-> o.truncated, slots |-> o.slots]
        /\ o.count = Zeroed(out.count, r)
        /\ o.truncated = Cleared(out.truncated, r) /\ o.slots = out.slots
    BY <1>2
  <2>2. QED
    BY <2>1, Zenon DEF Zeroed, Cleared
<1>4. /\ o.count \in [1 .. n -> Int] /\ o.count[r] = 0
      /\ \A q \in 1 .. n : q # r => o.count[q] = out.count[q]
  BY <1>1, <1>3
<1>5. /\ o.truncated \in [1 .. n -> BOOLEAN] /\ o.truncated[r] = FALSE
      /\ \A q \in 1 .. n : q # r => o.truncated[q] = out.truncated[q]
  BY <1>1, <1>3, Zenon
<1>6. OutTyped(o, c, n, cap)
  BY <1>1, <1>3, <1>4, <1>5 DEF OutTyped
<1>7. RowIs(o, c, r, x, plans, tol, cap)
  BY <1>4, <1>5 DEF RowIs
<1>8. \A q \in 1 .. n : q # r => SameRow(o, out, c, q, cap)
  BY <1>3, <1>4, <1>5 DEF SameRow
<1>9. ChecksRow(o, out, c, n, r, x)
  BY <1>6, <1>7, <1>8 DEF ChecksRow
<1>10. QED
  BY <1>9 DEF o

(* A row that the source left out stays as it was seeded.                   *)
LEMMA RowChecks ==
  ASSUME NEW out, NEW c \in Reports!Check, NEW n \in Nat, NEW r \in 1 .. n, NEW x, Observed(x),
         Settled, OutTyped(out, c, n, cap), x.how = "left_out" => RowUnseen(out, r)
  PROVE  ChecksRow(Reports!Checked(out, c, r, x), out, c, n, r, x)
<1>1. x.how \in {"left_out", "diverged", "converged"}
  BY DEF Observed
<1>2. /\ x.how = "left_out" => Reports!Checked(out, c, r, x) = out
      /\ x.how = "diverged" => Reports!Checked(out, c, r, x) = DivergedRow(out, r)
      /\ x.how = "converged" => Reports!Checked(out, c, r, x) = ConvergedRow(out, c, r, x)
  BY <1>1, CheckedIs
<1>3. CASE x.how = "left_out"
  <2>1. ChecksRow(out, out, c, n, r, x)
    BY <1>3 DEF ChecksRow, RowIs, SameRow
  <2>2. QED
    BY <1>2, <1>3, <2>1
<1>4. CASE x.how = "diverged"
  <2>1. ChecksRow(DivergedRow(out, r), out, c, n, r, x)
    BY <1>4, DivergedChecks
  <2>2. QED
    BY <1>2, <1>4, <2>1
<1>5. CASE x.how = "converged"
  <2>1. ChecksRow(ConvergedRow(out, c, r, x), out, c, n, r, x)
    BY <1>5, ConvergedChecks
  <2>2. QED
    BY <1>2, <1>5, <2>1
<1>6. QED
  BY <1>1, <1>3, <1>4, <1>5

-----------------------------------------------------------------------------
(* The kernels of a check over the rows: those they ran on are told, the    *)
(* others are as they were seeded.                                          *)
LEMMA RowsObserved == \A rows \in Batches : \A r \in Reports!Rows : Observed(rows[r])
<1>. SUFFICES ASSUME NEW rows \in Batches, NEW r \in Reports!Rows PROVE Observed(rows[r])
  OBVIOUS
<1>1. rows[r] \in UNION {Reports!Range(b) : b \in Batches}
  BY RowsAssumption DEF Reports!ReportsAssumption, Reports!Range
<1>. DEFINE x == rows[r]
<1>. HIDE DEF x
<1>2. x \in BaseCases \cup UNION {Reports!Range(b) : b \in Batches}
  BY <1>1 DEF x
<1>3. Observed(x)
  BY <1>2, RowsAssumption DEF Reports!ReportsAssumption, Reports!Outcomes, Observed
<1>4. QED
  BY <1>3 DEF x

LEMMA BaseObserved == \A x \in BaseCases : Observed(x) /\ x.how # "left_out"
BY RowsAssumption DEF Reports!ReportsAssumption, Reports!Outcomes, Observed

FoldTells(o, c, rows, n, T) ==
  /\ OutTyped(o, c, NumRows, cap)
  /\ \A r \in Reports!Rows :
       IF r \in T /\ Behind(c, r, n) THEN RowIs(o, c, r, rows[r], plans, tol, cap) ELSE RowUnseen(o, r)

LEMMA FoldTold ==
  ASSUME NEW c \in Reports!Check, NEW rows \in Batches, NEW n, Settled, NEW out,
         OutTyped(out, c, NumRows, cap), \A r \in Reports!Rows : RowUnseen(out, r)
  PROVE  FoldTells(RowsFold(out, c, rows, n), c, rows, n, Reports!Rows)
<1>. DEFINE R == Reports!Rows
<1>0. PICK it : RowsFold(out, c, rows, n) = it[R] /\ StepsOf(it, out, c, rows, n)
  BY FoldSteps
<1>1. /\ RowsFold(out, c, rows, n) = it[R]
      /\ \A T \in SUBSET R :
           it[T] = IF T = {} THEN out ELSE RowStep(it[T \ {Latest(T)}], c, Latest(T), rows, n)
  BY <1>0 DEF StepsOf
<1>. DEFINE Good == {T \in SUBSET R : FoldTells(it[T], c, rows, n, T)}
<1>2. IsFiniteSet(R)
  BY RowsAre, FS_Interval
<1>3. ASSUME NEW T \in SUBSET R, \A x \in T : T \ {x} \in Good
      PROVE  T \in Good
  <2>1. CASE T = {}
    <3>1. it[T] = out
      BY <1>1, <2>1
    <3>2. FoldTells(out, c, rows, n, T)
      BY <2>1 DEF FoldTells
    <3>3. QED
      BY <3>1, <3>2
  <2>2. CASE T # {}
    <3>. DEFINE m == Latest(T)
                prev == it[T \ {m}]
                o == it[T]
    <3>1. m \in T
      BY <2>2, RowsAre, LatestOf
    <3>2. FoldTells(prev, c, rows, n, T \ {m})
      BY <1>3, <3>1
    <3>3. o = RowStep(prev, c, m, rows, n)
      BY <1>1, <2>2
    <3>. HIDE DEF m, prev, o
    <3>4. m \in R /\ m \in 1 .. NumRows /\ NumRows \in Nat
      BY <3>1, RowsAre
    <3>5. FoldTells(o, c, rows, n, T)
      <4>1. CASE ~Behind(c, m, n)
        <5>1. o = prev
          BY <3>3, <4>1 DEF RowStep
        <5>2. QED
          BY <3>2, <4>1, <5>1 DEF FoldTells
      <4>2. CASE Behind(c, m, n)
        <5>1. o = Reports!Checked(prev, c, m, rows[m])
          BY <3>3, <4>2 DEF RowStep
        <5>2. OutTyped(prev, c, NumRows, cap) /\ RowUnseen(prev, m)
          BY <3>2, <3>4 DEF FoldTells
        <5>3. Observed(rows[m])
          BY <3>4, RowsObserved
        <5>4. ChecksRow(o, prev, c, NumRows, m, rows[m])
          BY <3>4, <5>1, <5>2, <5>3, RowChecks
        <5>5. ASSUME NEW r \in R
              PROVE  IF r \in T /\ Behind(c, r, n) THEN RowIs(o, c, r, rows[r], plans, tol, cap)
                     ELSE RowUnseen(o, r)
          <6>1. CASE r = m
            BY <3>1, <4>2, <5>4, <6>1 DEF ChecksRow
          <6>2. CASE r # m
            <7>1. SameRow(o, prev, c, r, cap)
              BY <5>4, <5>5, <6>2, RowsAre DEF ChecksRow
            <7>2. CASE r \in T /\ Behind(c, r, n)
              <8>1. RowIs(prev, c, r, rows[r], plans, tol, cap)
                BY <3>2, <5>5, <6>2, <7>2 DEF FoldTells
              <8>2. Observed(rows[r])
                BY <5>5, RowsObserved
              <8>3. RowIs(o, c, r, rows[r], plans, tol, cap)
                BY <7>1, <8>1, <8>2, SameRowIs DEF Settled
              <8>4. QED
                BY <7>2, <8>3
            <7>3. CASE ~(r \in T /\ Behind(c, r, n))
              <8>1. RowUnseen(prev, r)
                BY <3>2, <5>5, <7>3 DEF FoldTells
              <8>2. QED
                BY <7>1, <7>3, <8>1 DEF RowUnseen, SameRow
            <7>4. QED
              BY <7>2, <7>3
          <6>3. QED
            BY <6>1, <6>2
        <5>6. QED
          BY <5>4, <5>5 DEF FoldTells, ChecksRow
      <4>3. QED
        BY <4>1, <4>2
    <3>6. QED
      BY <3>5 DEF o
  <2>3. QED
    BY <2>1, <2>2
<1>4. R \in Good
  <2>. HIDE DEF Good, R
  <2>1. SUBSET R \subseteq Good
    BY <1>2, <1>3, SubsetInduction
  <2>2. QED
    BY <2>1
<1>5. QED
  BY <1>1, <1>4

(* A run that does not raise has every kernel behind it.                    *)
LEMMA AllBehind == \A c \in Reports!Check : \A r \in Reports!Rows : Behind(c, r, Reports!AllKernels)
<1>. SUFFICES ASSUME NEW c \in Reports!Check, NEW r \in Reports!Rows
     PROVE Behind(c, r, Reports!AllKernels)
  OBVIOUS
<1>1. /\ Len(Reports!KernelOrder) = 4 /\ DOMAIN Reports!KernelOrder = 1 .. 4
      /\ Reports!KernelOrder[1] = "bus_q" /\ Reports!KernelOrder[2] = "hvdc_p"
      /\ Reports!KernelOrder[3] = "gen_p" /\ Reports!KernelOrder[4] = "release"
  BY DEF Reports!KernelOrder
<1>2. PICK k \in 1 .. 4 : Reports!KernelOrder[k] = c
  BY <1>1, ChecksAre
<1>3. (r - 1) * 4 + k <= NumRows * 4
  BY RowsAre
<1>4. QED
  BY <1>1, <1>2, <1>3 DEF Behind, Reports!AllKernels

-----------------------------------------------------------------------------
(* set_*_check(): the arrays before a run.                                  *)
IsSeeded(o, c, n, count) ==
  OutTyped(o, c, n, cap) /\ \A r \in 1 .. n : o.count[r] = count /\ o.truncated[r] = FALSE

LEMMA SeededIs ==
  ASSUME NEW c \in Reports!Check, NEW n \in Nat, NEW count \in Int, Settled
  PROVE  IsSeeded(Reports!Seeded(c, n, count), c, n, count)
<1>. DEFINE o == Reports!Seeded(c, n, count)
            L == n * StrideAt(c, cap)
<1>1. L \in Nat
  <2>1. \A a, b \in Nat : a * b \in Nat
    OBVIOUS
  <2>2. QED
    BY <2>1, StrideTyped DEF Settled
<1>2. o = [count |-> [r \in 1 .. n |-> count], truncated |-> [r \in 1 .. n |-> FALSE],
           slots |-> [j \in 1 .. L |-> Reports!Blank]]
  BY DEF Reports!Seeded, Reports!Stride, StrideAt
<1>3. Reports!Blank \in SlotsOf(c)
  BY DEF SlotsOf
<1>. HIDE DEF L, o
<1>4. o.slots \in Seq(SlotsOf(c)) /\ Len(o.slots) = L
  BY <1>1, <1>2, <1>3
<1>5. o.count \in [1 .. n -> Int] /\ \A r \in 1 .. n : o.count[r] = count
  BY <1>2
<1>6. o.truncated \in [1 .. n -> BOOLEAN] /\ \A r \in 1 .. n : o.truncated[r] = FALSE
  BY <1>2
<1>7. o = [count |-> o.count, truncated |-> o.truncated, slots |-> o.slots]
  BY <1>2
<1>8. OutTyped(o, c, n, cap)
  BY <1>4, <1>5, <1>6, <1>7 DEF OutTyped, L
<1>9. QED
  BY <1>5, <1>6, <1>8 DEF IsSeeded, o

LEMMA SeededUnseen ==
  ASSUME NEW c \in Reports!Check, Settled
  PROVE  /\ OutTyped(Reports!Seeded(c, NumRows, -1), c, NumRows, cap)
         /\ \A r \in Reports!Rows : RowUnseen(Reports!Seeded(c, NumRows, -1), r)
<1>1. -1 \in Int /\ NumRows \in Nat /\ Reports!Rows = 1 .. NumRows
  BY RowsAre
<1>2. IsSeeded(Reports!Seeded(c, NumRows, -1), c, NumRows, -1)
  BY <1>1, SeededIs
<1>3. QED
  BY <1>1, <1>2 DEF RowUnseen, IsSeeded

ReseededOut(out) ==
  [out EXCEPT !.count = [r \in Reports!Rows |-> -1], !.truncated = [r \in Reports!Rows |-> FALSE]]

LEMMA ReseededUnseen ==
  ASSUME NEW c \in Reports!Check, NEW out, OutTyped(out, c, NumRows, cap)
  PROVE  /\ OutTyped(ReseededOut(out), c, NumRows, cap)
         /\ \A r \in Reports!Rows : RowUnseen(ReseededOut(out), r)
<1>. DEFINE o == ReseededOut(out)
            u == [r \in Reports!Rows |-> -1]
            v == [r \in Reports!Rows |-> FALSE]
            d == [out EXCEPT !.count = u]
<1>1. o = [d EXCEPT !.truncated = v]
  BY DEF ReseededOut
<1>2. u \in [1 .. NumRows -> Int] /\ \A r \in Reports!Rows : u[r] = -1
  BY RowsAre
<1>3. v \in [1 .. NumRows -> BOOLEAN] /\ \A r \in Reports!Rows : v[r] = FALSE
  BY RowsAre
<1>4. /\ out = [count |-> out.count, truncated |-> out.truncated, slots |-> out.slots]
      /\ out.slots \in Seq(SlotsOf(c)) /\ Len(out.slots) = NumRows * StrideAt(c, cap)
  BY DEF OutTyped
<1>. HIDE DEF o, u, v
<1>5. d = [count |-> u, truncated |-> out.truncated, slots |-> out.slots]
  BY <1>4
<1>. HIDE DEF d
<1>6. o = [count |-> u, truncated |-> v, slots |-> out.slots]
  BY <1>1, <1>5
<1>7. OutTyped(o, c, NumRows, cap)
  BY <1>2, <1>3, <1>4, <1>6 DEF OutTyped
<1>8. \A r \in Reports!Rows : RowUnseen(o, r)
  BY <1>2, <1>3, <1>6 DEF RowUnseen
<1>9. QED
  BY <1>7, <1>8 DEF o

(* The base case's report, made with the tables.                            *)
BaseOf(c) ==
  IF baseCase.how = "diverged" THEN Reports!Seeded(c, 1, 0) ELSE Reports!BaseReport(c)

LEMMA BaseTold ==
  ASSUME NEW c \in Reports!Check, Settled, baseCase \in BaseCases
  PROVE  OutTyped(BaseOf(c), c, 1, cap) /\ RowIs(BaseOf(c), c, 1, baseCase, plans, tol, cap)
<1>. DEFINE s == Reports!Seeded(c, 1, 0)
<1>1. Observed(baseCase) /\ baseCase.how # "left_out"
  BY BaseObserved
<1>2. OutTyped(s, c, 1, cap) /\ s.count[1] = 0 /\ s.truncated[1] = FALSE
  <2>1. 1 \in Nat /\ 0 \in Int /\ 1 \in 1 .. 1
    OBVIOUS
  <2>2. IsSeeded(Reports!Seeded(c, 1, 0), c, 1, 0)
    BY <2>1, SeededIs
  <2>3. QED
    BY <2>1, <2>2 DEF IsSeeded
<1>. HIDE DEF s
<1>3. CASE baseCase.how = "diverged"
  <2>1. BaseOf(c) = s
    BY <1>3 DEF BaseOf, s
  <2>2. QED
    BY <1>2, <1>3, <2>1 DEF RowIs
<1>4. CASE baseCase.how # "diverged"
  <2>1. BaseOf(c) = Reports!Checked(s, c, 1, baseCase)
    BY <1>4 DEF BaseOf, Reports!BaseReport, s
  <2>2. 1 \in Nat /\ 1 \in 1 .. 1
    OBVIOUS
  <2>3. ChecksRow(Reports!Checked(s, c, 1, baseCase), s, c, 1, 1, baseCase)
    BY <1>1, <1>2, <2>2, RowChecks
  <2>4. QED
    BY <2>1, <2>3 DEF ChecksRow
<1>5. QED
  BY <1>3, <1>4

-----------------------------------------------------------------------------
(* What a caller reads of a row: the packed records of a row that           *)
(* converged, nothing of one that did not or that no kernel ran on.         *)
ReadAt(out, c, r) ==
  [i \in 1 .. (IF out.count[r] < 0 THEN 0 ELSE out.count[r]) |->
     out.slots[(r - 1) * StrideAt(c, cap) + i]]

LEMMA ReadIs ==
  ASSUME NEW c, NEW n, NEW out, OutTyped(out, c, n, cap)
  PROVE  /\ DOMAIN Reports!RowsFromFlat(out, c) = 1 .. n
         /\ \A r \in 1 .. n : Reports!RowsFromFlat(out, c)[r] = ReadAt(out, c, r)
<1>1. DOMAIN out.count = 1 .. n
  BY DEF OutTyped
<1>2. QED
  BY <1>1 DEF Reports!RowsFromFlat, ReadAt, Reports!Stride, StrideAt

Empty == [i \in 1 .. 0 |-> 0]

LEMMA EmptyIs ==
  /\ Empty = <<>> /\ \A D : D = {} => Orderly(Empty, D)
  /\ \A f : [i \in 1 .. 0 |-> f[i]] = Empty
<1>1. Empty = <<>>
  BY DEF Empty
<1>2. ASSUME NEW D, D = {} PROVE Orderly(Empty, D)
  BY <1>1, <1>2 DEF Orderly
<1>3. ASSUME NEW f PROVE [i \in 1 .. 0 |-> f[i]] = Empty
  BY DEF Empty
<1>4. QED
  BY <1>1, <1>2, <1>3

LEMMA UnseenReads ==
  ASSUME NEW out, NEW c, NEW r, out.count[r] = -1 \/ out.count[r] = 0
  PROVE  ReadAt(out, c, r) = <<>>
<1>. DEFINE n == IF out.count[r] < 0 THEN 0 ELSE out.count[r]
<1>1. n = 0
  OBVIOUS
<1>2. ReadAt(out, c, r) = [i \in 1 .. n |-> out.slots[(r - 1) * StrideAt(c, cap) + i]]
  BY DEF ReadAt
<1>. HIDE DEF n
<1>3. QED
  BY <1>1, <1>2

LEMMA NothingDue ==
  ASSUME NEW p, NEW x, NEW c, NEW t, NEW K, x.how # "converged"
  PROVE  AllDue(p, x, c, t, K) = {}
<1>1. \A g : DueAt(p, x, c, t, K, g) = {}
  BY DEF DueAt
<1>2. \A g \in 1 .. Reports!Groups(c) : DuesAt(p, x, c, t, K)[g] = {}
  BY <1>1 DEF DuesAt
<1>3. QED
  BY <1>2 DEF AllDue, UpTo

LEMMA ToldReads ==
  ASSUME NEW c \in Reports!Check, NEW n, NEW out, NEW r, NEW x, Observed(x),
         Settled, RowIs(out, c, r, x, plans, tol, cap)
  PROVE  Orderly(ReadAt(out, c, r), AllDue(plans, x, c, tol, cap))
<1>1. CASE x.how = "converged"
  <2>. DEFINE q == PackedAt(plans, x, c, tol, cap)
  <2>1. Orderly(q, AllDue(plans, x, c, tol, cap)) /\ q \in Seq(RecordsOf(c)) /\ Len(q) \in Nat
    BY <1>1, PackedIs DEF Settled
  <2>2. out.count[r] = Len(q) /\ HasPacked(out, c, r, cap, q)
    BY <1>1 DEF RowIs
  <2>. HIDE DEF q
  <2>3. ReadAt(out, c, r) = q
    <3>. DEFINE m == IF out.count[r] < 0 THEN 0 ELSE out.count[r]
    <3>1. m = Len(q)
      BY <2>1, <2>2
    <3>2. ReadAt(out, c, r) = [i \in 1 .. m |-> out.slots[(r - 1) * StrideAt(c, cap) + i]]
      BY DEF ReadAt
    <3>. HIDE DEF m
    <3>3. \A i \in 1 .. m : out.slots[(r - 1) * StrideAt(c, cap) + i] = q[i]
      BY <2>2, <3>1 DEF HasPacked
    <3>4. q = [i \in 1 .. m |-> q[i]]
      BY <2>1, <3>1
    <3>5. QED
      BY <3>2, <3>3, <3>4
  <2>4. QED
    BY <2>1, <2>3
<1>2. CASE x.how # "converged"
  <2>1. out.count[r] = -1 \/ out.count[r] = 0
    BY <1>2 DEF RowIs, RowUnseen, Observed
  <2>2. ReadAt(out, c, r) = <<>>
    BY <2>1, UnseenReads
  <2>3. AllDue(plans, x, c, tol, cap) = {}
    BY <1>2, NothingDue
  <2>4. QED
    BY <2>2, <2>3, EmptyIs
<1>3. QED
  BY <1>1, <1>2

-----------------------------------------------------------------------------
(* A sequence that lists what is due in order shows it.                     *)
DueOf(x, cs) == UNION {AllDue(plans, x, c, tol, cap) : c \in cs}

LEMMA DueIs ==
  ASSUME NEW x, NEW cs \in SUBSET Reports!Check
  PROVE  DueOf(x, cs) = UNION {UNION {Reports!Due(x, c, g) : g \in 1 .. Reports!Groups(c)} : c \in cs}
<1>1. ASSUME NEW c
      PROVE  AllDue(plans, x, c, tol, cap) = UNION {Reports!Due(x, c, g) : g \in 1 .. Reports!Groups(c)}
  <2>1. \A g \in 1 .. Reports!Groups(c) : DuesAt(plans, x, c, tol, cap)[g] = Reports!Due(x, c, g)
    BY PresentIs DEF DuesAt
  <2>2. QED
    BY <2>1 DEF AllDue, UpTo
<1>2. QED
  BY <1>1 DEF DueOf

LEMMA OrderlyShows ==
  ASSUME NEW q, NEW x, NEW cs \in SUBSET Reports!Check, Orderly(q, DueOf(x, cs))
  PROVE  Reports!Shows(q, x, cs)
<1>. DEFINE D == DueOf(x, cs)
<1>1. D = UNION {UNION {Reports!Due(x, c, g) : g \in 1 .. Reports!Groups(c)} : c \in cs}
  BY DueIs
<1>2. \A y \in D : Reports!Category(y.type) = "physical"
  <2>. SUFFICES ASSUME NEW c \in cs, NEW g \in 1 .. Reports!Groups(c), NEW y \in Reports!Due(x, c, g)
       PROVE  Reports!Category(y.type) = "physical"
    BY <1>1
  <2>1. y.type = Reports!TypesOf[c][g]
    BY DEF Reports!Due, Reports!Rec
  <2>2. QED
    BY <2>1, TypesPhysical
<1>. HIDE DEF D
<1>3. Orderly(q, D)
  BY DEF D
<1>4. DOMAIN q = 1 .. Len(q) /\ \A i \in 1 .. Len(q) : q[i] \in D
  BY <1>3 DEF Orderly
<1>5. Reports!Range(q) = D
  BY <1>3, <1>4 DEF Orderly, Reports!Range
<1>6. /\ \A i \in DOMAIN q : Reports!Category(q[i].type) = "physical"
      /\ \A i, j \in DOMAIN q : i < j => Reports!Before(q[i], q[j])
  BY <1>2, <1>3, <1>4 DEF Orderly
<1>7. QED
  BY <1>1, <1>5, <1>6 DEF Reports!Shows

-----------------------------------------------------------------------------
(* A merged row: the checks one after the other, in the order of a report.  *)
RowsTold(outs, n, r, x) ==
  \A c \in Reports!Check :
    OutTyped(outs[c], c, n, cap) /\ RowIs(outs[c], c, r, x, plans, tol, cap)

PartsOf(outs, r) ==
  [k \in 1 .. 4 |-> ReadAt(outs[Reports!ReportOrder[k]], Reports!ReportOrder[k], r)]

LEMMA MergedIs ==
  ASSUME NEW outs, NEW n, NEW r \in 1 .. n,
         \A c \in Reports!Check : OutTyped(outs[c], c, n, cap)
  PROVE  Reports!Merged(outs)[r] = Reports!FlattenSeq(PartsOf(outs, r))
<1>. DEFINE per == [k \in DOMAIN Reports!ReportOrder |->
                      Reports!RowsFromFlat(outs[Reports!ReportOrder[k]], Reports!ReportOrder[k])]
<1>1. \A k \in 1 .. 4 : Reports!ReportOrder[k] \in Reports!Check
  BY OrderIs, ChecksAre
<1>2. DOMAIN per = 1 .. 4
  BY OrderIs
<1>3. \A k \in 1 .. 4 :
        /\ DOMAIN per[k] = 1 .. n
        /\ per[k][r] = ReadAt(outs[Reports!ReportOrder[k]], Reports!ReportOrder[k], r)
  <2>. SUFFICES ASSUME NEW k \in 1 .. 4
       PROVE  /\ DOMAIN per[k] = 1 .. n
              /\ per[k][r] = ReadAt(outs[Reports!ReportOrder[k]], Reports!ReportOrder[k], r)
    OBVIOUS
  <2>. DEFINE c == Reports!ReportOrder[k]
  <2>1. per[k] = Reports!RowsFromFlat(outs[c], c) /\ c \in Reports!Check
    BY <1>1, <1>2
  <2>. HIDE DEF per, c
  <2>2. /\ DOMAIN Reports!RowsFromFlat(outs[c], c) = 1 .. n
        /\ Reports!RowsFromFlat(outs[c], c)[r] = ReadAt(outs[c], c, r)
    BY <2>1, ReadIs
  <2>3. QED
    BY <2>1, <2>2 DEF c
<1>4. Reports!Merged(outs) = [s \in DOMAIN per[1] |->
                                Reports!FlattenSeq([k \in DOMAIN per |-> per[k][s]])]
  BY DEF Reports!Merged
<1>. HIDE DEF per
<1>5. [k \in DOMAIN per |-> per[k][r]] = PartsOf(outs, r)
  BY <1>2, <1>3 DEF PartsOf
<1>6. r \in DOMAIN per[1]
  <2>1. \A k \in 1 .. 4 : DOMAIN per[k] = 1 .. n
    BY <1>3, Zenon
  <2>2. 1 \in 1 .. 4
    OBVIOUS
  <2>3. DOMAIN per[1] = 1 .. n
    BY <2>1, <2>2, Zenon
  <2>4. QED
    BY <2>3
<1>7. QED
  BY <1>4, <1>5, <1>6

LEMMA MergedShows ==
  ASSUME NEW outs, NEW n, NEW r \in 1 .. n, NEW x, Observed(x), Settled, RowsTold(outs, n, r, x)
  PROVE  Reports!Shows(Reports!Merged(outs)[r], x, Reports!Check)
<1>. DEFINE q == PartsOf(outs, r)
            D == [k \in 1 .. 4 |-> AllDue(plans, x, Reports!ReportOrder[k], tol, cap)]
<1>1. \A k \in 1 .. 4 : Reports!ReportOrder[k] \in Reports!Check
  BY OrderIs, ChecksAre
<1>2. Len(q) = 4
  BY DEF PartsOf
<1>3. \A k \in 1 .. 4 : Orderly(q[k], D[k])
  <2>. SUFFICES ASSUME NEW k \in 1 .. 4 PROVE Orderly(q[k], D[k])
    OBVIOUS
  <2>. DEFINE c == Reports!ReportOrder[k]
  <2>1. c \in Reports!Check /\ q[k] = ReadAt(outs[c], c, r) /\ D[k] = AllDue(plans, x, c, tol, cap)
    BY <1>1 DEF PartsOf
  <2>. HIDE DEF c, q, D
  <2>2. RowIs(outs[c], c, r, x, plans, tol, cap)
    BY <2>1 DEF RowsTold
  <2>3. Orderly(ReadAt(outs[c], c, r), AllDue(plans, x, c, tol, cap))
    BY <2>1, <2>2, ToldReads
  <2>4. QED
    BY <2>1, <2>3
<1>4. \A k, l \in 1 .. 4 : k < l => Precedes(D[k], D[l])
  <2>. SUFFICES ASSUME NEW k \in 1 .. 4, NEW l \in 1 .. 4, k < l, NEW y \in D[k], NEW z \in D[l]
       PROVE  Reports!Before(y, z)
    BY DEF Precedes
  <2>. DEFINE c == Reports!ReportOrder[k]
              d == Reports!ReportOrder[l]
  <2>1. c \in Reports!Check /\ d \in Reports!Check /\ Position(c) < Position(d)
    BY <1>1, PositionIs
  <2>2. y \in AllDue(plans, x, c, tol, cap) /\ z \in AllDue(plans, x, d, tol, cap)
    OBVIOUS
  <2>. HIDE DEF c, d, D
  <2>3. PICK g \in 1 .. Reports!Groups(c), i \in 1 .. cap : y = Reports!Rec(c, g, i)
    BY <2>2 DEF AllDue, UpTo, DuesAt, DueAt
  <2>4. PICK h \in 1 .. Reports!Groups(d), j \in 1 .. cap : z = Reports!Rec(d, h, j)
    BY <2>2 DEF AllDue, UpTo, DuesAt, DueAt
  <2>5. QED
    BY <2>1, <2>3, <2>4, RecordsOrdered
<1>5. UpTo(D, 4) = DueOf(x, Reports!Check)
  <2>1. \A c \in Reports!Check : \E k \in 1 .. 4 : D[k] = AllDue(plans, x, c, tol, cap)
    BY PositionOf
  <2>2. \A k \in 1 .. 4 : \E c \in Reports!Check : D[k] = AllDue(plans, x, c, tol, cap)
    BY <1>1
  <2>. HIDE DEF D
  <2>3. QED
    BY <2>1, <2>2 DEF UpTo, DueOf
<1>. HIDE DEF q, D
<1>6. Orderly(Reports!FlattenSeq(q), UpTo(D, 4))
  <2>1. Len(q) \in Nat \ {0}
    BY <1>2
  <2>2. Orderly(Reports!FlattenSeq(q), UpTo(D, Len(q)))
    BY <1>2, <1>3, <1>4, <2>1, FlattenOrderly
  <2>3. QED
    BY <1>2, <2>2
<1>7. Reports!Merged(outs)[r] = Reports!FlattenSeq(q)
  BY MergedIs DEF RowsTold, q
<1>8. QED
  BY <1>5, <1>6, <1>7, OrderlyShows

-----------------------------------------------------------------------------
(* A driver holds arrays of the size of its key, and a base case's report   *)
(* at its key; a result that can be read is of the settings of now.         *)
DriverSound(d, p, moreplans, b) ==
  /\ d = [ready |-> d.ready, key |-> d.key, out |-> d.out, base |-> d.base]
  /\ d.ready \in BOOLEAN
  /\ d.ready =>
       /\ d.key.tol \in Tolerances /\ d.key.cap \in Nat \ {0}
       /\ \A c \in Reports!Check :
            OutTyped(d.out[c], c, NumRows, d.key.cap) /\ OutTyped(d.base[c], c, 1, d.key.cap)
       /\ ~moreplans => \A c \in Reports!Check :
            RowIs(d.base[c], c, 1, b, p, d.key.tol, d.key.cap)

BatchTold(d, p, rows, stopped, t, K) ==
  \A c \in Reports!Check : \A r \in Reports!Rows :
    RowIs(d.out[c], c, r, rows[r], p, t, K) \/ (stopped /\ RowUnseen(d.out[c], r))

KeyOf(t, K) == [tol |-> t, cap |-> K]

SettingsTyped ==
  /\ checksOn \in BOOLEAN /\ newPlans \in BOOLEAN /\ readable \in BOOLEAN /\ torn \in BOOLEAN
  /\ tol \in Tolerances /\ cap \in Capacities /\ baseCase \in BaseCases /\ PlansTyped
DriverInv == dev # Nothing => DriverSound(dev, plans, newPlans, baseCase)
ResultInv ==
  readable =>
    /\ checksOn /\ ~newPlans /\ plans["bus_q"] # Nothing /\ ran \in Batches
    /\ dev # Nothing =>
         /\ dev.ready /\ dev.key = KeyOf(tol, cap)
         /\ BatchTold(dev, plans, ran, torn, tol, cap)
RowsInv == SettingsTyped /\ DriverInv /\ ResultInv

LEMMA TypedSettled == SettingsTyped => Settled
BY RowsAssumption DEF SettingsTyped, Settled, Reports!ReportsAssumption

(* before_solve() with the checks on: every row seeded, the base case told. *)
Prepared(b) ==
  /\ b = [ready |-> b.ready, key |-> b.key, out |-> b.out, base |-> b.base]
  /\ b.ready = TRUE /\ b.key = KeyOf(tol, cap)
  /\ \A c \in Reports!Check :
       /\ OutTyped(b.out[c], c, NumRows, cap) /\ \A r \in Reports!Rows : RowUnseen(b.out[c], r)
       /\ OutTyped(b.base[c], c, 1, cap)
       /\ RowIs(b.base[c], c, 1, baseCase, plans, tol, cap)

LEMMA SetUpPrepares == SettingsTyped => Prepared(Reports!SetUp)
<1>. SUFFICES ASSUME SettingsTyped PROVE Prepared(Reports!SetUp)
  OBVIOUS
<1>. DEFINE b == Reports!SetUp
            outs == [c \in Reports!Check |-> Reports!Seeded(c, NumRows, -1)]
            bases == [c \in Reports!Check |-> BaseOf(c)]
<1>1. b = [ready |-> TRUE, key |-> KeyOf(tol, cap), out |-> outs, base |-> bases]
  BY DEF Reports!SetUp, BaseOf, KeyOf, Reports!Key
<1>2. ASSUME NEW c \in Reports!Check
      PROVE  /\ OutTyped(outs[c], c, NumRows, cap)
             /\ \A r \in Reports!Rows : RowUnseen(outs[c], r)
             /\ OutTyped(bases[c], c, 1, cap)
             /\ RowIs(bases[c], c, 1, baseCase, plans, tol, cap)
  <2>1. Settled /\ baseCase \in BaseCases
    BY TypedSettled DEF SettingsTyped
  <2>2. outs[c] = Reports!Seeded(c, NumRows, -1) /\ bases[c] = BaseOf(c)
    OBVIOUS
  <2>. HIDE DEF outs, bases
  <2>3. /\ OutTyped(Reports!Seeded(c, NumRows, -1), c, NumRows, cap)
        /\ \A r \in Reports!Rows : RowUnseen(Reports!Seeded(c, NumRows, -1), r)
    BY <2>1, SeededUnseen
  <2>4. OutTyped(BaseOf(c), c, 1, cap) /\ RowIs(BaseOf(c), c, 1, baseCase, plans, tol, cap)
    BY <2>1, BaseTold
  <2>5. QED
    BY <2>2, <2>3, <2>4
<1>. HIDE DEF b, outs, bases
<1>3. /\ b = [ready |-> b.ready, key |-> b.key, out |-> b.out, base |-> b.base]
      /\ b.ready = TRUE /\ b.key = KeyOf(tol, cap) /\ b.out = outs /\ b.base = bases
  BY <1>1
<1>4. QED
  BY <1>2, <1>3 DEF Prepared, b

LEMMA KeptPrepares ==
  ASSUME SettingsTyped, NEW d, DriverSound(d, plans, newPlans, baseCase), Reports!SameSetup(d)
  PROVE  Prepared(Reports!Reseeded(d))
<1>. DEFINE b == Reports!Reseeded(d)
            outs == [c \in Reports!Check |-> ReseededOut(d.out[c])]
<1>1. d.ready = TRUE /\ d.key = KeyOf(tol, cap) /\ ~newPlans
  BY DEF Reports!SameSetup, Reports!Key, KeyOf, DriverSound
<1>2. d.key.tol = tol /\ d.key.cap = cap
  BY <1>1 DEF KeyOf
<1>3. b = [d EXCEPT !.out = outs]
  BY DEF Reports!Reseeded, ReseededOut
<1>4. d = [ready |-> d.ready, key |-> d.key, out |-> d.out, base |-> d.base]
  BY DEF DriverSound
<1>5. ASSUME NEW c \in Reports!Check
      PROVE  /\ OutTyped(outs[c], c, NumRows, cap)
             /\ \A r \in Reports!Rows : RowUnseen(outs[c], r)
             /\ OutTyped(d.base[c], c, 1, cap)
             /\ RowIs(d.base[c], c, 1, baseCase, plans, tol, cap)
  <2>1. outs[c] = ReseededOut(d.out[c])
    OBVIOUS
  <2>2. /\ OutTyped(d.out[c], c, NumRows, cap) /\ OutTyped(d.base[c], c, 1, cap)
        /\ RowIs(d.base[c], c, 1, baseCase, plans, tol, cap)
    BY <1>1, <1>2 DEF DriverSound
  <2>. HIDE DEF outs
  <2>3. /\ OutTyped(ReseededOut(d.out[c]), c, NumRows, cap)
        /\ \A r \in Reports!Rows : RowUnseen(ReseededOut(d.out[c]), r)
    BY <2>2, ReseededUnseen
  <2>4. QED
    BY <2>1, <2>2, <2>3
<1>. HIDE DEF b, outs
<1>6. /\ b = [ready |-> b.ready, key |-> b.key, out |-> b.out, base |-> b.base]
      /\ b.ready = TRUE /\ b.key = KeyOf(tol, cap) /\ b.out = outs /\ b.base = d.base
  <2>1. b = [ready |-> d.ready, key |-> d.key, out |-> outs, base |-> d.base]
    BY <1>3, <1>4
  <2>2. QED
    BY <1>1, <2>1
<1>7. QED
  BY <1>5, <1>6 DEF Prepared, b

LEMMA BeforePrepares ==
  ASSUME SettingsTyped, checksOn, NEW d, DriverSound(d, plans, newPlans, baseCase)
  PROVE  Prepared(Reports!BeforeSolve(d))
BY SetUpPrepares, KeptPrepares DEF Reports!BeforeSolve

(* A run with the checks on, after n kernels.                               *)
Ran(e, rows, n) ==
  /\ DriverSound(e, plans, FALSE, baseCase)
  /\ e.ready /\ e.key = KeyOf(tol, cap)
  /\ BatchTold(e, plans, rows, TRUE, tol, cap)
  /\ n = Reports!AllKernels => BatchTold(e, plans, rows, FALSE, tol, cap)

LEMMA RunTells ==
  ASSUME SettingsTyped, checksOn, NEW b, Prepared(b), NEW rows \in Batches, NEW n
  PROVE  Ran(Reports!After(b, rows, n), rows, n)
<1>. DEFINE e == Reports!After(b, rows, n)
            outs == [c \in Reports!Check |-> RowsFold(b.out[c], c, rows, n)]
<1>1. e = [b EXCEPT !.out = outs]
  BY AfterFolds
<1>2. \A c \in Reports!Check : FoldTells(outs[c], c, rows, n, Reports!Rows)
  <2>. SUFFICES ASSUME NEW c \in Reports!Check
       PROVE  FoldTells(RowsFold(b.out[c], c, rows, n), c, rows, n, Reports!Rows)
    OBVIOUS
  <2>1. Settled /\ OutTyped(b.out[c], c, NumRows, cap) /\ \A r \in Reports!Rows : RowUnseen(b.out[c], r)
    BY TypedSettled DEF Prepared
  <2>2. QED
    BY <2>1, FoldTold
<1>. HIDE DEF e, outs
<1>3. /\ e = [ready |-> e.ready, key |-> e.key, out |-> e.out, base |-> e.base]
      /\ e.ready = TRUE /\ e.key = KeyOf(tol, cap) /\ e.out = outs /\ e.base = b.base
  <2>1. b = [ready |-> b.ready, key |-> b.key, out |-> b.out, base |-> b.base]
    BY DEF Prepared
  <2>2. e = [ready |-> b.ready, key |-> b.key, out |-> outs, base |-> b.base]
    BY <1>1, <2>1
  <2>3. QED
    BY <2>2 DEF Prepared
<1>4. e.key.tol = tol /\ e.key.cap = cap /\ tol \in Tolerances /\ cap \in Nat \ {0}
  BY <1>3, TypedSettled DEF KeyOf, Settled
<1>5. \A c \in Reports!Check :
        /\ OutTyped(e.out[c], c, NumRows, e.key.cap) /\ OutTyped(e.base[c], c, 1, e.key.cap)
        /\ RowIs(e.base[c], c, 1, baseCase, plans, e.key.tol, e.key.cap)
  BY <1>2, <1>3, <1>4 DEF FoldTells, Prepared
<1>6. DriverSound(e, plans, FALSE, baseCase)
  BY <1>3, <1>4, <1>5 DEF DriverSound
<1>7. BatchTold(e, plans, rows, TRUE, tol, cap)
  BY <1>2, <1>3 DEF BatchTold, FoldTells
<1>8. n = Reports!AllKernels => BatchTold(e, plans, rows, FALSE, tol, cap)
  BY <1>2, <1>3, AllBehind DEF BatchTold, FoldTells
<1>9. QED
  BY <1>3, <1>6, <1>7, <1>8 DEF Ran, e

(* A run with the checks off disables those of the driver.                  *)
LEMMA OffSound ==
  ASSUME ~checksOn, NEW d, DriverSound(d, plans, newPlans, baseCase), NEW rows, NEW n, NEW p, NEW m,
         NEW b
  PROVE  DriverSound(Reports!After(Reports!BeforeSolve(d), rows, n), p, m, b)
<1>. DEFINE e == Reports!After(Reports!BeforeSolve(d), rows, n)
<1>1. e = [d EXCEPT !.ready = FALSE]
  BY DEF Reports!After, Reports!BeforeSolve
<1>2. d = [ready |-> d.ready, key |-> d.key, out |-> d.out, base |-> d.base]
  BY DEF DriverSound
<1>. HIDE DEF e
<1>3. e = [ready |-> FALSE, key |-> d.key, out |-> d.out, base |-> d.base]
  BY <1>1, <1>2
<1>4. e.ready = FALSE /\ e = [ready |-> e.ready, key |-> e.key, out |-> e.out, base |-> e.base]
  BY <1>3
<1>5. QED
  BY <1>4 DEF DriverSound, e

LEMMA DriverOf ==
  ASSUME DriverInv, NEW cold, dev = Nothing => cold
  PROVE  DriverSound(Reports!Driver(cold), plans, newPlans, baseCase)
<1>1. CASE cold
  <2>. DEFINE d == Reports!NewDriver
  <2>1. /\ d = [ready |-> d.ready, key |-> d.key, out |-> d.out, base |-> d.base]
        /\ d.ready = FALSE
    BY DEF Reports!NewDriver
  <2>. HIDE DEF d
  <2>2. DriverSound(d, plans, newPlans, baseCase)
    BY <2>1 DEF DriverSound
  <2>3. QED
    BY <1>1, <2>2 DEF Reports!Driver, d
<1>2. CASE ~cold
  BY <1>2 DEF Reports!Driver, DriverInv
<1>3. QED
  BY <1>1, <1>2

-----------------------------------------------------------------------------
(* What one call keeps.                                                     *)

(* A result that cannot be read tells nothing; plans that moved since the   *)
(* set-up of the driver leave its base case's report alone.                 *)
LEMMA DroppedKeeps ==
  ASSUME RowsInv, SettingsTyped', dev' = dev, baseCase' = baseCase, ~readable',
         newPlans' \/ (newPlans' = newPlans /\ plans' = plans)
  PROVE  RowsInv'
<1>1. ResultInv'
  BY DEF ResultInv
<1>2. DriverInv'
  BY DEF RowsInv, DriverInv, DriverSound
<1>3. QED
  BY <1>1, <1>2 DEF RowsInv

LEMMA StillKeeps ==
  ASSUME RowsInv, SettingsTyped', UNCHANGED <<dev, baseCase, plans, newPlans, ran, torn>>,
         readable' => readable /\ checksOn' = checksOn /\ tol' = tol /\ cap' = cap
  PROVE  RowsInv'
<1>1. DriverInv'
  BY DEF RowsInv, DriverInv
<1>2. CASE ~readable'
  BY <1>1, <1>2 DEF RowsInv, ResultInv
<1>3. CASE readable'
  BY <1>1, <1>3 DEF RowsInv, ResultInv
<1>4. QED
  BY <1>2, <1>3

LEMMA TurnOnKeepsRows == RowsInv /\ Reports!TurnOn => RowsInv'
<1>. SUFFICES ASSUME RowsInv, Reports!TurnOn PROVE RowsInv'
  OBVIOUS
<1>1. PICK got \in SUBSET Reports!Missing :
        /\ Reports!Pull(got) /\ checksOn' = (checksOn \/ got = Reports!Missing)
        /\ readable' = (readable /\ got = {} /\ checksOn' = checksOn)
        /\ UNCHANGED <<tol, cap, env, baseCase, dev, ran, torn>>
  BY DEF Reports!TurnOn, Reports!Unmoved
<1>2. /\ plans' = [c \in Reports!Planned |-> IF c \in got THEN "full" ELSE plans[c]]
      /\ newPlans' = (newPlans \/ got # {})
  BY <1>1 DEF Reports!Pull
<1>3. checksOn \in BOOLEAN /\ newPlans \in BOOLEAN /\ readable \in BOOLEAN /\ PlansTyped
  BY DEF RowsInv, SettingsTyped
<1>4. PlansTyped'
  BY <1>2, <1>3 DEF PlansTyped, Reports!Plans
<1>5. checksOn' \in BOOLEAN /\ newPlans' \in BOOLEAN /\ readable' \in BOOLEAN
  BY <1>1, <1>2, <1>3
<1>6. SettingsTyped'
  BY <1>1, <1>4, <1>5 DEF RowsInv, SettingsTyped
<1>7. CASE got = {}
  <2>1. plans' = plans
    BY <1>2, <1>3, <1>7 DEF PlansTyped
  <2>2. newPlans' = newPlans
    BY <1>2, <1>3, <1>7
  <2>3. readable' => readable /\ checksOn' = checksOn /\ tol' = tol /\ cap' = cap
    BY <1>1, <1>3
  <2>4. QED
    BY <1>1, <1>6, <2>1, <2>2, <2>3, StillKeeps
<1>8. CASE got # {}
  BY <1>1, <1>2, <1>6, <1>8, DroppedKeeps
<1>9. QED
  BY <1>7, <1>8

LEMMA RefusedKeepsRows ==
  ASSUME RowsInv,
         UNCHANGED <<env, baseCase, checksOn, tol, cap, plans, newPlans, readable, dev, ran, torn>>
  PROVE  RowsInv'
BY DEF RowsInv, SettingsTyped, DriverInv, ResultInv, PlansTyped

LEMMA SetPlanKeepsRows ==
  ASSUME RowsInv, NEW c \in Reports!Planned, NEW p \in Reports!Plans, Reports!SetPlan(c, p)
  PROVE  RowsInv'
<1>1. /\ plans' = [plans EXCEPT ![c] = p] /\ newPlans' = TRUE /\ readable' = FALSE
      /\ UNCHANGED <<checksOn, tol, cap, baseCase, dev, torn>>
  BY DEF Reports!SetPlan, Reports!Unmoved
<1>2. PlansTyped'
  BY <1>1 DEF RowsInv, SettingsTyped, PlansTyped
<1>3. SettingsTyped'
  BY <1>1, <1>2 DEF RowsInv, SettingsTyped
<1>4. QED
  BY <1>1, <1>3, DroppedKeeps

(* Settings that are drawn anew keep a result only when they are the same.  *)
LEMMA SetKeepsRows ==
  ASSUME RowsInv, UNCHANGED <<baseCase, dev, plans, newPlans, ran, torn>>,
         checksOn' \in BOOLEAN, tol' \in Tolerances, cap' \in Capacities, readable' \in BOOLEAN,
         readable' => readable /\ checksOn' = checksOn /\ tol' = tol /\ cap' = cap
  PROVE  RowsInv'
<1>1. SettingsTyped'
  BY DEF RowsInv, SettingsTyped, PlansTyped
<1>2. QED
  BY <1>1, StillKeeps

LEMMA SettersKeepRows ==
  ASSUME RowsInv,
         \/ Reports!TurnOff \/ \E t \in Tolerances : Reports!SetTol(t)
         \/ \E k \in Capacities \cup {0} : Reports!SetCapacity(k)
  PROVE  RowsInv'
<1>0. /\ checksOn \in BOOLEAN /\ tol \in Tolerances /\ cap \in Capacities /\ readable \in BOOLEAN
      /\ readable => checksOn
  BY DEF RowsInv, SettingsTyped, ResultInv
<1>1. CASE Reports!TurnOff
  <2>1. /\ checksOn' = FALSE /\ readable' = (readable /\ ~checksOn)
        /\ UNCHANGED <<tol, cap, plans, newPlans, baseCase, dev, ran, torn>>
    BY <1>1 DEF Reports!TurnOff, Reports!Unmoved
  <2>2. readable' = FALSE
    BY <1>0, <2>1
  <2>3. QED
    BY <1>0, <2>1, <2>2, SetKeepsRows
<1>2. ASSUME NEW t \in Tolerances, Reports!SetTol(t) PROVE RowsInv'
  <2>1. /\ tol' = t /\ readable' = (readable /\ t = tol)
        /\ UNCHANGED <<checksOn, cap, plans, newPlans, baseCase, dev, ran, torn>>
    BY <1>2 DEF Reports!SetTol, Reports!Unmoved
  <2>2. readable' \in BOOLEAN /\ (readable' => readable /\ tol' = tol)
    BY <1>0, <2>1
  <2>3. QED
    BY <1>0, <1>2, <2>1, <2>2, SetKeepsRows
<1>3. ASSUME NEW k \in Capacities \cup {0}, Reports!SetCapacity(k) PROVE RowsInv'
  <2>1. CASE k <= 0
    <3>1. UNCHANGED <<env, baseCase, checksOn, tol, cap, plans, newPlans, readable, dev, ran, torn>>
      BY <1>3, <2>1 DEF Reports!SetCapacity, Reports!Refused, Reports!settings
    <3>2. QED
      BY <3>1, RefusedKeepsRows
  <2>2. CASE ~(k <= 0)
    <3>1. /\ cap' = k /\ readable' = (readable /\ k = cap)
          /\ UNCHANGED <<checksOn, tol, plans, newPlans, baseCase, dev, ran, torn>>
      BY <1>3, <2>2 DEF Reports!SetCapacity, Reports!Unmoved
    <3>2. k \in Capacities
      BY <1>3, <2>2
    <3>3. readable' \in BOOLEAN /\ (readable' => readable /\ cap' = cap)
      BY <1>0, <3>1
    <3>4. QED
      BY <1>0, <3>1, <3>2, <3>3, SetKeepsRows
  <2>3. QED
    BY <2>1, <2>2
<1>4. QED
  BY <1>1, <1>2, <1>3

-----------------------------------------------------------------------------
(* A run that gets through.                                                 *)
LEMMA RunKeepsRows ==
  ASSUME RowsInv, NEW rows \in Batches, NEW cold \in BOOLEAN, Reports!Run(rows, cold)
  PROVE  RowsInv'
<1>. DEFINE d == Reports!Driver(cold)
            e == Reports!After(Reports!BeforeSolve(d), rows, Reports!AllKernels)
<1>1. /\ ~checksOn \/ plans["bus_q"] # Nothing
      /\ dev' = e /\ newPlans' = (newPlans /\ ~checksOn) /\ readable' = checksOn
      /\ ran' = rows /\ torn' = FALSE
      /\ UNCHANGED <<baseCase, checksOn, tol, cap, plans>>
  BY DEF Reports!Run, Reports!CanRun
<1>2. SettingsTyped
  BY DEF RowsInv
<1>3. SettingsTyped'
  BY <1>1, <1>2 DEF SettingsTyped, PlansTyped
<1>4. DriverSound(d, plans, newPlans, baseCase)
  <2>1. DriverInv /\ (dev = Nothing => cold)
    BY DEF RowsInv, Reports!Run
  <2>2. QED
    BY <2>1, DriverOf
<1>. HIDE DEF d
<1>5. CASE checksOn
  <2>1. Ran(e, rows, Reports!AllKernels)
    BY <1>2, <1>4, <1>5, BeforePrepares, RunTells
  <2>. HIDE DEF e
  <2>2. newPlans' = FALSE /\ readable' = TRUE
    BY <1>1, <1>2, <1>5 DEF SettingsTyped
  <2>3. DriverInv'
    BY <1>1, <2>1, <2>2 DEF DriverInv, Ran
  <2>4. ResultInv'
    BY <1>1, <1>5, <2>1, <2>2 DEF ResultInv, Ran
  <2>5. QED
    BY <1>3, <2>3, <2>4 DEF RowsInv
<1>6. CASE ~checksOn
  <2>1. DriverSound(e, plans', newPlans', baseCase')
    BY <1>4, <1>6, OffSound
  <2>. HIDE DEF e
  <2>2. DriverInv' /\ ResultInv'
    BY <1>1, <1>6, <2>1 DEF DriverInv, ResultInv
  <2>3. QED
    BY <1>3, <2>2 DEF RowsInv
<1>7. QED
  BY <1>5, <1>6

(* A run that raises in its chunks: a result that could be read before is   *)
(* now the part of this one that was done.                                  *)
LEMMA RunFailsKeepsRows ==
  ASSUME RowsInv, NEW rows \in Batches, NEW cold \in BOOLEAN, NEW n, Reports!RunFails(rows, cold, n)
  PROVE  RowsInv'
<1>. DEFINE d == Reports!Driver(cold)
            e == Reports!After(Reports!BeforeSolve(d), rows, n)
<1>1. /\ ~checksOn \/ plans["bus_q"] # Nothing
      /\ dev' = e /\ newPlans' = (newPlans /\ ~checksOn)
      /\ ran' = rows /\ torn' = TRUE
      /\ UNCHANGED <<baseCase, checksOn, tol, cap, plans, readable>>
  BY DEF Reports!RunFails, Reports!CanRun
<1>2. SettingsTyped
  BY DEF RowsInv
<1>3. SettingsTyped'
  BY <1>1, <1>2 DEF SettingsTyped, PlansTyped
<1>4. DriverSound(d, plans, newPlans, baseCase)
  <2>1. DriverInv /\ (dev = Nothing => cold)
    BY DEF RowsInv, Reports!RunFails
  <2>2. QED
    BY <2>1, DriverOf
<1>. HIDE DEF d
<1>5. CASE checksOn
  <2>1. Ran(e, rows, n)
    BY <1>2, <1>4, <1>5, BeforePrepares, RunTells
  <2>. HIDE DEF e
  <2>2. newPlans' = FALSE
    BY <1>1, <1>2, <1>5 DEF SettingsTyped
  <2>3. DriverInv'
    BY <1>1, <2>1, <2>2 DEF DriverInv, Ran
  <2>4. ResultInv'
    BY <1>1, <1>5, <2>1, <2>2 DEF ResultInv, Ran
  <2>5. QED
    BY <1>3, <2>3, <2>4 DEF RowsInv
<1>6. CASE ~checksOn
  <2>1. DriverSound(e, plans', newPlans', baseCase')
    BY <1>4, <1>6, OffSound
  <2>. HIDE DEF e
  <2>2. ~readable'
    BY <1>1, <1>6 DEF RowsInv, ResultInv
  <2>3. DriverInv' /\ ResultInv'
    BY <1>1, <2>1, <2>2 DEF DriverInv, ResultInv
  <2>4. QED
    BY <1>3, <2>3 DEF RowsInv
<1>7. QED
  BY <1>5, <1>6

(* A run that is refused, or whose driver cannot be built.                  *)
LEMMA NoRunKeepsRows ==
  ASSUME RowsInv, \/ \E cold \in BOOLEAN : Reports!RunRefused(cold)
                  \/ Reports!RunFailsToBuild
  PROVE  RowsInv'
<1>1. UNCHANGED <<baseCase, checksOn, tol, cap, plans, newPlans, readable, ran, torn>>
  BY DEF Reports!RunRefused, Reports!RunFailsToBuild, Reports!settings
<1>2. SettingsTyped'
  BY <1>1 DEF RowsInv, SettingsTyped, PlansTyped
<1>3. CASE Reports!RunFailsToBuild
  <2>1. dev' = Nothing
    BY <1>3 DEF Reports!RunFailsToBuild
  <2>2. DriverInv' /\ ResultInv'
    BY <1>1, <2>1 DEF RowsInv, DriverInv, ResultInv
  <2>3. QED
    BY <1>2, <2>2 DEF RowsInv
<1>4. ASSUME NEW cold \in BOOLEAN, Reports!RunRefused(cold) PROVE RowsInv'
  <2>1. /\ checksOn /\ plans["bus_q"] = Nothing /\ (dev = Nothing => cold)
        /\ dev' = Reports!Driver(cold)
    BY <1>4 DEF Reports!RunRefused, Reports!CanRun
  <2>2. DriverSound(dev', plans, newPlans, baseCase)
    BY <2>1, DriverOf DEF RowsInv
  <2>3. ~readable'
    BY <1>1, <2>1 DEF RowsInv, ResultInv
  <2>4. DriverInv' /\ ResultInv'
    BY <1>1, <2>2, <2>3 DEF DriverInv, ResultInv
  <2>5. QED
    BY <1>2, <2>4 DEF RowsInv
<1>5. QED
  BY <1>3, <1>4

-----------------------------------------------------------------------------
LEMMA RowsInvInductive == RowsInv /\ [Reports!Next]_(Reports!vars) => RowsInv'
<1>. SUFFICES ASSUME RowsInv, [Reports!Next]_(Reports!vars) PROVE RowsInv'
  OBVIOUS
<1>1. CASE UNCHANGED Reports!vars
  BY <1>1, RefusedKeepsRows DEF Reports!vars, Reports!settings
<1>2. CASE Reports!TurnOn
  BY <1>2, TurnOnKeepsRows
<1>3. CASE \/ Reports!TurnOff \/ \E t \in Tolerances : Reports!SetTol(t)
           \/ \E k \in Capacities \cup {0} : Reports!SetCapacity(k)
  BY <1>3, SettersKeepRows
<1>4. ASSUME NEW c \in Reports!Planned, NEW p \in Reports!Plans, Reports!SetPlan(c, p)
      PROVE  RowsInv'
  BY <1>4, SetPlanKeepsRows
<1>5. CASE Reports!Refused
  BY <1>5, RefusedKeepsRows DEF Reports!Refused, Reports!settings
<1>6. CASE Reports!SetPlanRefused
  BY <1>5, <1>6 DEF Reports!SetPlanRefused
<1>7. ASSUME NEW c \in Reports!Planned, Reports!SetPlanFromGrid(c) PROVE RowsInv'
  <2>1. "full" \in Reports!Plans
    BY DEF Reports!Plans
  <2>2. Reports!Refused \/ Reports!SetPlan(c, "full")
    BY <1>7 DEF Reports!SetPlanFromGrid
  <2>3. QED
    BY <1>4, <1>5, <2>1, <2>2
<1>8. ASSUME NEW rows \in Batches, NEW cold \in BOOLEAN, Reports!Run(rows, cold) PROVE RowsInv'
  BY <1>8, RunKeepsRows
<1>9. CASE (\E cold \in BOOLEAN : Reports!RunRefused(cold)) \/ Reports!RunFailsToBuild
  BY <1>9, NoRunKeepsRows
<1>10. ASSUME NEW rows \in Batches, NEW cold \in BOOLEAN, NEW n, Reports!RunFails(rows, cold, n)
       PROVE  RowsInv'
  BY <1>10, RunFailsKeepsRows
<1>11. QED
  BY <1>1, <1>2, <1>3, <1>4, <1>6, <1>7, <1>8, <1>9, <1>10 DEF Reports!Next

(* What can be read of a batch is of its last run, under the settings and   *)
(* the plans of now (the getters of _physical_checks.py over               *)
(* physical_checks_data.hpp): for any tolerances, capacities, numbers of    *)
(* rows, and whatever the rows, the base case and the calls before were.    *)
THEOREM RowReportsCorrect == ReportsSpec => []ReportsTellTheRun
<1>1. Reports!Init => RowsInv
  <2>. SUFFICES ASSUME Reports!Init PROVE RowsInv
    OBVIOUS
  <2>1. SettingsTyped
    BY DEF Reports!Init, SettingsTyped, PlansTyped
  <2>2. DriverInv /\ ResultInv
    BY DEF Reports!Init, DriverInv, ResultInv
  <2>3. QED
    BY <2>1, <2>2 DEF RowsInv
<1>2. RowsInv => Reports!ReportsTellTheRun
  <2>. SUFFICES ASSUME RowsInv, Reports!Readable PROVE
         /\ \A r \in Reports!Rows :
              IF torn
              THEN \A c \in Reports!Check :
                     LET shown == Reports!RowsFromFlat(dev.out[c], c)[r]
                     IN shown = <<>> \/ Reports!Shows(shown, ran[r], {c})
              ELSE Reports!Shows(Reports!GetPhysicalViolations[r], ran[r], Reports!Check)
         /\ Reports!Shows(Reports!GetPhysicalViolationsN, baseCase, Reports!Check)
         /\ ~torn => \A r \in Reports!Rows :
              Reports!GetPhysicalViolationsTruncated[r] <=>
                /\ ran[r].how = "converged"
                /\ \E c \in Reports!Check : \E g \in 1 .. Reports!Groups(c) :
                     Reports!Exceeding(ran[r], c, g) > cap
    BY DEF Reports!ReportsTellTheRun, Reports!RowsReportTheRun, Reports!BaseReportsTheSettings,
           Reports!TruncatedIffDropped
  <2>1. readable /\ dev # Nothing
    BY DEF Reports!Readable
  <2>2. /\ dev.ready /\ dev.key = KeyOf(tol, cap) /\ ~newPlans /\ ran \in Batches
        /\ BatchTold(dev, plans, ran, torn, tol, cap)
        /\ DriverSound(dev, plans, newPlans, baseCase)
    BY <2>1 DEF RowsInv, ResultInv, DriverInv
  <2>3. Settled /\ baseCase \in BaseCases /\ torn \in BOOLEAN
    BY TypedSettled DEF RowsInv, SettingsTyped
  <2>4. dev.key.tol = tol /\ dev.key.cap = cap
    BY <2>2 DEF KeyOf
  <2>5. \A c \in Reports!Check :
          /\ OutTyped(dev.out[c], c, NumRows, cap) /\ OutTyped(dev.base[c], c, 1, cap)
          /\ RowIs(dev.base[c], c, 1, baseCase, plans, tol, cap)
    BY <2>2, <2>4 DEF DriverSound
  <2>6. \A r \in Reports!Rows : Observed(ran[r]) /\ r \in 1 .. NumRows
    BY <2>2, RowsObserved, RowsAre
  <2>7. Reports!Shows(Reports!GetPhysicalViolationsN, baseCase, Reports!Check)
    <3>1. RowsTold(dev.base, 1, 1, baseCase) /\ 1 \in 1 .. 1 /\ Observed(baseCase)
      BY <2>3, <2>5, BaseObserved DEF RowsTold
    <3>2. Reports!Shows(Reports!Merged(dev.base)[1], baseCase, Reports!Check)
      BY <2>3, <3>1, MergedShows
    <3>3. QED
      BY <3>2 DEF Reports!GetPhysicalViolationsN
  <2>8. ASSUME torn, NEW r \in Reports!Rows, NEW c \in Reports!Check
        PROVE  \/ Reports!RowsFromFlat(dev.out[c], c)[r] = <<>>
               \/ Reports!Shows(Reports!RowsFromFlat(dev.out[c], c)[r], ran[r], {c})
    <3>. DEFINE q == ReadAt(dev.out[c], c, r)
    <3>1. Reports!RowsFromFlat(dev.out[c], c)[r] = q
      BY <2>5, <2>6, ReadIs
    <3>2. RowIs(dev.out[c], c, r, ran[r], plans, tol, cap) \/ RowUnseen(dev.out[c], r)
      BY <2>2 DEF BatchTold
    <3>. HIDE DEF q
    <3>3. CASE RowUnseen(dev.out[c], r)
      <4>1. q = <<>>
        BY <3>3, UnseenReads DEF RowUnseen, q
      <4>2. QED
        BY <3>1, <4>1
    <3>4. CASE RowIs(dev.out[c], c, r, ran[r], plans, tol, cap)
      <4>1. Orderly(q, AllDue(plans, ran[r], c, tol, cap))
        BY <2>3, <2>6, <3>4, ToldReads DEF q
      <4>2. DueOf(ran[r], {c}) = AllDue(plans, ran[r], c, tol, cap) /\ {c} \in SUBSET Reports!Check
        BY DEF DueOf
      <4>3. Reports!Shows(q, ran[r], {c})
        BY <4>1, <4>2, OrderlyShows
      <4>4. QED
        BY <3>1, <4>3
    <3>5. QED
      BY <3>2, <3>3, <3>4
  <2>9. ASSUME ~torn, NEW r \in Reports!Rows
        PROVE  RowsTold(dev.out, NumRows, r, ran[r])
    BY <2>2, <2>5, <2>9 DEF BatchTold, RowsTold
  <2>10. ASSUME ~torn, NEW r \in Reports!Rows
         PROVE  Reports!Shows(Reports!GetPhysicalViolations[r], ran[r], Reports!Check)
    <3>1. RowsTold(dev.out, NumRows, r, ran[r]) /\ Observed(ran[r]) /\ r \in 1 .. NumRows
      BY <2>6, <2>9, <2>10
    <3>2. Reports!Shows(Reports!Merged(dev.out)[r], ran[r], Reports!Check)
      BY <2>3, <3>1, MergedShows
    <3>3. QED
      BY <3>2 DEF Reports!GetPhysicalViolations
  <2>11. ASSUME ~torn, NEW r \in Reports!Rows
         PROVE  Reports!GetPhysicalViolationsTruncated[r] <=>
                  /\ ran[r].how = "converged"
                  /\ \E c \in Reports!Check : \E g \in 1 .. Reports!Groups(c) :
                       Reports!Exceeding(ran[r], c, g) > cap
    <3>1. \A c \in Reports!Check :
            dev.out[c].truncated[r] <=>
              /\ ran[r].how = "converged"
              /\ \E g \in 1 .. Reports!Groups(c) : Reports!Exceeding(ran[r], c, g) > cap
      <4>. SUFFICES ASSUME NEW c \in Reports!Check
           PROVE  dev.out[c].truncated[r] <=>
                    /\ ran[r].how = "converged"
                    /\ \E g \in 1 .. Reports!Groups(c) : Reports!Exceeding(ran[r], c, g) > cap
        OBVIOUS
      <4>1. RowIs(dev.out[c], c, r, ran[r], plans, tol, cap) /\ Observed(ran[r])
        BY <2>6, <2>9, <2>11 DEF RowsTold
      <4>2. Overflows(plans, ran[r], c, tol, cap)
              <=> \E g \in 1 .. Reports!Groups(c) : Reports!Exceeding(ran[r], c, g) > cap
        BY PresentIs DEF Overflows
      <4>3. ran[r].how = "converged"
              => dev.out[c].truncated[r] = Overflows(plans, ran[r], c, tol, cap)
        BY <4>1 DEF RowIs
      <4>4. ran[r].how # "converged" => dev.out[c].truncated[r] = FALSE
        BY <4>1 DEF RowIs, RowUnseen, Observed
      <4>5. QED
        BY <4>2, <4>3, <4>4
    <3>2. Reports!GetPhysicalViolationsTruncated[r]
            <=> \/ dev.out["bus_q"].truncated[r] \/ dev.out["hvdc_p"].truncated[r]
                \/ dev.out["gen_p"].truncated[r] \/ dev.out["release"].truncated[r]
      BY DEF Reports!GetPhysicalViolationsTruncated, Reports!TruncatedBy
    <3>3. QED
      BY <3>1, <3>2, ChecksAre
  <2>12. QED
    BY <2>7, <2>8, <2>10, <2>11
<1>3. QED
  BY <1>1, <1>2, RowsInvInductive, PTL DEF ReportsSpec, Reports!Spec, ReportsTellTheRun
=============================================================================
