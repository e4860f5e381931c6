----------------------- MODULE ScenarioSweepSession_proofs -----------------------
(* Proofs about ScenarioSweepSession, for every set of inputs and settings. *)
EXTENDS ScenarioSweepRefinement, TLAPS

(***************************************************************************)
(* Type correctness.  TypeOK is inductive by itself.                       *)
(***************************************************************************)
LEMMA NumRowsType == InputTypes => NumRows \in Nat
BY ConstantsAssumption DEF InputTypes, NumRows, RowInputs, Maybe

LEMMA SourceTripsType == InputTypes => SourceTrips \in Trips
BY NumRowsType DEF InputTypes, SourceTrips, NoTrips, Trips, Maybe

LEMMA WeightsType == InputTypes /\ OptionTypes => WantedWeights \in Weights
<1>. SUFFICES ASSUME InputTypes, OptionTypes PROVE WantedWeights \in Weights
  OBVIOUS
<1>1. PlainWeights(genOff) \in Weights
  BY ConstantsAssumption DEF InputTypes, PlainWeights, BaseWeights, Weights, Maybe
<1>2. QED
  BY <1>1 DEF InputTypes, OptionTypes, WantedWeights, Weights, Maybe

LEMMA ReferenceType ==
  InputTypes /\ OptionTypes =>
    WantedReference \in Buses /\ (ChoosesReference => CachedChoice \in Buses)
<1>. SUFFICES ASSUME InputTypes, OptionTypes
     PROVE  WantedReference \in Buses /\ (ChoosesReference => CachedChoice \in Buses)
  OBVIOUS
<1>1. ASSUME hasTopology PROVE ChooseReference \in Buses
  <2>1. trips.list \in Topologies
    BY <1>1 DEF InputTypes, Trips, Maybe
  <2>2. QED
    BY <2>1, ConstantsAssumption DEF OptionTypes, ChooseReference, Maybe
<1>2. QED
  BY <1>1, ConstantsAssumption
     DEF OptionTypes, WantedReference, CachedChoice, ChoosesReference, Maybe

LEMMA NoneIsNoSource == None \notin Sources
BY NoneAssumption

LEMMA NeededType == InputTypes => Needed \in SUBSET Buses
BY ConstantsAssumption DEF InputTypes, Needed, Maybe

LEMMA BareSourceType == InputTypes => BareSource \in Sources
BY SourceTripsType DEF BareSource, InputTypes, Sources, Weights, BaseWeights, Maybe

LEMMA FreshFlagsType ==
  InputTypes => [trips |-> SourceTrips, genOff |-> genOff, skip |-> skip] \in RowFlags
BY SourceTripsType DEF InputTypes, RowFlags

LEMMA CurrentConfigType == InputTypes /\ OptionTypes => CurrentConfig \in Config
BY NumRowsType DEF OptionTypes, CurrentConfig, Config

LEMMA TypeInit == Init => TypeOK
<1>. SUFFICES ASSUME Init PROVE TypeOK
  OBVIOUS
<1>1. InputTypes
  BY DEF Init, InputTypes, NoTrips, Trips, Maybe
<1>2. OptionTypes
  BY ConstantsAssumption DEF Init, OptionTypes, Maybe
<1>3. DriverTypes /\ RunTypes
  BY DEF Init, DriverTypes, RunTypes, Maybe
<1>4. QED
  BY <1>1, <1>2, <1>3 DEF TypeOK

LEMMA TypeSetters == TypeOK /\ Setters => TypeOK'
<1>. SUFFICES ASSUME TypeOK, Setters PROVE TypeOK'
  OBVIOUS
<1>. USE DEF inputVars, refVars, slackVars, driverVars, runVars
<1>. InputTypes /\ OptionTypes /\ DriverTypes /\ RunTypes
  BY DEF TypeOK
<1>1. ASSUME NEW v \in Injections, SetInjections(v) PROVE TypeOK'
  <2>1. InputTypes'
    BY <1>1 DEF SetInjections, InputTypes, Input, Maybe
  <2>2. OptionTypes'
    BY <1>1 DEF SetInjections, OptionTypes
  <2>3. DriverTypes'
    BY <1>1 DEF SetInjections, DriverTypes
  <2>4. RunTypes'
    BY <1>1 DEF SetInjections, RunTypes
  <2>5. QED
    BY <2>1, <2>2, <2>3, <2>4 DEF TypeOK
<1>2. ASSUME NEW v \in Injections, SetInjectionsDevice(v) PROVE TypeOK'
  <2>1. InputTypes'
    BY <1>2 DEF SetInjectionsDevice, InputTypes, Input, Maybe
  <2>2. OptionTypes'
    BY <1>2 DEF SetInjectionsDevice, OptionTypes
  <2>3. DriverTypes'
    BY <1>2 DEF SetInjectionsDevice, DriverTypes
  <2>4. RunTypes'
    BY <1>2 DEF SetInjectionsDevice, RunTypes
  <2>5. QED
    BY <2>1, <2>2, <2>3, <2>4 DEF TypeOK
<1>3. ASSUME NEW v \in Maybe(GenVs), SetGenV(v) PROVE TypeOK'
  <2>1. InputTypes'
    BY <1>3 DEF SetGenV, InputTypes, Input, Maybe
  <2>2. OptionTypes'
    BY <1>3 DEF SetGenV, OptionTypes
  <2>3. DriverTypes'
    BY <1>3 DEF SetGenV, DriverTypes
  <2>4. RunTypes'
    BY <1>3 DEF SetGenV, RunTypes
  <2>5. QED
    BY <2>1, <2>2, <2>3, <2>4 DEF TypeOK
<1>4. ASSUME NEW g \in GenMasks, SetContingencyGens(g) PROVE TypeOK'
  <2>1. InputTypes'
    BY <1>4 DEF SetContingencyGens, InputTypes, Input, Maybe
  <2>2. OptionTypes'
    BY <1>4 DEF SetContingencyGens, OptionTypes
  <2>3. DriverTypes'
    BY <1>4 DEF SetContingencyGens, DriverTypes
  <2>4. RunTypes'
    BY <1>4 DEF SetContingencyGens, RunTypes
  <2>5. QED
    BY <2>1, <2>2, <2>3, <2>4 DEF TypeOK
<1>5. ASSUME NEW m \in Maybe(SkipMasks), SetSkippedRows(m) PROVE TypeOK'
  <2>1. InputTypes'
    BY <1>5 DEF SetSkippedRows, InputTypes, Input, Maybe
  <2>2. OptionTypes'
    BY <1>5 DEF SetSkippedRows, OptionTypes
  <2>3. DriverTypes'
    BY <1>5 DEF SetSkippedRows, DriverTypes
  <2>4. RunTypes'
    BY <1>5 DEF SetSkippedRows, RunTypes
  <2>5. QED
    BY <2>1, <2>2, <2>3, <2>4 DEF TypeOK
<1>6. ASSUME NEW t \in Topologies, SetTopology(t) PROVE TypeOK'
  <2>1. InputTypes'
    BY <1>6, ConstantsAssumption DEF SetTopology, InputTypes, Input, Maybe, Trips, RowInputs
  <2>2. OptionTypes'
    BY <1>6 DEF SetTopology, OptionTypes, Maybe
  <2>3. DriverTypes'
    BY <1>6 DEF SetTopology, DriverTypes, Maybe
  <2>4. RunTypes'
    BY <1>6 DEF SetTopology, RunTypes
  <2>5. QED
    BY <2>1, <2>2, <2>3, <2>4 DEF TypeOK
<1>7. ASSUME NEW t \in Topologies, SetTopologyRefused(t) PROVE TypeOK'
  <2>1. InputTypes'
    BY <1>7, ConstantsAssumption
       DEF SetTopologyRefused, InputTypes, Input, Maybe, Trips, RowInputs
  <2>2. OptionTypes'
    BY <1>7 DEF SetTopologyRefused, OptionTypes
  <2>3. DriverTypes'
    BY <1>7 DEF SetTopologyRefused, DriverTypes, Maybe
  <2>4. RunTypes'
    BY <1>7 DEF SetTopologyRefused, RunTypes, Gap
  <2>5. QED
    BY <2>1, <2>2, <2>3, <2>4 DEF TypeOK
<1>8. ASSUME NEW b \in BranchSets, SetBranchData(b) PROVE TypeOK'
  <2>1. InputTypes'
    BY <1>8 DEF SetBranchData, InputTypes, Input, Maybe, Trips
  <2>2. OptionTypes'
    BY <1>8 DEF SetBranchData, OptionTypes, Maybe
  <2>3. DriverTypes'
    BY <1>8 DEF SetBranchData, DriverTypes, Maybe
  <2>4. RunTypes'
    BY <1>8 DEF SetBranchData, RunTypes, Gap
  <2>5. QED
    BY <2>1, <2>2, <2>3, <2>4 DEF TypeOK
<1>9. ASSUME NEW s \in Settings, SetSettings(s) PROVE TypeOK'
  <2>1. InputTypes'
    BY <1>9 DEF SetSettings, InputTypes
  <2>2. OptionTypes'
    BY <1>9 DEF SetSettings, OptionTypes
  <2>3. DriverTypes'
    BY <1>9 DEF SetSettings, DriverTypes
  <2>4. RunTypes'
    BY <1>9 DEF SetSettings, RunTypes
  <2>5. QED
    BY <2>1, <2>2, <2>3, <2>4 DEF TypeOK
<1>10. ASSUME NEW a \in BOOLEAN, NEW b \in Maybe(Buses), SetReference(a, b) PROVE TypeOK'
  <2>1. InputTypes'
    BY <1>10 DEF SetReference, InputTypes
  <2>2. OptionTypes'
    BY <1>10 DEF SetReference, OptionTypes, Maybe
  <2>3. DriverTypes'
    BY <1>10 DEF SetReference, DriverTypes
  <2>4. RunTypes'
    BY <1>10 DEF SetReference, RunTypes
  <2>5. QED
    BY <2>1, <2>2, <2>3, <2>4 DEF TypeOK
<1>11. ASSUME NEW rd \in BOOLEAN, NEW sat \in Maybe(ExtSats), SetSlack(rd, sat) PROVE TypeOK'
  <2>1. InputTypes'
    BY <1>11 DEF SetSlack, InputTypes
  <2>2. OptionTypes'
    BY <1>11 DEF SetSlack, OptionTypes
  <2>3. DriverTypes'
    BY <1>11 DEF SetSlack, DriverTypes
  <2>4. RunTypes'
    BY <1>11 DEF SetSlack, RunTypes
  <2>5. QED
    BY <2>1, <2>2, <2>3, <2>4 DEF TypeOK
<1>12. ASSUME NEW k \in BOOLEAN, SetKeepJacobian(k) PROVE TypeOK'
  <2>1. InputTypes'
    BY <1>12 DEF SetKeepJacobian, InputTypes
  <2>2. OptionTypes'
    BY <1>12 DEF SetKeepJacobian, OptionTypes
  <2>3. DriverTypes'
    BY <1>12 DEF SetKeepJacobian, DriverTypes
  <2>4. RunTypes'
    BY <1>12 DEF SetKeepJacobian, RunTypes
  <2>5. QED
    BY <2>1, <2>2, <2>3, <2>4 DEF TypeOK
<1>13. QED
  BY <1>1, <1>2, <1>3, <1>4, <1>5, <1>6, <1>7, <1>8, <1>9, <1>10, <1>11, <1>12 DEF Setters

LEMMA TypeRun == TypeOK /\ Run => TypeOK'
<1>. SUFFICES ASSUME TypeOK, Run PROVE TypeOK'
  OBVIOUS
<1>. USE DEF inputVars, refVars, slackVars, driverVars, runVars
<1>. InputTypes /\ OptionTypes /\ DriverTypes /\ RunTypes
  BY DEF TypeOK
<1>1. CASE RunRefused
  <2>1. InputTypes'
    BY <1>1 DEF RunRefused, InputTypes
  <2>2. OptionTypes'
    BY <1>1 DEF RunRefused, OptionTypes
  <2>3. DriverTypes'
    BY <1>1 DEF RunRefused, DriverTypes
  <2>4. RunTypes'
    BY <1>1 DEF RunRefused, RunTypes
  <2>5. QED
    BY <2>1, <2>2, <2>3, <2>4 DEF TypeOK
<1>2. CASE RunKeepsBase
  <2>1. InputTypes'
    BY <1>2 DEF RunKeepsBase, InputTypes, StartRun
  <2>2. OptionTypes'
    BY <1>2, ReferenceType, NeededType DEF RunKeepsBase, OptionTypes, StartRun, Maybe
  <2>3. DriverTypes'
    BY <1>2 DEF RunKeepsBase, DriverTypes, StartRun, AfterChecks
  <2>4. RunTypes'
    BY <1>2 DEF RunKeepsBase, RunTypes, StartRun, AfterChecks
  <2>5. QED
    BY <2>1, <2>2, <2>3, <2>4 DEF TypeOK
<1>3. CASE RunRebuildsBase
  <2>1. InputTypes'
    BY <1>3 DEF RunRebuildsBase, InputTypes, StartRun, DropDriver
  <2>2. OptionTypes'
    BY <1>3, ReferenceType, NeededType
       DEF RunRebuildsBase, OptionTypes, StartRun, DropDriver, Maybe
  <2>3. DriverTypes'
    BY <1>3 DEF RunRebuildsBase, DriverTypes, StartRun, DropDriver, AfterChecks, Maybe
  <2>4. RunTypes'
    BY <1>3 DEF RunRebuildsBase, RunTypes, StartRun, DropDriver, AfterChecks
  <2>5. QED
    BY <2>1, <2>2, <2>3, <2>4 DEF TypeOK
<1>4. CASE RunFailsToRebuildBase
  <2>1. InputTypes'
    BY <1>4 DEF RunFailsToRebuildBase, InputTypes, StartRun, DropDriver
  <2>2. OptionTypes'
    BY <1>4, ReferenceType, NeededType
       DEF RunFailsToRebuildBase, OptionTypes, StartRun, DropDriver, Maybe
  <2>3. DriverTypes'
    BY <1>4 DEF RunFailsToRebuildBase, DriverTypes, StartRun, DropDriver, Maybe
  <2>4. RunTypes'
    BY <1>4 DEF RunFailsToRebuildBase, RunTypes, StartRun, DropDriver, Gap
  <2>5. QED
    BY <2>1, <2>2, <2>3, <2>4 DEF TypeOK
<1>5. CASE RunHot
  <2>1. InputTypes'
    BY <1>5, SourceTripsType
       DEF RunHot, InputTypes, TakePath, UploadInjections, ResetRows, SourceTrips
  <2>2. OptionTypes'
    BY <1>5 DEF RunHot, OptionTypes, TakePath
  <2>3. DriverTypes'
    BY <1>5, CurrentConfigType, NoneAssumption DEF RunHot, DriverTypes, TakePath, Cold
  <2>4. RunTypes'
    BY <1>5 DEF RunHot, RunTypes, TakePath, ChosenPath
  <2>5. QED
    BY <2>1, <2>2, <2>3, <2>4 DEF TypeOK
<1>6. CASE RunNewSource
  <2>1. InputTypes'
    BY <1>6, SourceTripsType
       DEF RunNewSource, InputTypes, TakePath, UploadInjections, ResetRows, SourceTrips
  <2>2. OptionTypes'
    BY <1>6 DEF RunNewSource, OptionTypes, TakePath
  <2>3. DriverTypes'
    BY <1>6, BareSourceType, FreshFlagsType, CurrentConfigType, NoneAssumption
       DEF RunNewSource, DriverTypes, TakePath, ResetRows, Maybe
  <2>4. RunTypes'
    BY <1>6 DEF RunNewSource, RunTypes, TakePath, ChosenPath, ClearedGaps
  <2>5. QED
    BY <2>1, <2>2, <2>3, <2>4 DEF TypeOK
<1>7. CASE RunFailsToBuildDriver
  <2>1. InputTypes'
    BY <1>7, SourceTripsType
       DEF RunFailsToBuildDriver, InputTypes, TakePath, UploadInjections, ResetRows, SourceTrips
  <2>2. OptionTypes'
    BY <1>7 DEF RunFailsToBuildDriver, OptionTypes, TakePath
  <2>3. DriverTypes'
    BY <1>7, FreshFlagsType
       DEF RunFailsToBuildDriver, DriverTypes, TakePath, ResetRows, Maybe, DropDriver
  <2>4. RunTypes'
    BY <1>7 DEF RunFailsToBuildDriver, RunTypes, TakePath, ChosenPath, ClearedGaps
  <2>5. QED
    BY <2>1, <2>2, <2>3, <2>4 DEF TypeOK
<1>8. CASE RunStage
  <2>1. InputTypes'
    BY <1>8 DEF RunStage, InputTypes
  <2>2. OptionTypes'
    BY <1>8 DEF RunStage, OptionTypes
  <2>3. DriverTypes'
    <3>1. src \in Sources
      BY <1>8 DEF RunStage, DriverTypes, Maybe
    <3>2. src' \in Sources
      BY <1>8, <3>1 DEF RunStage, InputTypes, Sources
    <3>3. QED
      BY <1>8, <3>2, NoneIsNoSource DEF RunStage, DriverTypes, Maybe
  <2>4. RunTypes'
    BY <1>8 DEF RunStage, RunTypes
  <2>5. QED
    BY <2>1, <2>2, <2>3, <2>4 DEF TypeOK
<1>9. CASE RunSlackRefused
  <2>1. InputTypes'
    BY <1>9 DEF RunSlackRefused, InputTypes
  <2>2. OptionTypes'
    BY <1>9 DEF RunSlackRefused, OptionTypes
  <2>3. DriverTypes'
    BY <1>9 DEF RunSlackRefused, DriverTypes
  <2>4. RunTypes'
    BY <1>9 DEF RunSlackRefused, RunTypes, Gap
  <2>5. QED
    BY <2>1, <2>2, <2>3, <2>4 DEF TypeOK
<1>10. CASE RunSlack
  <2>1. InputTypes'
    BY <1>10 DEF RunSlack, InputTypes
  <2>2. OptionTypes'
    BY <1>10 DEF RunSlack, OptionTypes, SlackActive
  <2>3. DriverTypes'
    BY <1>10, WeightsType, NoneAssumption DEF RunSlack, DriverTypes, Sources, Maybe
  <2>4. RunTypes'
    BY <1>10 DEF RunSlack, RunTypes
  <2>5. QED
    BY <2>1, <2>2, <2>3, <2>4 DEF TypeOK
<1>11. CASE RunSolveRefused
  <2>1. InputTypes'
    BY <1>11 DEF RunSolveRefused, InputTypes
  <2>2. OptionTypes'
    BY <1>11 DEF RunSolveRefused, OptionTypes
  <2>3. DriverTypes'
    BY <1>11 DEF RunSolveRefused, DriverTypes
  <2>4. RunTypes'
    BY <1>11 DEF RunSolveRefused, RunTypes
  <2>5. QED
    BY <2>1, <2>2, <2>3, <2>4 DEF TypeOK
<1>12. CASE RunSolve
  <2>1. InputTypes'
    BY <1>12 DEF RunSolve, InputTypes
  <2>2. OptionTypes'
    BY <1>12 DEF RunSolve, OptionTypes
  <2>3. DriverTypes'
    BY <1>12 DEF RunSolve, DriverTypes, OptionTypes
  <2>4. RunTypes'
    BY <1>12, NoneAssumption DEF RunSolve, RunTypes, DriverTypes, Sources, Config, Answers, Maybe
  <2>5. QED
    BY <2>1, <2>2, <2>3, <2>4 DEF TypeOK
<1>13. CASE RunReturn
  <2>1. InputTypes'
    BY <1>13 DEF RunReturn, InputTypes
  <2>2. OptionTypes'
    BY <1>13 DEF RunReturn, OptionTypes
  <2>3. DriverTypes'
    BY <1>13 DEF RunReturn, DriverTypes
  <2>4. RunTypes'
    BY <1>13 DEF RunReturn, RunTypes, Maybe
  <2>5. QED
    BY <2>1, <2>2, <2>3, <2>4 DEF TypeOK
<1>14. CASE RunFailsInNewSource
  <2>1. InputTypes'
    BY <1>14, SourceTripsType
       DEF RunFailsInNewSource, InputTypes, TakePath, UploadInjections, ResetRows, SourceTrips
  <2>2. OptionTypes'
    BY <1>14 DEF RunFailsInNewSource, OptionTypes, TakePath
  <2>3. DriverTypes'
    <3>1. src' \in Sources /\ jacLive' \in BOOLEAN /\ pc' = "idle"
      BY <1>14, BareSourceType DEF RunFailsInNewSource
    <3>2. flags' \in RowFlags
      BY <1>14, FreshFlagsType DEF RunFailsInNewSource, ResetRows
    <3>3. drvCfg' = drvCfg /\ drvCfg = CurrentConfig
      BY <1>14 DEF RunFailsInNewSource, Warm, Cold
    <3>4. CurrentConfig \in Config
      BY CurrentConfigType
    <3>5. drvCfg' # None /\ src' # None
      BY <3>1, <3>3, <3>4, NoneAssumption
    <3>6. QED
      BY <3>1, <3>2, <3>3, <3>4, <3>5 DEF DriverTypes, Maybe
  <2>4. RunTypes'
    BY <1>14 DEF RunFailsInNewSource, RunTypes, TakePath, ChosenPath, ClearedGaps
  <2>5. QED
    BY <2>1, <2>2, <2>3, <2>4 DEF TypeOK
<1>15. QED
  BY <1>1, <1>2, <1>3, <1>4, <1>5, <1>6, <1>7, <1>8, <1>9, <1>10, <1>11, <1>12, <1>13, <1>14
     DEF Run

(* Every variable keeps its type, and the source lives as long as the      *)
(* driver it belongs to.                                                   *)
THEOREM TypeCorrect == Spec => []TypeOK
<1>1. Init => TypeOK
  BY TypeInit
<1>2. TypeOK /\ [Next]_vars => TypeOK'
  <2>. SUFFICES ASSUME TypeOK, [Next]_vars PROVE TypeOK'
    OBVIOUS
  <2>1. CASE UNCHANGED vars
    BY <2>1
       DEF TypeOK, InputTypes, OptionTypes, DriverTypes, RunTypes, vars, inputVars, refVars,
                slackVars, driverVars, runVars
  <2>2. QED
    BY <2>1, TypeSetters, TypeRun DEF Next
<1>3. QED
  BY <1>1, <1>2, PTL DEF Spec

(***************************************************************************)
(* Freshness.  SolveReadsStagedInputs is not inductive: it needs to know   *)
(* between two calls which of the inputs the driver already holds, which   *)
(* is what the clean flags say (CleanMeansCached).                         *)
(***************************************************************************)
LEMMA SourceOfWarmOrHot == TypeOK /\ ~Cold => src # None
BY CurrentConfigType, NoneAssumption DEF TypeOK, DriverTypes, Cold

LEMMA FreshnessInit == Init => FreshnessInv
BY DEF Init, FreshnessInv, CleanMeansCached, RunHoldsInputs, AnswerIsTheSource, Input

LEMMA FreshnessSetters == TypeOK /\ FreshnessInv /\ Setters => FreshnessInv'
<1>. SUFFICES ASSUME TypeOK, FreshnessInv, Setters PROVE FreshnessInv'
  OBVIOUS
<1>. USE DEF inputVars, refVars, slackVars, driverVars, runVars, SourceDirty
<1>. /\ InputTypes /\ OptionTypes /\ DriverTypes /\ RunTypes
     /\ CleanMeansCached /\ RunHoldsInputs /\ AnswerIsTheSource
  BY DEF TypeOK, FreshnessInv
<1>1. ASSUME NEW v \in Injections, SetInjections(v) PROVE FreshnessInv'
  <2>1. CleanMeansCached'
    BY <1>1 DEF SetInjections, CleanMeansCached, InputTypes, Input
  <2>2. RunHoldsInputs'
    BY <1>1 DEF SetInjections, RunHoldsInputs
  <2>3. AnswerIsTheSource'
    BY <1>1 DEF SetInjections, AnswerIsTheSource
  <2>4. QED
    BY <2>1, <2>2, <2>3 DEF FreshnessInv
<1>2. ASSUME NEW v \in Injections, SetInjectionsDevice(v) PROVE FreshnessInv'
  <2>1. CleanMeansCached'
    BY <1>2 DEF SetInjectionsDevice, CleanMeansCached, InputTypes, Input
  <2>2. RunHoldsInputs'
    BY <1>2 DEF SetInjectionsDevice, RunHoldsInputs
  <2>3. AnswerIsTheSource'
    BY <1>2 DEF SetInjectionsDevice, AnswerIsTheSource
  <2>4. QED
    BY <2>1, <2>2, <2>3 DEF FreshnessInv
<1>3. ASSUME NEW v \in Maybe(GenVs), SetGenV(v) PROVE FreshnessInv'
  <2>1. CleanMeansCached'
    BY <1>3 DEF SetGenV, CleanMeansCached, InputTypes, Input
  <2>2. RunHoldsInputs'
    BY <1>3 DEF SetGenV, RunHoldsInputs
  <2>3. AnswerIsTheSource'
    BY <1>3 DEF SetGenV, AnswerIsTheSource
  <2>4. QED
    BY <2>1, <2>2, <2>3 DEF FreshnessInv
<1>4. ASSUME NEW g \in GenMasks, SetContingencyGens(g) PROVE FreshnessInv'
  <2>1. CleanMeansCached'
    BY <1>4 DEF SetContingencyGens, CleanMeansCached, InputTypes, Input
  <2>2. RunHoldsInputs'
    BY <1>4 DEF SetContingencyGens, RunHoldsInputs
  <2>3. AnswerIsTheSource'
    BY <1>4 DEF SetContingencyGens, AnswerIsTheSource
  <2>4. QED
    BY <2>1, <2>2, <2>3 DEF FreshnessInv
<1>5. ASSUME NEW m \in Maybe(SkipMasks), SetSkippedRows(m) PROVE FreshnessInv'
  <2>1. CleanMeansCached'
    BY <1>5 DEF SetSkippedRows, CleanMeansCached, InputTypes, Input
  <2>2. RunHoldsInputs'
    BY <1>5 DEF SetSkippedRows, RunHoldsInputs
  <2>3. AnswerIsTheSource'
    BY <1>5 DEF SetSkippedRows, AnswerIsTheSource
  <2>4. QED
    BY <2>1, <2>2, <2>3 DEF FreshnessInv
<1>6. ASSUME NEW t \in Topologies, SetTopology(t) PROVE FreshnessInv'
  <2>1. CleanMeansCached'
    BY <1>6 DEF SetTopology, CleanMeansCached, InputTypes, Input
  <2>2. RunHoldsInputs'
    BY <1>6 DEF SetTopology, RunHoldsInputs
  <2>3. AnswerIsTheSource'
    BY <1>6 DEF SetTopology, AnswerIsTheSource
  <2>4. QED
    BY <2>1, <2>2, <2>3 DEF FreshnessInv
<1>7. ASSUME NEW t \in Topologies, SetTopologyRefused(t) PROVE FreshnessInv'
  <2>1. CleanMeansCached'
    BY <1>7 DEF SetTopologyRefused, CleanMeansCached, InputTypes, Input
  <2>2. RunHoldsInputs'
    BY <1>7 DEF SetTopologyRefused, RunHoldsInputs
  <2>3. AnswerIsTheSource'
    BY <1>7 DEF SetTopologyRefused, AnswerIsTheSource
  <2>4. QED
    BY <2>1, <2>2, <2>3 DEF FreshnessInv
<1>8. ASSUME NEW b \in BranchSets, SetBranchData(b) PROVE FreshnessInv'
  <2>1. CleanMeansCached'
    BY <1>8 DEF SetBranchData, CleanMeansCached, InputTypes, Input
  <2>2. RunHoldsInputs'
    BY <1>8 DEF SetBranchData, RunHoldsInputs
  <2>3. AnswerIsTheSource'
    BY <1>8 DEF SetBranchData, AnswerIsTheSource
  <2>4. QED
    BY <2>1, <2>2, <2>3 DEF FreshnessInv
<1>9. ASSUME NEW s \in Settings, SetSettings(s) PROVE FreshnessInv'
  <2>1. CleanMeansCached'
    BY <1>9 DEF SetSettings, CleanMeansCached
  <2>2. RunHoldsInputs'
    BY <1>9 DEF SetSettings, RunHoldsInputs
  <2>3. AnswerIsTheSource'
    BY <1>9 DEF SetSettings, AnswerIsTheSource
  <2>4. QED
    BY <2>1, <2>2, <2>3 DEF FreshnessInv
<1>10. ASSUME NEW a \in BOOLEAN, NEW b \in Maybe(Buses), SetReference(a, b) PROVE FreshnessInv'
  <2>1. CleanMeansCached'
    BY <1>10 DEF SetReference, CleanMeansCached
  <2>2. RunHoldsInputs'
    BY <1>10 DEF SetReference, RunHoldsInputs
  <2>3. AnswerIsTheSource'
    BY <1>10 DEF SetReference, AnswerIsTheSource
  <2>4. QED
    BY <2>1, <2>2, <2>3 DEF FreshnessInv
<1>11. ASSUME NEW rd \in BOOLEAN, NEW sat \in Maybe(ExtSats), SetSlack(rd, sat) PROVE FreshnessInv'
  <2>1. CleanMeansCached'
    BY <1>11 DEF SetSlack, CleanMeansCached
  <2>2. RunHoldsInputs'
    BY <1>11 DEF SetSlack, RunHoldsInputs
  <2>3. AnswerIsTheSource'
    BY <1>11 DEF SetSlack, AnswerIsTheSource
  <2>4. QED
    BY <2>1, <2>2, <2>3 DEF FreshnessInv
<1>12. ASSUME NEW k \in BOOLEAN, SetKeepJacobian(k) PROVE FreshnessInv'
  <2>1. CleanMeansCached'
    BY <1>12 DEF SetKeepJacobian, CleanMeansCached
  <2>2. RunHoldsInputs'
    BY <1>12 DEF SetKeepJacobian, RunHoldsInputs
  <2>3. AnswerIsTheSource'
    BY <1>12 DEF SetKeepJacobian, AnswerIsTheSource
  <2>4. QED
    BY <2>1, <2>2, <2>3 DEF FreshnessInv
<1>13. QED
  BY <1>1, <1>2, <1>3, <1>4, <1>5, <1>6, <1>7, <1>8, <1>9, <1>10, <1>11, <1>12 DEF Setters

LEMMA FreshnessRun == TypeOK /\ FreshnessInv /\ Run => FreshnessInv'
<1>. SUFFICES ASSUME TypeOK, FreshnessInv, Run PROVE FreshnessInv'
  OBVIOUS
<1>. USE DEF inputVars, refVars, slackVars, driverVars, runVars, SourceDirty
<1>. /\ InputTypes /\ OptionTypes /\ DriverTypes /\ RunTypes
     /\ CleanMeansCached /\ RunHoldsInputs /\ AnswerIsTheSource
  BY DEF TypeOK, FreshnessInv
<1>1. CASE RunRefused
  <2>1. CleanMeansCached'
    BY <1>1 DEF RunRefused, CleanMeansCached
  <2>2. RunHoldsInputs'
    BY <1>1 DEF RunRefused, RunHoldsInputs
  <2>3. AnswerIsTheSource'
    BY <1>1 DEF RunRefused, AnswerIsTheSource
  <2>4. QED
    BY <2>1, <2>2, <2>3 DEF FreshnessInv
<1>2. CASE RunKeepsBase
  <2>1. CleanMeansCached'
    BY <1>2 DEF RunKeepsBase, CleanMeansCached, StartRun, AfterChecks
  <2>2. RunHoldsInputs'
    BY <1>2 DEF RunKeepsBase, RunHoldsInputs, StartRun, AfterChecks
  <2>3. AnswerIsTheSource'
    BY <1>2 DEF RunKeepsBase, AnswerIsTheSource, StartRun, AfterChecks
  <2>4. QED
    BY <2>1, <2>2, <2>3 DEF FreshnessInv
<1>3. CASE RunRebuildsBase
  <2>1. CleanMeansCached'
    BY <1>3 DEF RunRebuildsBase, CleanMeansCached, StartRun, DropDriver
  <2>2. RunHoldsInputs'
    BY <1>3 DEF RunRebuildsBase, RunHoldsInputs, StartRun, DropDriver, AfterChecks
  <2>3. AnswerIsTheSource'
    BY <1>3 DEF RunRebuildsBase, AnswerIsTheSource, StartRun, DropDriver, AfterChecks
  <2>4. QED
    BY <2>1, <2>2, <2>3 DEF FreshnessInv
<1>4. CASE RunFailsToRebuildBase
  <2>1. CleanMeansCached'
    BY <1>4 DEF RunFailsToRebuildBase, CleanMeansCached, StartRun, DropDriver
  <2>2. RunHoldsInputs'
    BY <1>4 DEF RunFailsToRebuildBase, RunHoldsInputs, StartRun, DropDriver
  <2>3. AnswerIsTheSource'
    BY <1>4 DEF RunFailsToRebuildBase, AnswerIsTheSource, StartRun, DropDriver
  <2>4. QED
    BY <2>1, <2>2, <2>3 DEF FreshnessInv
<1>5. CASE RunHot
  <2>1. CleanMeansCached'
    BY <1>5 DEF RunHot, CleanMeansCached, TakePath, UploadInjections, ChosenPath
  <2>2. RunHoldsInputs'
    BY <1>5, SourceOfWarmOrHot
       DEF RunHot, RunHoldsInputs, TakePath, UploadInjections, Warm, SourceDirty,
           CleanMeansCached, Cold, CurrentConfig, NumRows
  <2>3. AnswerIsTheSource'
    BY <1>5 DEF RunHot, AnswerIsTheSource, TakePath
  <2>4. QED
    BY <2>1, <2>2, <2>3 DEF FreshnessInv
<1>6. CASE RunNewSource
  <2>1. CleanMeansCached'
    BY <1>6
       DEF RunNewSource, CleanMeansCached, TakePath, UploadInjections, ResetRows, ClearedGaps,
           ChosenPath, BareSource
  <2>2. RunHoldsInputs'
    BY <1>6
       DEF RunNewSource, BareSource, ChosenPath, RunHoldsInputs, TakePath, UploadInjections,
           ResetRows, CleanMeansCached, ClearedGaps, CurrentConfig, NumRows
  <2>3. AnswerIsTheSource'
    BY <1>6 DEF RunNewSource, AnswerIsTheSource, TakePath
  <2>4. QED
    BY <2>1, <2>2, <2>3 DEF FreshnessInv
<1>7. CASE RunFailsToBuildDriver
  <2>1. CleanMeansCached'
    BY <1>7 DEF RunFailsToBuildDriver, CleanMeansCached, TakePath, DropDriver, UploadInjections
  <2>2. RunHoldsInputs'
    BY <1>7 DEF RunFailsToBuildDriver, RunHoldsInputs, TakePath, DropDriver
  <2>3. AnswerIsTheSource'
    BY <1>7 DEF RunFailsToBuildDriver, AnswerIsTheSource, TakePath, DropDriver
  <2>4. QED
    BY <2>1, <2>2, <2>3 DEF FreshnessInv
<1>8. CASE RunStage
  <2>1. CleanMeansCached'
    BY <1>8
       DEF RunStage, CleanMeansCached, RunHoldsInputs, InputTypes, DriverTypes, Sources, Maybe
  <2>2. RunHoldsInputs'
    BY <1>8
       DEF RunStage, RunHoldsInputs, CleanMeansCached, CurrentConfig, NumRows, InputTypes,
           DriverTypes, Sources, Maybe
  <2>3. AnswerIsTheSource'
    BY <1>8 DEF RunStage, AnswerIsTheSource
  <2>4. QED
    BY <2>1, <2>2, <2>3 DEF FreshnessInv
<1>9. CASE RunSlackRefused
  <2>1. CleanMeansCached'
    BY <1>9 DEF RunSlackRefused, CleanMeansCached
  <2>2. RunHoldsInputs'
    BY <1>9 DEF RunSlackRefused, RunHoldsInputs
  <2>3. AnswerIsTheSource'
    BY <1>9 DEF RunSlackRefused, AnswerIsTheSource
  <2>4. QED
    BY <2>1, <2>2, <2>3 DEF FreshnessInv
<1>10. CASE RunSlack
  <2>1. CleanMeansCached'
    BY <1>10 DEF RunSlack, CleanMeansCached, InputTypes, DriverTypes, Sources, Maybe
  <2>2. RunHoldsInputs'
    BY <1>10
       DEF RunSlack, RunHoldsInputs, CurrentConfig, NumRows, InputTypes, DriverTypes, Sources,
           Maybe
  <2>3. AnswerIsTheSource'
    BY <1>10 DEF RunSlack, AnswerIsTheSource
  <2>4. QED
    BY <2>1, <2>2, <2>3 DEF FreshnessInv
<1>11. CASE RunSolveRefused
  <2>1. CleanMeansCached'
    BY <1>11 DEF RunSolveRefused, CleanMeansCached
  <2>2. RunHoldsInputs'
    BY <1>11 DEF RunSolveRefused, RunHoldsInputs
  <2>3. AnswerIsTheSource'
    BY <1>11 DEF RunSolveRefused, AnswerIsTheSource
  <2>4. QED
    BY <2>1, <2>2, <2>3 DEF FreshnessInv
<1>12. CASE RunSolve
  <2>1. CleanMeansCached'
    BY <1>12 DEF RunSolve, CleanMeansCached, RunHoldsInputs, Input
  <2>2. RunHoldsInputs'
    BY <1>12 DEF RunSolve, RunHoldsInputs, CurrentConfig, NumRows
  <2>3. AnswerIsTheSource'
    BY <1>12 DEF RunSolve, AnswerIsTheSource
  <2>4. QED
    BY <2>1, <2>2, <2>3 DEF FreshnessInv
<1>13. CASE RunReturn
  <2>1. CleanMeansCached'
    BY <1>13 DEF RunReturn, CleanMeansCached
  <2>2. RunHoldsInputs'
    BY <1>13 DEF RunReturn, RunHoldsInputs
  <2>3. AnswerIsTheSource'
    BY <1>13 DEF RunReturn, AnswerIsTheSource
  <2>4. QED
    BY <2>1, <2>2, <2>3 DEF FreshnessInv
<1>14. CASE RunFailsInNewSource
  <2>1. CleanMeansCached'
    BY <1>14, SourceOfWarmOrHot
       DEF RunFailsInNewSource, CleanMeansCached, TakePath, UploadInjections, ResetRows,
           ClearedGaps, Warm, BareSource
  <2>2. RunHoldsInputs'
    BY <1>14 DEF RunFailsInNewSource, RunHoldsInputs, TakePath
  <2>3. AnswerIsTheSource'
    BY <1>14 DEF RunFailsInNewSource, AnswerIsTheSource, TakePath
  <2>4. QED
    BY <2>1, <2>2, <2>3 DEF FreshnessInv
<1>15. QED
  BY <1>1, <1>2, <1>3, <1>4, <1>5, <1>6, <1>7, <1>8, <1>9, <1>10, <1>11, <1>12, <1>13, <1>14
     DEF Run

LEMMA FreshnessNext == TypeOK /\ FreshnessInv /\ [Next]_vars => FreshnessInv'
<1>. SUFFICES ASSUME TypeOK, FreshnessInv, [Next]_vars PROVE FreshnessInv'
  OBVIOUS
<1>1. CASE UNCHANGED vars
  BY <1>1 DEF FreshnessInv, CleanMeansCached, RunHoldsInputs, AnswerIsTheSource, CurrentConfig,
              SourceDirty, NumRows, vars, inputVars, refVars, slackVars, driverVars, runVars
<1>2. QED
  BY <1>1, FreshnessSetters, FreshnessRun DEF Next

THEOREM FreshnessCorrect == Spec => []FreshnessInv
<1>1. TypeOK /\ FreshnessInv /\ [Next]_vars => FreshnessInv'
  BY FreshnessNext
<1>2. QED
  BY <1>1, FreshnessInit, TypeCorrect, PTL DEF Spec

(* What the kernels read is what the caller staged last.                   *)
THEOREM FreshInputs == Spec => []SolveReadsStagedInputs
<1>1. FreshnessInv => SolveReadsStagedInputs
  BY DEF FreshnessInv, RunHoldsInputs, SolveReadsStagedInputs
<1>2. QED
  BY <1>1, FreshnessCorrect, PTL
(***************************************************************************)
(* The Jacobian kept for the alias-mode adjoint.                           *)
(***************************************************************************)
JacobianInv == KeptJacobianIsLive /\ (keptJ => pc \in {"idle", "return"})

LEMMA JacobianNext == TypeOK /\ JacobianInv /\ [Next]_vars => JacobianInv'
<1>. SUFFICES ASSUME TypeOK, JacobianInv, [Next]_vars PROVE JacobianInv'
  OBVIOUS
<1>. USE DEF JacobianInv, KeptJacobianIsLive, inputVars, refVars, slackVars, driverVars, runVars
<1>1. CASE Setters
  BY <1>1
     DEF Setters, SetInjections, SetInjectionsDevice, SetGenV, SetContingencyGens, SetSkippedRows,
         SetTopology, SetTopologyRefused, SetBranchData, SetSettings, SetReference, SetSlack,
         SetKeepJacobian
<1>2. CASE RunRefused \/ RunKeepsBase \/ RunRebuildsBase \/ RunFailsToRebuildBase
  BY <1>2
     DEF RunRefused, RunKeepsBase, RunRebuildsBase, RunFailsToRebuildBase, StartRun
<1>3. CASE RunHot \/ RunNewSource \/ RunFailsInNewSource \/ RunFailsToBuildDriver
  BY <1>3 DEF RunHot, RunNewSource, RunFailsInNewSource, RunFailsToBuildDriver, TakePath
<1>4. CASE RunStage \/ RunSlackRefused \/ RunSlack \/ RunSolveRefused
  BY <1>4 DEF RunStage, RunSlackRefused, RunSlack, RunSolveRefused
<1>5. CASE RunSolve
  BY <1>5 DEF RunSolve, TypeOK, DriverTypes
<1>6. CASE RunReturn
  BY <1>6 DEF RunReturn
<1>7. CASE UNCHANGED vars
  BY <1>7 DEF vars
<1>8. QED
  BY <1>1, <1>2, <1>3, <1>4, <1>5, <1>6, <1>7 DEF Next, Run

(* last_run_kept_jacobian_ never outlives the driver, the source and the   *)
(* converged point its Jacobian belongs to.                                *)
THEOREM KeptJacobianCorrect == Spec => []KeptJacobianIsLive
<1>1. Init => JacobianInv
  BY DEF Init, JacobianInv, KeptJacobianIsLive
<1>2. TypeOK /\ JacobianInv /\ [Next]_vars => JacobianInv'
  BY JacobianNext
<1>3. JacobianInv => KeptJacobianIsLive
  BY DEF JacobianInv
<1>4. QED
  BY <1>1, <1>2, <1>3, TypeCorrect, PTL DEF Spec

(***************************************************************************)
(* The per-row flags and the voltages come from one source.                *)
(***************************************************************************)
LEMMA FlagsNext == TypeOK /\ FlagsDescribeSource /\ [Next]_vars => FlagsDescribeSource'
<1>. SUFFICES ASSUME TypeOK, FlagsDescribeSource, [Next]_vars PROVE FlagsDescribeSource'
  OBVIOUS
<1>. USE DEF FlagsDescribeSource, inputVars, refVars, slackVars, driverVars, runVars
<1>1. CASE Setters
  BY <1>1
     DEF Setters, SetInjections, SetInjectionsDevice, SetGenV, SetContingencyGens, SetSkippedRows,
         SetTopology, SetTopologyRefused, SetBranchData, SetSettings, SetReference, SetSlack,
         SetKeepJacobian
<1>2. CASE RunRefused \/ RunKeepsBase \/ RunRebuildsBase \/ RunFailsToRebuildBase
  BY <1>2
     DEF RunRefused, RunKeepsBase, RunRebuildsBase, RunFailsToRebuildBase, StartRun, DropDriver
<1>3. CASE RunHot \/ RunNewSource \/ RunFailsInNewSource \/ RunFailsToBuildDriver
  BY <1>3
     DEF RunHot, RunNewSource, RunFailsInNewSource, RunFailsToBuildDriver, TakePath, ResetRows,
         DropDriver, BareSource
<1>4. CASE RunStage \/ RunSlack
  BY <1>4 DEF RunStage, RunSlack, TypeOK, DriverTypes, Sources, Maybe
<1>5. CASE RunSlackRefused \/ RunSolveRefused \/ RunSolve \/ RunReturn
  BY <1>5 DEF RunSlackRefused, RunSolveRefused, RunSolve, RunReturn
<1>6. CASE UNCHANGED vars
  BY <1>6 DEF vars
<1>7. QED
  BY <1>1, <1>2, <1>3, <1>4, <1>5, <1>6 DEF Next, Run

(* get_disconnected() describes the source the voltages were solved on.    *)
THEOREM FlagsCorrect == Spec => []FlagsDescribeSource
<1>1. Init => FlagsDescribeSource
  BY DEF Init, FlagsDescribeSource
<1>2. TypeOK /\ FlagsDescribeSource /\ [Next]_vars => FlagsDescribeSource'
  BY FlagsNext
<1>3. QED
  BY <1>1, <1>2, TypeCorrect, PTL DEF Spec

(***************************************************************************)
(* What the batch is built with.  BatchMatchesSession speaks of the solve  *)
(* only; BatchInv says what the caches behind it (reference choice, base   *)
(* state, patches, weights) are worth between the calls, each up to the    *)
(* open path in gaps that spoils it.                                       *)
(***************************************************************************)
LEMMA NoneIsNoBus == None \notin Buses
BY ConstantsAssumption

LEMMA ReferenceChosen ==
  TypeOK /\ ChoosesReference => CachedChoice \in Buses /\ CachedChoice # None
BY ReferenceType, NoneIsNoBus DEF TypeOK

LEMMA ReferenceCacheNext ==
  TypeOK /\ ReferenceIsCached /\ [Next]_vars => ReferenceIsCached'
<1>. SUFFICES ASSUME TypeOK, ReferenceIsCached, [Next]_vars PROVE ReferenceIsCached'
  OBVIOUS
<1>. USE DEF ReferenceIsCached, ChooseReference, inputVars, refVars, slackVars, driverVars, runVars
<1>1. CASE \/ \E v \in Injections : SetInjections(v) \/ SetInjectionsDevice(v)
           \/ \E v \in Maybe(GenVs) : SetGenV(v)
           \/ \E g \in GenMasks : SetContingencyGens(g)
           \/ \E s \in Maybe(SkipMasks) : SetSkippedRows(s)
           \/ \E s \in Settings : SetSettings(s)
           \/ \E rd \in BOOLEAN, sat \in Maybe(ExtSats) : SetSlack(rd, sat)
           \/ \E k \in BOOLEAN : SetKeepJacobian(k)
  BY <1>1
     DEF SetInjections, SetInjectionsDevice, SetGenV, SetContingencyGens, SetSkippedRows,
         SetSettings, SetSlack, SetKeepJacobian
<1>2. CASE \/ \E t \in Topologies : SetTopology(t) \/ SetTopologyRefused(t)
           \/ \E a \in BOOLEAN, b \in Maybe(Buses) : SetReference(a, b)
  BY <1>2 DEF SetTopology, SetTopologyRefused, SetReference
<1>3. CASE \E b \in BranchSets : SetBranchData(b)
  BY <1>3 DEF SetBranchData, RowsFollow
<1>4. CASE RunRefused \/ RunKeepsBase \/ RunRebuildsBase \/ RunFailsToRebuildBase
  BY <1>4
     DEF RunRefused, RunKeepsBase, RunRebuildsBase, RunFailsToRebuildBase, StartRun,
         ChoosesReference, CachedChoice
<1>5. CASE RunHot \/ RunNewSource \/ RunFailsInNewSource \/ RunFailsToBuildDriver
  BY <1>5
     DEF RunHot, RunNewSource, RunFailsInNewSource, RunFailsToBuildDriver, TakePath, ResetRows,
         SourceTrips, ClearedGaps
<1>6. CASE RunStage \/ RunSlackRefused \/ RunSlack \/ RunSolveRefused \/ RunSolve \/ RunReturn
  BY <1>6 DEF RunStage, RunSlackRefused, RunSlack, RunSolveRefused, RunSolve, RunReturn
<1>7. CASE UNCHANGED vars
  BY <1>7 DEF vars
<1>8. QED
  BY <1>1, <1>2, <1>3, <1>4, <1>5, <1>6, <1>7 DEF Next, Setters, Run

(* What run() wants of the base state does not change while it runs: it    *)
(* caches the choice before it compares, and a list without rows of its    *)
(* own has no reference to choose.                                         *)
LEMMA WantedIsCached ==
  TypeOK /\ StartRun => WantedReference' = WantedReference /\ Needed' = Needed
BY ReferenceChosen
   DEF StartRun, WantedReference, CachedChoice, ChooseReference, ChoosesReference, Needed,
       inputVars, slackVars

LEMMA WantedByPath ==
  TakePath /\ (trips' = trips \/ trips' = SourceTrips) =>
    WantedReference' = WantedReference /\ Needed' = Needed
BY DEF TakePath, SourceTrips, WantedReference, CachedChoice, ChooseReference, ChoosesReference,
       Needed, refVars, slackVars

LEMMA WantedByRest ==
  UNCHANGED <<inputVars, settings, refVars>> =>
    WantedReference' = WantedReference /\ Needed' = Needed
BY DEF WantedReference, CachedChoice, ChooseReference, ChoosesReference, Needed, inputVars, refVars

LEMMA BaseFollowsNext ==
  TypeOK /\ BaseFollowsReference /\ [Next]_vars => BaseFollowsReference'
<1>. SUFFICES ASSUME TypeOK, BaseFollowsReference, [Next]_vars PROVE BaseFollowsReference'
  OBVIOUS
<1>. USE DEF BaseFollowsReference
<1>1. CASE Setters
  BY <1>1
     DEF Setters, SetInjections, SetInjectionsDevice, SetGenV, SetContingencyGens, SetSkippedRows,
         SetTopology, SetTopologyRefused, SetBranchData, SetSettings, SetReference, SetSlack,
         SetKeepJacobian, runVars, slackVars, driverVars, refVars, inputVars
<1>2. CASE RunRefused
  BY <1>2 DEF RunRefused, runVars
<1>3. CASE RunKeepsBase
  BY <1>3, WantedIsCached DEF RunKeepsBase, BaseIsCurrent, AfterChecks, StartRun
<1>4. CASE RunRebuildsBase
  BY <1>4, WantedIsCached DEF RunRebuildsBase, AfterChecks, StartRun
<1>5. CASE RunFailsToRebuildBase
  BY <1>5 DEF RunFailsToRebuildBase, StartRun
<1>6. CASE RunHot \/ RunNewSource \/ RunFailsInNewSource \/ RunFailsToBuildDriver
  <2>1. WantedReference' = WantedReference /\ Needed' = Needed
    BY <1>6, WantedByPath
       DEF RunHot, RunNewSource, RunFailsInNewSource, RunFailsToBuildDriver, ResetRows
  <2>2. UNCHANGED <<base, refBus>> /\ pc = "path"
    BY <1>6 DEF RunHot, RunNewSource, RunFailsInNewSource, RunFailsToBuildDriver, TakePath
  <2>3. "lost_reference" \notin gaps' => "lost_reference" \notin gaps
    BY <1>6 DEF RunHot, RunNewSource, RunFailsInNewSource, RunFailsToBuildDriver, ClearedGaps
  <2>4. QED
    BY <2>1, <2>2, <2>3
<1>7. CASE RunStage \/ RunSlackRefused \/ RunSlack \/ RunSolveRefused \/ RunSolve \/ RunReturn
  <2>1. WantedReference' = WantedReference /\ Needed' = Needed
    BY <1>7, WantedByRest
       DEF RunStage, RunSlackRefused, RunSlack, RunSolveRefused, RunSolve, RunReturn
  <2>2. QED
    BY <1>7, <2>1 DEF RunStage, RunSlackRefused, RunSlack, RunSolveRefused, RunSolve, RunReturn
<1>8. CASE UNCHANGED vars
  BY <1>8, WantedByRest DEF vars, runVars
<1>9. QED
  BY <1>1, <1>2, <1>3, <1>4, <1>5, <1>6, <1>7, <1>8 DEF Next, Run

LEMMA PatchesFollowNext ==
  TypeOK /\ FreshnessInv /\ PatchesFollowBranches /\ [Next]_vars => PatchesFollowBranches'
<1>. SUFFICES ASSUME TypeOK, FreshnessInv, PatchesFollowBranches, [Next]_vars
     PROVE  PatchesFollowBranches'
  OBVIOUS
<1>. USE DEF PatchesFollowBranches, inputVars, refVars, slackVars, driverVars, runVars
<1>. InputTypes /\ OptionTypes /\ DriverTypes /\ RunTypes
  BY DEF TypeOK
<1>1. CASE \/ \E v \in Injections : SetInjections(v) \/ SetInjectionsDevice(v)
           \/ \E v \in Maybe(GenVs) : SetGenV(v)
           \/ \E g \in GenMasks : SetContingencyGens(g)
           \/ \E s \in Maybe(SkipMasks) : SetSkippedRows(s)
  BY <1>1
     DEF SetInjections, SetInjectionsDevice, SetGenV, SetContingencyGens, SetSkippedRows,
         InputTypes, Input
<1>2. CASE \/ \E s \in Settings : SetSettings(s)
           \/ \E a \in BOOLEAN, b \in Maybe(Buses) : SetReference(a, b)
           \/ \E rd \in BOOLEAN, sat \in Maybe(ExtSats) : SetSlack(rd, sat)
           \/ \E k \in BOOLEAN : SetKeepJacobian(k)
  BY <1>2 DEF SetSettings, SetReference, SetSlack, SetKeepJacobian
<1>3. CASE \E t \in Topologies : SetTopology(t) \/ SetTopologyRefused(t)
  <2>1. ASSUME NEW t \in Topologies, SetTopology(t) PROVE PatchesFollowBranches'
    BY <2>1 DEF SetTopology, InputTypes, Input
  <2>2. ASSUME NEW t \in Topologies, SetTopologyRefused(t) PROVE PatchesFollowBranches'
    BY <2>2 DEF SetTopologyRefused
  <2>3. QED
    BY <1>3, <2>1, <2>2
<1>4. CASE \E b \in BranchSets : SetBranchData(b)
  BY <1>4 DEF SetBranchData, RowsFollow, InputTypes, Input, Trips
<1>5. CASE RunRefused \/ RunKeepsBase \/ RunRebuildsBase \/ RunFailsToRebuildBase
  BY <1>5
     DEF RunRefused, RunKeepsBase, RunRebuildsBase, RunFailsToRebuildBase, StartRun, DropDriver,
         AfterChecks
<1>6. CASE RunHot
  BY <1>6 DEF RunHot, TakePath, Warm, SourceDirty
<1>7. CASE RunNewSource \/ RunFailsInNewSource \/ RunFailsToBuildDriver
  <2>1. UNCHANGED <<hasTopology, branch, dirty>> /\ trips' = SourceTrips /\ gaps' = ClearedGaps
    BY <1>7 DEF RunNewSource, RunFailsInNewSource, RunFailsToBuildDriver, TakePath, ResetRows
  <2>2. src' = BareSource \/ src' = None
    BY <1>7 DEF RunNewSource, RunFailsInNewSource, RunFailsToBuildDriver, DropDriver
  <2>3. BareSource.trips = SourceTrips
    BY DEF BareSource
  <2>4. hasTopology => SourceTrips = trips /\ ClearedGaps = gaps
    BY DEF SourceTrips, ClearedGaps
  <2>5. QED
    BY <2>1, <2>2, <2>3, <2>4
<1>8. CASE RunStage \/ RunSlack
  BY <1>8 DEF RunStage, RunSlack, DriverTypes, Sources, Maybe
<1>9. CASE RunSlackRefused \/ RunSolveRefused \/ RunSolve \/ RunReturn
  BY <1>9 DEF RunSlackRefused, RunSolveRefused, RunSolve, RunReturn
<1>10. CASE UNCHANGED vars
  BY <1>10 DEF vars
<1>11. QED
  BY <1>1, <1>2, <1>3, <1>4, <1>5, <1>6, <1>7, <1>8, <1>9, <1>10 DEF Next, Setters, Run

LEMMA WeightsFollowNext ==
  TypeOK /\ FreshnessInv /\ WeightsFollowSource /\ [Next]_vars => WeightsFollowSource'
<1>. SUFFICES ASSUME TypeOK, FreshnessInv, WeightsFollowSource, [Next]_vars
     PROVE  WeightsFollowSource'
  OBVIOUS
<1>. USE DEF WeightsFollowSource, SlackWeightsFollowMask, SourceDirty, inputVars, refVars, slackVars,
             driverVars, runVars
<1>. InputTypes /\ OptionTypes /\ DriverTypes /\ RunTypes
  BY DEF TypeOK
<1>1. CASE \/ \E v \in Injections : SetInjections(v) \/ SetInjectionsDevice(v)
           \/ \E v \in Maybe(GenVs) : SetGenV(v)
           \/ \E g \in GenMasks : SetContingencyGens(g)
           \/ \E s \in Maybe(SkipMasks) : SetSkippedRows(s)
  BY <1>1
     DEF SetInjections, SetInjectionsDevice, SetGenV, SetContingencyGens, SetSkippedRows,
         InputTypes, Input
<1>2. CASE \/ \E s \in Settings : SetSettings(s)
           \/ \E a \in BOOLEAN, b \in Maybe(Buses) : SetReference(a, b)
           \/ \E rd \in BOOLEAN, sat \in Maybe(ExtSats) : SetSlack(rd, sat)
           \/ \E k \in BOOLEAN : SetKeepJacobian(k)
  BY <1>2 DEF SetSettings, SetReference, SetSlack, SetKeepJacobian
<1>3. CASE \E t \in Topologies : SetTopology(t) \/ SetTopologyRefused(t)
  BY <1>3 DEF SetTopology, SetTopologyRefused, InputTypes, Input
<1>4. CASE \E b \in BranchSets : SetBranchData(b)
  BY <1>4 DEF SetBranchData, InputTypes, Input
<1>5. CASE RunRefused \/ RunKeepsBase \/ RunRebuildsBase \/ RunFailsToRebuildBase
  BY <1>5
     DEF RunRefused, RunKeepsBase, RunRebuildsBase, RunFailsToRebuildBase, StartRun, DropDriver,
         AfterChecks
<1>6. CASE RunHot
  BY <1>6, SourceOfWarmOrHot DEF RunHot, TakePath, Warm, ChosenPath
<1>7. CASE RunNewSource \/ RunFailsInNewSource \/ RunFailsToBuildDriver
  BY <1>7
     DEF RunNewSource, RunFailsInNewSource, RunFailsToBuildDriver, TakePath, ResetRows, DropDriver,
         ClearedGaps, Warm, ChosenPath
<1>8. CASE RunStage
  BY <1>8 DEF RunStage, DriverTypes, Sources, Maybe
<1>9. CASE RunSlackRefused
  BY <1>9 DEF RunSlackRefused
<1>10. CASE RunSlack
  <2>1. src \in Sources /\ src.genOff = genOff
    BY <1>10 DEF RunSlack, DriverTypes, FreshnessInv, RunHoldsInputs, Maybe
  <2>2. WantedWeights' = WantedWeights /\ SlackActive' = SlackActive
    BY <1>10 DEF RunSlack, WantedWeights, SlackActive
  <2>3. ~SlackActive => WantedWeights = PlainWeights(genOff)
    BY DEF SlackActive, WantedWeights
  <2>4. CASE StagesSlack
    <3>1. /\ src' = [src EXCEPT !.weights = WantedWeights] /\ rdApplied' = SlackActive
          /\ pc' = "solve" /\ UNCHANGED genOff
      BY <1>10, <2>4 DEF RunSlack
    <3>2. src'.weights = WantedWeights /\ src'.genOff = genOff
      BY <2>1, <3>1 DEF Sources
    <3>3. PlainWeights(src'.genOff) = PlainWeights(genOff)
      BY <3>2
    <3>4. QED
      BY <2>2, <2>3, <3>1, <3>2, <3>3 DEF PlainWeights, BaseWeights
  <2>5. CASE ~StagesSlack
    <3>1. path = "hot" /\ ~SlackActive /\ ~rdApplied
      BY <2>5 DEF StagesSlack, OptionTypes
    <3>2. UNCHANGED <<src, rdApplied, gaps, dirty, genOff, path>> /\ pc = "slack" /\ pc' = "solve"
      BY <1>10, <2>5 DEF RunSlack
    <3>3. "unstaged_slack" \notin gaps => src.weights = PlainWeights(src.genOff)
      <4>1. src # None /\ ~SourceDirty
        BY <2>1, <3>1, <3>2, NoneIsNoSource
      <4>2. QED
        BY <3>1, <4>1
    <3>4. "unstaged_slack" \notin gaps => src.weights = WantedWeights
      BY <2>1, <2>3, <3>1, <3>3
    <3>5. rdApplied = SlackActive
      BY <3>1 DEF SlackActive, OptionTypes
    <3>6. QED
      BY <2>2, <3>2, <3>3, <3>4, <3>5
  <2>6. QED
    BY <2>4, <2>5
<1>11. CASE RunSolveRefused
  BY <1>11 DEF RunSolveRefused
<1>12. CASE RunSolve
  <2>1. rdApplied = SlackActive /\ src.genOff = genOff
    BY <1>12 DEF RunSolve, FreshnessInv, RunHoldsInputs
  <2>2. "unstaged_slack" \notin gaps => src.weights = WantedWeights
    BY <1>12 DEF RunSolve
  <2>3. ~SlackActive => WantedWeights = PlainWeights(genOff)
    BY DEF SlackActive, WantedWeights
  <2>4. UNCHANGED <<src, rdApplied, gaps>> /\ pc' = "return"
    BY <1>12 DEF RunSolve
  <2>5. "unstaged_slack" \notin gaps /\ ~rdApplied => src.weights = PlainWeights(src.genOff)
    BY <2>1, <2>2, <2>3
  <2>6. QED
    BY <2>4, <2>5
<1>13. CASE RunReturn
  BY <1>13 DEF RunReturn
<1>14. CASE UNCHANGED vars
  BY <1>14 DEF vars, WantedWeights, SlackActive
<1>15. QED
  BY <1>1, <1>2, <1>3, <1>4, <1>5, <1>6, <1>7, <1>8, <1>9, <1>10, <1>11, <1>12, <1>13, <1>14
     DEF Next, Setters, Run

THEOREM BatchInvCorrect == Spec => []BatchInv
<1>1. Init => BatchInv
  BY DEF Init, BatchInv, ReferenceIsCached, BaseFollowsReference, PatchesFollowBranches,
         WeightsFollowSource, SlackWeightsFollowMask
<1>2. TypeOK /\ FreshnessInv /\ BatchInv /\ [Next]_vars => BatchInv'
  BY ReferenceCacheNext, BaseFollowsNext, PatchesFollowNext, WeightsFollowNext DEF BatchInv
<1>3. QED
  BY <1>1, <1>2, TypeCorrect, FreshnessCorrect, PTL DEF Spec

(* The batch run() is about to solve has the patches of the branch data,   *)
(* the slack weights, the settings, the base state and the reference that  *)
(* the session's inputs call for, whatever setters, refused calls and      *)
(* failed runs came before -- but for the open paths named in gaps.        *)
THEOREM BatchCorrect == Spec => []BatchMatchesSession
<1>1. TypeOK /\ FreshnessInv /\ BatchInv => BatchMatchesSession
  <2>. SUFFICES ASSUME TypeOK, FreshnessInv, BatchInv PROVE BatchMatchesSession
    OBVIOUS
  <2>1. PatchesUseCurrentAdmittances
    <3>. SUFFICES ASSUME pc = "solve", hasTopology, "kept_topology" \notin gaps
         PROVE  src.trips.branch = branch
      BY DEF PatchesUseCurrentAdmittances
    <3>1. src # None
      BY DEF TypeOK, DriverTypes
    <3>2. QED
      BY <3>1 DEF BatchInv, PatchesFollowBranches
  <2>2. SlackWeightsFollowMask
    BY DEF BatchInv, WeightsFollowSource
  <2>3. DriverMatchesSession
    BY DEF BatchInv, FreshnessInv, RunHoldsInputs, BaseFollowsReference, ReferenceIsCached,
           DriverMatchesSession, WantedReference, CachedChoice
  <2>4. QED
    BY <2>1, <2>2, <2>3 DEF BatchMatchesSession
<1>2. QED
  BY <1>1, BatchInvCorrect, TypeCorrect, FreshnessCorrect, PTL

(***************************************************************************)
(* The refinement: every step of ScenarioSweepSession is a step of         *)
(* SweepContract or leaves what the contract sees unchanged.               *)
(***************************************************************************)
LEMMA StagedRequestType == TypeOK => StagedRequest \in RequestsOfSession
BY DEF TypeOK, InputTypes, OptionTypes, Trips, StagedRequest, RequestsOfSession

LEMMA DeliveredRequestType ==
  TypeOK => DeliveredRequest \in Maybe(RequestsOfSession) /\ (DeliveredRequest = None <=> delivered = None)
<1>. SUFFICES ASSUME TypeOK, delivered # None
     PROVE  DeliveredRequest \in RequestsOfSession
  BY RequestAssumption DEF DeliveredRequest, Maybe
<1>1. delivered \in Answers
  BY DEF TypeOK, RunTypes, Maybe
<1>2. QED
  BY <1>1 DEF Answers, Trips, DeliveredRequest, RequestsOfSession

(* The answer is there from the solve to the return of run().              *)
LEMMA AnswerExists ==
  TypeOK /\ FreshnessInv => (DeliveredRequest = None <=> pc # "return")
<1>. SUFFICES ASSUME TypeOK, FreshnessInv PROVE delivered = None <=> pc # "return"
  BY DeliveredRequestType
<1>1. CASE pc # "return"
  BY <1>1 DEF FreshnessInv, AnswerIsTheSource
<1>2. CASE pc = "return"
  <2>1. src \in Sources /\ drvCfg \in Config
    BY <1>2 DEF TypeOK, DriverTypes, Maybe
  <2>2. delivered \in Answers
    BY <1>2, <2>1 DEF FreshnessInv, AnswerIsTheSource, Sources, Config, Answers
  <2>3. QED
    BY <1>2, <2>2, NoneAssumption
<1>3. QED
  BY <1>1, <1>2

(* At the solve, the source holds the staged request.                      *)
LEMMA SolveAnswersRequest ==
  TypeOK /\ FreshnessInv /\ RunSolve =>
    Contract!Solve
<1>. SUFFICES ASSUME TypeOK, FreshnessInv, RunSolve PROVE Contract!Solve
  OBVIOUS
<1>1. DeliveredRequest = None
  BY AnswerExists DEF RunSolve
<1>2. src \in Sources /\ drvCfg \in Config /\ drvCfg = CurrentConfig
  BY DEF RunSolve, TypeOK, DriverTypes, FreshnessInv, RunHoldsInputs, Maybe
<1>3. delivered' \in Answers /\ delivered' # None
  BY <1>2, NoneAssumption DEF RunSolve, Sources, Config, Answers
<1>4. DeliveredRequest' =
        [inj |-> src.sbus, topology |-> src.trips.list, genV |-> src.genV,
         genOff |-> src.genOff, skip |-> src.skip, settings |-> drvCfg.settings]
  BY <1>3 DEF RunSolve, DeliveredRequest
<1>5. DeliveredRequest' \in RequestsOfSession
  BY <1>2, <1>4 DEF Sources, Config, Trips, RequestsOfSession
<1>6. "refused_topology" \notin gaps => DeliveredRequest' = StagedRequest
  BY <1>2, <1>4 DEF RunSolve, FreshnessInv, RunHoldsInputs, CurrentConfig, StagedRequest
<1>7. UNCHANGED <<StagedRequest, "refused_topology" \notin gaps>>
  BY DEF RunSolve, StagedRequest, inputVars
<1>8. QED
  BY <1>1, <1>5, <1>6, <1>7 DEF Contract!Solve

(* Every other step leaves the answer alone, and is a step of the caller's *)
(* staging if it changes the request at all.                               *)
LEMMA OtherStepsStage ==
  TypeOK /\ TypeOK' /\ FreshnessInv /\ pc # "return" /\ UNCHANGED delivered => Contract!Stage
<1>. SUFFICES ASSUME TypeOK, TypeOK', FreshnessInv, pc # "return", UNCHANGED delivered
     PROVE  Contract!Stage
  OBVIOUS
<1>1. DeliveredRequest = None /\ DeliveredRequest' = None
  BY AnswerExists DEF DeliveredRequest
<1>2. StagedRequest' \in RequestsOfSession
  BY StagedRequestType DEF TypeOK, InputTypes, OptionTypes, Trips, StagedRequest, RequestsOfSession
<1>3. QED
  BY <1>1, <1>2 DEF Contract!Stage

LEMMA ReturnReturns == TypeOK /\ FreshnessInv /\ RunReturn => Contract!Return
<1>. SUFFICES ASSUME TypeOK, FreshnessInv, RunReturn PROVE Contract!Return
  OBVIOUS
<1>1. DeliveredRequest # None
  BY AnswerExists DEF RunReturn
<1>2. DeliveredRequest' = None
  BY DEF RunReturn, DeliveredRequest
<1>3. UNCHANGED <<StagedRequest, "refused_topology" \notin gaps>>
  BY DEF RunReturn, StagedRequest, inputVars
<1>4. QED
  BY <1>1, <1>2, <1>3 DEF Contract!Return

LEMMA StepRefines ==
  TypeOK /\ TypeOK' /\ FreshnessInv /\ [Next]_vars =>
    [Contract!Next]_<<StagedRequest, "refused_topology" \notin gaps, DeliveredRequest>>
<1>. SUFFICES ASSUME TypeOK, TypeOK', FreshnessInv, [Next]_vars
     PROVE  [Contract!Next]_<<StagedRequest, "refused_topology" \notin gaps, DeliveredRequest>>
  OBVIOUS
<1>. USE DEF inputVars, refVars, slackVars, driverVars, runVars
<1>1. CASE RunSolve
  BY <1>1, SolveAnswersRequest DEF Contract!Next
<1>2. CASE RunReturn
  BY <1>2, ReturnReturns DEF Contract!Next
<1>3. CASE Setters
  <2>1. pc # "return" /\ UNCHANGED delivered
    BY <1>3
       DEF Setters, SetInjections, SetInjectionsDevice, SetGenV, SetContingencyGens, SetSkippedRows,
         SetTopology, SetTopologyRefused, SetBranchData, SetSettings, SetReference, SetSlack,
         SetKeepJacobian
  <2>2. QED
    BY <2>1, OtherStepsStage DEF Contract!Next
<1>4. CASE RunRefused \/ RunKeepsBase \/ RunRebuildsBase \/ RunFailsToRebuildBase
  <2>1. pc # "return" /\ UNCHANGED delivered
    BY <1>4 DEF RunRefused, RunKeepsBase, RunRebuildsBase, RunFailsToRebuildBase, StartRun
  <2>2. QED
    BY <2>1, OtherStepsStage DEF Contract!Next
<1>5. CASE RunHot \/ RunNewSource \/ RunFailsInNewSource \/ RunFailsToBuildDriver
  <2>1. pc # "return" /\ UNCHANGED delivered
    BY <1>5 DEF RunHot, RunNewSource, RunFailsInNewSource, RunFailsToBuildDriver, TakePath
  <2>2. QED
    BY <2>1, OtherStepsStage DEF Contract!Next
<1>6. CASE RunStage \/ RunSlackRefused \/ RunSlack \/ RunSolveRefused
  <2>1. pc # "return" /\ UNCHANGED delivered
    BY <1>6 DEF RunStage, RunSlackRefused, RunSlack, RunSolveRefused
  <2>2. QED
    BY <2>1, OtherStepsStage DEF Contract!Next
<1>7. CASE UNCHANGED vars
  BY <1>7 DEF vars, StagedRequest, DeliveredRequest
<1>8. QED
  BY <1>1, <1>2, <1>3, <1>4, <1>5, <1>6, <1>7 DEF Next, Run

LEMMA InitRefines == Init => Contract!Init
<1>. SUFFICES ASSUME Init PROVE Contract!Init
  OBVIOUS
<1>1. StagedRequest \in RequestsOfSession
  BY TypeInit, StagedRequestType
<1>2. QED
  BY <1>1 DEF Init, Contract!Init, DeliveredRequest

(* The session implements its contract: whatever the order of staging,     *)
(* refused calls and failed runs, a run() that returns has solved the      *)
(* inputs staged last.                                                     *)
THEOREM SessionImplementsContract == Spec => ImplementsContract
<1>1. TypeOK /\ TypeOK' /\ FreshnessInv /\ [Next]_vars =>
        [Contract!Next]_<<StagedRequest, "refused_topology" \notin gaps, DeliveredRequest>>
  BY StepRefines
<1>2. QED
  BY <1>1, InitRefines, TypeCorrect, FreshnessCorrect, PTL
     DEF Spec, ImplementsContract, Contract!Spec
=============================================================================
