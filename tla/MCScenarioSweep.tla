-------------------------- MODULE MCScenarioSweep --------------------------
(* A small instance of ScenarioSweepSession.  A caller uses one group of   *)
(* setters, chosen at the start, around its run() with every outcome.      *)
EXTENDS ScenarioSweepRefinement

CONSTANTS
    Groups,         \* the groups of setters a caller may choose
    i2, j2, i3,     \* injections of two, two and three rows
    t2, u2, t3,     \* topologies; t3 trips a branch of the larger network only
    v2, v3,         \* generator voltages
    g2, h2,         \* generator masks; h2 takes a slack participant out
    s2,             \* skipped rows
    x2, x3,         \* external slack saturations
    bSmall, bLarge, \* branch data
    plain, masked, reuse,  \* settings: default, handle_disconnected_grid,
                           \* direct_base_case_factors
    gridBus, otherBus

MCRows == [x \in RowInputs |-> IF x \in {i3, t3, v3, x3} THEN 3 ELSE 2]
MCMaxTrip == [t \in Topologies |-> IF t \in {u2, t3} THEN 2 ELSE 1]
MCNumBranches == [b \in BranchSets |-> IF b = bSmall THEN 1 ELSE 2]
MCReserved == [g \in GenMasks |-> IF g = h2 THEN {otherBus} ELSE {}]
MCBestRef == [t \in Topologies |-> IF t = t2 /\ otherBus \in Buses THEN otherBus ELSE gridBus]
MCStrandsSlack == SlackOff \X {otherBus}

VARIABLE group

MCInit == Init /\ group \in Groups

Retopologize ==
    \/ \E v \in Injections \ {j2} : SetInjections(v)
    \/ \E t \in Topologies : SetTopology(t) \/ SetTopologyRefused(t)
    \/ \E b \in BranchSets : SetBranchData(b)

(* Branch trips and branch data, skipped rows, kept Jacobian.              *)
TopologyNext ==
    /\ group = "topology"
    /\ \/ Retopologize
       \/ \E s \in Maybe(SkipMasks) : SetSkippedRows(s)
       \/ \E k \in BOOLEAN : SetKeepJacobian(k)

(* Generator voltages, generator masks and per-row slack.                  *)
GeneratorNext ==
    /\ group = "generators"
    /\ \/ \E v \in Injections \ {i3} : SetInjections(v) \/ SetInjectionsDevice(v)
       \/ \E v \in Maybe(GenVs) : SetGenV(v)
       \/ \E g \in GenMasks : SetContingencyGens(g)
       \/ \E rd \in BOOLEAN, sat \in Maybe(ExtSats) : SetSlack(rd, sat)
       \/ \E s \in Settings : SetSettings(s)

(* The angle reference and the base state.                                 *)
ReferenceNext ==
    /\ group = "reference"
    /\ \/ Retopologize
       \/ SetContingencyGens(h2)
       \/ \E s \in Settings \ {reuse} : SetSettings(s)
       \/ \E a \in BOOLEAN, b \in Maybe(Buses) : SetReference(a, b)

MCNext == (TopologyNext \/ GeneratorNext \/ ReferenceNext \/ Run) /\ UNCHANGED group
MCSpec == MCInit /\ [][MCNext]_<<vars, group>>
=============================================================================
