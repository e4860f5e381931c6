--------------------------- MODULE MCPhysicalChecks ---------------------------
(***************************************************************************)
(* A small instance of PhysicalChecks.  A caller uses one group of setters *)
(* around its run(), chosen at the start.                                  *)
(***************************************************************************)
EXTENDS PhysicalChecks

CONSTANTS t1, t2,    \* set-points of one and of two columns
          loose, tight

VARIABLE group       \* of setters: "settings" or "targets"

MCColumns == [t \in Targets |-> IF t = t2 THEN 2 ELSE 1]

MCInit == Init /\ group \in {"settings", "targets"} /\ (group = "targets" => setting = loose)

(* Tolerances, plans and outage masks.                                     *)
SettingsNext ==
    /\ group = "settings"
    /\ \/ \E s \in Settings : SetTolerance(s)
       \/ planGen < 2 /\ \E c \in {"bus_q", "release"} : SetPlan(c, 1)
       \/ \E g \in Masks : SetContingencyGens(g)
       \/ ChangeSource

(* Set-points, of the caller and of the pre-pass; the plan the checks need *)
(* is given once, and first.                                               *)
TargetsNext ==
    /\ group = "targets"
    /\ \/ planGen = 0 /\ SetPlan("bus_q", 1)
       \/ planGen > 0 /\ \E n \in Sizes : SetPlan("gen_p", n)
       \/ planGen > 0 /\ SetPlan("release", 1)
       \/ \E c \in Targeted, t \in Maybe(Targets) : SetTargets(c, t)
       \/ \E m \in Maybe(Moves) : Redistribute(m)

MCNext ==
    /\ \/ \E v \in BOOLEAN : SetComputePhysicalViolations(v)
       \/ SettingsNext
       \/ TargetsNext
       \/ Run
    /\ UNCHANGED group

MCSpec == MCInit /\ [][MCNext]_<<vars, group>>
=============================================================================
