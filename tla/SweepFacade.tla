----------------------------- MODULE SweepFacade -----------------------------
(***************************************************************************)
(* gpusim2grid.ScenarioSweepGPU (scenario_sweep/gpu_facade.py): the setters *)
(* a user calls "in any order" before compute().  Three inputs overlap: the *)
(* generator mask changes the injections assembled from elements (its power *)
(* leaves the row) and the voltage set-points (its set-point leaves too),   *)
(* and set-points with the mask decide which rows cannot be simulated.  The *)
(* facade keeps each input and re-derives the others when one changes.      *)
(*                                                                          *)
(* An array of n rows is a sequence of length n, <<>> is Python's None.     *)
(* The session is reduced to what it was last given and to the row-count    *)
(* checks of its setters and of run(); an array of the wrong shape is [ok   *)
(* |-> FALSE] and makes the assembly, or the session, raise.                *)
(***************************************************************************)
EXTENDS Naturals, Sequences

CONSTANTS
  Data,         \* element inputs: load_p, load_q, gen_p
  Gens,         \* generators; all regulate the voltage of one bus
  Rows,         \* row counts used
  Masks,        \* sequences of sets of disconnected generators
  SetPoints,    \* sequences of set-points [Gens -> Nat], 0 is NaN
  Remote        \* generators the session refuses to disconnect

ASSUME MaskAssumption ==
  /\ Rows \subseteq Nat \ {0}
  /\ \A m \in Masks : \E n \in Rows : m \in [1..n -> SUBSET Gens]
  /\ \A v \in SetPoints : \E n \in Rows : v \in [1..n -> [Gens -> Nat]]

VARIABLES
  elements,     \* _pending_elements: <<>> or the arguments of set_injections_from_elements
  genOff,       \* _gen_off
  genV,         \* _gen_v, with .ok = FALSE when its columns are wrong
  skipStale,    \* _skip_rows_stale
  injRows,      \* _n_injection_rows, 0 for None
  genPRows,     \* _gen_p_rows: whose generator set-points the checks use
  session,      \* what the session was given
  outcome,      \* of the last call: "ok", "raised", "computed"
  again         \* history: inputs to give again after a setter that raised

vars == <<elements, genOff, genV, skipStale, injRows, genPRows, session, outcome, again>>

Inputs == {"injections", "gen_v"}

NoMask(n) == [r \in 1..n |-> {}]
NoElements == [n |-> 0, data |-> 0, ok |-> FALSE]
NoSetPoints == [v |-> <<>>, ok |-> TRUE]

Init ==
  /\ elements = <<>>
  /\ genOff = <<>>
  /\ genV = NoSetPoints
  /\ skipStale = FALSE
  /\ injRows = 0
  /\ genPRows = <<>>
  /\ session = [n |-> 0, kind |-> "none", data |-> 0, without |-> <<>>, gens |-> <<>>,
                gen_v |-> <<>>, skip |-> <<>>, topology |-> 0, targets |-> <<>>]
  /\ outcome = "ok"
  /\ again = {}

-----------------------------------------------------------------------------
(* Pure parts.                                                              *)

(* build_bus_injections(gen_off=...): a mask of other rows is not applied.  *)
Applicable(mask, n) == IF Len(mask) = n THEN mask ELSE NoMask(n)

(* What _push_gen_v() sends: the set-points of the generators out are NaN.  *)
Pushed(v, mask) ==
  IF Len(mask) # Len(v) THEN v
  ELSE [r \in DOMAIN v |-> [g \in Gens |-> IF g \in mask[r] THEN 0 ELSE v[r][g]]]

(* conflicting_gen_v_rows(): one bus, two magnitudes.                       *)
Conflicts(v, mask) ==
  LET applied == Pushed(v, mask)
  IN [r \in DOMAIN v |-> \E g, h \in Gens : /\ applied[r][g] # 0 /\ applied[r][h] # 0
                                            /\ applied[r][g] # applied[r][h]]
SkipMask(v, mask) ==
  LET bad == Conflicts(v, mask) IN IF \E r \in DOMAIN bad : bad[r] THEN bad ELSE <<>>

(* The setters of the session s, the only way the facade writes to it.      *)
WithInjections(s, n, kind, data, without) ==
  [s EXCEPT !.n = n, !.kind = kind, !.data = data, !.without = without]
WithGenPTargets(s, t) == [s EXCEPT !.targets = t]
WithGenV(s, v) == [s EXCEPT !.gen_v = v]
WithMask(s, mask) == [s EXCEPT !.gens = mask]
WithSkippedRows(s, bad) == [s EXCEPT !.skip = bad]
ClearSkippedRows(s) == WithSkippedRows(s, <<>>)

(* The session after set_injections() of assembled elements.                *)
Assembled(s, e, mask) ==
  WithGenPTargets(WithInjections(s, e.n, "elements", e.data, Applicable(mask, e.n)),
                  <<e.data, e.n>>)

(* _update_skipped_rows(): set-points of other rows than the injections'    *)
(* drop the mask and leave it to compute().                                 *)
RowsDiffer(n) == n # 0 /\ Len(genV.v) # n
SkippedWithoutMask(s, n, mask) ==
  IF genV.v = <<>> THEN s
  ELSE IF RowsDiffer(n) THEN ClearSkippedRows(s)
  ELSE WithSkippedRows(s, SkipMask(genV.v, <<>>))
Skipped(s, n, mask) ==
  IF genV.v = <<>> THEN s
  ELSE IF RowsDiffer(n) THEN ClearSkippedRows(s)
  ELSE WithSkippedRows(s, SkipMask(genV.v, mask))
StaleAfter(n) == genV.v # <<>> /\ RowsDiffer(n)

-----------------------------------------------------------------------------
(* Injections per bus: a caller that assembles them removes the power of    *)
(* the generators out himself.                                              *)
SetInjections(n) ==
  /\ elements' = <<>>
  /\ session' = WithGenPTargets(WithInjections(session, n, "bus", 0, <<>>), <<>>)
  /\ injRows' = n
  /\ skipStale' = (genV.v # <<>>)
  /\ genPRows' = <<>>
  /\ outcome' = "ok"
  /\ again' = again \ {"injections"}
  /\ UNCHANGED <<genOff, genV>>

(* Arrays the session refuses: the elements kept are already forgotten.     *)
SetInjectionsRefused ==
  /\ elements' = <<>>
  /\ outcome' = "raised"
  /\ again' = again \cup {"injections"}
  /\ UNCHANGED <<genOff, genV, skipStale, injRows, genPRows, session>>

SetInjectionsFromElements(n, data) ==
  LET e == [n |-> n, data |-> data, ok |-> TRUE] IN
  /\ elements' = <<e>>
  /\ session' = Assembled(session, e, genOff)
  /\ injRows' = n
  /\ skipStale' = (genV.v # <<>>)
  /\ genPRows' = <<data, n>>
  /\ outcome' = "ok"
  /\ again' = again \ {"injections"}
  /\ UNCHANGED <<genOff, genV>>

(* Arrays of the wrong shape are stored before the assembly raises.         *)
SetInjectionsFromElementsRefused ==
  /\ elements' = <<NoElements>>
  /\ outcome' = "raised"
  /\ again' = again \cup {"injections"}
  /\ UNCHANGED <<genOff, genV, skipStale, injRows, genPRows, session>>

-----------------------------------------------------------------------------
(* The session's own checks: the row count of the injections, and no remote *)
(* regulator disconnected.                                                  *)
MaskAccepted(mask) ==
  /\ session.n # 0 => Len(mask) = session.n
  /\ \A r \in DOMAIN mask : mask[r] \cap Remote = {}

Reassembled(s, mask) ==
  IF elements = <<>> THEN s ELSE Assembled(s, elements[1], mask)
WithSetPoints(s, mask) ==
  IF genV.v = <<>> THEN s ELSE WithGenV(s, Pushed(genV.v, mask))

SetContingencyGens(mask) ==
  LET n == IF elements = <<>> THEN injRows ELSE elements[1].n IN
  /\ MaskAccepted(mask)
  /\ elements # <<>> => elements[1].ok
  /\ genV.ok
  /\ genOff' = mask
  /\ session' = Skipped(WithSetPoints(Reassembled(WithMask(session, mask), mask), mask),
                        n, mask)
  /\ skipStale' = StaleAfter(n)
  /\ injRows' = n
  /\ genPRows' = IF elements = <<>> THEN genPRows ELSE <<elements[1].data, n>>
  /\ outcome' = "ok"
  /\ UNCHANGED <<elements, genV, again>>

SetContingencyGensRefused(mask) ==
  /\ ~MaskAccepted(mask)
  /\ outcome' = "raised"
  /\ UNCHANGED <<elements, genOff, genV, skipStale, injRows, genPRows, session, again>>

(* Elements of the wrong shape make the re-assembly raise: the session has  *)
(* the mask, the injections do not.                                         *)
SetContingencyGensTorn(mask) ==
  /\ MaskAccepted(mask)
  /\ elements # <<>> /\ ~elements[1].ok
  /\ genOff' = mask
  /\ session' = WithMask(session, mask)
  /\ outcome' = "raised"
  /\ again' = Inputs
  /\ UNCHANGED <<elements, genV, skipStale, injRows, genPRows>>

(* Set-points of the wrong shape raise after the injections are assembled.  *)
SetContingencyGensTornByGenV(mask) ==
  /\ MaskAccepted(mask)
  /\ elements # <<>> => elements[1].ok
  /\ ~genV.ok
  /\ genOff' = mask
  /\ session' = Reassembled(WithMask(session, mask), mask)
  /\ injRows' = IF elements = <<>> THEN injRows ELSE elements[1].n
  /\ genPRows' = IF elements = <<>> THEN genPRows ELSE <<elements[1].data, elements[1].n>>
  /\ skipStale' = (elements # <<>> \/ skipStale)
  /\ outcome' = "raised"
  /\ again' = again \cup {"gen_v"}
  /\ UNCHANGED <<elements, genV>>

SetGenV(v) ==
  /\ genV' = [v |-> v, ok |-> TRUE]
  /\ LET differ == injRows # 0 /\ Len(v) # injRows IN
       /\ session' = LET given == WithGenV(session, Pushed(v, genOff)) IN
                     IF differ THEN ClearSkippedRows(given)
                     ELSE WithSkippedRows(given, SkipMask(v, genOff))
       /\ skipStale' = differ
  /\ outcome' = "ok"
  /\ again' = again \ {"gen_v"}
  /\ UNCHANGED <<elements, genOff, injRows, genPRows>>

(* Set-points of the wrong shape are stored before the session refuses.     *)
SetGenVRefused(v) ==
  /\ genV' = [v |-> v, ok |-> FALSE]
  /\ outcome' = "raised"
  /\ again' = again \cup {"gen_v"}
  /\ UNCHANGED <<elements, genOff, skipStale, injRows, genPRows, session>>

SetTopology(n) ==
  /\ session.n # 0 => n = session.n
  /\ session' = [session EXCEPT !.topology = n]
  /\ outcome' = "ok"
  /\ UNCHANGED <<elements, genOff, genV, skipStale, injRows, genPRows, again>>

-----------------------------------------------------------------------------
(* compute(): a stale mask of rows is derived again, then the session runs  *)
(* or refuses arrays whose row count is not the injections'.                *)
Fits(array, n) == array = <<>> \/ Len(array) = n
Runs(s) == /\ s.n # 0
           /\ Fits(s.gens, s.n) /\ Fits(s.gen_v, s.n) /\ Fits(s.skip, s.n)
           /\ s.topology \in {0, s.n}

AtCompute == IF skipStale THEN Skipped(session, injRows, genOff) ELSE session

Compute ==
  /\ skipStale => genV.ok \/ RowsDiffer(injRows)
  /\ session' = AtCompute
  /\ skipStale' = (skipStale /\ StaleAfter(injRows))
  /\ outcome' = IF Runs(AtCompute) THEN "computed" ELSE "raised"
  /\ UNCHANGED <<elements, genOff, genV, injRows, genPRows, again>>

ComputeRefused ==
  /\ skipStale /\ ~genV.ok /\ ~RowsDiffer(injRows)
  /\ skipStale' = FALSE
  /\ outcome' = "raised"
  /\ UNCHANGED <<elements, genOff, genV, injRows, genPRows, session, again>>

Next ==
  \/ \E n \in Rows : SetInjections(n) \/ SetTopology(n)
  \/ \E n \in Rows, x \in Data : SetInjectionsFromElements(n, x)
  \/ SetInjectionsRefused \/ SetInjectionsFromElementsRefused
  \/ \E m \in Masks : \/ SetContingencyGens(m) \/ SetContingencyGensRefused(m)
                      \/ SetContingencyGensTorn(m) \/ SetContingencyGensTornByGenV(m)
  \/ \E v \in SetPoints : SetGenV(v) \/ SetGenVRefused(v)
  \/ Compute \/ ComputeRefused

Spec == Init /\ [][Next]_vars

-----------------------------------------------------------------------------
MaskArrays == {<<>>} \cup Masks
PointArrays == {<<>>} \cup {Pushed(v, m) : v \in SetPoints, m \in MaskArrays}
FlagArrays == {<<>>} \cup UNION {[1..n -> BOOLEAN] : n \in Rows}
Counts == {0} \cup Rows

TypeOK ==
  /\ elements \in {<<>>, <<NoElements>>} \cup {<<[n |-> n, data |-> x, ok |-> TRUE]>> : n \in Rows, x \in Data}
  /\ genOff \in MaskArrays
  /\ genV \in [v : {<<>>} \cup SetPoints, ok : BOOLEAN]
  /\ skipStale \in BOOLEAN
  /\ injRows \in Counts
  /\ genPRows \in {<<>>} \cup Data \X Rows
  /\ session \in [n : Counts, kind : {"none", "bus", "elements"}, data : Data \cup {0},
                  without : MaskArrays \cup UNION {[1..n -> {{}}] : n \in Rows}, gens : MaskArrays,
                  gen_v : PointArrays, skip : FlagArrays, topology : Counts,
                  targets : {<<>>} \cup Data \X Rows]
  /\ outcome \in {"ok", "raised", "computed"}
  /\ again \subseteq Inputs

(* What a setter that raised may have left half applied holds again once    *)
(* that input was given again; set-points only if there are any.            *)
InjectionsGiven == "injections" \notin again
SetPointsGiven == "gen_v" \in again => genV.v = <<>>
SessionMask == IF session.gens = <<>> THEN NoMask(session.n) ELSE session.gens

(* "A generator disconnected by set_contingency_gens has its injection taken *)
(* out of that row automatically, whichever of the two is called first": a   *)
(* batch solved with injections assembled from elements has the power of     *)
(* exactly the generators its mask disconnects taken out.                    *)
InjectionsFollowMask ==
  outcome = "computed" /\ session.kind = "elements" /\ InjectionsGiven => session.without = SessionMask

(* The same after any refused setter, which the code does not give.          *)
InjectionsAlwaysFollowMask ==
  outcome = "computed" /\ session.kind = "elements" => session.without = SessionMask

(* "a disconnected generator must not impose its set-point on a bus another, *)
(* still-connected generator keeps": the session solves with the last        *)
(* set-points, those of the generators out removed.                          *)
SetPointsFollowMask ==
  outcome = "computed" /\ SetPointsGiven /\ genV.v # <<>> =>
    session.gen_v = Pushed(genV.v, SessionMask)

(* "the setters may come in any order": the rows left out of a batch are     *)
(* those whose set-points, without the generators out, ask one bus for two   *)
(* magnitudes.                                                               *)
SkippedRowsFollowSetPoints ==
  outcome = "computed" /\ SetPointsGiven =>
    session.skip = (IF genV.v = <<>> THEN <<>> ELSE SkipMask(genV.v, SessionMask))

(* The active-power check and the slack pre-pass of a solved batch use the   *)
(* generator set-points its injections were assembled from.                  *)
TargetsFollowInjections ==
  outcome = "computed" =>
    /\ session.targets = (IF session.kind = "elements" THEN <<session.data, session.n>> ELSE <<>>)
    /\ genPRows = session.targets

(* What the session solves, whatever the order of the setters and the       *)
(* refusals in between, is what one call with everything would have staged. *)
AssembledAsAsked ==
  /\ InjectionsFollowMask /\ SetPointsFollowMask
  /\ SkippedRowsFollowSetPoints /\ TargetsFollowInjections
=============================================================================
