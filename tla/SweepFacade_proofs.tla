-------------------------- MODULE SweepFacade_proofs --------------------------
(***************************************************************************)
(* Setters in any order (SweepFacade), and one row of set-points, solved   *)
(* by threads in any order (SetPointGradients, as FacadeSetPoints has it). *)
(***************************************************************************)
EXTENDS FacadeSetPoints, FiniteSetTheorems, SequenceTheorems, WellFoundedInduction, TLAPS

(* An array of n rows is a sequence of n elements, none of them None.      *)
LEMMA ArrayLen ==
  ASSUME NEW n \in Nat \ {0}, NEW S, NEW f \in [1..n -> S]
  PROVE  f # <<>> /\ Len(f) = n /\ DOMAIN f = 1..n
<1>1. f \in Seq(S)
  BY SeqDef
<1>2. DOMAIN f = 1..Len(f) /\ Len(f) \in Nat
  BY <1>1, LenProperties
<1>3. Len(f) = n
  BY <1>2
<1>4. Len(<<>>) = 0
  OBVIOUS
<1>5. QED
  BY <1>3, <1>4

LEMMA SetPointRows ==
  ASSUME NEW v \in SetPoints
  PROVE  /\ v # <<>> /\ Len(v) \in Nat \ {0} /\ DOMAIN v = 1..Len(v)
         /\ v \in [1..Len(v) -> [Gens -> Nat]]
<1>1. PICK n \in Rows : v \in [1..n -> [Gens -> Nat]]
  BY MaskAssumption DEF MaskAssumption
<1>2. n \in Nat \ {0}
  BY MaskAssumption DEF MaskAssumption
<1>3. v # <<>> /\ Len(v) = n /\ DOMAIN v = 1..n
  BY <1>1, <1>2, ArrayLen
<1>4. QED
  BY <1>1, <1>2, <1>3

(* Dropping set-points keeps the rows.                                     *)
LEMMA PushedRows ==
  ASSUME NEW v \in SetPoints, NEW mask
  PROVE  Pushed(v, mask) # <<>> /\ Len(Pushed(v, mask)) = Len(v)
<1>1. CASE Len(mask) # Len(v)
  BY <1>1, SetPointRows DEF Pushed
<1>2. CASE Len(mask) = Len(v)
  <2>. DEFINE R(r) == [g \in Gens |-> IF g \in mask[r] THEN 0 ELSE v[r][g]]
  <2>1. Pushed(v, mask) = [r \in 1..Len(v) |-> R(r)]
    BY <1>2, SetPointRows DEF Pushed
  <2>2. Pushed(v, mask) \in [1..Len(v) -> {R(r) : r \in 1..Len(v)}]
    BY <2>1
  <2>3. QED
    BY <2>2, SetPointRows, ArrayLen
<1>3. QED
  BY <1>1, <1>2

(* No generator out, and no mask, drop nothing.                            *)
LEMMA PushedWithoutMask ==
  ASSUME NEW v \in SetPoints, NEW n \in Nat \ {0}
  PROVE  Pushed(v, NoMask(n)) = Pushed(v, <<>>)
<1>1. Pushed(v, <<>>) = v
  <2>1. Len(<<>>) # Len(v)
    BY SetPointRows
  <2>2. QED
    BY <2>1 DEF Pushed
<1>2. NoMask(n) \in [1..n -> {{}}] /\ Len(NoMask(n)) = n
  <2>1. NoMask(n) \in [1..n -> {{}}]
    BY DEF NoMask
  <2>2. QED
    BY <2>1, ArrayLen
<1>3. CASE n # Len(v)
  BY <1>1, <1>2, <1>3 DEF Pushed
<1>4. CASE n = Len(v)
  <2>1. \A r \in DOMAIN v : [g \in Gens |-> IF g \in NoMask(n)[r] THEN 0 ELSE v[r][g]] = v[r]
    <3>. SUFFICES ASSUME NEW r \in DOMAIN v
         PROVE  [g \in Gens |-> IF g \in NoMask(n)[r] THEN 0 ELSE v[r][g]] = v[r]
      OBVIOUS
    <3>1. NoMask(n)[r] = {} /\ v[r] \in [Gens -> Nat]
      BY <1>4, SetPointRows DEF NoMask
    <3>2. QED
      BY <3>1
  <2>2. Pushed(v, NoMask(n)) = [r \in DOMAIN v |-> v[r]]
    BY <1>2, <1>4, <2>1 DEF Pushed
  <2>3. v = [r \in DOMAIN v |-> v[r]]
    BY SetPointRows
  <2>4. QED
    BY <1>1, <2>2, <2>3
<1>5. QED
  BY <1>3, <1>4

LEMMA SkipWithoutMask ==
  ASSUME NEW v \in SetPoints, NEW n \in Nat \ {0}
  PROVE  SkipMask(v, NoMask(n)) = SkipMask(v, <<>>)
<1>1. Pushed(v, NoMask(n)) = Pushed(v, <<>>)
  BY PushedWithoutMask
<1>2. Conflicts(v, NoMask(n)) = Conflicts(v, <<>>)
  BY <1>1, Zenon DEF Conflicts
<1>3. QED
  BY <1>2, Zenon DEF SkipMask

-----------------------------------------------------------------------------
(* What holds between two setters, refused ones included.                  *)
Session(s) ==
  s = [n |-> s.n, kind |-> s.kind, data |-> s.data, without |-> s.without, gens |-> s.gens,
       gen_v |-> s.gen_v, skip |-> s.skip, topology |-> s.topology, targets |-> s.targets]

Shapes ==
  /\ Session(session)
  /\ genV = [v |-> genV.v, ok |-> genV.ok] /\ genV.v \in {<<>>} \cup SetPoints
  /\ genV.v = <<>> => genV.ok
  /\ genOff \in {<<>>} \cup Masks
  /\ session.n \in {0} \cup Rows /\ injRows = session.n
  /\ session.gens = genOff
  /\ elements # <<>> => elements = <<elements[1]>> /\ elements[1].n \in {0} \cup Rows

(* The elements kept are those of the session's injections, and their      *)
(* power was taken out for the mask, unless a setter was refused.          *)
ElementsInv ==
  "injections" \notin again =>
    /\ elements = <<>> => session.kind # "elements"
    /\ elements # <<>> => /\ elements[1].ok /\ elements[1].n = session.n
                          /\ elements[1].data = session.data
    /\ session.kind = "elements" => session.without = Applicable(genOff, session.n)

TargetsInv ==
  /\ session.targets = (IF session.kind = "elements" THEN <<session.data, session.n>> ELSE <<>>)
  /\ genPRows = session.targets

SetPointsInv ==
  "gen_v" \notin again => /\ genV.ok
                          /\ genV.v # <<>> => session.gen_v = Pushed(genV.v, genOff)

(* A mask of rows that is not marked stale is that of the set-points.      *)
SkipInv ==
  /\ genV.v = <<>> => session.skip = <<>>
  /\ "gen_v" \notin again /\ genV.v # <<>> /\ ~skipStale => session.skip = SkipMask(genV.v, genOff)

ComputedInv == outcome = "computed" => Runs(session) /\ (skipStale => RowsDiffer(injRows))

FacadeInv == Shapes /\ ElementsInv /\ TargetsInv /\ SetPointsInv /\ SkipInv /\ ComputedInv

LEMMA FacadeInit == Init => FacadeInv
<1>. SUFFICES ASSUME Init PROVE FacadeInv
  OBVIOUS
<1>1. session = [n |-> 0, kind |-> "none", data |-> 0, without |-> <<>>, gens |-> <<>>,
                 gen_v |-> <<>>, skip |-> <<>>, topology |-> 0, targets |-> <<>>]
  BY DEF Init
<1>2. genV = [v |-> <<>>, ok |-> TRUE]
  BY DEF Init, NoSetPoints
<1>3. QED
  BY <1>1, <1>2 DEF Init, FacadeInv, Shapes, Session, ElementsInv, TargetsInv, SetPointsInv, SkipInv, ComputedInv

-----------------------------------------------------------------------------
(* Injections.                                                             *)
LEMMA InjectionsKeep ==
  ASSUME FacadeInv,
         \/ \E n \in Rows : SetInjections(n)
         \/ \E n \in Rows, x \in Data : SetInjectionsFromElements(n, x)
         \/ SetInjectionsRefused \/ SetInjectionsFromElementsRefused
  PROVE  FacadeInv'
<1>. USE DEF FacadeInv
<1>1. ASSUME NEW n \in Rows, SetInjections(n) PROVE FacadeInv'
  <2>1. session' = [session EXCEPT !.n = n, !.kind = "bus", !.data = 0, !.without = <<>>, !.targets = <<>>]
    BY <1>1 DEF SetInjections, WithGenPTargets, WithInjections, Shapes, Session
  <2>2. /\ session'.n = n /\ session'.kind = "bus" /\ session'.targets = <<>>
        /\ session'.gens = session.gens /\ session'.gen_v = session.gen_v
        /\ session'.skip = session.skip /\ Shapes'
    BY <1>1, <2>1 DEF SetInjections, Shapes, Session
  <2>3. ElementsInv' /\ TargetsInv' /\ SetPointsInv' /\ SkipInv' /\ ComputedInv'
    BY <1>1, <2>2 DEF SetInjections, ElementsInv, TargetsInv, SetPointsInv, SkipInv, ComputedInv
  <2>4. QED
    BY <2>2, <2>3
<1>2. ASSUME NEW n \in Rows, NEW x \in Data, SetInjectionsFromElements(n, x) PROVE FacadeInv'
  <2>1. session' = [session EXCEPT !.n = n, !.kind = "elements", !.data = x,
                                   !.without = Applicable(genOff, n), !.targets = <<x, n>>]
    BY <1>2 DEF SetInjectionsFromElements, Assembled, WithGenPTargets, WithInjections, Shapes, Session
  <2>2. /\ session'.n = n /\ session'.kind = "elements" /\ session'.targets = <<x, n>>
        /\ session'.data = x /\ session'.without = Applicable(genOff, n)
        /\ session'.gens = session.gens /\ session'.gen_v = session.gen_v
        /\ session'.skip = session.skip
    BY <2>1 DEF Shapes, Session
  <2>. DEFINE e == [n |-> n, data |-> x, ok |-> TRUE]
  <2>3. elements' = <<e>> /\ elements'[1] = e /\ elements' # <<>> /\ e.n = n /\ e.data = x /\ e.ok
    BY <1>2 DEF SetInjectionsFromElements
  <2>. HIDE DEF e
  <2>4. Shapes'
    <3>1. Session(session')
      BY <2>1 DEF Shapes, Session
    <3>2. genV' = genV /\ genOff' = genOff /\ injRows' = n
      BY <1>2 DEF SetInjectionsFromElements
    <3>3. QED
      BY <2>2, <2>3, <3>1, <3>2 DEF Shapes, Session
  <2>5. /\ genV' = genV /\ genOff' = genOff /\ genPRows' = <<x, n>> /\ outcome' = "ok"
        /\ skipStale' = (genV.v # <<>>) /\ again' = again \ {"injections"}
    BY <1>2 DEF SetInjectionsFromElements
  <2>6. ElementsInv' /\ TargetsInv' /\ ComputedInv'
    BY <2>2, <2>3, <2>5 DEF ElementsInv, TargetsInv, ComputedInv
  <2>7. SetPointsInv' /\ SkipInv'
    BY <2>2, <2>5 DEF SetPointsInv, SkipInv
  <2>8. QED
    BY <2>4, <2>6, <2>7
<1>3. CASE SetInjectionsRefused
  BY <1>3 DEF SetInjectionsRefused, Shapes, Session, ElementsInv, TargetsInv, SetPointsInv, SkipInv, ComputedInv
<1>4. CASE SetInjectionsFromElementsRefused
  <2>1. elements' = <<NoElements>> /\ elements'[1] = NoElements /\ NoElements.n = 0
    BY <1>4 DEF SetInjectionsFromElementsRefused, NoElements
  <2>2. QED
    BY <1>4, <2>1 DEF SetInjectionsFromElementsRefused, Shapes, Session, ElementsInv, TargetsInv, SetPointsInv,
                      SkipInv, ComputedInv
<1>5. QED
  BY <1>1, <1>2, <1>3, <1>4

-----------------------------------------------------------------------------
(* The generator mask: what each part of its setter leaves.                *)
LEMMA ReassembledIs ==
  ASSUME Shapes, NEW mask \in Masks, NEW s, s = Reassembled(WithMask(session, mask), mask)
  PROVE  /\ Session(s)
         /\ s.gens = mask /\ s.gen_v = session.gen_v /\ s.skip = session.skip
         /\ elements = <<>> => /\ s.n = session.n /\ s.kind = session.kind /\ s.data = session.data
                               /\ s.without = session.without /\ s.targets = session.targets
         /\ elements # <<>> => /\ s.n = elements[1].n /\ s.kind = "elements"
                               /\ s.data = elements[1].data
                               /\ s.without = Applicable(mask, elements[1].n)
                               /\ s.targets = <<elements[1].data, elements[1].n>>
<1>1. CASE elements = <<>>
  <2>1. s = [session EXCEPT !.gens = mask]
    BY <1>1 DEF Reassembled, WithMask
  <2>2. QED
    BY <1>1, <2>1 DEF Shapes, Session
<1>2. CASE elements # <<>>
  <2>1. s = [session EXCEPT !.gens = mask, !.n = elements[1].n, !.kind = "elements",
                            !.data = elements[1].data, !.without = Applicable(mask, elements[1].n),
                            !.targets = <<elements[1].data, elements[1].n>>]
    BY <1>2 DEF Reassembled, WithMask, Assembled, WithGenPTargets, WithInjections, Shapes, Session
  <2>2. QED
    BY <1>2, <2>1 DEF Shapes, Session
<1>3. QED
  BY <1>1, <1>2

(* Set-points and skipped rows are derived from the mask last.             *)
LEMMA SkippedIs ==
  ASSUME NEW s, Session(s), NEW n, NEW mask, NEW t, t = Skipped(s, n, mask)
  PROVE  /\ Session(t) /\ t.n = s.n /\ t.kind = s.kind /\ t.data = s.data /\ t.without = s.without
         /\ t.gens = s.gens /\ t.gen_v = s.gen_v /\ t.targets = s.targets
         /\ t.skip = IF genV.v = <<>> THEN s.skip
                     ELSE IF RowsDiffer(n) THEN <<>> ELSE SkipMask(genV.v, mask)
<1>1. CASE genV.v = <<>>
  BY <1>1 DEF Skipped
<1>2. CASE genV.v # <<>>
  <2>. DEFINE k == IF RowsDiffer(n) THEN <<>> ELSE SkipMask(genV.v, mask)
  <2>1. t = [s EXCEPT !.skip = k]
    BY <1>2 DEF Skipped, ClearSkippedRows, WithSkippedRows
  <2>. HIDE DEF k
  <2>2. /\ Session(t) /\ t.n = s.n /\ t.kind = s.kind /\ t.data = s.data /\ t.without = s.without
        /\ t.gens = s.gens /\ t.gen_v = s.gen_v /\ t.targets = s.targets /\ t.skip = k
    BY <2>1 DEF Session
  <2>3. QED
    BY <1>2, <2>2 DEF k
<1>3. QED
  BY <1>1, <1>2

LEMMA MaskKeeps ==
  ASSUME FacadeInv, NEW mask \in Masks, SetContingencyGens(mask)
  PROVE  FacadeInv'
<1>. USE DEF FacadeInv
<1>. DEFINE n == IF elements = <<>> THEN injRows ELSE elements[1].n
            r == Reassembled(WithMask(session, mask), mask)
            p == WithSetPoints(r, mask)
<1>1. /\ elements # <<>> => elements[1].ok
      /\ genV.ok /\ genOff' = mask /\ session' = Skipped(p, n, mask) /\ skipStale' = StaleAfter(n)
      /\ injRows' = n /\ genPRows' = IF elements = <<>> THEN genPRows ELSE <<elements[1].data, n>>
      /\ outcome' = "ok" /\ elements' = elements /\ genV' = genV /\ again' = again
  BY DEF SetContingencyGens
<1>2. /\ Session(r) /\ r.gens = mask /\ r.skip = session.skip
      /\ elements = <<>> => /\ r.n = session.n /\ r.kind = session.kind /\ r.data = session.data
                            /\ r.without = session.without /\ r.targets = session.targets
      /\ elements # <<>> => /\ r.n = elements[1].n /\ r.kind = "elements"
                            /\ r.data = elements[1].data
                            /\ r.without = Applicable(mask, elements[1].n)
                            /\ r.targets = <<elements[1].data, elements[1].n>>
  BY ReassembledIs
<1>. HIDE DEF r
<1>3. /\ Session(p) /\ p.n = r.n /\ p.kind = r.kind /\ p.data = r.data /\ p.without = r.without
      /\ p.gens = mask /\ p.skip = r.skip /\ p.targets = r.targets
      /\ genV.v # <<>> => p.gen_v = Pushed(genV.v, mask)
  <2>1. CASE genV.v = <<>>
    BY <1>2, <2>1 DEF WithSetPoints
  <2>2. CASE genV.v # <<>>
    <3>1. p = [r EXCEPT !.gen_v = Pushed(genV.v, mask)]
      BY <2>2 DEF WithSetPoints, WithGenV
    <3>. HIDE DEF p
    <3>2. QED
      BY <1>2, <3>1 DEF Session
  <2>3. QED
    BY <2>1, <2>2
<1>. HIDE DEF p
<1>4. /\ Session(session') /\ session'.n = p.n /\ session'.kind = p.kind /\ session'.data = p.data
      /\ session'.without = p.without /\ session'.gens = mask /\ session'.gen_v = p.gen_v
      /\ session'.targets = p.targets
      /\ session'.skip = IF genV.v = <<>> THEN p.skip
                         ELSE IF RowsDiffer(n) THEN <<>> ELSE SkipMask(genV.v, mask)
  BY <1>1, <1>3, SkippedIs
<1>5. n = r.n /\ n \in {0} \cup Rows
  BY <1>2 DEF Shapes, Session
<1>6. Shapes'
  BY <1>1, <1>3, <1>4, <1>5 DEF Shapes, Session
<1>7. ElementsInv' /\ TargetsInv'
  <2>1. CASE elements = <<>>
    BY <1>1, <1>2, <1>3, <1>4, <2>1 DEF ElementsInv, TargetsInv
  <2>2. CASE elements # <<>>
    BY <1>1, <1>2, <1>3, <1>4, <2>2 DEF ElementsInv, TargetsInv
  <2>3. QED
    BY <2>1, <2>2
<1>8. SetPointsInv' /\ ComputedInv'
  BY <1>1, <1>3, <1>4 DEF SetPointsInv, ComputedInv
<1>9. SkipInv'
  BY <1>1, <1>2, <1>3, <1>4 DEF SkipInv, StaleAfter
<1>10. QED
  BY <1>6, <1>7, <1>8, <1>9

LEMMA MaskRefusedKeeps ==
  ASSUME FacadeInv, NEW mask \in Masks,
         SetContingencyGensRefused(mask) \/ SetContingencyGensTorn(mask)
           \/ SetContingencyGensTornByGenV(mask)
  PROVE  FacadeInv'
<1>. USE DEF FacadeInv
<1>1. CASE SetContingencyGensRefused(mask)
  BY <1>1 DEF SetContingencyGensRefused, Shapes, Session, ElementsInv, TargetsInv, SetPointsInv, SkipInv, ComputedInv
<1>2. CASE SetContingencyGensTorn(mask)
  <2>1. /\ session' = [session EXCEPT !.gens = mask] /\ genOff' = mask /\ outcome' = "raised"
        /\ "injections" \in again' /\ "gen_v" \in again'
        /\ elements' = elements /\ genV' = genV /\ injRows' = injRows /\ genPRows' = genPRows
    BY <1>2 DEF SetContingencyGensTorn, WithMask, Inputs
  <2>2. Shapes'
    BY <2>1 DEF Shapes, Session
  <2>3. ElementsInv' /\ TargetsInv' /\ SetPointsInv' /\ SkipInv' /\ ComputedInv'
    BY <2>1 DEF Shapes, Session, ElementsInv, TargetsInv, SetPointsInv, SkipInv, ComputedInv
  <2>4. QED
    BY <2>2, <2>3
<1>3. CASE SetContingencyGensTornByGenV(mask)
  <2>1. /\ session' = Reassembled(WithMask(session, mask), mask) /\ genOff' = mask
        /\ outcome' = "raised" /\ again' = again \cup {"gen_v"}
        /\ (elements # <<>> => elements[1].ok)
        /\ elements' = elements /\ genV' = genV /\ ~genV.ok
        /\ injRows' = IF elements = <<>> THEN injRows ELSE elements[1].n
        /\ genPRows' = IF elements = <<>> THEN genPRows ELSE <<elements[1].data, elements[1].n>>
    BY <1>3 DEF SetContingencyGensTornByGenV
  <2>2. /\ Session(session') /\ session'.gens = mask /\ session'.skip = session.skip
        /\ elements = <<>> => /\ session'.n = session.n /\ session'.kind = session.kind
                              /\ session'.data = session.data /\ session'.without = session.without
                              /\ session'.targets = session.targets
        /\ elements # <<>> => /\ session'.n = elements[1].n /\ session'.kind = "elements"
                              /\ session'.data = elements[1].data
                              /\ session'.without = Applicable(mask, elements[1].n)
                              /\ session'.targets = <<elements[1].data, elements[1].n>>
    BY <2>1, ReassembledIs
  <2>3. Shapes'
    BY <2>1, <2>2 DEF Shapes, Session
  <2>4. ElementsInv' /\ TargetsInv'
    <3>1. CASE elements = <<>>
      BY <2>1, <2>2, <3>1 DEF ElementsInv, TargetsInv
    <3>2. CASE elements # <<>>
      BY <2>1, <2>2, <3>2 DEF ElementsInv, TargetsInv
    <3>3. QED
      BY <3>1, <3>2
  <2>5. SetPointsInv' /\ SkipInv' /\ ComputedInv'
    BY <2>1, <2>2 DEF Shapes, SetPointsInv, SkipInv, ComputedInv
  <2>6. QED
    BY <2>3, <2>4, <2>5
<1>4. QED
  BY <1>1, <1>2, <1>3

-----------------------------------------------------------------------------
(* Set-points and the rest.                                                *)
LEMMA SetPointsKeep ==
  ASSUME FacadeInv, NEW v \in SetPoints, SetGenV(v) \/ SetGenVRefused(v)
  PROVE  FacadeInv'
<1>. USE DEF FacadeInv
<1>1. CASE SetGenV(v)
  <2>. DEFINE differ == injRows # 0 /\ Len(v) # injRows
              skip == IF differ THEN <<>> ELSE SkipMask(v, genOff)
  <2>1. /\ genV' = [v |-> v, ok |-> TRUE] /\ skipStale' = differ /\ outcome' = "ok"
        /\ again' = again \ {"gen_v"} /\ elements' = elements /\ genOff' = genOff
        /\ injRows' = injRows /\ genPRows' = genPRows
    BY <1>1 DEF SetGenV
  <2>2. session' = [session EXCEPT !.gen_v = Pushed(v, genOff), !.skip = skip]
    BY <1>1 DEF SetGenV, WithGenV, ClearSkippedRows, WithSkippedRows, Shapes, Session
  <2>. HIDE DEF skip
  <2>3. /\ Session(session') /\ session'.gen_v = Pushed(v, genOff) /\ session'.skip = skip
        /\ session'.n = session.n /\ session'.kind = session.kind /\ session'.data = session.data
        /\ session'.without = session.without /\ session'.gens = session.gens
        /\ session'.targets = session.targets
    BY <2>2 DEF Shapes, Session
  <2>4. genV'.v = v /\ genV'.ok /\ v # <<>>
    BY <2>1, SetPointRows
  <2>5. Shapes'
    BY <2>1, <2>3, <2>4 DEF Shapes
  <2>6. ElementsInv' /\ TargetsInv' /\ SetPointsInv' /\ ComputedInv'
    BY <2>1, <2>3, <2>4 DEF ElementsInv, TargetsInv, SetPointsInv, ComputedInv
  <2>7. SkipInv'
    BY <2>1, <2>3, <2>4 DEF SkipInv, skip
  <2>8. QED
    BY <2>5, <2>6, <2>7
<1>2. CASE SetGenVRefused(v)
  <2>1. genV' = [v |-> v, ok |-> FALSE] /\ genV'.v = v /\ v # <<>> /\ "gen_v" \in again'
    BY <1>2, SetPointRows DEF SetGenVRefused
  <2>2. Shapes'
    BY <1>2, <2>1 DEF SetGenVRefused, Shapes
  <2>3. ElementsInv' /\ TargetsInv' /\ SetPointsInv' /\ SkipInv' /\ ComputedInv'
    BY <1>2, <2>1 DEF SetGenVRefused, ElementsInv, TargetsInv, SetPointsInv, SkipInv, ComputedInv
  <2>4. QED
    BY <2>2, <2>3
<1>3. QED
  BY <1>1, <1>2

LEMMA ComputeKeeps ==
  ASSUME FacadeInv, Compute \/ ComputeRefused
  PROVE  FacadeInv'
<1>. USE DEF FacadeInv
<1>1. CASE Compute
  <2>1. /\ session' = AtCompute /\ skipStale' = (skipStale /\ StaleAfter(injRows))
        /\ outcome' = (IF Runs(AtCompute) THEN "computed" ELSE "raised")
        /\ elements' = elements /\ genOff' = genOff /\ genV' = genV /\ injRows' = injRows
        /\ genPRows' = genPRows /\ again' = again
    BY <1>1 DEF Compute
  <2>2. CASE skipStale
    <3>1. session' = Skipped(session, injRows, genOff)
      BY <2>1, <2>2 DEF AtCompute
    <3>2. /\ Session(session') /\ session'.n = session.n /\ session'.kind = session.kind
          /\ session'.data = session.data /\ session'.without = session.without
          /\ session'.gens = session.gens /\ session'.gen_v = session.gen_v
          /\ session'.targets = session.targets
          /\ session'.skip = IF genV.v = <<>> THEN session.skip
                             ELSE IF RowsDiffer(injRows) THEN <<>> ELSE SkipMask(genV.v, genOff)
      BY <3>1, SkippedIs DEF Shapes
    <3>3. Shapes' /\ ElementsInv' /\ TargetsInv' /\ SetPointsInv'
      BY <2>1, <3>2 DEF Shapes, ElementsInv, TargetsInv, SetPointsInv
    <3>4. SkipInv'
      BY <2>1, <2>2, <3>2 DEF SkipInv, StaleAfter
    <3>5. ComputedInv'
      BY <2>1 DEF ComputedInv, StaleAfter, RowsDiffer
    <3>6. QED
      BY <3>3, <3>4, <3>5
  <2>3. CASE ~skipStale
    <3>1. session' = session /\ ~skipStale'
      BY <2>1, <2>3 DEF AtCompute
    <3>2. Shapes' /\ ElementsInv' /\ TargetsInv' /\ SetPointsInv'
      BY <2>1, <3>1 DEF Shapes, ElementsInv, TargetsInv, SetPointsInv
    <3>3. SkipInv' /\ ComputedInv'
      BY <2>1, <2>3, <3>1 DEF SkipInv, ComputedInv
    <3>4. QED
      BY <3>2, <3>3
  <2>4. QED
    BY <2>2, <2>3
<1>2. CASE ComputeRefused
  BY <1>2 DEF ComputeRefused, Shapes, ElementsInv, TargetsInv, SetPointsInv, SkipInv, ComputedInv
<1>3. QED
  BY <1>1, <1>2

LEMMA OthersKeep ==
  ASSUME FacadeInv, (\E n \in Rows : SetTopology(n)) \/ UNCHANGED vars
  PROVE  FacadeInv'
<1>. USE DEF FacadeInv
<1>1. ASSUME NEW n \in Rows, SetTopology(n) PROVE FacadeInv'
  <2>1. /\ session' = [session EXCEPT !.topology = n] /\ outcome' = "ok"
        /\ UNCHANGED <<elements, genOff, genV, skipStale, injRows, genPRows, again>>
    BY <1>1 DEF SetTopology
  <2>2. /\ Session(session') /\ session'.n = session.n /\ session'.kind = session.kind
        /\ session'.data = session.data /\ session'.without = session.without
        /\ session'.gens = session.gens /\ session'.gen_v = session.gen_v
        /\ session'.skip = session.skip /\ session'.targets = session.targets
    BY <2>1 DEF Shapes, Session
  <2>3. Shapes' /\ ElementsInv' /\ TargetsInv' /\ SetPointsInv' /\ SkipInv' /\ ComputedInv'
    BY <2>1, <2>2 DEF Shapes, ElementsInv, TargetsInv, SetPointsInv, SkipInv, ComputedInv
  <2>4. QED
    BY <2>3
<1>2. CASE UNCHANGED vars
  BY <1>2 DEF vars, Shapes, ElementsInv, TargetsInv, SetPointsInv, SkipInv, ComputedInv, RowsDiffer
<1>3. QED
  BY <1>1, <1>2

LEMMA FacadeInductive == FacadeInv /\ [Next]_vars => FacadeInv'
  BY InjectionsKeep, MaskKeeps, MaskRefusedKeeps, SetPointsKeep, ComputeKeeps, OthersKeep DEF Next

(* "the setters may come in any order" (gpu_facade.py): what a compute()   *)
(* solves is what one call with everything would have staged, after any    *)
(* order of setters and refusals, for any rows, generators and set-points. *)
THEOREM AssemblyCorrect == Spec => []AssembledAsAsked
<1>1. ASSUME FacadeInv PROVE AssembledAsAsked
  <2>. USE <1>1 DEF FacadeInv
  <2>1. TargetsFollowInjections
    BY DEF TargetsFollowInjections, TargetsInv
  <2>. SUFFICES ASSUME outcome = "computed"
       PROVE  InjectionsFollowMask /\ SetPointsFollowMask /\ SkippedRowsFollowSetPoints
    BY <2>1 DEF AssembledAsAsked, InjectionsFollowMask, SetPointsFollowMask, SkippedRowsFollowSetPoints
  <2>2. Runs(session) /\ (skipStale => RowsDiffer(injRows)) /\ session.n \in Nat \ {0}
    BY MaskAssumption DEF ComputedInv, Runs, Shapes, MaskAssumption
  <2>3. InjectionsFollowMask
    <3>1. Applicable(genOff, session.n) = SessionMask
      BY <2>2 DEF Applicable, SessionMask, Runs, Fits, Shapes
    <3>2. QED
      BY <3>1 DEF InjectionsFollowMask, InjectionsGiven, ElementsInv
  <2>4. ASSUME genV.v # <<>>
        PROVE  Pushed(genV.v, SessionMask) = Pushed(genV.v, genOff)
               /\ SkipMask(genV.v, SessionMask) = SkipMask(genV.v, genOff)
    <3>1. genV.v \in SetPoints
      BY <2>4 DEF Shapes
    <3>2. QED
      BY <2>2, <3>1, PushedWithoutMask, SkipWithoutMask DEF SessionMask, Shapes
  <2>5. SetPointsFollowMask
    BY <2>4 DEF SetPointsFollowMask, SetPointsGiven, SetPointsInv
  <2>6. SkippedRowsFollowSetPoints
    <3>1. CASE genV.v = <<>>
      BY <3>1 DEF SkippedRowsFollowSetPoints, SkipInv
    <3>2. ASSUME genV.v # <<>>, SetPointsGiven
          PROVE  session.skip = SkipMask(genV.v, SessionMask)
      <4>1. genV.v \in SetPoints /\ session.gen_v = Pushed(genV.v, genOff)
        BY <3>2 DEF Shapes, SetPointsInv, SetPointsGiven
      <4>2. Len(genV.v) = session.n
        BY <2>2, <4>1, PushedRows DEF Runs, Fits
      <4>3. ~skipStale
        BY <2>2, <4>2 DEF RowsDiffer, Shapes
      <4>4. QED
        BY <2>4, <3>2, <4>3 DEF SkipInv, SetPointsGiven
    <3>3. QED
      BY <3>1, <3>2 DEF SkippedRowsFollowSetPoints
  <2>7. QED
    BY <2>3, <2>5, <2>6
<1>2. QED
  BY <1>1, FacadeInit, FacadeInductive, PTL DEF Spec
-----------------------------------------------------------------------------
(* One row of set-points.  A column asks bus b for a magnitude when its     *)
(* generator drives b, is not off and has a set-point.                      *)
Asks(h, b) == h \in Row!Driven(row) /\ row.reg[h] = b /\ Row!Given(row)[h] # NaN

(* Of the kernel that writes f, with the threads of left still to come: a   *)
(* bus one of its threads was asked for has a magnitude it was asked for.   *)
Written(f, left, buses) ==
  \A b \in buses : (\E h \in Units \ left : Asks(h, b)) =>
    \E h \in Units : Asks(h, b) /\ f[b] = Row!Given(row)[h]
(* A bus has what it had before the kernel or what it was asked for.        *)
HeldOrAsked(f) ==
  \A b \in PlainBuses :
    f[b] = Row!Held(row, b) \/ \E h \in Units : Asks(h, b) /\ f[b] = Row!Given(row)[h]

RowTyped ==
  /\ row \in Row!SetPointRows /\ todo \subseteq Row!Driven(row)
  /\ seed \in [PlainBuses -> Int] /\ vset \in [PlainBuses -> Int]
  /\ pc \in {"forward", "seeding", "setting", "solved", "done"}
Decided == pc # "forward" => (skipped <=> Row!Conflict(row))
Seeding == pc = "seeding" => ~skipped /\ Written(seed, todo, PlainBuses)
Setting ==
  pc = "setting" =>
    /\ ~skipped /\ Written(seed, {}, PlainBuses)
    /\ Written(vset, todo, Row!Grouped(row)) /\ HeldOrAsked(vset)
Solved ==
  pc \in {"solved", "done"} /\ ~skipped =>
    /\ Written(seed, {}, PlainBuses)
    /\ Written(vset, {}, Row!Grouped(row)) /\ HeldOrAsked(vset)
RowInv == RowTyped /\ Decided /\ Seeding /\ Setting /\ Solved

(* The session's rule for the columns it drives and the wrapper's agree.    *)
LEMMA ColumnsAgree == Row!ActiveColumns(row) = Row!Driven(row)
  BY DEF Row!ActiveColumns, Row!Driven

LEMMA GivenTyped ==
  ASSUME row \in Row!SetPointRows
  PROVE  /\ Row!Given(row) \in [Units -> Values \cup {NaN}]
         /\ \A h \in Units : Row!Given(row)[h] # NaN => Row!Given(row)[h] \in Int
         /\ \A b \in PlainBuses : Row!Held(row, b) \in Int
  BY RowAssumption DEF Row!SetPointAssumption, Row!SetPointRows, Row!Given, Row!Held

LEMMA RowInit == Row!Init => RowInv
<1>. SUFFICES ASSUME Row!Init PROVE RowInv
  OBVIOUS
<1>1. seed \in [PlainBuses -> Int]
  BY GivenTyped DEF Row!Init
<1>2. QED
  BY <1>1 DEF Row!Init, RowInv, RowTyped, Decided, Seeding, Setting, Solved

LEMMA ForwardKeeps == RowInv /\ Row!Forward => RowInv'
<1>. SUFFICES ASSUME RowInv, Row!Forward PROVE RowInv'
  OBVIOUS
<1>. USE DEF RowInv, Row!Forward
<1>1. RowTyped'
  BY ColumnsAgree DEF RowTyped, Row!Driven
<1>2. skipped' = Row!Conflict(row) /\ row' = row
  OBVIOUS
<1>3. Decided'
  BY <1>2 DEF Decided, Row!Conflict
<1>4. Seeding'
  <2>. SUFFICES ASSUME ~skipped'
       PROVE  \A b \in PlainBuses : \A h \in Units \ Row!ActiveColumns(row) : ~Asks(h, b)
    BY <1>2 DEF Seeding, Written, Asks
  <2>. QED
    BY ColumnsAgree DEF Asks
<1>5. Setting' /\ Solved'
  BY DEF Setting, Solved
<1>6. QED
  BY <1>1, <1>3, <1>4, <1>5

(* A thread writes the set-point of its column, if it has one.              *)
Wrote(f, h) ==
  [f EXCEPT ![row.reg[h]] = IF Row!Given(row)[h] = NaN THEN @ ELSE Row!Given(row)[h]]

LEMMA ThreadWrites ==
  ASSUME RowTyped, NEW f \in [PlainBuses -> Int], NEW buses \in SUBSET PlainBuses,
         NEW h \in todo, Written(f, todo, buses)
  PROVE  /\ Wrote(f, h) \in [PlainBuses -> Int]
         /\ Written(Wrote(f, h), todo \ {h}, buses)
         /\ HeldOrAsked(f) => HeldOrAsked(Wrote(f, h))
<1>. DEFINE b == row.reg[h]
            given == Row!Given(row)[h]
            g == Wrote(f, h)
<1>0. h \in Units /\ h \in Row!Driven(row) /\ b \in PlainBuses
  BY DEF RowTyped, Row!Driven, Row!SetPointRows
<1>1. given # NaN => given \in Int
  BY <1>0, GivenTyped DEF RowTyped
<1>2. g \in [PlainBuses -> Int]
  BY <1>0, <1>1 DEF Wrote
<1>3. given # NaN => Asks(h, b) /\ g[b] = given
  BY <1>0 DEF Asks, Wrote
<1>4. \A c \in PlainBuses : given = NaN \/ c # b => g[c] = f[c]
  BY <1>0 DEF Wrote
<1>. HIDE DEF g
<1>5. ASSUME NEW c \in buses, NEW o \in Units \ (todo \ {h}), Asks(o, c)
      PROVE  \E u \in Units : Asks(u, c) /\ g[c] = Row!Given(row)[u]
  <2>1. CASE given # NaN /\ c = b
    BY <1>0, <1>3, <2>1
  <2>2. CASE given = NaN \/ c # b
    <3>1. o # h
      BY <1>5, <2>2 DEF Asks
    <3>2. g[c] = f[c]
      BY <1>4, <2>2
    <3>3. QED
      BY <1>5, <3>1, <3>2 DEF Written
  <2>3. QED
    BY <2>1, <2>2
<1>6. HeldOrAsked(f) => HeldOrAsked(g)
  BY <1>0, <1>3, <1>4 DEF HeldOrAsked
<1>7. QED
  BY <1>2, <1>5, <1>6 DEF Written, g

(* A thread of the kernel that seeds the magnitudes.                        *)
LEMMA SeedKeeps == ASSUME NEW h \in Units, RowInv, Row!Seed(h) PROVE RowInv'
<1>. USE DEF RowInv
<1>. DEFINE g == Wrote(seed, h)
<1>1. /\ pc = "seeding" /\ h \in todo /\ todo' = todo \ {h} /\ seed' = g
      /\ UNCHANGED <<row, pc, vset, skipped, grad>>
  BY DEF Row!Seed, Wrote
<1>2. g \in [PlainBuses -> Int] /\ Written(g, todo \ {h}, PlainBuses)
  BY <1>1, ThreadWrites DEF Seeding, RowTyped
<1>3. Written(seed, todo, PlainBuses)' <=> Written(g, todo \ {h}, PlainBuses)
  BY <1>1 DEF Written, Asks, Row!Driven, Row!Grouped, Row!Given
<1>4. RowTyped'
  BY <1>1, <1>2 DEF RowTyped, Row!Driven, Row!Grouped
<1>5. Decided'
  BY <1>1 DEF Decided, Row!Conflict
<1>6. Seeding' /\ Setting' /\ Solved'
  BY <1>1, <1>2, <1>3 DEF Seeding, Setting, Solved
<1>7. QED
  BY <1>4, <1>5, <1>6

(* Between the kernels the set-points of the groups are tiled anew.         *)
LEMMA NextKernelKeeps == RowInv /\ Row!NextKernel => RowInv'
<1>. SUFFICES ASSUME RowInv, Row!NextKernel PROVE RowInv'
  OBVIOUS
<1>. USE DEF RowInv
<1>1. /\ pc = "seeding" /\ todo = {} /\ pc' = "setting" /\ UNCHANGED <<row, seed, skipped>>
      /\ todo' = {h \in Row!ActiveColumns(row) : row.reg[h] \in Row!Grouped(row)}
      /\ vset' = [b \in PlainBuses |-> Row!Held(row, b)]
  BY DEF Row!NextKernel
<1>2. RowTyped'
  BY <1>1, ColumnsAgree, GivenTyped DEF RowTyped, Row!Driven, Row!Grouped
<1>3. Decided'
  BY <1>1 DEF Decided, Row!Conflict
<1>4. HeldOrAsked(vset)'
  BY <1>1 DEF HeldOrAsked
<1>5. Written(vset, todo, Row!Grouped(row))'
  <2>1. \A b \in Row!Grouped(row) : \A h \in Units \ todo' : ~Asks(h, b)
    BY <1>1, ColumnsAgree DEF Asks
  <2>2. QED
    BY <1>1, <2>1 DEF Written, Asks, Row!Driven, Row!Grouped, Row!Given
<1>6. Written(seed, {}, PlainBuses)'
  BY <1>1 DEF Seeding, Written, Asks, Row!Driven, Row!Grouped, Row!Given
<1>7. Seeding' /\ Setting' /\ Solved'
  BY <1>1, <1>4, <1>5, <1>6 DEF Seeding, Setting, Solved
<1>8. QED
  BY <1>2, <1>3, <1>7

(* A thread of the kernel that sets the set-points of the groups.           *)
LEMMA SetKeeps == ASSUME NEW h \in Units, RowInv, Row!Set(h) PROVE RowInv'
<1>. USE DEF RowInv
<1>. DEFINE g == Wrote(vset, h)
            grouped == Row!Grouped(row)
<1>1. /\ pc = "setting" /\ h \in todo /\ todo' = todo \ {h} /\ vset' = g
      /\ UNCHANGED <<row, pc, seed, skipped, grad>>
  BY DEF Row!Set, Wrote
<1>2. grouped \in SUBSET PlainBuses
  BY DEF Row!Grouped
<1>. HIDE DEF g, grouped
<1>3. Written(vset, todo, grouped) /\ HeldOrAsked(vset) /\ vset \in [PlainBuses -> Int] /\ RowTyped
  BY <1>1 DEF Setting, RowTyped, grouped
<1>4. g \in [PlainBuses -> Int] /\ Written(g, todo \ {h}, grouped) /\ HeldOrAsked(g)
  BY <1>1, <1>2, <1>3, ThreadWrites DEF g
<1>5. /\ Written(vset, todo, Row!Grouped(row))' <=> Written(g, todo \ {h}, grouped)
      /\ HeldOrAsked(vset)' <=> HeldOrAsked(g)
      /\ Written(seed, {}, PlainBuses)' <=> Written(seed, {}, PlainBuses)
  BY <1>1 DEF Written, HeldOrAsked, grouped, Asks, Row!Driven, Row!Grouped, Row!Given, Row!Held
<1>6. RowTyped'
  BY <1>1, <1>4 DEF RowTyped, Row!Driven, Row!Grouped
<1>7. Decided'
  BY <1>1 DEF Decided, Row!Conflict
<1>8. Seeding' /\ Setting' /\ Solved'
  BY <1>1, <1>4, <1>5 DEF Seeding, Setting, Solved
<1>9. QED
  BY <1>6, <1>7, <1>8

LEMMA RowInductive == RowInv /\ [Row!Next]_(Row!rowVars) => RowInv'
<1>. SUFFICES ASSUME RowInv, [Row!Next]_(Row!rowVars) PROVE RowInv'
  OBVIOUS
<1>1. ASSUME UNCHANGED <<row, todo, seed, vset, skipped>>,
             \/ pc' = pc
             \/ pc = "setting" /\ todo = {} /\ pc' = "solved"
             \/ pc = "solved" /\ pc' = "done"
      PROVE  RowInv'
  <2>1. /\ Written(vset, {}, Row!Grouped(row))' <=> Written(vset, {}, Row!Grouped(row))
        /\ Written(vset, todo, Row!Grouped(row))' <=> Written(vset, todo, Row!Grouped(row))
        /\ Written(seed, {}, PlainBuses)' <=> Written(seed, {}, PlainBuses)
        /\ Written(seed, todo, PlainBuses)' <=> Written(seed, todo, PlainBuses)
        /\ HeldOrAsked(vset)' <=> HeldOrAsked(vset)
        /\ Row!Driven(row)' = Row!Driven(row) /\ Row!Conflict(row)' = Row!Conflict(row)
    BY <1>1 DEF Written, HeldOrAsked, Asks
  <2>2. QED
    BY <1>1, <2>1 DEF RowInv, RowTyped, Decided, Seeding, Setting, Solved
<1>2. Row!Solve => RowInv'
  BY <1>1 DEF Row!Solve
<1>3. Row!Backward => RowInv'
  BY <1>1 DEF Row!Backward
<1>4. UNCHANGED Row!rowVars => RowInv'
  BY <1>1 DEF Row!rowVars
<1>5. QED
  BY <1>2, <1>3, <1>4, ForwardKeeps, SeedKeeps, NextKernelKeeps, SetKeeps DEF Row!Next

LEMMA RowCorrect == Row!Spec => []RowInv
  BY RowInit, RowInductive, PTL DEF Row!Spec

-----------------------------------------------------------------------------
(* In a row that is solved any two magnitudes asked of a bus, its pinned    *)
(* one included, are within the tolerance.                                  *)
LEMMA AskedAlike ==
  ASSUME row \in Row!SetPointRows, ~Row!Conflict(row), NEW b \in PlainBuses
  PROVE  /\ \A h, o \in Units :
              Asks(h, b) /\ Asks(o, b) => Row!Given(row)[h] - Row!Given(row)[o] <= Tol
         /\ \A h \in Units, p \in Row!Pinned(row, b) :
              Asks(h, b) => Row!Given(row)[h] - p <= Tol /\ p - Row!Given(row)[h] <= Tol
<1>. DEFINE given == Row!Given(row)
            asked == Row!Asked(given, {h \in Row!Shared(row) : row.reg[h] = b})
<1>. Tol \in Nat /\ Pin \in Int
  BY RowAssumption DEF Row!SetPointAssumption
<1>1. \A h \in Units : Asks(h, b) => given[h] \in Int
  BY GivenTyped DEF Asks
<1>2. \A h \in Units : Asks(h, b) /\ h \in Row!Shared(row) => given[h] \in asked
  BY DEF Asks, Row!Asked
<1>3. asked # {} => ~Row!Apart(asked \cup Row!Pinned(row, b))
  BY DEF Row!Conflict
<1>4. ASSUME NEW h \in Units, NEW o \in Units, Asks(h, b), Asks(o, b)
      PROVE  given[h] - given[o] <= Tol
  <2>1. CASE h = o
    BY <1>1, <1>4, <2>1
  <2>2. CASE h # o
    <3>1. {h, o} \subseteq Row!Shared(row)
      BY <1>4, <2>2 DEF Asks, Row!Shared
    <3>2. ~(given[h] - given[o] > Tol)
      BY <1>2, <1>3, <1>4, <3>1 DEF Row!Apart
    <3>3. QED
      BY <1>1, <1>4, <3>2
  <2>3. QED
    BY <2>1, <2>2
<1>5. ASSUME NEW h \in Units, NEW p \in Row!Pinned(row, b), Asks(h, b)
      PROVE  given[h] - p <= Tol /\ p - given[h] <= Tol
  <2>1. h \in Row!Shared(row) /\ p = Pin
    BY <1>5 DEF Asks, Row!Shared, Row!Pinned
  <2>2. ~(given[h] - p > Tol) /\ ~(p - given[h] > Tol)
    BY <1>2, <1>3, <1>5, <2>1 DEF Row!Apart
  <2>3. QED
    BY <1>1, <1>5, <2>1, <2>2
<1>6. QED
  BY <1>4, <1>5

(* "|V| at a bus is unique" (_batch_pf.py): whatever the order of the       *)
(* kernels' threads, a row that is solved has every set-point it applies,   *)
(* to the tolerance, and its pinned groups their own, for any number of     *)
(* generators and buses and any set-points.                                 *)
THEOREM SetPointsHeld == Row!Spec => []SolvedAtTheSetPoints
<1>1. ASSUME RowInv PROVE SolvedAtTheSetPoints
  <2>. USE <1>1 DEF RowInv
  <2>. SUFFICES ASSUME pc \in {"solved", "done"}, ~skipped
       PROVE  /\ \A h \in Row!Driven(row) :
                   row.v[h] # NaN /\ h \notin row.off =>
                     ~Row!Apart({row.v[h], IF row.reg[h] \in Row!Grouped(row)
                                           THEN vset[row.reg[h]] ELSE seed[row.reg[h]]})
              /\ \A b \in PlainBuses :
                   ~Row!Apart(Row!Pinned(row, b) \cup {vset[b] : y \in Row!Pinned(row, b)})
    BY DEF SolvedAtTheSetPoints, Row!SolvedAtTheSetPoints
  <2>. Tol \in Nat /\ Pin \in Int /\ row \in Row!SetPointRows
    BY RowAssumption DEF Row!SetPointAssumption, RowTyped
  <2>1. ~Row!Conflict(row) /\ Solved
    BY DEF Decided
  <2>2. ASSUME NEW h \in Row!Driven(row), row.v[h] # NaN, h \notin row.off,
               NEW held, held = IF row.reg[h] \in Row!Grouped(row)
                                THEN vset[row.reg[h]] ELSE seed[row.reg[h]]
        PROVE  ~Row!Apart({row.v[h], held})
    <3>1. h \in Units /\ row.reg[h] \in PlainBuses /\ Row!Given(row)[h] = row.v[h]
      BY <2>2 DEF Row!Driven, Row!SetPointRows, Row!Given
    <3>2. Asks(h, row.reg[h])
      BY <2>2, <3>1 DEF Asks
    <3>3. PICK o \in Units : Asks(o, row.reg[h]) /\ held = Row!Given(row)[o]
      BY <2>1, <2>2, <3>1, <3>2 DEF Solved, Written
    <3>4. row.v[h] \in Int /\ held \in Int
      BY <2>2, <3>1, <3>3, GivenTyped DEF Asks
    <3>5. row.v[h] - held <= Tol /\ held - row.v[h] <= Tol
      BY <2>1, <3>1, <3>2, <3>3, AskedAlike
    <3>6. QED
      BY <3>4, <3>5 DEF Row!Apart
  <2>3. ASSUME NEW b \in PlainBuses, Row!Pinned(row, b) # {}
        PROVE  ~Row!Apart(Row!Pinned(row, b) \cup {vset[b] : y \in Row!Pinned(row, b)})
    <3>1. Row!Pinned(row, b) = {Pin} /\ Row!Held(row, b) = Pin
      BY <2>3 DEF Row!Pinned, Row!Held
    <3>2. vset[b] \in Int /\ vset[b] - Pin <= Tol /\ Pin - vset[b] <= Tol
      <4>1. CASE vset[b] = Row!Held(row, b)
        BY <3>1, <4>1
      <4>2. ASSUME NEW o \in Units, Asks(o, b), vset[b] = Row!Given(row)[o]
            PROVE  vset[b] \in Int /\ vset[b] - Pin <= Tol /\ Pin - vset[b] <= Tol
        BY <2>1, <3>1, <4>2, AskedAlike DEF RowTyped
      <4>3. QED
        BY <2>1, <4>1, <4>2 DEF Solved, HeldOrAsked
    <3>3. QED
      BY <3>1, <3>2 DEF Row!Apart
  <2>4. QED
    BY <2>2, <2>3 DEF Row!Apart
<1>2. QED
  BY <1>1, RowCorrect, PTL

LEMMA SameCount == \A S : Row!Cardinality(S) = Cardinality(S) /\ (Row!IsFiniteSet(S) <=> IsFiniteSet(S))
  BY DEF Cardinality, Row!Cardinality, IsFiniteSet, Row!IsFiniteSet

(* The wrapper looks at the columns that share a bus or a pinned group, the *)
(* facade at the buses that have several columns or a pinned group.         *)
LEMMA RulesAgree ==
  ASSUME row \in Row!SetPointRows
  PROVE  Row!Conflict(row) <=> Row!ConflictingRow(row)
<1>. DEFINE given == Row!Given(row)
            cols(b) == {h \in Row!Driven(row) : row.reg[h] = b}
            shared(b) == {h \in Row!Shared(row) : row.reg[h] = b}
            several(b) == Cardinality(cols(b)) >= 2 \/ row.kind[b] = "pinned"
<1>. Tol \in Nat /\ Pin \in Int /\ IsFiniteSet(Units)
  BY RowAssumption, SameCount DEF Row!SetPointAssumption
<1>1. \A b : IsFiniteSet(cols(b)) /\ Cardinality(cols(b)) \in Nat
  <2>. TAKE b
  <2>1. cols(b) \in SUBSET Units
    BY DEF Row!Driven
  <2>2. QED
    BY <2>1, FS_Subset, FS_CardinalityType
<1>2. ASSUME NEW b, several(b) PROVE shared(b) = cols(b)
  <2>1. ASSUME NEW h \in cols(b), row.kind[b] # "pinned" PROVE \E o \in cols(b) : o # h
    <3>1. Cardinality(cols(b)) # 1
      BY <1>1, <1>2, <2>1
    <3>2. cols(b) # {h}
      BY <3>1, FS_Singleton
    <3>3. QED
      BY <2>1, <3>2
  <2>2. \A h \in cols(b) : h \in Row!Shared(row)
    BY <2>1 DEF Row!Shared
  <2>3. QED
    BY <2>2 DEF Row!Shared
<1>3. ASSUME NEW b, shared(b) # {} PROVE several(b)
  <2>1. PICK h \in cols(b) : row.kind[b] = "pinned" \/ \E o \in cols(b) : o # h
    BY <1>3 DEF Row!Shared
  <2>2. ASSUME NEW o \in cols(b), o # h PROVE Cardinality(cols(b)) >= 2
    <3>1. Cardinality(cols(b)) # 1
      BY <1>1, <2>1, <2>2, FS_Singleton
    <3>2. Cardinality(cols(b)) # 0
      BY <1>1, <2>1, FS_EmptySet
    <3>3. QED
      BY <1>1, <3>1, <3>2
  <2>3. QED
    BY <2>1, <2>2
<1>4. \A b : Row!Asked(given, {}) = {} /\ ~Row!Apart({} \cup Row!Pinned(row, b))
  BY DEF Row!Asked, Row!Apart, Row!Pinned
<1>5. Row!ConflictingRow(row)
        <=> \E b \in {row.reg[h] : h \in Row!Driven(row)} :
              several(b) /\ Row!Apart(Row!Asked(given, cols(b)) \cup Row!Pinned(row, b))
  BY SameCount DEF Row!ConflictingRow, Row!Given
<1>6. Row!Conflict(row)
        <=> \E b \in PlainBuses :
              /\ Row!Asked(given, shared(b)) # {}
              /\ Row!Apart(Row!Asked(given, shared(b)) \cup Row!Pinned(row, b))
  BY DEF Row!Conflict
<1>7. ASSUME NEW b, several(b), Row!Apart(Row!Asked(given, cols(b)) \cup Row!Pinned(row, b))
      PROVE  /\ Row!Asked(given, shared(b)) # {}
             /\ Row!Apart(Row!Asked(given, shared(b)) \cup Row!Pinned(row, b))
  BY <1>2, <1>4, <1>7, Zenon
<1>8. ASSUME NEW b \in PlainBuses, Row!Asked(given, shared(b)) # {},
             Row!Apart(Row!Asked(given, shared(b)) \cup Row!Pinned(row, b))
      PROVE  /\ b \in {row.reg[h] : h \in Row!Driven(row)} /\ several(b)
             /\ Row!Apart(Row!Asked(given, cols(b)) \cup Row!Pinned(row, b))
  <2>1. shared(b) # {}
    BY <1>4, <1>8
  <2>2. several(b) /\ shared(b) = cols(b)
    BY <1>2, <1>3, <2>1
  <2>3. QED
    BY <1>8, <2>1, <2>2
<1>9. \A b \in {row.reg[h] : h \in Row!Driven(row)} : b \in PlainBuses
  BY DEF Row!Driven, Row!SetPointRows
<1>10. QED
  BY <1>5, <1>6, <1>7, <1>8, <1>9

(* "the callers report it as NOT SIMULATED": the differentiable wrapper     *)
(* (_apply_gen_v_conflicts) and the facade (conflicting_gen_v_rows) leave   *)
(* out the same rows, though each has a rule of its own.                    *)
THEOREM SkippedAlike == Row!Spec => []RowsSkippedAlike
<1>1. RowInv => RowsSkippedAlike
  BY RulesAgree DEF RowInv, RowTyped, Decided, RowsSkippedAlike, Row!RowsSkippedAlike
<1>2. QED
  BY <1>1, RowCorrect, PTL
-----------------------------------------------------------------------------
(* A set of sizes has a smallest one: induction over finite sets.           *)
LEMMA SmallestOf ==
  ASSUME NEW T \in SUBSET Nat, T # {}
  PROVE  \E n \in T : \A m \in T : ~(m < n)
<1>1. \E n \in T : \A m \in T : ~(<<m, n>> \in OpToRel(<, Nat))
  BY NatLessThanWellFounded, WFMin, Zenon
<1>2. QED
  BY <1>1 DEF OpToRel

SumOf(f, S) == Row!MapThenSumSet(LAMBDA g : f[g], S)

(* What the sum of f over S is computed by.                                 *)
Adds(it, f, S) ==
  it = [s \in SUBSET S |->
          IF s = {} THEN 0
          ELSE f[CHOOSE x \in s : TRUE] + it[s \ {CHOOSE x \in s : TRUE}]]

(* The sum of a function that is q on A and 0 elsewhere.                    *)
LEMMA ConstantSum ==
  ASSUME NEW S, IsFiniteSet(S), NEW A, NEW q \in Int, NEW f,
         \A x \in S : f[x] = IF x \in A THEN q ELSE 0
  PROVE  SumOf(f, S) = q * Cardinality(S \cap A)
<1>. DEFINE first(s) == CHOOSE x \in s : TRUE
            w == [s \in SUBSET S |-> q * Cardinality(s \cap A)]
<1>1. \A s \in SUBSET S : IsFiniteSet(s) /\ IsFiniteSet(s \cap A) /\ Cardinality(s) \in Nat
                           /\ Cardinality(s \cap A) \in Nat
  BY FS_Subset, FS_CardinalityType
<1>2. \A s \in SUBSET S : s # {} => first(s) \in s
  OBVIOUS
<1>. HIDE DEF first
<1>3. ASSUME NEW s \in SUBSET S, s # {}
      PROVE  /\ s \ {first(s)} \in SUBSET S
             /\ Cardinality(s \ {first(s)}) = Cardinality(s) - 1
             /\ w[s] = f[first(s)] + w[s \ {first(s)}]
  <2>. DEFINE x == first(s)
  <2>1. x \in s /\ x \in S
    BY <1>2, <1>3
  <2>. HIDE DEF x
  <2>2. s \ {x} \in SUBSET S /\ Cardinality(s \ {x}) = Cardinality(s) - 1
    BY <1>1, <2>1, FS_RemoveElement
  <2>3. ASSUME x \in A PROVE w[s] = f[x] + w[s \ {x}]
    <3>1. (s \ {x}) \cap A = (s \cap A) \ {x} /\ x \in s \cap A
      BY <2>1, <2>3
    <3>2. Cardinality((s \ {x}) \cap A) = Cardinality(s \cap A) - 1
      <4>1. IsFiniteSet(s \cap A)
        BY <1>1
      <4>2. Cardinality((s \cap A) \ {x}) = Cardinality(s \cap A) - 1
        BY ONLY <3>1, <4>1, FS_RemoveElement
      <4>3. QED
        BY <3>1, <4>2
    <3>3. q * Cardinality(s \cap A) = q + q * (Cardinality(s \cap A) - 1)
      <4>1. ASSUME NEW n \in Nat PROVE q * n = q + q * (n - 1)
        OBVIOUS
      <4>2. QED
        BY <1>1, <4>1
    <3>4. w[s \ {x}] = q * (Cardinality(s \cap A) - 1)
      BY <2>2, <3>2
    <3>5. QED
      BY <2>1, <2>2, <2>3, <3>3, <3>4
  <2>4. ASSUME x \notin A PROVE w[s] = f[x] + w[s \ {x}]
    <3>1. (s \ {x}) \cap A = s \cap A
      BY <2>4
    <3>2. w[s \ {x}] = w[s]
      BY <2>2, <3>1
    <3>3. w[s] \in Int
      BY <1>1
    <3>4. QED
      BY <2>1, <2>4, <3>2, <3>3
  <2>5. QED
    BY <2>2, <2>3, <2>4 DEF x
<1>4. w[{}] = 0
  <2>1. {} \cap A = {} /\ Cardinality({}) = 0
    BY FS_EmptySet
  <2>2. QED
    BY <2>1
<1>. HIDE DEF w
<1>5. Adds(w, f, S)
  BY <1>3, <1>4 DEF Adds, first, w
<1>6. ASSUME NEW it, Adds(it, f, S) PROVE \A s \in SUBSET S : it[s] = w[s]
  <2>. DEFINE T == {Cardinality(s) : s \in {s \in SUBSET S : it[s] # w[s]}}
  <2>0. \A s \in SUBSET S : it[s] = IF s = {} THEN 0 ELSE f[first(s)] + it[s \ {first(s)}]
    BY <1>6 DEF Adds, first
  <2>1. SUFFICES ASSUME T # {} PROVE FALSE
    OBVIOUS
  <2>2. T \in SUBSET Nat
    BY <1>1
  <2>3. PICK n \in T : \A m \in T : ~(m < n)
    BY <2>1, <2>2, SmallestOf
  <2>4. PICK s \in SUBSET S : it[s] # w[s] /\ Cardinality(s) = n
    BY <2>3
  <2>5. s # {}
    BY <1>4, <2>0, <2>4
  <2>6. it[s \ {first(s)}] # w[s \ {first(s)}]
    BY <1>3, <2>0, <2>4, <2>5
  <2>7. Cardinality(s \ {first(s)}) \in T
    BY <1>3, <2>5, <2>6
  <2>8. ~(Cardinality(s \ {first(s)}) < n)
    BY <2>3, <2>7
  <2>9. Cardinality(s \ {first(s)}) = n - 1 /\ n \in Nat
    BY <1>1, <1>3, <2>4, <2>5
  <2>10. QED
    BY <2>8, <2>9
<1>7. Adds(CHOOSE it : Adds(it, f, S), f, S)
  BY <1>5
<1>8. SumOf(f, S) = (CHOOSE it : Adds(it, f, S))[S]
  BY DEF SumOf, Row!MapThenSumSet, Row!MapThenFoldSet, Adds
<1>9. QED
  BY <1>6, <1>7, <1>8 DEF w

(* What backward() makes of a row, and what the session refuses of it.      *)
GradInv == Row!Possible(row) /\ (pc = "done" => grad = Row!GradGenV)

LEMMA GradCorrect == Row!Spec => []GradInv
<1>1. Row!Init => GradInv
  BY DEF Row!Init, GradInv
<1>2. GradInv /\ [Row!Next]_(Row!rowVars) => GradInv'
  <2>. SUFFICES ASSUME GradInv, [Row!Next]_(Row!rowVars) PROVE GradInv'
    OBVIOUS
  <2>1. row' = row
    BY DEF Row!Next, Row!rowVars, Row!Forward, Row!Seed, Row!NextKernel, Row!Set, Row!Solve, Row!Backward
  <2>2. Row!Possible(row)'
    BY <2>1 DEF GradInv
  <2>3. CASE Row!Backward
    <3>1. grad' = Row!GradGenV /\ UNCHANGED <<row, skipped>>
      BY <2>3 DEF Row!Backward
    <3>2. Row!GradGenV' = Row!GradGenV
      BY <3>1 DEF Row!GradGenV, Row!Applied, Row!OfBus, Row!CountApplied
    <3>3. QED
      BY <2>2, <3>1, <3>2 DEF GradInv
  <2>4. CASE UNCHANGED Row!rowVars
    <3>1. UNCHANGED <<row, pc, skipped, grad>>
      BY <2>4 DEF Row!rowVars
    <3>2. Row!GradGenV' = Row!GradGenV
      BY <3>1 DEF Row!GradGenV, Row!Applied, Row!OfBus, Row!CountApplied
    <3>3. QED
      BY <2>2, <3>1, <3>2 DEF GradInv
  <2>5. ASSUME NEW h, Row!Forward \/ Row!NextKernel \/ Row!Solve \/ Row!Seed(h) \/ Row!Set(h)
        PROVE  pc' # "done"
    BY <2>5 DEF Row!Forward, Row!Seed, Row!NextKernel, Row!Set, Row!Solve
  <2>6. QED
    BY <2>2, <2>3, <2>4, <2>5 DEF Row!Next, GradInv
<1>3. QED
  BY <1>1, <1>2, PTL DEF Row!Spec

(* The columns that applied are the generators with a set-point in force at *)
(* a bus whose magnitude is held.                                           *)
LEMMA AppliedAre ==
  ASSUME row \in Row!SetPointRows
  PROVE  /\ Row!Applied \subseteq Units
         /\ \A h \in Units :
              h \in Row!Applied <=> /\ row.reg[h] # None /\ h \notin row.off /\ row.v[h] # NaN
                                    /\ row.kind[row.reg[h]] # "pq"
<1>1. \A h \in Units : row.reg[h] \in PlainBuses \cup {None}
  BY DEF Row!SetPointRows
<1>2. \A b \in PlainBuses : row.kind[b] # "pq" <=> row.kind[b] = "fixed" \/ b \in Row!Grouped(row)
  BY DEF Row!SetPointRows, Row!Kinds, Row!Grouped
<1>3. \A h \in Units : h \in Row!Driven(row) <=> row.reg[h] # None /\ row.kind[row.reg[h]] # "pq"
  BY <1>1, <1>2 DEF Row!Driven
<1>4. \A h \in Units : Row!Given(row)[h] # NaN <=> h \notin row.off /\ row.v[h] # NaN
  BY DEF Row!Given
<1>5. QED
  BY <1>3, <1>4 DEF Row!Applied, Row!Driven

LEMMA Shares ==
  ASSUME NEW z \in Int, NEW k \in Nat, k > 0, z % k = 0
  PROVE  z \div k \in Int /\ k * (z \div k) = z
<1>1. z \div k \in Int
  OBVIOUS
<1>2. z = k * (z \div k)
  OBVIOUS
<1>3. QED
  BY <1>1, <1>2

LEMMA BusShares ==
  ASSUME row \in Row!SetPointRows, Row!Possible(row), NEW b \in PlainBuses,
         NEW cols, cols = {h \in Units : row.reg[h] = b},
         NEW on, on = {h \in Units : row.reg[h] = b /\ h \notin row.off /\ row.v[h] # NaN},
         NEW f, f = Row!GradGenV
  PROVE  SumOf(f, cols)
           = IF on = {} \/ row.kind[b] \in {"pq", "pinned"} \/ b \in row.stranded \/ skipped
             THEN 0 ELSE Whole
<1>. DEFINE shared == cols \cap Row!Applied
            n == Cardinality(shared)
            q == Row!OfBus(b) \div n
<1>1. /\ IsFiniteSet(Units) /\ Whole \in Int /\ None \notin PlainBuses
      /\ \A k \in 1 .. Cardinality(Units) : Whole % k = 0
  BY RowAssumption, SameCount DEF Row!SetPointAssumption
<1>2. shared = IF row.kind[b] = "pq" THEN {} ELSE on
  BY <1>1, AppliedAre
<1>3. IsFiniteSet(cols) /\ IsFiniteSet(shared) /\ n \in Nat /\ n <= Cardinality(Units)
      /\ Cardinality(Units) \in Nat
  <2>1. shared \subseteq Units /\ cols \subseteq Units
    OBVIOUS
  <2>2. QED
    BY <1>1, <2>1, FS_Subset, FS_CardinalityType
<1>4. Row!CountApplied(b) = n
  <2>1. {h \in Row!Applied : row.reg[h] = b} = shared
    BY AppliedAre
  <2>2. QED
    BY <2>1, SameCount DEF Row!CountApplied
<1>5. \A h \in cols : f[h] = IF h \in Row!Applied THEN q ELSE 0
  BY <1>4 DEF Row!GradGenV
<1>6. CASE shared = {}
  <2>. DEFINE none == {}
              z == 0
  <2>1. \A h \in cols : f[h] = IF h \in none THEN z ELSE 0
    BY <1>5, <1>6
  <2>2. z \in Int /\ z * Cardinality(cols \cap none) = 0
    BY FS_EmptySet
  <2>3. on = {} \/ row.kind[b] = "pq"
    BY <1>2, <1>6
  <2>. HIDE DEF none, z
  <2>4. SumOf(f, cols) = z * Cardinality(cols \cap none)
    BY ONLY <1>3, <2>1, <2>2, ConstantSum
  <2>5. QED
    BY <2>2, <2>3, <2>4
<1>7. CASE shared # {}
  <2>1. n # 0
    BY <1>3, <1>7, FS_EmptySet
  <2>2. n \in 1 .. Cardinality(Units) /\ n > 0
    BY <1>3, <2>1
  <2>3. on # {} /\ row.kind[b] # "pq"
    BY <1>2, <1>7
  <2>4. Row!OfBus(b) = IF row.kind[b] = "pinned" \/ b \in row.stranded \/ skipped THEN 0 ELSE Whole
    <3>1. ~Row!Released(row, b)
      BY <2>3 DEF Row!Released
    <3>2. b \in row.stranded => row.kind[b] # "fixed"
      BY DEF Row!Possible, Row!Grouped
    <3>3. row.kind[b] \in {"fixed", "free", "pinned"}
      BY <2>3 DEF Row!SetPointRows, Row!Kinds
    <3>4. Row!Felt(row, b) <=> ~(row.kind[b] = "pinned" \/ b \in row.stranded)
      BY <3>1, <3>2, <3>3 DEF Row!Felt
    <3>5. QED
      BY <3>4 DEF Row!OfBus
  <2>5. Row!OfBus(b) \in Int /\ Row!OfBus(b) % n = 0
    <3>1. Whole % n = 0 /\ 0 % n = 0
      BY <1>1, <1>3, <2>2
    <3>2. QED
      BY <1>1, <2>4, <3>1
  <2>6. q \in Int /\ n * q = Row!OfBus(b)
    BY <1>3, <2>2, <2>5, Shares
  <2>. HIDE DEF q
  <2>7. SumOf(f, cols) = q * n
    <3>1. SumOf(f, cols) = q * Cardinality(cols \cap Row!Applied)
      BY ONLY <1>3, <1>5, <2>6, ConstantSum
    <3>2. QED
      BY <3>1
  <2>8. QED
    <3>1. n * q = q * n
      BY <1>3, <2>6
    <3>2. QED
      BY <2>3, <2>4, <2>6, <2>7, <3>1
<1>8. QED
  BY <1>6, <1>7

(* "tied set-points: the one derivative that exists is split between the    *)
(* columns that actually applied" (_batch_pf.py): their parts add up to the *)
(* derivative of the bus, nothing is lost or counted twice, for any number  *)
(* of generators, and a column that did not apply gets nothing.             *)
THEOREM SplitCorrect == Row!Spec => []GradientsSplitTheTie
<1>1. ASSUME RowInv, GradInv PROVE GradientsSplitTheTie
  <2>. SUFFICES ASSUME pc = "done" PROVE Row!GradientsSplitTheTie
    BY DEF GradientsSplitTheTie, Row!GradientsSplitTheTie
  <2>1. row \in Row!SetPointRows /\ Row!Possible(row) /\ grad = Row!GradGenV
    BY <1>1 DEF RowInv, RowTyped, GradInv
  <2>2. \A b \in PlainBuses :
          SumOf(grad, {h \in Units : row.reg[h] = b})
            = IF \/ {h \in Units : row.reg[h] = b /\ h \notin row.off /\ row.v[h] # NaN} = {}
                 \/ row.kind[b] \in {"pq", "pinned"} \/ b \in row.stranded \/ skipped
              THEN 0 ELSE Whole
    <3>. TAKE b \in PlainBuses
    <3>. DEFINE cols == {h \in Units : row.reg[h] = b}
                on == {h \in Units : row.reg[h] = b /\ h \notin row.off /\ row.v[h] # NaN}
    <3>. HIDE DEF cols, on
    <3>1. SumOf(grad, cols)
            = IF on = {} \/ row.kind[b] \in {"pq", "pinned"} \/ b \in row.stranded \/ skipped
              THEN 0 ELSE Whole
      BY <2>1, BusShares DEF cols, on
    <3>2. QED
      BY <3>1 DEF cols, on
  <2>3. \A h \in Units : row.reg[h] = None \/ h \in row.off \/ row.v[h] = NaN => grad[h] = 0
    BY <2>1, AppliedAre DEF Row!GradGenV
  <2>4. QED
    BY <2>2, <2>3 DEF Row!GradientsSplitTheTie, SumOf
<1>2. QED
  BY <1>1, RowCorrect, GradCorrect, PTL
=============================================================================
