------------------------- MODULE SweepResults_proofs -------------------------
(***************************************************************************)
(* Theorems about what a caller reads after ScenarioSweepGPU.compute().    *)
(* run() is a composition of operators on the session; a lemma for each    *)
(* says what it leaves alone and what it changes, and the actions put      *)
(* these together.                                                         *)
(***************************************************************************)
EXTENDS SweepResults, FiniteSetTheorems, SequenceTheorems, TLAPS

USE DEF LeftOut, SplitOff

(* The parts of a session that only setters change.                        *)
SameStaged(q, r) ==
  /\ q.rows = r.rows /\ q.data = r.data /\ q.topo = r.topo /\ q.dirty = r.dirty
  /\ q.limits = r.limits /\ q.check = r.check /\ q.tol = r.tol /\ q.rel = r.rel
  /\ q.mask = r.mask /\ q.asked = r.asked

(* The result buffers have a row for each row of the source.               *)
Shaped(r) ==
  /\ r \in Sessions
  /\ DOMAIN r.driver.v = DOMAIN r.driver.source
  /\ r.driver.viol = <<>> \/ DOMAIN r.driver.viol = DOMAIN r.driver.source

Tables(r) ==
  /\ r.driver.hasAdm => r.driver.adm = r.data
  /\ r.driver.hasBuf => r.driver.hasAdm /\ r.driver.bufN = Len(r.driver.adm)
  /\ r.limits # None => Len(r.limits.amp) = Len(r.data)

MayRun(r) == r.rows # 0 /\ (r.topo => Len(r.trips) = r.rows)

LEMMA FunctionIsSeq ==
  ASSUME NEW S, NEW n \in Nat, NEW f \in [1..n -> S]
  PROVE  f \in Seq(S) /\ Len(f) = n
<1>1. f \in Seq(S)
  BY SeqDef
<1>2. QED
  BY <1>1, LenProperties

(* One entry for each of those of a sequence.                              *)
LEMMA AlongSeq ==
  ASSUME NEW S, NEW T, NEW t \in Seq(S), NEW f, DOMAIN f = DOMAIN t,
         f \in [DOMAIN t -> T]
  PROVE  f \in Seq(T) /\ Len(f) = Len(t)
BY FunctionIsSeq, LenProperties

LEMMA DataAreSequences == \A d \in Data : Len(d) \in Nat /\ DOMAIN d = 1..Len(d)
<1>1. ASSUME NEW g \in Grids
      PROVE  LET d == ExtractBranchData(g) IN Len(d) \in Nat /\ DOMAIN d = 1..Len(d)
  <2>. DEFINE n == Len(AllBranches(g))
  <2>1. n \in Nat /\ DOMAIN ExtractBranchData(g) = 1..n
    BY GridAssumption DEF ExtractBranchData
  <2>2. ExtractBranchData(g) = [l \in 1..n |-> ExtractBranchData(g)[l]]
    BY <2>1 DEF ExtractBranchData
  <2>3. Len(ExtractBranchData(g)) = n
    BY <2>1, <2>2
  <2>4. QED
    BY <2>1, <2>3
<1>2. QED
  BY <1>1, GridAssumption DEF Data

LEMMA NoDriverType == NoDriver \in Drivers /\ NoDriver = [alive |-> FALSE, source |-> <<>>,
    mask |-> FALSE, adm |-> <<>>, hasAdm |-> FALSE, hasBuf |-> FALSE, bufN |-> 0, v |-> <<>>,
    viol |-> <<>>]
BY DEF NoDriver, Drivers

LEMMA BasedFacts ==
  ASSUME Shaped(s)
  PROVE  /\ Shaped(Based) /\ SameStaged(Based, s)
         /\ Based.trips = s.trips /\ Based.flags = s.flags
         /\ Based = s \/ (Based.driver = NoDriver /\ ~Based.hasViolations)
         /\ s.asked # s.ref => Based.driver = NoDriver
         /\ s.asked # s.ref => Based = Rebased(s)
<1>1. CASE s.asked = s.ref
  BY <1>1 DEF Based, SameStaged
<1>2. CASE s.asked # s.ref
  <2>1. Based = [s EXCEPT !.ref = s.asked, !.driver = NoDriver, !.hasViolations = FALSE]
    BY <1>2 DEF Based, Rebased
  <2>2. Based \in Sessions
    BY <2>1, NoDriverType DEF Shaped, Sessions
  <2>3. SameStaged(Based, s) /\ Based.trips = s.trips /\ Based.flags = s.flags
        /\ Based.driver = NoDriver /\ Based.hasViolations = FALSE
    BY <2>1 DEF Shaped, Sessions, SameStaged
  <2>4. QED
    BY <1>2, <2>2, <2>3, NoDriverType DEF Shaped, Based
<1>3. QED
  BY <1>1, <1>2

LEMMA ClearedFacts ==
  ASSUME NEW r, r \in Sessions
  PROVE  LET q == Cleared(r) IN
         /\ q \in Sessions /\ SameStaged(q, r)
         /\ q.driver = r.driver /\ q.hasViolations = r.hasViolations
         /\ ~NewSource(r) => q = r
         /\ NewSource(r) /\ r.topo => q.trips = r.trips
         /\ NewSource(r) /\ ~r.topo => Len(q.trips) = r.rows
<1>1. CASE ~NewSource(r)
  BY <1>1 DEF Cleared, SameStaged
<1>2. CASE NewSource(r)
  <2>. DEFINE t == IF r.topo THEN r.trips ELSE [i \in 1..r.rows |-> {}]
  <2>1. t \in Seq(TripSets) /\ (~r.topo => Len(t) = r.rows)
    <3>1. CASE r.topo
      BY <3>1 DEF Sessions
    <3>2. CASE ~r.topo
      <4>1. r.rows \in Nat
        BY ResultsAssumption DEF Sessions
      <4>2. [i \in 1..r.rows |-> {}] \in [1..r.rows -> TripSets]
        BY ResultsAssumption
      <4>3. QED
        BY <3>2, <4>1, <4>2, FunctionIsSeq
    <3>3. QED
      BY <3>1, <3>2
  <2>. HIDE DEF t
  <2>2. [i \in DOMAIN t |-> FALSE] \in Seq(BOOLEAN)
    <3>1. [i \in DOMAIN t |-> FALSE] \in [DOMAIN t -> BOOLEAN]
      OBVIOUS
    <3>2. QED
      BY <2>1, <3>1, AlongSeq
  <2>3. Cleared(r) = [r EXCEPT !.trips = t, !.flags = [i \in DOMAIN t |-> FALSE]]
    BY <1>2 DEF Cleared, t
  <2>4. Cleared(r) \in Sessions
    BY <2>1, <2>2, <2>3 DEF Sessions
  <2>5. SameStaged(Cleared(r), r) /\ Cleared(r).trips = t
        /\ Cleared(r).driver = r.driver /\ Cleared(r).hasViolations = r.hasViolations
    BY <2>3 DEF Sessions, SameStaged
  <2>6. QED
    BY <1>2, <2>1, <2>4, <2>5 DEF t
<1>3. QED
  BY <1>1, <1>2

LEMMA FlaggedFacts ==
  ASSUME NEW r, r \in Sessions
  PROVE  LET q == Flagged(r) IN
         /\ q \in Sessions /\ SameStaged(q, r)
         /\ q.driver = r.driver /\ q.hasViolations = r.hasViolations
         /\ ~NewSource(r) => q = r
         /\ NewSource(r) /\ r.topo => q.trips = r.trips
         /\ NewSource(r) /\ ~r.topo => Len(q.trips) = r.rows
         /\ NewSource(r) => q.flags = [i \in DOMAIN q.trips |-> LeftOut(r, q.trips[i])]
<1>1. CASE ~NewSource(r)
  BY <1>1 DEF Flagged, SameStaged
<1>2. CASE NewSource(r)
  <2>. DEFINE c == Cleared(r)
              flags == [i \in DOMAIN c.trips |-> LeftOut(r, c.trips[i])]
  <2>1. /\ c \in Sessions /\ SameStaged(c, r)
        /\ c.driver = r.driver /\ c.hasViolations = r.hasViolations
        /\ r.topo => c.trips = r.trips
        /\ ~r.topo => Len(c.trips) = r.rows
    BY <1>2, ClearedFacts
  <2>2. c.trips \in Seq(TripSets)
    BY <2>1 DEF Sessions
  <2>3. flags \in Seq(BOOLEAN)
    BY <2>2, AlongSeq
  <2>. HIDE DEF c, flags
  <2>4. Flagged(r) = [c EXCEPT !.flags = flags]
    BY <1>2 DEF Flagged, c, flags
  <2>5. Flagged(r) \in Sessions
    BY <2>1, <2>3, <2>4 DEF Sessions
  <2>6. /\ SameStaged(Flagged(r), c) /\ Flagged(r).trips = c.trips /\ Flagged(r).flags = flags
        /\ Flagged(r).driver = c.driver /\ Flagged(r).hasViolations = c.hasViolations
    BY <2>1, <2>4 DEF Sessions, SameStaged
  <2>7. Flagged(r).flags = [i \in DOMAIN Flagged(r).trips |-> LeftOut(r, Flagged(r).trips[i])]
    BY <2>6 DEF flags
  <2>8. SameStaged(Flagged(r), r)
    BY <2>1, <2>6 DEF SameStaged
  <2>9. QED
    BY <1>2, <2>1, <2>5, <2>6, <2>7, <2>8
<1>3. QED
  BY <1>1, <1>2

LEMMA WithDriver ==
  ASSUME NEW r \in Sessions, NEW d \in Drivers, NEW q, q = [r EXCEPT !.driver = d]
  PROVE  /\ q \in Sessions /\ SameStaged(q, r) /\ q.driver = d
         /\ q.hasViolations = r.hasViolations /\ q.trips = r.trips /\ q.flags = r.flags
BY DEF Sessions, SameStaged

(* A new source is the session's rows; a driver kept keeps its buffers.    *)
SourcedFrom(q, r, new) ==
  /\ Shaped(q) /\ SameStaged(q, r) /\ q.hasViolations = r.hasViolations
  /\ q.driver.alive /\ q.driver.mask = r.mask
  /\ ~NewSource(r) => q = r
  /\ NewSource(r) =>
       /\ q.trips = q.driver.source
       /\ q.flags = [i \in DOMAIN q.driver.source |-> SplitOff(q.driver, q.driver.source[i])]
  /\ new = "driver" =>
       /\ \A i \in DOMAIN q.driver.v : q.driver.v[i] = None
       /\ q.driver.viol = <<>> /\ ~q.driver.hasAdm /\ ~q.driver.hasBuf
  /\ new # "driver" =>
       /\ q.driver.v = r.driver.v /\ q.driver.viol = r.driver.viol
       /\ q.driver.adm = r.driver.adm /\ q.driver.hasAdm = r.driver.hasAdm
       /\ q.driver.hasBuf = r.driver.hasBuf /\ q.driver.bufN = r.driver.bufN

LEMMA SourcedFacts ==
  ASSUME NEW r, Shaped(r), MayRun(r), NEW new \in Builds(r),
         NEW q, q = Sourced(r, new)
  PROVE  SourcedFrom(q, r, new)
<1>. DEFINE h == Flagged(r)
<1>0. \/ new = "driver" /\ NewSource(r)
      \/ new = "source" /\ ~Cold(r) /\ r.dirty
      \/ new = "nothing" /\ ~Cold(r) /\ ~r.dirty
  BY DEF Builds, NewSource
<1>1. /\ h \in Sessions /\ SameStaged(h, r)
      /\ h.driver = r.driver /\ h.hasViolations = r.hasViolations
      /\ NewSource(r) => /\ r.topo => h.trips = r.trips
                         /\ ~r.topo => Len(h.trips) = r.rows
                         /\ h.flags = [i \in DOMAIN h.trips |-> LeftOut(r, h.trips[i])]
  BY FlaggedFacts DEF Shaped
<1>2. r.rows \in Nat /\ h.rows = r.rows /\ h.mask = r.mask /\ h.mask \in BOOLEAN
  BY <1>1, ResultsAssumption DEF SameStaged, Shaped, Sessions
<1>3. NewSource(r) => h.trips \in Seq(TripSets) /\ Len(h.trips) = r.rows
                      /\ DOMAIN h.trips = 1..r.rows
  BY <1>1, LenProperties DEF MayRun, Sessions
<1>. HIDE DEF h
<1>4. CASE new = "driver"
  <2>. DEFINE d == Empty(h)
  <2>1. NewSource(r)
    BY <1>0, <1>4
  <2>2. [i \in 1..h.rows |-> None] \in Seq(Answers \cup {None})
    <3>1. [i \in 1..h.rows |-> None] \in [1..h.rows -> Answers \cup {None}]
      OBVIOUS
    <3>2. QED
      BY <1>2, <3>1, FunctionIsSeq
  <2>3. /\ d.alive = TRUE /\ d.source = h.trips /\ d.mask = h.mask /\ d.viol = <<>>
        /\ d.hasAdm = FALSE /\ d.hasBuf = FALSE
        /\ d.v = [i \in 1..h.rows |-> None]
    BY NoDriverType DEF Empty
  <2>4. d \in Drivers
    BY <1>2, <1>3, <2>1, <2>2, NoDriverType DEF Empty, Drivers
  <2>. HIDE DEF d
  <2>5. q = [h EXCEPT !.driver = d]
    BY <1>4 DEF Sourced, d, h
  <2>6. q \in Sessions /\ q.driver = d
    BY <1>1, <2>4, <2>5 DEF Sessions
  <2>7. SameStaged(q, h) /\ q.hasViolations = h.hasViolations
        /\ q.trips = h.trips /\ q.flags = h.flags
    BY <1>1, <2>5 DEF Sessions, SameStaged
  <2>8. SameStaged(q, r)
    BY <1>1, <2>7 DEF SameStaged
  <2>9. Shaped(q)
    BY <1>2, <1>3, <2>1, <2>3, <2>6 DEF Shaped
  <2>10. q.flags = [i \in DOMAIN q.driver.source |-> SplitOff(q.driver, q.driver.source[i])]
    <3>1. \A t : LeftOut(r, t) = SplitOff(d, t)
      BY <1>2, <2>3
    <3>2. h.flags = [i \in DOMAIN h.trips |-> SplitOff(d, h.trips[i])]
      BY <1>1, <2>1, <3>1
    <3>3. QED
      BY <2>3, <2>6, <2>7, <3>2
  <2>11. QED
    BY <1>1, <1>2, <1>4, <2>1, <2>3, <2>6, <2>7, <2>8, <2>9, <2>10 DEF SourcedFrom
<1>5. CASE new = "source"
  <2>1. NewSource(r) /\ r.driver.alive /\ r.driver.mask = r.mask
        /\ Len(r.driver.source) = r.rows
    BY <1>0, <1>5 DEF NewSource, Cold
  <2>2. q = [h EXCEPT !.driver.source = h.trips]
    BY <1>5 DEF Sourced, h
  <2>3. r.driver \in Drivers
    BY DEF Shaped, Sessions
  <2>4. q.driver = [r.driver EXCEPT !.source = h.trips]
    BY <1>1, <2>2 DEF Sessions, Drivers
  <2>5. /\ q \in Sessions /\ SameStaged(q, h) /\ q.hasViolations = h.hasViolations
        /\ q.trips = h.trips /\ q.flags = h.flags
    <3>1. q.driver \in Drivers
      BY <1>3, <2>1, <2>3, <2>4 DEF Drivers
    <3>2. q = [h EXCEPT !.driver = q.driver]
      BY <1>1, <2>2, <2>4 DEF Sessions, Drivers
    <3>3. QED
      BY <1>1, <3>1, <3>2, WithDriver
  <2>6. /\ q.driver.source = h.trips /\ q.driver.v = r.driver.v /\ q.driver.viol = r.driver.viol
        /\ q.driver.adm = r.driver.adm /\ q.driver.hasAdm = r.driver.hasAdm
        /\ q.driver.hasBuf = r.driver.hasBuf /\ q.driver.bufN = r.driver.bufN
        /\ q.driver.alive = r.driver.alive /\ q.driver.mask = r.driver.mask
    BY <2>3, <2>4 DEF Drivers
  <2>7. DOMAIN r.driver.source = DOMAIN h.trips
    BY <1>3, <2>1, <2>3, LenProperties DEF Drivers
  <2>8. Shaped(q)
    BY <2>5, <2>6, <2>7 DEF Shaped
  <2>9. q.flags = [i \in DOMAIN q.driver.source |-> SplitOff(q.driver, q.driver.source[i])]
    <3>1. \A t : LeftOut(r, t) = SplitOff(q.driver, t)
      BY <2>1, <2>6
    <3>2. h.flags = [i \in DOMAIN h.trips |-> SplitOff(q.driver, h.trips[i])]
      BY <1>1, <2>1, <3>1
    <3>3. QED
      BY <2>5, <2>6, <3>2
  <2>10. SameStaged(q, r)
    BY <1>1, <2>5 DEF SameStaged
  <2>11. QED
    BY <1>1, <1>5, <2>1, <2>5, <2>6, <2>8, <2>9, <2>10 DEF SourcedFrom
<1>6. CASE new = "nothing"
  <2>1. q = r /\ ~NewSource(r) /\ r.driver.alive /\ r.driver.mask = r.mask
    BY <1>0, <1>6 DEF Sourced, NewSource, Cold
  <2>2. QED
    BY <1>6, <2>1 DEF SourcedFrom, SameStaged
<1>7. QED
  BY <1>0, <1>4, <1>5, <1>6

(* Upload: the branch data in use, no row of the results.                  *)
LEMMA ArmedFacts ==
  ASSUME NEW r, Shaped(r), NEW q, q = Armed(r)
  PROVE  /\ Shaped(q) /\ SameStaged(q, r) /\ q.hasViolations = r.hasViolations
         /\ q.trips = r.trips /\ q.flags = r.flags
         /\ q.driver.alive = r.driver.alive /\ q.driver.mask = r.driver.mask
         /\ q.driver.source = r.driver.source /\ q.driver.v = r.driver.v
         /\ ~r.check => q = r
         /\ r.check =>
              /\ DOMAIN q.driver.viol = DOMAIN q.driver.source
              /\ \A i \in DOMAIN q.driver.viol : q.driver.viol[i] = None
         /\ Tables(r) => Tables(q)
<1>. DEFINE a == AdmittancesUp(r)
<1>1. CASE ~r.check
  BY <1>1 DEF Armed, SameStaged
<1>2. CASE r.check
  <2>1. /\ a \in Sessions /\ SameStaged(a, r) /\ a.hasViolations = r.hasViolations
        /\ a.trips = r.trips /\ a.flags = r.flags
        /\ a.driver.alive = r.driver.alive /\ a.driver.mask = r.driver.mask
        /\ a.driver.source = r.driver.source /\ a.driver.v = r.driver.v
        /\ a.driver.viol = r.driver.viol
        /\ a.driver.hasBuf = r.driver.hasBuf /\ a.driver.bufN = r.driver.bufN
        /\ a.driver.hasAdm
        /\ a.driver.adm = IF r.driver.hasAdm THEN r.driver.adm ELSE r.data
    <3>1. CASE r.driver.hasAdm
      BY <3>1 DEF AdmittancesUp, SameStaged, Shaped
    <3>2. CASE ~r.driver.hasAdm
      <4>1. a = [r EXCEPT !.driver.adm = r.data, !.driver.hasAdm = TRUE]
        BY <3>2 DEF AdmittancesUp
      <4>2. r \in Sessions /\ r.driver \in Drivers
        BY DEF Shaped, Sessions
      <4>3. a.driver = [r.driver EXCEPT !.adm = r.data, !.hasAdm = TRUE]
        BY <4>1, <4>2 DEF Sessions, Drivers
      <4>4. a.driver \in Drivers
        BY <4>2, <4>3 DEF Sessions, Drivers
      <4>5. a = [r EXCEPT !.driver = a.driver]
        BY <4>1, <4>2, <4>3 DEF Sessions, Drivers
      <4>6. a \in Sessions /\ SameStaged(a, r) /\ a.hasViolations = r.hasViolations
            /\ a.trips = r.trips /\ a.flags = r.flags
        BY <4>2, <4>4, <4>5 DEF Sessions, SameStaged
      <4>7. QED
        BY <3>2, <4>2, <4>3, <4>6 DEF Drivers
    <3>3. QED
      BY <3>1, <3>2
  <2>. DEFINE blank == [i \in DOMAIN r.driver.source |-> None]
  <2>2. q = [a EXCEPT !.driver.viol = blank]
    BY <1>2 DEF Armed
  <2>3. blank \in Seq(Records \cup {None})
    <3>1. blank \in [DOMAIN r.driver.source -> Records \cup {None}]
      OBVIOUS
    <3>2. r.driver.source \in Seq(TripSets)
      BY DEF Shaped, Sessions, Drivers
    <3>3. QED
      BY <3>1, <3>2, AlongSeq
  <2>. HIDE DEF blank, a
  <2>4. a.driver \in Drivers
    BY <2>1 DEF Sessions
  <2>5. q.driver = [a.driver EXCEPT !.viol = blank]
    BY <2>1, <2>2 DEF Sessions, Drivers
  <2>6. q.driver \in Drivers
    BY <2>3, <2>4, <2>5 DEF Drivers
  <2>7. /\ q \in Sessions /\ SameStaged(q, a) /\ q.hasViolations = a.hasViolations
        /\ q.trips = a.trips /\ q.flags = a.flags
    <3>1. q = [a EXCEPT !.driver = q.driver]
      BY <2>1, <2>2, <2>5 DEF Sessions, Drivers
    <3>2. QED
      BY <2>1, <2>6, <3>1 DEF Sessions, SameStaged
  <2>8. /\ q.driver.alive = r.driver.alive /\ q.driver.mask = r.driver.mask
        /\ q.driver.source = r.driver.source /\ q.driver.v = r.driver.v
        /\ q.driver.viol = blank
        /\ q.driver.hasBuf = r.driver.hasBuf /\ q.driver.bufN = r.driver.bufN
        /\ q.driver.hasAdm = a.driver.hasAdm /\ q.driver.adm = a.driver.adm
    BY <2>1, <2>4, <2>5 DEF Drivers
  <2>9. SameStaged(q, r)
    BY <2>1, <2>7 DEF SameStaged
  <2>10. DOMAIN blank = DOMAIN r.driver.source /\ \A i \in DOMAIN blank : blank[i] = None
    BY DEF blank
  <2>11. Shaped(q)
    BY <2>7, <2>8, <2>10 DEF Shaped
  <2>12. Tables(r) => Tables(q)
    BY <2>1, <2>8, <2>9 DEF Tables, SameStaged
  <2>13. QED
    BY <1>2, <2>1, <2>7, <2>8, <2>9, <2>10, <2>11, <2>12
<1>3. QED
  BY <1>1, <1>2

-----------------------------------------------------------------------------
(* solve(): a row of the results is as before, solved, or left out.        *)
LEMMA ActiveFinite ==
  ASSUME NEW r, Shaped(r)
  PROVE  IsFiniteSet(ActiveRows(r)) /\ Cardinality(ActiveRows(r)) \in Nat
<1>1. r.driver.source \in Seq(TripSets)
  BY DEF Shaped, Sessions, Drivers
<1>2. DOMAIN r.driver.source = 1..Len(r.driver.source) /\ Len(r.driver.source) \in Nat
  BY <1>1, LenProperties
<1>3. IsFiniteSet(DOMAIN r.driver.source)
  BY <1>2, FS_Interval
<1>4. ActiveRows(r) \in SUBSET DOMAIN r.driver.source
  BY DEF ActiveRows
<1>5. QED
  BY <1>3, <1>4, FS_Subset, FS_CardinalityType

First(r, done) ==
  {i \in ActiveRows(r) : Cardinality({k \in ActiveRows(r) : k <= i}) <= done}

LEMMA AllAreFirst ==
  ASSUME NEW r, Shaped(r)
  PROVE  First(r, Cardinality(ActiveRows(r))) = ActiveRows(r)
<1>1. ASSUME NEW i \in ActiveRows(r)
      PROVE  Cardinality({k \in ActiveRows(r) : k <= i}) <= Cardinality(ActiveRows(r))
  BY ActiveFinite, FS_Subset
<1>2. QED
  BY <1>1 DEF First

SolvedFrom(q, r, done) ==
  /\ Shaped(q) /\ SameStaged(q, r) /\ q.hasViolations = r.hasViolations
  /\ q.trips = r.trips /\ q.flags = r.flags
  /\ q.driver = [r.driver EXCEPT !.v = q.driver.v, !.viol = q.driver.viol]
  /\ DOMAIN q.driver.v = DOMAIN r.driver.source
  /\ DOMAIN q.driver.viol = DOMAIN r.driver.viol
  /\ \A i \in DOMAIN r.driver.source :
       /\ i \in First(r, done) => q.driver.v[i] = Result(r, i, TRUE)
       /\ i \notin First(r, done) =>
            q.driver.v[i] = IF ActiveRows(r) # DOMAIN r.driver.source
                            THEN Result(r, i, FALSE) ELSE r.driver.v[i]
  /\ \A i \in DOMAIN r.driver.viol :
       q.driver.viol[i] = IF r.check /\ i \in First(r, done) THEN Record(r, i)
                          ELSE r.driver.viol[i]

LEMMA SolvedFacts ==
  ASSUME NEW r, Shaped(r), NEW done, calls \in Nat, NEW q, q = SolvedUpTo(r, done)
  PROVE  SolvedFrom(q, r, done)
<1>. DEFINE rows == DOMAIN r.driver.source
            first == First(r, done)
            v == [i \in rows |->
                   IF i \in first THEN Result(r, i, TRUE)
                   ELSE IF ActiveRows(r) # rows THEN Result(r, i, FALSE) ELSE r.driver.v[i]]
            viol == [i \in DOMAIN r.driver.viol |->
                      IF r.check /\ i \in first THEN Record(r, i) ELSE r.driver.viol[i]]
<1>1. q = [r EXCEPT !.driver.v = v, !.driver.viol = viol]
  BY DEF SolvedUpTo, First
<1>2. /\ r \in Sessions /\ r.driver \in Drivers /\ r.driver.source \in Seq(TripSets)
      /\ r.driver.v \in Seq(Answers \cup {None}) /\ DOMAIN r.driver.v = rows
      /\ r.driver.viol \in Seq(Records \cup {None})
      /\ DOMAIN r.driver.viol \subseteq rows
  BY DEF Shaped, Sessions, Drivers
<1>3. \A i \in rows : r.driver.source[i] \in TripSets /\ r.driver.v[i] \in Answers \cup {None}
  BY <1>2, LenProperties
<1>4. \A i \in rows, b \in BOOLEAN : Result(r, i, b) \in Answers
  BY <1>3 DEF Result, Answers
<1>5. \A i \in rows : Record(r, i) \in Records
  BY <1>2, <1>3 DEF Record, Records, Sessions, Drivers
<1>6. v \in Seq(Answers \cup {None})
  <2>1. v \in [rows -> Answers \cup {None}]
    BY <1>3, <1>4
  <2>2. QED
    BY <1>2, <2>1, AlongSeq
<1>7. viol \in Seq(Records \cup {None})
  <2>1. \A i \in DOMAIN r.driver.viol : r.driver.viol[i] \in Records \cup {None}
    BY <1>2, LenProperties
  <2>2. viol \in [DOMAIN r.driver.viol -> Records \cup {None}]
    BY <1>2, <1>5, <2>1
  <2>3. QED
    BY <1>2, <2>2, AlongSeq
<1>8. /\ DOMAIN v = rows /\ DOMAIN viol = DOMAIN r.driver.viol
      /\ \A i \in rows :
           /\ i \in first => v[i] = Result(r, i, TRUE)
           /\ i \notin first => v[i] = IF ActiveRows(r) # rows THEN Result(r, i, FALSE)
                                      ELSE r.driver.v[i]
      /\ \A i \in DOMAIN r.driver.viol :
           viol[i] = IF r.check /\ i \in first THEN Record(r, i) ELSE r.driver.viol[i]
  OBVIOUS
<1>9. r.driver.viol = <<>> => viol = <<>>
  OBVIOUS
<1>. HIDE DEF v, viol
<1>10. q.driver = [r.driver EXCEPT !.v = v, !.viol = viol]
  BY <1>1, <1>2 DEF Sessions, Drivers
<1>11. q.driver \in Drivers
  BY <1>2, <1>6, <1>7, <1>10 DEF Drivers
<1>12. q = [r EXCEPT !.driver = q.driver]
  BY <1>1, <1>2, <1>10 DEF Sessions, Drivers
<1>13. /\ q \in Sessions /\ SameStaged(q, r) /\ q.hasViolations = r.hasViolations
       /\ q.trips = r.trips /\ q.flags = r.flags
  BY <1>2, <1>11, <1>12, WithDriver
<1>14. q.driver.v = v /\ q.driver.viol = viol /\ q.driver.source = r.driver.source
  BY <1>2, <1>10 DEF Drivers
<1>15. Shaped(q)
  BY <1>8, <1>9, <1>13, <1>14 DEF Shaped
<1>16. QED
  BY <1>8, <1>10, <1>13, <1>14, <1>15 DEF SolvedFrom

-----------------------------------------------------------------------------
(* What holds of a session r with the lapses apart.                        *)
Good(r, apart) ==
  Shaped(r) /\ Tables(r) /\ FlagsFit(r, apart) /\ AnswersFit(r, apart) /\ RecordsFit(r, apart)

(* A setter leaves source and results alone; trips and flags move with a   *)
(* mark, and records can only be forgotten.                                *)
LEMMA SetterKeeps ==
  ASSUME NEW r, NEW apart, NEW q, NEW wider, Good(r, apart), apart \subseteq wider,
         q \in Sessions, Tables(q),
         q.driver.alive = r.driver.alive, q.driver.source = r.driver.source,
         q.driver.mask = r.driver.mask, q.driver.v = r.driver.v, q.driver.viol = r.driver.viol,
         r.dirty => q.dirty,
         q.dirty \/ "flags" \in wider \/ (q.trips = r.trips /\ q.flags = r.flags),
         q.hasViolations => r.hasViolations /\ q.check = r.check /\ q.limits = r.limits
  PROVE  Good(q, wider)
<1>1. Shaped(q)
  BY DEF Good, Shaped
<1>2. FlagsFit(q, wider)
  BY DEF Good, FlagsFit
<1>3. AnswersFit(q, wider)
  BY DEF Good, AnswersFit
<1>4. RecordsFit(q, wider)
  BY DEF Good, RecordsFit
<1>5. QED
  BY <1>1, <1>2, <1>3, <1>4 DEF Good

(* Nothing can be read of a session without a driver.                      *)
LEMMA DriverlessIsGood ==
  ASSUME NEW q \in Sessions, q.driver = NoDriver, q.hasViolations => q.check /\ q.limits # None,
         q.limits # None => Len(q.limits.amp) = Len(q.data), NEW apart
  PROVE  Good(q, apart)
BY NoDriverType DEF Good, Shaped, Tables, FlagsFit, AnswersFit, RecordsFit

LEMMA BasedIsGood == Good(s, lapse) => Good(Based, lapse)
<1>. SUFFICES ASSUME Good(s, lapse) PROVE Good(Based, lapse)
  OBVIOUS
<1>1. CASE Based = s
  BY <1>1
<1>2. CASE Based.driver = NoDriver /\ ~Based.hasViolations
  <2>1. Based \in Sessions /\ SameStaged(Based, s) /\ Tables(s)
    BY BasedFacts DEF Good, Shaped
  <2>2. Based.limits # None => Len(Based.limits.amp) = Len(Based.data)
    BY <2>1 DEF Tables, SameStaged
  <2>3. QED
    BY <1>2, <2>1, <2>2, DriverlessIsGood
<1>3. QED
  BY <1>1, <1>2, BasedFacts DEF Good

LEMMA SourcedIsGood ==
  ASSUME NEW r, NEW apart, Good(r, apart), MayRun(r), NEW new \in Builds(r),
         NEW q, q = Sourced(r, new)
  PROVE  Good(q, {"rows"} \cup (IF NewSource(r) THEN {} ELSE apart))
<1>. DEFINE wider == {"rows"} \cup (IF NewSource(r) THEN {} ELSE apart)
<1>0. SourcedFrom(q, r, new)
  BY SourcedFacts DEF Good
<1>1. CASE ~NewSource(r)
  <2>1. q = r /\ apart \subseteq wider
    BY <1>0, <1>1 DEF SourcedFrom
  <2>2. QED
    BY <2>1 DEF Good, FlagsFit, AnswersFit, RecordsFit
<1>2. CASE NewSource(r)
  <2>1. /\ Shaped(q) /\ SameStaged(q, r) /\ q.hasViolations = r.hasViolations
        /\ q.trips = q.driver.source
        /\ q.flags = [i \in DOMAIN q.driver.source |-> SplitOff(q.driver, q.driver.source[i])]
    BY <1>0, <1>2 DEF SourcedFrom
  <2>2. FlagsFit(q, wider)
    BY <2>1 DEF FlagsFit
  <2>3. CASE new = "driver"
    <3>1. /\ \A i \in DOMAIN q.driver.v : q.driver.v[i] = None
          /\ q.driver.viol = <<>> /\ ~q.driver.hasAdm /\ ~q.driver.hasBuf
      BY <1>0, <2>3 DEF SourcedFrom
    <3>2. AnswersFit(q, wider)
      BY <3>1 DEF AnswersFit
    <3>3. RecordsFit(q, wider)
      BY <2>1, <3>1 DEF RecordsFit, Good, SameStaged
    <3>4. Tables(q)
      BY <2>1, <3>1 DEF Tables, Good, SameStaged
    <3>5. QED
      BY <2>1, <2>2, <3>2, <3>3, <3>4 DEF Good
  <2>4. CASE new # "driver"
    <3>1. /\ q.driver.v = r.driver.v /\ q.driver.viol = r.driver.viol
          /\ q.driver.adm = r.driver.adm /\ q.driver.hasAdm = r.driver.hasAdm
          /\ q.driver.hasBuf = r.driver.hasBuf /\ q.driver.bufN = r.driver.bufN
      BY <1>0, <2>4 DEF SourcedFrom
    <3>2. r.dirty /\ q.dirty /\ r.driver.alive
      BY <1>2, <2>1, <2>4 DEF Builds, NewSource, Cold, SameStaged
    <3>3. AnswersFit(q, wider)
      BY <3>2 DEF AnswersFit
    <3>4. RecordsFit(q, wider)
      BY <2>1, <3>1, <3>2 DEF RecordsFit, Good, SameStaged
    <3>5. Tables(q)
      BY <2>1, <3>1 DEF Tables, Good, SameStaged
    <3>6. QED
      BY <2>1, <2>2, <3>3, <3>4, <3>5 DEF Good
  <2>5. QED
    BY <2>3, <2>4
<1>3. QED
  BY <1>1, <1>2

LEMMA ArmedIsGood ==
  ASSUME NEW r, NEW apart, Good(r, apart), "rows" \in apart
  PROVE  Good(Armed(r), apart)
<1>. DEFINE q == Armed(r)
<1>1. CASE ~r.check
  BY <1>1, ArmedFacts DEF Good
<1>2. CASE r.check
  <2>. HIDE DEF q
  <2>1. /\ Shaped(q) /\ SameStaged(q, r) /\ q.hasViolations = r.hasViolations
        /\ q.trips = r.trips /\ q.flags = r.flags
        /\ q.driver.alive = r.driver.alive /\ q.driver.mask = r.driver.mask
        /\ q.driver.source = r.driver.source /\ q.driver.v = r.driver.v
        /\ \A i \in DOMAIN q.driver.viol : q.driver.viol[i] = None
        /\ Tables(q)
    BY <1>2, ArmedFacts DEF Good, q
  <2>2. FlagsFit(q, apart)
    BY <2>1 DEF Good, FlagsFit, SameStaged
  <2>3. AnswersFit(q, apart)
    BY <2>1 DEF Good, AnswersFit, SameStaged
  <2>4. RecordsFit(q, apart)
    BY <2>1 DEF Good, RecordsFit, SameStaged
  <2>5. QED
    BY <2>1, <2>2, <2>3, <2>4 DEF Good, q
<1>3. QED
  BY <1>1, <1>2

(* A session about to solve, and the rows of its results after a solve.    *)
Armored(r) ==
  /\ r.driver.alive /\ r.driver.mask = r.mask
  /\ r.check =>
       /\ DOMAIN r.driver.viol = DOMAIN r.driver.source
       /\ \A i \in DOMAIN r.driver.viol : r.driver.viol[i] = None

LEMMA SolvedIsGood ==
  ASSUME NEW r, NEW apart, Good(r, apart), "rows" \in apart, Armored(r), NEW done, calls \in Nat
  PROVE  Good(SolvedUpTo(r, done), apart)
<1>. SUFFICES ASSUME NEW q, q = SolvedUpTo(r, done) PROVE Good(q, apart)
  OBVIOUS
<1>0. SolvedFrom(q, r, done)
  BY SolvedFacts DEF Good
<1>1. /\ Shaped(q) /\ SameStaged(q, r) /\ q.hasViolations = r.hasViolations
      /\ q.trips = r.trips /\ q.flags = r.flags
      /\ q.driver = [r.driver EXCEPT !.v = q.driver.v, !.viol = q.driver.viol]
      /\ DOMAIN q.driver.v = DOMAIN r.driver.source
      /\ DOMAIN q.driver.viol = DOMAIN r.driver.viol
      /\ \A i \in DOMAIN r.driver.source :
           /\ i \in First(r, done) => q.driver.v[i] = Result(r, i, TRUE)
           /\ i \notin First(r, done) =>
                q.driver.v[i] = IF ActiveRows(r) # DOMAIN r.driver.source
                                THEN Result(r, i, FALSE) ELSE r.driver.v[i]
      /\ \A i \in DOMAIN r.driver.viol :
           q.driver.viol[i] = IF r.check /\ i \in First(r, done) THEN Record(r, i)
                              ELSE r.driver.viol[i]
  BY <1>0 DEF SolvedFrom
<1>2. r.driver \in Drivers /\ DOMAIN r.driver.v = DOMAIN r.driver.source
      /\ DOMAIN r.driver.viol \subseteq DOMAIN r.driver.source
  BY DEF Good, Shaped, Sessions
<1>3. /\ q.driver.alive = r.driver.alive /\ q.driver.mask = r.driver.mask
      /\ q.driver.source = r.driver.source /\ q.driver.adm = r.driver.adm
      /\ q.driver.hasAdm = r.driver.hasAdm /\ q.driver.hasBuf = r.driver.hasBuf
      /\ q.driver.bufN = r.driver.bufN
  BY <1>1, <1>2 DEF Drivers
<1>4. Tables(q)
  BY <1>1, <1>3 DEF Good, Tables, SameStaged
<1>5. FlagsFit(q, apart)
  BY <1>1, <1>3 DEF Good, FlagsFit, SameStaged
<1>6. AnswersFit(q, apart)
  <2>. SUFFICES ASSUME NEW i \in DOMAIN q.driver.v, q.driver.v[i] # None, ~q.dirty
       PROVE  q.driver.v[i].trips = q.driver.source[i]
    BY DEF AnswersFit
  <2>1. CASE q.driver.v[i] = r.driver.v[i]
    BY <1>1, <1>2, <1>3, <2>1 DEF Good, AnswersFit, Armored, SameStaged
  <2>2. CASE \E b \in BOOLEAN : q.driver.v[i] = Result(r, i, b)
    BY <1>3, <2>2 DEF Result
  <2>3. QED
    BY <1>1, <2>1, <2>2
<1>7. RecordsFit(q, apart)
  <2>1. CASE ~r.check
    BY <1>1, <2>1 DEF RecordsFit, Good, SameStaged
  <2>2. CASE r.check
    <3>1. ASSUME NEW i \in DOMAIN q.driver.viol, q.driver.viol[i] # None
          PROVE  /\ q.driver.viol[i] = Record(r, i) /\ q.driver.v[i] = Result(r, i, TRUE)
      BY <1>1, <1>2, <2>2, <3>1 DEF Armored
    <3>2. \A i : Result(r, i, TRUE) # None
                \/ i \notin DOMAIN r.driver.source
      <4>. SUFFICES ASSUME NEW i \in DOMAIN r.driver.source PROVE Result(r, i, TRUE) # None
        OBVIOUS
      <4>1. r.driver.source[i] \in TripSets
        BY <1>2, LenProperties DEF Drivers
      <4>2. Result(r, i, TRUE) \in Answers
        BY <4>1 DEF Result, Answers
      <4>3. QED
        BY <4>2, NoneAssumption
    <3>3. \A i : Result(r, i, TRUE).run = Record(r, i).run
              /\ Result(r, i, TRUE).trips = Record(r, i).trips
              /\ Record(r, i).limits = r.limits
      BY DEF Result, Record
    <3>4. DOMAIN q.driver.viol \subseteq DOMAIN r.driver.source
      BY <1>1, <1>2
    <3>5. ASSUME NEW i \in DOMAIN q.driver.viol, q.driver.viol[i] # None
          PROVE  /\ q.driver.v[i] # None /\ q.driver.v[i].run = q.driver.viol[i].run
                 /\ q.driver.v[i].trips = q.driver.viol[i].trips
                 /\ q.driver.viol[i].limits = q.limits
      <4>1. q.driver.viol[i] = Record(r, i) /\ q.driver.v[i] = Result(r, i, TRUE)
        BY <3>1, <3>5
      <4>2. q.limits = r.limits
        BY <1>1 DEF SameStaged
      <4>3. QED
        BY <3>2, <3>3, <3>4, <4>1, <4>2
    <3>6. r.hasViolations => r.limits # None
      BY DEF Good, RecordsFit
    <3>7. QED
      BY <1>1, <2>2, <3>5, <3>6 DEF RecordsFit, SameStaged
  <2>3. QED
    BY <2>1, <2>2
<1>8. QED
  BY <1>1, <1>4, <1>5, <1>6, <1>7 DEF Good

(* A solve that comes to its end.                                          *)
LEMMA AllSolved ==
  ASSUME NEW r, Shaped(r), Armored(r), calls \in Nat,
         NEW q, q = SolvedUpTo(r, Cardinality(ActiveRows(r)))
  PROVE  /\ \A i \in DOMAIN q.driver.v :
              /\ q.driver.v[i] # None /\ q.driver.v[i].trips = q.driver.source[i]
              /\ q.driver.v[i].solved <=> ~SplitOff(q.driver, q.driver.v[i].trips)
         /\ r.check =>
              /\ DOMAIN q.driver.viol = DOMAIN q.driver.v
              /\ \A i \in DOMAIN q.driver.viol :
                   /\ q.driver.viol[i] # None <=> q.driver.v[i].solved
                   /\ q.driver.viol[i] # None =>
                        /\ q.driver.v[i].run = q.driver.viol[i].run
                        /\ q.driver.v[i].trips = q.driver.viol[i].trips
                        /\ q.driver.viol[i].limits = r.limits
<1>. DEFINE all == Cardinality(ActiveRows(r))
            rows == DOMAIN r.driver.source
<1>1. First(r, all) = ActiveRows(r)
  BY AllAreFirst
<1>0. SolvedFrom(q, r, all)
  BY SolvedFacts
<1>. HIDE DEF all
<1>2. /\ q.driver = [r.driver EXCEPT !.v = q.driver.v, !.viol = q.driver.viol]
      /\ DOMAIN q.driver.v = DOMAIN r.driver.source
      /\ DOMAIN q.driver.viol = DOMAIN r.driver.viol
      /\ \A i \in DOMAIN r.driver.source :
           /\ i \in ActiveRows(r) => q.driver.v[i] = Result(r, i, TRUE)
           /\ i \notin ActiveRows(r) =>
                q.driver.v[i] = IF ActiveRows(r) # DOMAIN r.driver.source
                                THEN Result(r, i, FALSE) ELSE r.driver.v[i]
      /\ \A i \in DOMAIN r.driver.viol :
           q.driver.viol[i] = IF r.check /\ i \in ActiveRows(r) THEN Record(r, i)
                              ELSE r.driver.viol[i]
  BY <1>0, <1>1 DEF SolvedFrom
<1>3. r.driver \in Drivers /\ DOMAIN r.driver.v = rows
  BY DEF Shaped, Sessions
<1>4. /\ q.driver.mask = r.mask /\ q.driver.source = r.driver.source
  BY <1>2, <1>3 DEF Drivers, Armored
<1>5. \A i \in rows : i \in ActiveRows(r) <=> ~SplitOff(q.driver, r.driver.source[i])
  BY <1>4 DEF ActiveRows
<1>6. ASSUME NEW i \in rows
      PROVE  /\ q.driver.v[i] \in Answers
             /\ q.driver.v[i].trips = r.driver.source[i]
             /\ q.driver.v[i].solved <=> i \in ActiveRows(r)
  <2>1. r.driver.source[i] \in TripSets
    BY <1>3, LenProperties DEF Drivers
  <2>2. CASE i \in ActiveRows(r)
    <3>1. q.driver.v[i] = Result(r, i, TRUE)
      BY <1>2, <2>2
    <3>2. QED
      BY <2>1, <2>2, <3>1 DEF Result, Answers
  <2>3. CASE i \notin ActiveRows(r)
    <3>1. q.driver.v[i] = Result(r, i, FALSE)
      BY <1>2, <2>3
    <3>2. QED
      BY <2>1, <2>3, <3>1 DEF Result, Answers
  <2>4. QED
    BY <2>2, <2>3
<1>7. \A i \in rows : q.driver.v[i] # None
  BY <1>6, NoneAssumption
<1>10. DOMAIN q.driver.v = rows
  BY <1>2
<1>11. ASSUME r.check
       PROVE  /\ DOMAIN q.driver.viol = rows
              /\ \A i \in rows : q.driver.viol[i] # None <=> i \in ActiveRows(r)
              /\ \A i \in ActiveRows(r) :
                   q.driver.v[i].run = q.driver.viol[i].run /\ q.driver.viol[i].limits = r.limits
                   /\ q.driver.v[i].trips = q.driver.viol[i].trips
  <2>1. DOMAIN q.driver.viol = rows
    BY <1>2, <1>11 DEF Armored
  <2>2. \A i \in rows : i \notin ActiveRows(r) => q.driver.viol[i] = None
    BY <1>2, <1>11 DEF Armored
  <2>3. \A i \in rows : i \in ActiveRows(r) => q.driver.viol[i] = Record(r, i)
    BY <1>2, <1>11 DEF Armored
  <2>4. \A i \in rows : Record(r, i) \in Records
    <3>. SUFFICES ASSUME NEW i \in rows PROVE Record(r, i) \in Records
      OBVIOUS
    <3>1. r.driver.source[i] \in TripSets
      BY <1>3, LenProperties DEF Drivers
    <3>2. QED
      BY <1>3, <3>1 DEF Record, Records, Shaped, Sessions, Drivers
  <2>5. ASSUME NEW i \in ActiveRows(r)
        PROVE  q.driver.v[i].run = q.driver.viol[i].run /\ q.driver.viol[i].limits = r.limits
               /\ q.driver.v[i].trips = q.driver.viol[i].trips
    <3>1. i \in rows
      BY DEF ActiveRows
    <3>2. q.driver.viol[i] = Record(r, i) /\ q.driver.v[i] = Result(r, i, TRUE)
      BY <1>2, <2>3, <3>1
    <3>3. QED
      BY <3>2 DEF Record, Result
  <2>6. QED
    BY <2>1, <2>2, <2>3, <2>4, <2>5, NoneAssumption
<1>12. /\ \A i \in DOMAIN q.driver.v :
            /\ q.driver.v[i] # None /\ q.driver.v[i].trips = q.driver.source[i]
            /\ q.driver.v[i].solved <=> ~SplitOff(q.driver, q.driver.v[i].trips)
  BY <1>4, <1>5, <1>6, <1>7, <1>10
<1>13. QED
  BY <1>6, <1>10, <1>11, <1>12
-----------------------------------------------------------------------------
(* A setter of a field no result is read with.                             *)
LEMMA PlainSetters ==
  ASSUME Good(s, lapse),
         \/ \E n \in 1..MaxRows : SetInjections(n)
         \/ \E m \in BOOLEAN : SetHandleDisconnectedGrid(m)
         \/ \E t \in Tols : SetViolationTol(t)
         \/ \E p \in Margins : SetViolationRelTol(p)
         \/ \E b \in {"grid", "other"} : SetReferenceSlack(b)
  PROVE  Good(s', lapse')
<1>1. s \in Sessions /\ Tables(s)
  BY DEF Good, Shaped
<1>2. /\ s' \in Sessions /\ lapse' = lapse
      /\ s'.driver = s.driver /\ s'.dirty = s.dirty /\ s'.trips = s.trips /\ s'.flags = s.flags
      /\ s'.hasViolations = s.hasViolations /\ s'.check = s.check /\ s'.limits = s.limits
      /\ s'.data = s.data
  <2>1. CASE \E n \in 1..MaxRows : SetInjections(n)
    <3>1. PICK n \in 1..MaxRows : SetInjections(n)
      BY <2>1
    <3>2. n \in 0..MaxRows
      BY ResultsAssumption
    <3>3. s' = [s EXCEPT !.rows = n] /\ lapse' = lapse
      BY <3>1 DEF SetInjections, Ok
    <3>4. QED
      BY <1>1, <3>2, <3>3 DEF Sessions
  <2>2. CASE \E m \in BOOLEAN : SetHandleDisconnectedGrid(m)
    BY <1>1, <2>2 DEF SetHandleDisconnectedGrid, Ok, Sessions
  <2>3. CASE \E t \in Tols : SetViolationTol(t)
    BY <1>1, <2>3 DEF SetViolationTol, Ok, Sessions
  <2>4. CASE \E p \in Margins : SetViolationRelTol(p)
    BY <1>1, <2>4 DEF SetViolationRelTol, Ok, Sessions
  <2>5. CASE \E b \in {"grid", "other"} : SetReferenceSlack(b)
    BY <1>1, <2>5 DEF SetReferenceSlack, Ok, Sessions
  <2>6. QED
    BY <2>1, <2>2, <2>3, <2>4, <2>5
<1>3. Tables(s')
  BY <1>1, <1>2 DEF Tables
<1>4. QED
  BY <1>2, <1>3, SetterKeeps

(* set_topology() and its reconversion mark the session.                   *)
LEMMA WithTopologyFacts ==
  ASSUME NEW r \in Sessions, NEW t \in Seq(TripSets)
  PROVE  /\ WithTopology(r, t) \in Sessions
         /\ WithTopology(r, t).driver = r.driver /\ WithTopology(r, t).dirty = TRUE
         /\ WithTopology(r, t).hasViolations = r.hasViolations
         /\ WithTopology(r, t).check = r.check /\ WithTopology(r, t).limits = r.limits
         /\ WithTopology(r, t).data = r.data
<1>1. [i \in DOMAIN t |-> FALSE] \in Seq(BOOLEAN)
  <2>1. [i \in DOMAIN t |-> FALSE] \in [DOMAIN t -> BOOLEAN]
    OBVIOUS
  <2>2. QED
    BY <2>1, AlongSeq
<1>. DEFINE flags == [i \in DOMAIN t |-> FALSE]
            q == WithTopology(r, t)
<1>2. q = [r EXCEPT !.trips = t, !.flags = flags, !.topo = TRUE, !.dirty = TRUE]
  BY DEF WithTopology
<1>. HIDE DEF flags, q
<1>3. flags \in Seq(BOOLEAN)
  BY <1>1 DEF flags
<1>4. q \in Sessions
  <2>. DEFINE x == [r EXCEPT !.trips = t, !.flags = flags]
  <2>1. x \in Sessions
    BY <1>3 DEF Sessions
  <2>2. q = [x EXCEPT !.topo = TRUE, !.dirty = TRUE]
    BY <1>2 DEF Sessions
  <2>. HIDE DEF x
  <2>3. QED
    BY <2>1, <2>2 DEF Sessions
<1>5. /\ q.driver = r.driver /\ q.dirty = TRUE /\ q.hasViolations = r.hasViolations
      /\ q.check = r.check /\ q.limits = r.limits /\ q.data = r.data
  BY <1>2 DEF Sessions
<1>6. QED
  BY <1>4, <1>5 DEF q

LEMMA SetTopologyStep ==
  ASSUME Good(s, lapse), NEW t \in Topologies, SetTopology(t)
  PROVE  Good(s', lapse')
<1>1. s \in Sessions /\ Tables(s) /\ t \in Seq(TripSets)
  BY ResultsAssumption DEF Good, Shaped
<1>2. s' = WithTopology(s, t) /\ lapse' = lapse
  BY DEF SetTopology, Ok
<1>3. /\ s' \in Sessions /\ s'.driver = s.driver /\ s'.dirty = TRUE
      /\ s'.hasViolations = s.hasViolations /\ s'.check = s.check /\ s'.limits = s.limits
      /\ s'.data = s.data
  <2>1. /\ WithTopology(s, t) \in Sessions
        /\ WithTopology(s, t).driver = s.driver /\ WithTopology(s, t).dirty = TRUE
        /\ WithTopology(s, t).hasViolations = s.hasViolations
        /\ WithTopology(s, t).check = s.check /\ WithTopology(s, t).limits = s.limits
        /\ WithTopology(s, t).data = s.data
    BY <1>1, WithTopologyFacts
  <2>2. QED
    BY <1>2, <2>1
<1>4. Tables(s')
  BY <1>1, <1>3 DEF Tables
<1>5. QED
  BY <1>2, <1>3, <1>4, SetterKeeps

LEMMA SetTopologyTornStep ==
  ASSUME Good(s, lapse), NEW t \in Topologies, NEW n \in 0..(Len(t) - 1), SetTopologyTorn(t, n)
  PROVE  Good(s', lapse')
<1>1. s \in Sessions /\ Tables(s) /\ t \in Seq(TripSets) /\ Len(t) \in Nat
  BY ResultsAssumption, LenProperties DEF Good, Shaped
<1>. DEFINE torn == SubSeq(t, 1, n)
            flags == [i \in 1..n |-> FALSE]
<1>2. torn \in Seq(TripSets)
  BY <1>1, SubSeqProperties
<1>3. flags \in Seq(BOOLEAN)
  <2>1. flags \in [1..n -> BOOLEAN]
    OBVIOUS
  <2>2. QED
    BY <1>1, <2>1, FunctionIsSeq
<1>. HIDE DEF torn, flags
<1>4. s' = [s EXCEPT !.trips = torn, !.flags = flags] /\ lapse' = lapse \cup {"flags"}
  BY DEF SetTopologyTorn, torn, flags
<1>5. /\ s' \in Sessions /\ s'.driver = s.driver /\ s'.dirty = s.dirty
      /\ s'.hasViolations = s.hasViolations /\ s'.check = s.check /\ s'.limits = s.limits
      /\ s'.data = s.data
  BY <1>1, <1>2, <1>3, <1>4 DEF Sessions
<1>6. Tables(s')
  BY <1>1, <1>5 DEF Tables
<1>7. lapse \subseteq lapse'
  BY <1>4
<1>8. QED
  BY <1>4, <1>5, <1>6, <1>7, SetterKeeps

(* set_branch_data(): the driver forgets its branch tables, limits that do *)
(* not fit are dropped.                                                    *)
LEMMA SetBranchDataStep ==
  ASSUME Good(s, lapse), NEW d \in Data, SetBranchData(d)
  PROVE  Good(s', lapse')
<1>. DEFINE w == WithData(s, d)
            c == Reconverted(w)
<1>1. s \in Sessions /\ Tables(s) /\ Len(d) \in Nat
  BY DataAreSequences DEF Good, Shaped
<1>2. s' = Invalidated(c) /\ lapse' = lapse
  BY DEF SetBranchData, Ok
<1>3. /\ w \in Sessions /\ w.driver = s.driver /\ w.dirty = s.dirty
      /\ w.trips = s.trips /\ w.flags = s.flags /\ w.check = s.check /\ w.data = d
      /\ w.limits # None => Len(w.limits.amp) = Len(d)
      /\ w.hasViolations => s.hasViolations /\ w.limits = s.limits
  <2>1. CASE s.limits # None /\ Len(s.limits.amp) # Len(d)
    <3>1. w = [s EXCEPT !.data = d, !.limits = None, !.hasViolations = FALSE]
      BY <2>1 DEF WithData
    <3>2. w \in Sessions
      <4>1. \A y \in Sessions :
              [y EXCEPT !.data = d, !.limits = None, !.hasViolations = FALSE] \in Sessions
        BY DEF Sessions
      <4>2. QED
        BY <1>1, <3>1, <4>1
    <3>3. /\ w.driver = s.driver /\ w.dirty = s.dirty /\ w.trips = s.trips
          /\ w.flags = s.flags /\ w.check = s.check /\ w.data = d
          /\ w.limits = None /\ w.hasViolations = FALSE
      BY <1>1, <3>1 DEF Sessions
    <3>4. QED
      BY <3>2, <3>3
  <2>2. CASE ~(s.limits # None /\ Len(s.limits.amp) # Len(d))
    <3>1. w = [s EXCEPT !.data = d]
      BY <2>2 DEF WithData
    <3>2. w \in Sessions
      BY <1>1, <3>1 DEF Sessions
    <3>3. /\ w.driver = s.driver /\ w.dirty = s.dirty /\ w.trips = s.trips
          /\ w.flags = s.flags /\ w.check = s.check /\ w.data = d
          /\ w.limits = s.limits /\ w.hasViolations = s.hasViolations
      BY <1>1, <3>1 DEF Sessions
    <3>4. QED
      BY <2>2, <3>2, <3>3
  <2>3. QED
    BY <2>1, <2>2
<1>. HIDE DEF w
<1>4. /\ c \in Sessions /\ c.driver = w.driver
      /\ c.check = w.check /\ c.data = w.data /\ c.limits = w.limits
      /\ c.hasViolations = w.hasViolations
      /\ c.dirty \/ (c.trips = w.trips /\ c.flags = w.flags /\ c.dirty = w.dirty)
  <2>1. CASE w.topo /\ w.rows \in {0, Len(w.trips)}
    <3>1. c = WithTopology(w, w.trips) /\ w.trips \in Seq(TripSets)
      BY <1>3, <2>1 DEF Reconverted, Sessions
    <3>2. /\ WithTopology(w, w.trips) \in Sessions
          /\ WithTopology(w, w.trips).driver = w.driver /\ WithTopology(w, w.trips).dirty = TRUE
          /\ WithTopology(w, w.trips).hasViolations = w.hasViolations
          /\ WithTopology(w, w.trips).check = w.check
          /\ WithTopology(w, w.trips).limits = w.limits
          /\ WithTopology(w, w.trips).data = w.data
      BY <1>3, <3>1, WithTopologyFacts
    <3>. HIDE DEF c
    <3>3. QED
      BY <3>1, <3>2
  <2>2. CASE ~(w.topo /\ w.rows \in {0, Len(w.trips)})
    BY <1>3, <2>2 DEF Reconverted
  <2>3. QED
    BY <2>1, <2>2
<1>. HIDE DEF c
<1>5. s' = [c EXCEPT !.driver.hasAdm = FALSE, !.driver.hasBuf = FALSE]
  BY <1>2 DEF Invalidated
<1>6. c.driver \in Drivers
  BY <1>4 DEF Sessions
<1>7. s'.driver = [c.driver EXCEPT !.hasAdm = FALSE, !.hasBuf = FALSE]
  BY <1>4, <1>5, <1>6 DEF Sessions, Drivers
<1>8. s'.driver \in Drivers
  BY <1>6, <1>7 DEF Drivers
<1>9. s' = [c EXCEPT !.driver = s'.driver]
  BY <1>4, <1>5, <1>6, <1>7 DEF Sessions, Drivers
<1>10. /\ s' \in Sessions /\ SameStaged(s', c) /\ s'.hasViolations = c.hasViolations
       /\ s'.trips = c.trips /\ s'.flags = c.flags
  BY <1>4, <1>8, <1>9, WithDriver
<1>11. /\ s'.driver.alive = s.driver.alive /\ s'.driver.source = s.driver.source
       /\ s'.driver.mask = s.driver.mask /\ s'.driver.v = s.driver.v
       /\ s'.driver.viol = s.driver.viol
       /\ s'.driver.hasAdm = FALSE /\ s'.driver.hasBuf = FALSE
  BY <1>3, <1>4, <1>6, <1>7 DEF Drivers
<1>12. Tables(s')
  BY <1>3, <1>4, <1>10, <1>11 DEF Tables, SameStaged
<1>13. s.dirty => s'.dirty
  BY <1>3, <1>4, <1>10 DEF SameStaged
<1>14. s'.dirty \/ (s'.trips = s.trips /\ s'.flags = s.flags)
  BY <1>3, <1>4, <1>10 DEF SameStaged
<1>15. s'.hasViolations => s.hasViolations /\ s'.check = s.check /\ s'.limits = s.limits
  BY <1>3, <1>4, <1>10 DEF SameStaged
<1>16. QED
  BY <1>2, <1>10, <1>11, <1>12, <1>13, <1>14, <1>15, SetterKeeps

LEMMA SetLimitsStep ==
  ASSUME Good(s, lapse), NEW l \in Limits, SetLimits(l)
  PROVE  Good(s', lapse')
<1>1. s \in Sessions /\ Tables(s)
  BY DEF Good, Shaped
<1>2. s' = [s EXCEPT !.limits = l, !.hasViolations = FALSE] /\ lapse' = lapse
  BY DEF SetLimits, Ok
<1>3. /\ s' \in Sessions /\ s'.driver = s.driver /\ s'.dirty = s.dirty
      /\ s'.trips = s.trips /\ s'.flags = s.flags /\ s'.limits = l /\ s'.data = s.data
      /\ s'.hasViolations = FALSE
  BY <1>1, <1>2 DEF Sessions
<1>4. Tables(s')
  BY <1>1, <1>3 DEF Tables, SetLimits, FitLimits
<1>5. QED
  BY <1>2, <1>3, <1>4, SetterKeeps

LEMMA SetCheckStep ==
  ASSUME Good(s, lapse), NEW v \in BOOLEAN, SetComputeLimitViolations(v)
  PROVE  Good(s', lapse')
<1>1. s \in Sessions /\ Tables(s)
  BY DEF Good, Shaped
<1>2. s' = [s EXCEPT !.check = v, !.hasViolations = s.hasViolations /\ v = s.check]
      /\ lapse' = lapse
  BY <1>1 DEF SetComputeLimitViolations, Switched, Ok, Sessions
<1>3. /\ s' \in Sessions /\ s'.driver = s.driver /\ s'.dirty = s.dirty
      /\ s'.trips = s.trips /\ s'.flags = s.flags /\ s'.limits = s.limits /\ s'.data = s.data
      /\ s'.hasViolations => s.hasViolations /\ s'.check = s.check
  <2>1. s' \in Sessions
    <3>1. (s.hasViolations /\ v = s.check) \in BOOLEAN
      OBVIOUS
    <3>2. \A y \in Sessions, a, b \in BOOLEAN :
            [y EXCEPT !.check = a, !.hasViolations = b] \in Sessions
      BY DEF Sessions
    <3>3. QED
      BY <1>1, <1>2, <3>1, <3>2
  <2>2. /\ s'.driver = s.driver /\ s'.dirty = s.dirty /\ s'.trips = s.trips
        /\ s'.flags = s.flags /\ s'.limits = s.limits /\ s'.data = s.data
    BY <1>1, <1>2 DEF Sessions
  <2>3. s'.hasViolations => s.hasViolations /\ s'.check = s.check
    BY <1>1, <1>2 DEF Sessions
  <2>4. QED
    BY <2>1, <2>2, <2>3
<1>4. Tables(s')
  BY <1>1, <1>3 DEF Tables
<1>5. QED
  BY <1>2, <1>3, <1>4, SetterKeeps
-----------------------------------------------------------------------------
(* run() and the ways it ends.                                             *)
LEMMA BasedRuns ==
  ASSUME Good(s, lapse), ~RunRefuses
  PROVE  Good(Based, lapse) /\ MayRun(Based) /\ Based.check = s.check
<1>1. SameStaged(Based, s) /\ Based.trips = s.trips
  BY BasedFacts DEF Good
<1>2. QED
  BY <1>1, BasedIsGood DEF SameStaged, RunRefuses, MayRun

ReadyToSolve(r, b, apart) ==
  /\ Good(r, {"rows"} \cup (IF NewSource(b) THEN {} ELSE apart))
  /\ Armored(r) /\ SameStaged(r, b)
  /\ NewSource(b) =>
       /\ r.trips = r.driver.source
       /\ r.flags = [i \in DOMAIN r.driver.source |-> SplitOff(r.driver, r.driver.source[i])]
  /\ ~NewSource(b) => ~b.dirty

LEMMA AboutToSolve ==
  ASSUME NEW b, NEW apart, Good(b, apart), MayRun(b), NEW new \in Builds(b),
         NEW q, q = Sourced(b, new), NEW r, r = Armed(q)
  PROVE  ReadyToSolve(r, b, apart)
<1>1. /\ Shaped(q) /\ SameStaged(q, b) /\ q.driver.alive /\ q.driver.mask = b.mask
      /\ NewSource(b) =>
           /\ q.trips = q.driver.source
           /\ q.flags = [i \in DOMAIN q.driver.source |-> SplitOff(q.driver, q.driver.source[i])]
  BY SourcedFacts DEF Good, SourcedFrom
<1>2. Good(q, {"rows"} \cup (IF NewSource(b) THEN {} ELSE apart))
  BY SourcedIsGood
<1>3. Good(r, {"rows"} \cup (IF NewSource(b) THEN {} ELSE apart))
  BY <1>2, ArmedIsGood
<1>4. /\ SameStaged(r, q) /\ r.trips = q.trips /\ r.flags = q.flags
      /\ r.driver.alive = q.driver.alive /\ r.driver.mask = q.driver.mask
      /\ r.driver.source = q.driver.source
      /\ q.check => /\ DOMAIN r.driver.viol = DOMAIN r.driver.source
                    /\ \A i \in DOMAIN r.driver.viol : r.driver.viol[i] = None
  <2>1. Shaped(q)
    BY <1>1
  <2>2. QED
    BY ONLY <2>1, r = Armed(q), ArmedFacts
<1>5. SameStaged(r, b)
  BY <1>1, <1>4 DEF SameStaged
<1>6. Armored(r)
  BY <1>1, <1>4, <1>5 DEF Armored, SameStaged
<1>7. NewSource(b) =>
        r.flags = [i \in DOMAIN r.driver.source |-> SplitOff(r.driver, r.driver.source[i])]
  BY <1>1, <1>4
<1>8. QED
  BY <1>1, <1>3, <1>4, <1>5, <1>6, <1>7 DEF ReadyToSolve, NewSource

LEMMA RunStep ==
  ASSUME Good(s, lapse), Run, calls \in Nat
  PROVE  Good(s', lapse')
<1>. SUFFICES ASSUME NEW b, b = Based, NEW new \in Builds(b),
                     NEW sourced, sourced = Sourced(b, new), NEW r, r = Armed(sourced),
                     NEW q, q = SolvedUpTo(r, Cardinality(ActiveRows(r))),
                     s' = [q EXCEPT !.hasViolations = s.check, !.dirty = FALSE]
              PROVE  Good(s', lapse')
  BY DEF Run
<1>. DEFINE apart == {"rows"} \cup (IF NewSource(b) THEN {} ELSE lapse)
<1>1. /\ Good(b, lapse) /\ MayRun(b) /\ b.check = s.check
      /\ s' = [q EXCEPT !.hasViolations = s.check, !.dirty = FALSE]
      /\ lapse' = IF NewSource(b) THEN {} ELSE lapse \ {"rows"}
      /\ s.check => s.limits # None
  BY BasedRuns DEF Run, MayCheck
<1>2. /\ Good(r, apart) /\ Armored(r) /\ SameStaged(r, b)
      /\ NewSource(b) =>
           /\ r.trips = r.driver.source
           /\ r.flags = [i \in DOMAIN r.driver.source |-> SplitOff(r.driver, r.driver.source[i])]
      /\ ~NewSource(b) => ~b.dirty
  <2>1. ReadyToSolve(r, b, lapse)
    BY <1>1, AboutToSolve
  <2>2. QED
    BY <2>1 DEF ReadyToSolve
<1>3. Good(q, apart)
  BY <1>2, SolvedIsGood
<1>4. SolvedFrom(q, r, Cardinality(ActiveRows(r)))
  BY <1>2, SolvedFacts DEF Good
<1>5. /\ q.trips = r.trips /\ q.flags = r.flags /\ SameStaged(q, r)
      /\ q.driver.source = r.driver.source /\ q.driver.mask = r.driver.mask
      /\ DOMAIN q.driver.v = DOMAIN r.driver.source
  <2>1. r.driver \in Drivers
    BY <1>2 DEF Good, Shaped, Sessions
  <2>2. QED
    BY <1>4, <2>1 DEF SolvedFrom, Drivers
<1>6. /\ \A i \in DOMAIN q.driver.v :
           /\ q.driver.v[i] # None /\ q.driver.v[i].trips = q.driver.source[i]
           /\ q.driver.v[i].solved <=> ~SplitOff(q.driver, q.driver.v[i].trips)
      /\ r.check =>
           /\ DOMAIN q.driver.viol = DOMAIN q.driver.v
           /\ \A i \in DOMAIN q.driver.viol :
                /\ q.driver.viol[i] # None <=> q.driver.v[i].solved
                /\ q.driver.viol[i] # None =>
                     /\ q.driver.v[i].run = q.driver.viol[i].run
                     /\ q.driver.v[i].trips = q.driver.viol[i].trips
                     /\ q.driver.viol[i].limits = r.limits
  BY <1>2, AllSolved DEF Good
<1>7. q \in Sessions /\ s.check \in BOOLEAN
  BY <1>1, <1>3 DEF Good, Shaped, Sessions
<1>8. /\ s' \in Sessions /\ s'.driver = q.driver /\ s'.trips = q.trips /\ s'.flags = q.flags
      /\ s'.hasViolations = s.check /\ s'.dirty = FALSE /\ s'.data = q.data
      /\ s'.limits = q.limits /\ s'.check = q.check
  <2>0. s' = [q EXCEPT !.hasViolations = s.check, !.dirty = FALSE]
    BY <1>1
  <2>1. s' \in Sessions
    <3>1. \A x \in Sessions, v \in BOOLEAN :
            [x EXCEPT !.hasViolations = v, !.dirty = FALSE] \in Sessions
      BY DEF Sessions
    <3>2. QED
      BY ONLY <1>7, <2>0, <3>1
  <2>2. /\ s'.driver = q.driver /\ s'.trips = q.trips /\ s'.flags = q.flags
        /\ s'.data = q.data /\ s'.limits = q.limits /\ s'.check = q.check
    BY <1>7, <2>0 DEF Sessions
  <2>3. s'.hasViolations = s.check /\ s'.dirty = FALSE
    BY <1>7, <2>0 DEF Sessions
  <2>4. QED
    BY <2>1, <2>2, <2>3
<1>9. /\ r.check = s.check /\ q.check = s.check /\ r.limits = q.limits
      /\ s.check => q.limits # None
  <2>1. SameStaged(b, s)
    BY BasedFacts DEF Good
  <2>2. QED
    BY <1>1, <1>2, <1>5, <2>1 DEF SameStaged
<1>10. Shaped(s') /\ Tables(s')
  BY <1>3, <1>8 DEF Good, Shaped, Tables
<1>11. FlagsFit(s', lapse')
  <2>1. CASE NewSource(b)
    <3>1. s'.flags = [i \in DOMAIN s'.driver.source |-> SplitOff(s'.driver, s'.driver.source[i])]
      <4>1. \A t : SplitOff(r.driver, t) = SplitOff(s'.driver, t)
        BY <1>5, <1>8
      <4>2. r.flags = [i \in DOMAIN r.driver.source |-> SplitOff(s'.driver, r.driver.source[i])]
        BY <1>2, <2>1, <4>1
      <4>3. QED
        BY <1>5, <1>8, <4>2
    <3>2. s'.trips = s'.driver.source
      BY <1>2, <1>5, <1>8, <2>1
    <3>3. QED
      BY <3>1, <3>2 DEF FlagsFit
  <2>2. CASE ~NewSource(b)
    <3>1. ~q.dirty
      BY <1>2, <1>5, <2>2 DEF SameStaged
    <3>2. "flags" \notin lapse' => "flags" \notin apart
      BY <1>1, <2>2
    <3>3. QED
      BY <1>3, <1>8, <3>1, <3>2 DEF Good, FlagsFit
  <2>3. QED
    BY <2>1, <2>2
<1>12. AnswersFit(s', lapse')
  BY <1>6, <1>8 DEF AnswersFit
<1>13. RecordsFit(s', lapse')
  BY <1>6, <1>8, <1>9 DEF RecordsFit
<1>14. QED
  BY <1>10, <1>11, <1>12, <1>13 DEF Good

LEMMA RunFailsEarly ==
  ASSUME Good(s, lapse), RunFailsInBase \/ RunFailsToStage \/ RunFailsToBuild
  PROVE  Good(s', lapse')
<1>1. Good(Based, lapse) /\ Based \in Sessions /\ Tables(Based) /\ RecordsFit(Based, lapse)
  BY BasedIsGood DEF Good, Shaped
<1>2. CASE RunFailsInBase
  <2>1. s' = Based /\ lapse' = {} /\ Based.driver = NoDriver
    BY <1>2, BasedFacts DEF RunFailsInBase, RunStops, Good
  <2>2. Based.hasViolations => Based.check /\ Based.limits # None
    BY <1>1 DEF RecordsFit
  <2>3. QED
    BY <1>1, <2>1, <2>2, DriverlessIsGood DEF Tables
<1>3. CASE RunFailsToStage
  <2>1. PICK r \in {Cleared(Based), Flagged(Based)} :
          s' = r /\ lapse' = IF NewSource(Based) THEN lapse \cup {"flags"} ELSE lapse
    BY <1>3 DEF RunFailsToStage, RunStops
  <2>2. /\ r \in Sessions /\ SameStaged(r, Based)
        /\ r.driver = Based.driver /\ r.hasViolations = Based.hasViolations
        /\ ~NewSource(Based) => r = Based
    <3>1. CASE r = Cleared(Based)
      BY <1>1, <3>1, ClearedFacts
    <3>2. CASE r = Flagged(Based)
      BY <1>1, <3>2, FlaggedFacts
    <3>3. QED
      BY <2>1, <3>1, <3>2
  <2>3. Tables(r)
    BY <1>1, <2>2 DEF Tables, SameStaged
  <2>4. lapse \subseteq lapse' /\ (r = Based \/ "flags" \in lapse')
    BY <2>1, <2>2
  <2>5. Good(r, lapse')
    BY <1>1, <2>2, <2>3, <2>4, SetterKeeps DEF SameStaged
  <2>6. QED
    BY <2>1, <2>5
<1>4. CASE RunFailsToBuild
  <2>. DEFINE r == Flagged(Based)
  <2>1. s' = [r EXCEPT !.driver = NoDriver]
    BY <1>4 DEF RunFailsToBuild, RunStops
  <2>2. r \in Sessions /\ SameStaged(r, Based) /\ r.hasViolations = Based.hasViolations
    BY <1>1, FlaggedFacts
  <2>. HIDE DEF r
  <2>3. /\ s' \in Sessions /\ SameStaged(s', r) /\ s'.driver = NoDriver
        /\ s'.hasViolations = r.hasViolations
    <3>1. NoDriver \in Drivers
      BY NoDriverType
    <3>2. QED
      BY <2>1, <2>2, <3>1, WithDriver
  <2>4. s'.hasViolations => s'.check /\ s'.limits # None
    BY <1>1, <2>2, <2>3 DEF RecordsFit, SameStaged
  <2>5. s'.limits # None => Len(s'.limits.amp) = Len(s'.data)
    BY <1>1, <2>2, <2>3 DEF Tables, SameStaged
  <2>6. QED
    BY <2>3, <2>4, <2>5, DriverlessIsGood
<1>5. QED
  BY <1>2, <1>3, <1>4

LEMMA RunFailsLate ==
  ASSUME Good(s, lapse), RunFailsBeforeChecks \/ RunFailsInChecks \/ RunFailsInSolve,
         calls \in Nat
  PROVE  Good(s', lapse')
<1>1. ~RunRefuses /\ lapse' = AfterSource
  BY DEF RunFailsBeforeChecks, RunFailsInChecks, RunFailsInSolve, RunStops
<1>2. Good(Based, lapse) /\ MayRun(Based)
  BY <1>1, BasedRuns
<1>3. \A new \in Builds(Based) : Good(Sourced(Based, new), AfterSource)
  BY <1>2, SourcedIsGood DEF AfterSource
<1>4. \A new \in Builds(Based) :
        Good(Armed(Sourced(Based, new)), AfterSource) /\ Armored(Armed(Sourced(Based, new)))
  BY <1>2, AboutToSolve DEF ReadyToSolve, AfterSource
<1>5. "rows" \in AfterSource
  BY DEF AfterSource
<1>6. CASE RunFailsBeforeChecks
  BY <1>1, <1>3, <1>6 DEF RunFailsBeforeChecks, RunStops
<1>7. CASE RunFailsInChecks
  BY <1>1, <1>4, <1>7 DEF RunFailsInChecks, RunStops
<1>8. CASE RunFailsInSolve
  <2>1. PICK new \in Builds(Based), done \in Int :
          s' = SolvedUpTo(Armed(Sourced(Based, new)), done)
    BY <1>8 DEF RunFailsInSolve, RunStops
  <2>2. QED
    BY <1>1, <1>4, <1>5, <2>1, SolvedIsGood
<1>9. QED
  BY <1>6, <1>7, <1>8

(* compute_flows() makes the branch tables of the driver.                  *)
LEMMA ReadyFacts ==
  ASSUME Shaped(s), Tables(s), NEW q, q = Ready(s)
  PROVE  /\ q \in Sessions /\ SameStaged(q, s) /\ q.trips = s.trips /\ q.flags = s.flags
         /\ q.hasViolations = s.hasViolations /\ Tables(q)
         /\ q.driver.alive = s.driver.alive /\ q.driver.source = s.driver.source
         /\ q.driver.mask = s.driver.mask /\ q.driver.v = s.driver.v
         /\ q.driver.viol = s.driver.viol /\ q.driver.adm = s.data
<1>1. CASE s.driver.hasBuf
  BY <1>1 DEF Ready, SameStaged, Shaped, Tables
<1>2. CASE ~s.driver.hasBuf
  <2>1. q = [s EXCEPT !.driver.adm = s.data, !.driver.hasAdm = TRUE, !.driver.hasBuf = TRUE,
                      !.driver.bufN = Len(s.data)]
    BY <1>2 DEF Ready
  <2>2. s \in Sessions /\ s.driver \in Drivers /\ s.data \in Data /\ Len(s.data) \in Nat
    BY DataAreSequences DEF Shaped, Sessions
  <2>3. q.driver = [s.driver EXCEPT !.adm = s.data, !.hasAdm = TRUE, !.hasBuf = TRUE,
                                    !.bufN = Len(s.data)]
    BY <2>1, <2>2 DEF Sessions, Drivers
  <2>4. q.driver \in Drivers
    BY <2>2, <2>3 DEF Drivers
  <2>5. q = [s EXCEPT !.driver = q.driver]
    BY <2>1, <2>2, <2>3 DEF Sessions, Drivers
  <2>6. /\ q \in Sessions /\ SameStaged(q, s) /\ q.hasViolations = s.hasViolations
        /\ q.trips = s.trips /\ q.flags = s.flags
    BY <2>2, <2>4, <2>5, WithDriver
  <2>7. /\ q.driver.alive = s.driver.alive /\ q.driver.source = s.driver.source
        /\ q.driver.mask = s.driver.mask /\ q.driver.v = s.driver.v
        /\ q.driver.viol = s.driver.viol /\ q.driver.adm = s.data
        /\ q.driver.hasAdm = TRUE /\ q.driver.bufN = Len(s.data)
    BY <2>2, <2>3 DEF Drivers
  <2>8. Tables(q)
    BY <2>6, <2>7 DEF Tables, SameStaged
  <2>9. QED
    BY <2>6, <2>7, <2>8
<1>3. QED
  BY <1>1, <1>2

LEMMA ComputeFlowsStep ==
  ASSUME Good(s, lapse), ComputeFlows
  PROVE  Good(s', lapse')
<1>1. s' = Ready(s) /\ lapse' = lapse /\ Shaped(s) /\ Tables(s)
  BY DEF ComputeFlows, Good
<1>2. /\ s' \in Sessions /\ SameStaged(s', s) /\ s'.trips = s.trips /\ s'.flags = s.flags
      /\ s'.hasViolations = s.hasViolations /\ Tables(s')
      /\ s'.driver.alive = s.driver.alive /\ s'.driver.source = s.driver.source
      /\ s'.driver.mask = s.driver.mask /\ s'.driver.v = s.driver.v
      /\ s'.driver.viol = s.driver.viol
  BY <1>1, ReadyFacts
<1>3. QED
  BY <1>1, <1>2, SetterKeeps DEF SameStaged
-----------------------------------------------------------------------------
(* Type correctness and the invariant.                                     *)
IInv == TypeOK /\ DeviceTablesFit /\ ResultsInv

LEMMA InvIsGood ==
  IInv <=> /\ grid \in Grids /\ Good(s, lapse)
           /\ outcome \in {"ok", "raised", "computed", "flows"} /\ calls \in 0..MaxCalls
           /\ lapse \subseteq {"flags", "rows"}
BY DEF IInv, TypeOK, DeviceTablesFit, ResultsInv, Good, Shaped, Tables

LEMMA LimitsFitTheirGrid ==
  ASSUME NEW g \in Grids
  PROVE  Len(ExtractLimits(g).amp) = Len(ExtractBranchData(g))
<1>. DEFINE n == Len(AllBranches(g))
            data == ExtractBranchData(g)
            amp == ExtractLimits(g).amp
<1>1. n \in Nat /\ DOMAIN AllBranches(g) = 1..n
  BY GridAssumption
<1>2. data = [l \in 1..n |-> data[l]]
  BY <1>1 DEF ExtractBranchData
<1>3. amp = [l \in DOMAIN AllBranches(g) |-> AllBranches(g)[l].limit]
  BY DEF ExtractLimits
<1>4. amp = [l \in 1..n |-> amp[l]]
  BY <1>1, <1>3
<1>. HIDE DEF data, amp, n
<1>5. Len(data) = n
  BY <1>1, <1>2
<1>6. Len(amp) = n
  BY <1>1, <1>4
<1>7. QED
  BY <1>5, <1>6 DEF data, amp

LEMMA InitInv == Init => IInv
<1>. SUFFICES ASSUME Init PROVE IInv
  OBVIOUS
<1>. DEFINE least == CHOOSE t \in Tols : \A u \in Tols : t <= u
<1>1. least \in Tols
  BY ResultsAssumption
<1>2. 0 \in 0..MaxRows /\ 0 \in 0..MaxCalls /\ 0 \in Margins
  BY ResultsAssumption
<1>. HIDE DEF least
<1>3. PICK g \in Grids, m \in BOOLEAN, check \in BOOLEAN :
        /\ grid = g /\ outcome = "ok" /\ lapse = {} /\ calls = 0
        /\ s = [rows |-> 0, data |-> ExtractBranchData(g), trips |-> <<>>, topo |-> FALSE,
                flags |-> <<>>, dirty |-> FALSE, limits |-> IF check THEN ExtractLimits(g) ELSE None,
                check |-> check, tol |-> least, rel |-> 0, mask |-> m,
                asked |-> "grid", ref |-> "grid", hasViolations |-> FALSE, driver |-> NoDriver]
  BY DEF Init, least
<1>. DEFINE limits == IF check THEN ExtractLimits(g) ELSE None
<1>4. limits \in Limits \cup {None} /\ (limits # None => Len(limits.amp) = Len(ExtractBranchData(g)))
  BY LimitsFitTheirGrid DEF Limits
<1>5. ExtractBranchData(g) \in Data
  BY DEF Data
<1>6. /\ s.driver = NoDriver /\ s.hasViolations = FALSE /\ s.limits = limits
      /\ s.data = ExtractBranchData(g)
  BY <1>3
<1>7. <<>> \in Seq(TripSets) /\ <<>> \in Seq(BOOLEAN)
  OBVIOUS
<1>. HIDE DEF limits
<1>8. s \in Sessions
  <2>1. s = [rows |-> 0, data |-> ExtractBranchData(g), trips |-> <<>>, topo |-> FALSE,
             flags |-> <<>>, dirty |-> FALSE, limits |-> limits,
             check |-> check, tol |-> least, rel |-> 0, mask |-> m,
             asked |-> "grid", ref |-> "grid", hasViolations |-> FALSE, driver |-> NoDriver]
    BY <1>3 DEF limits
  <2>2. QED
    BY <2>1, <1>1, <1>2, <1>4, <1>5, <1>7, NoDriverType DEF Sessions
<1>9. Good(s, lapse)
  BY <1>4, <1>6, <1>8, DriverlessIsGood
<1>10. QED
  BY <1>2, <1>3, <1>9, InvIsGood

LEMMA StepKinds ==
  ASSUME grid \in Grids, Next
  PROVE  \/ \E g \in Grids : ChangeGrid(g)
         \/ \E n \in 1..MaxRows : SetInjections(n)
         \/ \E m \in BOOLEAN : SetHandleDisconnectedGrid(m)
         \/ \E t \in Tols : SetViolationTol(t)
         \/ \E p \in Margins : SetViolationRelTol(p)
         \/ \E b \in {"grid", "other"} : SetReferenceSlack(b)
         \/ \E t \in Topologies : SetTopology(t)
         \/ \E t \in Topologies : \E n \in 0..(Len(t) - 1) : SetTopologyTorn(t, n)
         \/ \E d \in Data : SetBranchData(d)
         \/ \E l \in Limits : SetLimits(l)
         \/ \E v \in BOOLEAN : SetComputeLimitViolations(v)
         \/ Run
         \/ RunFailsInBase \/ RunFailsToStage \/ RunFailsToBuild
         \/ RunFailsBeforeChecks \/ RunFailsInChecks \/ RunFailsInSolve
         \/ ComputeFlows
         \/ Refused
<1>1. CASE \E d \in OtherData \cup {ExtractBranchData(grid)} : SetBranchData(d)
  BY <1>1 DEF Data
<1>2. CASE \E l \in OtherLimits : SetLimits(l)
  BY <1>2 DEF Limits
<1>3. CASE SetLimitsFromGrid
  <2>. DEFINE l == ExtractLimits(grid)
  <2>1. l \in Limits
    BY DEF Limits
  <2>2. SetLimits(l) \/ SetLimitsRefused(l)
    BY <1>3 DEF SetLimitsFromGrid
  <2>. HIDE DEF l
  <2>3. QED
    BY <2>1, <2>2 DEF SetLimitsRefused
<1>4. CASE \/ SetViolationRelTolRefused \/ RunRefused \/ ComputeFlowsRefused
           \/ \E t \in Topologies : SetTopologyRefused(t)
           \/ \E d \in OtherData \cup {ExtractBranchData(grid)} : SetBranchDataRefused(d)
           \/ \E l \in OtherLimits : SetLimitsRefused(l)
  BY <1>4 DEF SetViolationRelTolRefused, RunRefused, ComputeFlowsRefused, SetTopologyRefused,
              SetBranchDataRefused, SetLimitsRefused
<1>5. QED
  BY <1>1, <1>2, <1>3, <1>4 DEF Next

LEMMA NextGood ==
  ASSUME IInv, Next
  PROVE  Good(s', lapse')
<1>1. Good(s, lapse) /\ grid \in Grids /\ calls \in Nat
  BY InvIsGood, ResultsAssumption
<1>2. CASE \E g \in Grids : ChangeGrid(g)
  BY <1>1, <1>2 DEF ChangeGrid
<1>3. CASE \/ \E n \in 1..MaxRows : SetInjections(n)
           \/ \E m \in BOOLEAN : SetHandleDisconnectedGrid(m)
           \/ \E t \in Tols : SetViolationTol(t)
           \/ \E p \in Margins : SetViolationRelTol(p)
           \/ \E b \in {"grid", "other"} : SetReferenceSlack(b)
  BY <1>1, <1>3, PlainSetters
<1>4. CASE \E t \in Topologies : SetTopology(t)
  BY <1>1, <1>4, SetTopologyStep
<1>5. CASE \E t \in Topologies : \E n \in 0..(Len(t) - 1) : SetTopologyTorn(t, n)
  BY <1>1, <1>5, SetTopologyTornStep
<1>6. CASE \E d \in Data : SetBranchData(d)
  BY <1>1, <1>6, SetBranchDataStep
<1>7. CASE \E l \in Limits : SetLimits(l)
  BY <1>1, <1>7, SetLimitsStep
<1>8. CASE \E v \in BOOLEAN : SetComputeLimitViolations(v)
  BY <1>1, <1>8, SetCheckStep
<1>9. CASE Run
  BY <1>1, <1>9, RunStep
<1>10. CASE RunFailsInBase \/ RunFailsToStage \/ RunFailsToBuild
  BY <1>1, <1>10, RunFailsEarly
<1>11. CASE RunFailsBeforeChecks \/ RunFailsInChecks \/ RunFailsInSolve
  BY <1>1, <1>11, RunFailsLate
<1>12. CASE ComputeFlows
  BY <1>1, <1>12, ComputeFlowsStep
<1>13. CASE Refused
  BY <1>1, <1>13 DEF Refused
<1>14. QED
  BY <1>1, <1>2, <1>3, <1>4, <1>5, <1>6, <1>7, <1>8, <1>9, <1>10, <1>11, <1>12, <1>13, StepKinds

(* The grid changes under the session only in one action, and the flows    *)
(* are there after compute_flows() only.                                   *)
LEMMA NextBooks ==
  ASSUME grid \in Grids, lapse \subseteq {"flags", "rows"}, calls \in 0..MaxCalls, Next
  PROVE  /\ grid' \in Grids /\ lapse' \subseteq {"flags", "rows"} /\ calls' \in 0..MaxCalls
         /\ outcome' \in {"ok", "raised", "computed", "flows"}
         /\ outcome' = "flows" => ComputeFlows
<1>1. Counted => calls' \in 0..MaxCalls
  BY ResultsAssumption DEF Counted
<1>2. CASE \E g \in Grids : ChangeGrid(g)
  BY <1>1, <1>2 DEF ChangeGrid
<1>3. CASE \E q : Ok(q)
  BY <1>1, <1>3 DEF Ok
<1>4. CASE \E t \in Topologies : \E n \in 0..(Len(t) - 1) : SetTopologyTorn(t, n)
  BY <1>1, <1>4 DEF SetTopologyTorn
<1>5. CASE Run
  BY <1>1, <1>5 DEF Run
<1>6. CASE \/ RunFailsInBase \/ RunFailsToStage \/ RunFailsToBuild
           \/ RunFailsBeforeChecks \/ RunFailsInChecks \/ RunFailsInSolve
  <2>1. \E r : \E apart \in SUBSET {"flags", "rows"} : RunStops(r, apart)
    <3>. DEFINE wider == IF NewSource(Based) THEN lapse \cup {"flags"} ELSE lapse
    <3>1. /\ {} \in SUBSET {"flags", "rows"} /\ AfterSource \in SUBSET {"flags", "rows"}
          /\ wider \in SUBSET {"flags", "rows"}
      BY DEF AfterSource
    <3>2. \E r : RunStops(r, {}) \/ RunStops(r, AfterSource) \/ RunStops(r, wider)
      BY <1>6 DEF RunFailsInBase, RunFailsToStage, RunFailsToBuild, RunFailsBeforeChecks,
                  RunFailsInChecks, RunFailsInSolve
    <3>. HIDE DEF wider
    <3>3. QED
      BY <3>1, <3>2
  <2>2. QED
    BY <1>1, <2>1 DEF RunStops
<1>7. CASE ComputeFlows
  BY <1>1, <1>7 DEF ComputeFlows
<1>8. CASE Refused
  BY <1>1, <1>8 DEF Refused
<1>9. (\/ \E n \in 1..MaxRows : SetInjections(n)
       \/ \E m \in BOOLEAN : SetHandleDisconnectedGrid(m)
       \/ \E t \in Tols : SetViolationTol(t)
       \/ \E p \in Margins : SetViolationRelTol(p)
       \/ \E b \in {"grid", "other"} : SetReferenceSlack(b)
       \/ \E t \in Topologies : SetTopology(t)
       \/ \E d \in Data : SetBranchData(d)
       \/ \E l \in Limits : SetLimits(l)
       \/ \E v \in BOOLEAN : SetComputeLimitViolations(v)) => \E q : Ok(q)
  BY DEF SetInjections, SetHandleDisconnectedGrid, SetViolationTol, SetViolationRelTol,
         SetReferenceSlack, SetTopology, SetBranchData, SetLimits, SetComputeLimitViolations
<1>10. QED
  BY <1>2, <1>3, <1>4, <1>5, <1>6, <1>7, <1>8, <1>9, StepKinds

LEMMA StepInv == IInv /\ [Next]_vars => IInv'
<1>1. ASSUME IInv, Next PROVE IInv'
  <2>1. Good(s', lapse')
    BY <1>1, NextGood
  <2>2. /\ grid' \in Grids /\ lapse' \subseteq {"flags", "rows"} /\ calls' \in 0..MaxCalls
        /\ outcome' \in {"ok", "raised", "computed", "flows"}
    BY <1>1, InvIsGood, NextBooks
  <2>3. QED
    BY <2>1, <2>2 DEF IInv, TypeOK, DeviceTablesFit, ResultsInv, Good, Shaped, Tables
<1>2. ASSUME IInv, UNCHANGED vars PROVE IInv'
  BY <1>2 DEF vars, IInv, TypeOK, DeviceTablesFit, ResultsInv
<1>3. QED
  BY <1>1, <1>2

THEOREM ResultsInvariant == Spec => []IInv
<1>1. Init => IInv
  BY InitInv
<1>2. IInv /\ [Next]_vars => IInv'
  BY StepInv
<1>3. QED
  BY <1>1, <1>2, PTL DEF Spec
-----------------------------------------------------------------------------
(* What is reported.                                                       *)
LEMMA FormulasAlike ==
  ASSUME NEW v, NEW x
  PROVE  /\ BranchFlowsDevice(v, x) = BranchFlowsCpu(v, x)
         /\ BranchFlowsTorch(v, x) = BranchFlowsCpu(v, x)
<1>1. BranchFlowsDevice(v, x) = BranchFlowsCpu(v, x)
  <2>. DEFINE first == IF x.from = Gone THEN 0 ELSE Sum2(x.y[1], At(v, x.from), x.y[2], At(v, x.to))
              second == IF x.to = Gone THEN 0 ELSE Sum2(x.y[3], At(v, x.from), x.y[4], At(v, x.to))
  <2>1. BranchFlowsDevice(v, x) = [side \in 1..2 |-> IF side = 1 THEN first ELSE second]
    BY DEF BranchFlowsDevice
  <2>2. BranchFlowsCpu(v, x) = <<first, second>>
    BY DEF BranchFlowsCpu
  <2>. HIDE DEF first, second
  <2>3. [side \in 1..2 |-> IF side = 1 THEN first ELSE second] = <<first, second>>
    OBVIOUS
  <2>4. QED
    BY <2>1, <2>2, <2>3
<1>2. BranchFlowsTorch(v, x) = BranchFlowsCpu(v, x)
  BY DEF BranchFlowsTorch, BranchFlowsCpu, At
<1>3. QED
  BY <1>1, <1>2

(* All that a row can report.                                              *)
Reportable(n, nLines) ==
  {Current(p[1], p[2], nLines) : p \in (1..n) \X (1..2)}
  \cup {Voltage(p[1], p[2]) : p \in SolverBuses \X {"low", "high"}}

LEMMA ReportableFinite ==
  ASSUME NEW n \in Nat, NEW nLines
  PROVE  IsFiniteSet(Reportable(n, nLines))
<1>. DEFINE A == (1..n) \X (1..2)
            B == SolverBuses \X {"low", "high"}
            S == {Current(p[1], p[2], nLines) : p \in A}
            T == {Voltage(p[1], p[2]) : p \in B}
            f == [p \in A |-> Current(p[1], p[2], nLines)]
            g == [p \in B |-> Voltage(p[1], p[2])]
<1>1. IsFiniteSet(1..n) /\ IsFiniteSet(1..2)
  <2>1. ASSUME NEW k \in Nat PROVE IsFiniteSet(1..k)
    <3>1. 1 \in Int /\ k \in Int
      OBVIOUS
    <3>2. QED
      BY ONLY <3>1, FS_Interval
  <2>2. QED
    BY <2>1
<1>2. IsFiniteSet({"low", "high"})
  <2>1. {"low", "high"} = {"low"} \cup {"high"}
    OBVIOUS
  <2>2. IsFiniteSet({"low"})
    BY FS_Singleton
  <2>3. QED
    BY <2>1, <2>2, FS_AddElement
<1>3. IsFiniteSet(A) /\ IsFiniteSet(B)
  BY <1>1, <1>2, FS_Product, GridAssumption
<1>4. f \in Surjection(A, S)
  BY DEF Surjection
<1>5. g \in Surjection(B, T)
  BY DEF Surjection
<1>. HIDE DEF A, B, S, T, f, g
<1>6. IsFiniteSet(S) /\ IsFiniteSet(T)
  BY <1>3, <1>4, <1>5, FS_Surjection
<1>7. IsFiniteSet(S \cup T)
  BY <1>6, FS_Union
<1>8. QED
  BY <1>7 DEF Reportable, A, B, S, T

LEMMA ScanReportable ==
  ASSUME NEW v, NEW data, NEW limits, NEW rel, NEW scanned, NEW n, scanned \subseteq 1..n
  PROVE  Scan(v, data, limits, rel, scanned) \subseteq Reportable(n, limits.nLines)
<1>. SUFFICES ASSUME NEW w \in Scan(v, data, limits, rel, scanned)
     PROVE  w \in Reportable(n, limits.nLines)
  OBVIOUS
<1>1. CASE \E p \in scanned \X (1..2) : w = Current(p[1], p[2], limits.nLines)
  <2>1. scanned \X (1..2) \subseteq (1..n) \X (1..2)
    OBVIOUS
  <2>2. QED
    BY <1>1, <2>1 DEF Reportable
<1>2. CASE \E b \in SolverBuses : \E t \in {"low", "high"} : w = Voltage(b, t)
  <2>1. PICK b \in SolverBuses, t \in {"low", "high"} : w = Voltage(b, t)
    BY <1>2
  <2>2. <<b, t>> \in SolverBuses \X {"low", "high"}
    BY <2>1
  <2>3. QED
    BY <2>1, <2>2 DEF Reportable
<1>3. \/ \E p \in scanned \X (1..2) : w = Current(p[1], p[2], limits.nLines)
      \/ \E b \in SolverBuses : w = Voltage(b, "low") \/ w = Voltage(b, "high")
  BY DEF Scan
<1>4. QED
  BY <1>1, <1>2, <1>3

LEMMA KernelFacts ==
  ASSUME NEW x \in Records
  PROVE  /\ IsFiniteSet(Kernel(x))
         /\ NotSimulated \notin Kernel(x) /\ Divergence \notin Kernel(x)
         /\ \A w \in Kernel(x) : w.type \in {"low", "high", "current"}
<1>1. PICK n \in Nat : DOMAIN x.data = 1..n
  <2>1. CASE x.data = <<>>
    BY <2>1
  <2>2. CASE x.data \in Data
    BY <2>2, DataAreSequences
  <2>3. QED
    BY <2>1, <2>2 DEF Records
<1>2. Kernel(x) \subseteq Reportable(n, x.limits.nLines)
  <2>. DEFINE scanned == DOMAIN x.data \ x.trips
  <2>1. scanned \subseteq 1..n
    BY <1>1
  <2>2. Kernel(x) = Scan(Volts[x.trips], x.data, x.limits, x.rel, scanned)
    BY DEF Kernel
  <2>. HIDE DEF scanned
  <2>3. QED
    BY ONLY <2>1, <2>2, ScanReportable
<1>3. IsFiniteSet(Kernel(x))
  BY <1>2, ReportableFinite, FS_Subset
<1>4. \A w \in Reportable(n, x.limits.nLines) : w.type \in {"low", "high", "current"}
  BY DEF Reportable, Current, Voltage
<1>5. NotSimulated.type = "not_simulated" /\ Divergence.type = "divergence"
  BY DEF NotSimulated, Divergence
<1>6. QED
  BY <1>2, <1>3, <1>4, <1>5

OfType(found, t) == Cardinality({w \in found : w.type = t})

(* A row is reported as not simulated, as not converged, or as the kernel  *)
(* found it; what is counted is what is found.                             *)
LEMMA RowReports ==
  ASSUME s \in Sessions, NEW i \in DOMAIN s.driver.viol, NEW x, x = s.driver.viol[i]
  PROVE  /\ x = None => GetViolations[i] = {NotSimulated}
         /\ x # None => /\ x \in Records /\ Residual[x.trips] \in Nat /\ x.tol \in Nat
                        /\ Residual[x.trips] > x.tol => GetViolations[i] = {Divergence}
                        /\ ~(Residual[x.trips] > x.tol) => GetViolations[i] = Kernel(x)
         /\ \A t \in {"low", "high", "current"} :
              /\ x = None => GetViolationCounts[i][t] = -1
              /\ x # None /\ Residual[x.trips] > x.tol => GetViolationCounts[i][t] = 0
              /\ x # None /\ ~(Residual[x.trips] > x.tol) =>
                   GetViolationCounts[i][t] = OfType(Kernel(x), t)
<1>1. x # None => x \in Records
  <2>1. s.driver.viol \in Seq(Records \cup {None})
    BY DEF Sessions, Drivers
  <2>2. s.driver.viol[i] \in Records \cup {None}
    BY <2>1, LenProperties
  <2>3. QED
    BY <2>2
<1>2. x # None => Residual[x.trips] \in Nat /\ x.tol \in Nat
  BY <1>1, ResultsAssumption DEF Records
<1>3. GetViolations[i] = IF x = None THEN {NotSimulated}
                         ELSE IF Residual[x.trips] > x.tol THEN {Divergence} ELSE Kernel(x)
  BY DEF GetViolations
<1>4. ASSUME NEW t \in {"low", "high", "current"}
      PROVE  GetViolationCounts[i][t] =
               IF x = None THEN -1
               ELSE IF Residual[x.trips] > x.tol THEN 0
               ELSE OfType(Kernel(x), t)
  BY <1>4 DEF GetViolationCounts, OfType
<1>5. QED
  BY <1>1, <1>2, <1>3, <1>4

-----------------------------------------------------------------------------
(* RowsLeftOutAgree.                                                       *)
LEMMA LeftOutAgree == IInv => RowsLeftOutAgree
<1>. SUFFICES ASSUME IInv, s.driver.alive, ~s.dirty, lapse = {}
     PROVE  /\ DOMAIN GetDisconnected = DOMAIN s.driver.v
            /\ \A i \in DOMAIN s.driver.v :
                 /\ s.driver.v[i] # None
                 /\ GetDisconnected[i] <=> ~s.driver.v[i].solved
                 /\ GetDisconnected[i] <=> Residuals[i] = NaN
                 /\ Readable =>
                      /\ NotSimulated \in GetViolations[i] <=> GetDisconnected[i]
                      /\ \A t \in {"low", "high", "current"} :
                           GetViolationCounts[i][t] = -1 <=> GetDisconnected[i]
                      /\ GetViolationsTruncated[i] =>
                           \E w \in GetViolations[i] : w.type \in {"low", "high", "current"}
                      /\ s.driver.viol[i] # None /\ s.driver.viol[i].tol = s.tol =>
                           (Converged[i] <=> Divergence \notin GetViolations[i])
  BY DEF RowsLeftOutAgree
<1>1. /\ s \in Sessions /\ s.driver \in Drivers /\ DOMAIN s.driver.v = DOMAIN s.driver.source
      /\ FlagsFit(s, {}) /\ AnswersFit(s, {}) /\ RecordsFit(s, {})
  BY DEF IInv, TypeOK, ResultsInv, Sessions
<1>2. s.flags = [i \in DOMAIN s.driver.source |-> SplitOff(s.driver, s.driver.source[i])]
  BY <1>1 DEF FlagsFit
<1>3. DOMAIN GetDisconnected = DOMAIN s.driver.v
  BY <1>1, <1>2 DEF GetDisconnected
<1>4. ASSUME NEW i \in DOMAIN s.driver.v
      PROVE  /\ s.driver.v[i] # None /\ s.driver.v[i].trips = s.driver.source[i]
             /\ s.driver.v[i].solved <=> ~SplitOff(s.driver, s.driver.source[i])
             /\ GetDisconnected[i] <=> ~s.driver.v[i].solved
  <2>1. /\ s.driver.v[i] # None /\ s.driver.v[i].trips = s.driver.source[i]
        /\ s.driver.v[i].solved <=> ~SplitOff(s.driver, s.driver.v[i].trips)
    BY <1>1 DEF AnswersFit
  <2>2. GetDisconnected[i] = SplitOff(s.driver, s.driver.source[i])
    BY <1>1, <1>2 DEF GetDisconnected
  <2>3. QED
    BY <2>1, <2>2
<1>5. ASSUME NEW i \in DOMAIN s.driver.v
      PROVE  /\ Residuals[i] = IF s.driver.v[i].solved THEN Residual[s.driver.v[i].trips] ELSE NaN
             /\ Residual[s.driver.v[i].trips] \in Nat
             /\ GetDisconnected[i] <=> Residuals[i] = NaN
  <2>1. Residuals[i] = IF s.driver.v[i].solved THEN Residual[s.driver.v[i].trips] ELSE NaN
    BY <1>4 DEF Residuals
  <2>2. Residual[s.driver.v[i].trips] \in Nat
    <3>1. s.driver.source[i] \in TripSets
      BY <1>1, LenProperties DEF Drivers
    <3>2. QED
      BY <1>4, <3>1, ResultsAssumption
  <2>3. QED
    BY <1>4, <2>1, <2>2, NoneAssumption
<1>6. ASSUME Readable, NEW i \in DOMAIN s.driver.v
      PROVE  /\ NotSimulated \in GetViolations[i] <=> GetDisconnected[i]
             /\ \A t \in {"low", "high", "current"} :
                  GetViolationCounts[i][t] = -1 <=> GetDisconnected[i]
             /\ GetViolationsTruncated[i] =>
                  \E w \in GetViolations[i] : w.type \in {"low", "high", "current"}
             /\ s.driver.viol[i] # None /\ s.driver.viol[i].tol = s.tol =>
                  (Converged[i] <=> Divergence \notin GetViolations[i])
  <2>. DEFINE x == s.driver.viol[i]
              y == s.driver.v[i]
  <2>1. /\ DOMAIN s.driver.viol = DOMAIN s.driver.v
        /\ x # None <=> y.solved
        /\ x # None => y.trips = x.trips
    BY <1>1, <1>6 DEF RecordsFit, Readable
  <2>2. i \in DOMAIN s.driver.viol
    BY <2>1
  <2>3. /\ x = None => GetViolations[i] = {NotSimulated}
        /\ x # None => /\ x \in Records /\ Residual[x.trips] \in Nat /\ x.tol \in Nat
                       /\ Residual[x.trips] > x.tol => GetViolations[i] = {Divergence}
                       /\ ~(Residual[x.trips] > x.tol) => GetViolations[i] = Kernel(x)
        /\ \A t \in {"low", "high", "current"} :
             /\ x = None => GetViolationCounts[i][t] = -1
             /\ x # None /\ Residual[x.trips] > x.tol => GetViolationCounts[i][t] = 0
             /\ x # None /\ ~(Residual[x.trips] > x.tol) =>
                  GetViolationCounts[i][t] = OfType(Kernel(x), t)
    BY <1>1, <2>2, RowReports
  <2>4. NotSimulated # Divergence
    BY DEF NotSimulated, Divergence
  <2>5. x # None => NotSimulated \notin Kernel(x) /\ Divergence \notin Kernel(x)
    BY <2>3, KernelFacts
  <2>6. ASSUME x # None, NEW t \in {"low", "high", "current"}
        PROVE  /\ OfType(Kernel(x), t) \in Nat
               /\ OfType(Kernel(x), t) > 0 =>
                    \E w \in Kernel(x) : w.type = t
    <3>. DEFINE F == {w \in Kernel(x) : w.type = t}
    <3>1. F \in SUBSET Kernel(x) /\ IsFiniteSet(Kernel(x))
      BY <2>3, <2>6, KernelFacts
    <3>2. \A w \in F : w \in Kernel(x) /\ w.type = t
      OBVIOUS
    <3>. HIDE DEF F
    <3>3. Cardinality(F) \in Nat
      BY <3>1, FS_Subset, FS_CardinalityType
    <3>4. Cardinality(F) > 0 => F # {}
      BY FS_EmptySet
    <3>5. (Cardinality(F) > 0) => \E w \in Kernel(x) : w.type = t
      BY <3>2, <3>4
    <3>6. QED
      BY <3>3, <3>5 DEF F, OfType
  <2>7. (x = None) <=> GetDisconnected[i]
    BY <1>4, <2>1
  <2>8. NotSimulated \in GetViolations[i] <=> GetDisconnected[i]
    BY <2>3, <2>4, <2>5, <2>7
  <2>9. \A t \in {"low", "high", "current"} : GetViolationCounts[i][t] = -1 <=> GetDisconnected[i]
    BY <2>3, <2>6, <2>7
  <2>10. ASSUME GetViolationsTruncated[i]
         PROVE  \E w \in GetViolations[i] : w.type \in {"low", "high", "current"}
    <3>1. PICK t \in {"low", "high", "current"} : GetViolationCounts[i][t] > Capacity
      BY <2>2, <2>10 DEF GetViolationsTruncated
    <3>2. Capacity \in Nat
      BY ResultsAssumption
    <3>3. x # None /\ ~(Residual[x.trips] > x.tol)
      BY <2>3, <3>1, <3>2
    <3>4. \E w \in Kernel(x) : w.type = t
      BY <2>3, <2>6, <3>1, <3>2, <3>3
    <3>5. QED
      BY <2>3, <3>3, <3>4
  <2>11. ASSUME x # None, x.tol = s.tol
         PROVE  Converged[i] <=> Divergence \notin GetViolations[i]
    <3>1. Residuals[i] = Residual[x.trips] /\ Residual[x.trips] \in Nat /\ s.tol \in Nat
      BY <1>5, <2>1, <2>3, <2>11
    <3>2. i \in DOMAIN Residuals
      BY DEF Residuals
    <3>3. Converged[i] <=> (Residuals[i] \notin {None, NaN} /\ Residuals[i] <= s.tol)
      BY <3>2 DEF Converged
    <3>4. Residuals[i] \notin {None, NaN}
      BY <3>1, NoneAssumption
    <3>5. Converged[i] <=> ~(Residual[x.trips] > s.tol)
      BY <3>1, <3>3, <3>4
    <3>6. QED
      BY <2>3, <2>5, <2>11, <3>5
  <2>12. QED
    BY <2>8, <2>9, <2>10, <2>11
<1>7. QED
  BY <1>3, <1>4, <1>5, <1>6

(* RecordsOfTheirVoltages.                                                 *)
LEMMA RecordsAlong == IInv => RecordsOfTheirVoltages
BY DEF IInv, ResultsInv, RecordsFit, RecordsOfTheirVoltages, Readable

-----------------------------------------------------------------------------
(* BaseCaseReportsAlike: below one limit of a bus excludes above the other, *)
(* and the two rules go through the same currents.                         *)
LEMMA LowOrHigh ==
  ASSUME NEW v \in Nat \cup {NaN}, NEW m \in Nat \cup {NaN}, NEW n \in Nat \cup {NaN},
         NEW rel \in 0..99, NaN \in {m, n} \/ m <= n
  PROVE  ~(Below(v, m, rel) /\ Above(v, n, rel))
<1>. SUFFICES ASSUME Below(v, m, rel), Above(v, n, rel) PROVE FALSE
  OBVIOUS
<1>1. v \in Nat /\ m \in Nat /\ n \in Nat /\ rel \in Nat /\ m <= n
  BY DEF Below, Above
<1>2. 100 * v < m * (100 - rel) /\ 100 * v > n * (100 + rel)
  BY DEF Below, Above
<1>3. m * (100 - rel) = 100 * m - m * rel /\ n * (100 + rel) = 100 * n + n * rel
  BY <1>1
<1>4. m * rel \in Nat /\ n * rel \in Nat
  BY <1>1
<1>5. QED
  BY <1>1, <1>2, <1>3, <1>4

LEMMA CurrentOfBranch ==
  ASSUME NEW k \in Nat, NEW l \in Nat, NEW side, NEW other, NEW nLines \in Nat,
         Current(k, side, nLines) = Current(l, other, nLines)
  PROVE  k = l
<1>1. /\ (k <= nLines) <=> (l <= nLines)
      /\ (IF k <= nLines THEN k ELSE k - nLines) = (IF l <= nLines THEN l ELSE l - nLines)
  BY DEF Current
<1>2. QED
  BY <1>1

(* What the device finds, one element at a time.                           *)
LEMMA ScanMembers ==
  ASSUME NEW v, NEW data, NEW limits, NEW rel, NEW scanned, NEW w
  PROVE  w \in Scan(v, data, limits, rel, scanned) <=>
           \/ \E l \in scanned : \E side \in 1..2 :
                /\ Above(BranchFlowsDevice(v, data[l])[side], limits.amp[l][side], rel)
                /\ w = Current(l, side, limits.nLines)
           \/ \E b \in SolverBuses :
                /\ Below(v[b], limits.vmin[b], rel) \/ Above(v[b], limits.vmax[b], rel)
                /\ w = Voltage(b, IF Below(v[b], limits.vmin[b], rel) THEN "low" ELSE "high")
<1>. DEFINE pairs == {q \in scanned \X (1..2) :
                        Above(BranchFlowsDevice(v, data[q[1]])[q[2]], limits.amp[q[1]][q[2]], rel)}
            A == {Current(p[1], p[2], limits.nLines) : p \in pairs}
            past == {c \in SolverBuses : \/ Below(v[c], limits.vmin[c], rel)
                                         \/ Above(v[c], limits.vmax[c], rel)}
            B == {Voltage(b, IF Below(v[b], limits.vmin[b], rel) THEN "low" ELSE "high") : b \in past}
<1>1. Scan(v, data, limits, rel, scanned) = A \cup B
  BY DEF Scan
<1>2. ASSUME w \in A
      PROVE  \E l \in scanned : \E side \in 1..2 :
               /\ Above(BranchFlowsDevice(v, data[l])[side], limits.amp[l][side], rel)
               /\ w = Current(l, side, limits.nLines)
  <2>1. PICK p \in pairs : w = Current(p[1], p[2], limits.nLines)
    BY <1>2
  <2>2. p[1] \in scanned /\ p[2] \in 1..2
    OBVIOUS
  <2>3. Above(BranchFlowsDevice(v, data[p[1]])[p[2]], limits.amp[p[1]][p[2]], rel)
    OBVIOUS
  <2>4. QED
    BY <2>1, <2>2, <2>3
<1>3. ASSUME NEW l \in scanned, NEW side \in 1..2, w = Current(l, side, limits.nLines),
             Above(BranchFlowsDevice(v, data[l])[side], limits.amp[l][side], rel)
      PROVE  w \in A
  <2>. DEFINE p == <<l, side>>
  <2>1. p \in scanned \X (1..2) /\ p[1] = l /\ p[2] = side
    OBVIOUS
  <2>. HIDE DEF p
  <2>2. p \in pairs
    BY <1>3, <2>1
  <2>3. QED
    BY <1>3, <2>1, <2>2
<1>4. w \in B <=> \E b \in SolverBuses :
                    /\ Below(v[b], limits.vmin[b], rel) \/ Above(v[b], limits.vmax[b], rel)
                    /\ w = Voltage(b, IF Below(v[b], limits.vmin[b], rel) THEN "low" ELSE "high")
  OBVIOUS
<1>. HIDE DEF A, B
<1>5. QED
  BY <1>1, <1>2, <1>3, <1>4

LEMMA SameRule ==
  ASSUME NEW v \in [SolverBuses -> Nat \cup {NaN}], NEW limits \in Limits, NEW rel \in 0..99,
         NEW data
  PROVE  Scan(v, data, limits, rel, DOMAIN data) = ViolationsOf(v, data, limits, rel)
<1>. DEFINE low(b) == Below(v[b], limits.vmin[b], rel)
            high(b) == Above(v[b], limits.vmax[b], rel)
            over(l, side) == Above(BranchFlowsCpu(v, data[l])[side], limits.amp[l][side], rel)
            n == limits.nLines
<1>1. ASSUME NEW b \in SolverBuses PROVE ~(low(b) /\ high(b))
  <2>1. /\ {limits.vmin[b], limits.vmax[b]} \subseteq Nat \cup {NaN}
        /\ NaN \in {limits.vmin[b], limits.vmax[b]} \/ limits.vmin[b] <= limits.vmax[b]
    BY ResultsAssumption
  <2>2. v[b] \in Nat \cup {NaN} /\ limits.vmin[b] \in Nat \cup {NaN}
        /\ limits.vmax[b] \in Nat \cup {NaN}
    BY <2>1
  <2>3. QED
    BY <2>1, <2>2, LowOrHigh
<1>2. ASSUME NEW w
      PROVE  w \in Scan(v, data, limits, rel, DOMAIN data) <=>
               \/ \E l \in DOMAIN data : \E side \in 1..2 : over(l, side) /\ w = Current(l, side, n)
               \/ \E b \in SolverBuses :
                    (low(b) \/ high(b)) /\ w = Voltage(b, IF low(b) THEN "low" ELSE "high")
  <2>1. \A l, side : over(l, side) = Above(BranchFlowsDevice(v, data[l])[side],
                                           limits.amp[l][side], rel)
    BY FormulasAlike
  <2>. HIDE DEF over
  <2>2. QED
    BY <2>1, ScanMembers
<1>3. ASSUME NEW w
      PROVE  w \in ViolationsOf(v, data, limits, rel) <=>
               \/ \E b \in SolverBuses : low(b) /\ w = Voltage(b, "low")
               \/ \E b \in SolverBuses : high(b) /\ w = Voltage(b, "high")
               \/ \E l \in DOMAIN data : over(l, 1) /\ w = Current(l, 1, n)
               \/ \E l \in DOMAIN data : over(l, 2) /\ w = Current(l, 2, n)
  BY DEF ViolationsOf
<1>. HIDE DEF low, high, over, n
<1>4. ASSUME NEW w
      PROVE  w \in Scan(v, data, limits, rel, DOMAIN data) <=> w \in ViolationsOf(v, data, limits, rel)
  <2>1. (\E l \in DOMAIN data : \E side \in 1..2 : over(l, side) /\ w = Current(l, side, n)) <=>
          \/ \E l \in DOMAIN data : over(l, 1) /\ w = Current(l, 1, n)
          \/ \E l \in DOMAIN data : over(l, 2) /\ w = Current(l, 2, n)
    OBVIOUS
  <2>2. (\E b \in SolverBuses :
           (low(b) \/ high(b)) /\ w = Voltage(b, IF low(b) THEN "low" ELSE "high")) <=>
          \/ \E b \in SolverBuses : low(b) /\ w = Voltage(b, "low")
          \/ \E b \in SolverBuses : high(b) /\ w = Voltage(b, "high")
    BY <1>1
  <2>3. QED
    BY <1>2, <1>3, <2>1, <2>2
<1>5. QED
  BY <1>4

LEMMA NoCurrentOfTripped ==
  ASSUME NEW x \in Records, x.limits # None, NEW t \in x.trips, NEW side
  PROVE  Current(t, side, x.limits.nLines) \notin Kernel(x)
<1>. DEFINE n == x.limits.nLines
            scanned == DOMAIN x.data \ x.trips
<1>1. n \in Nat /\ x.trips \in SUBSET Nat
  BY GridAssumption DEF Records
<1>2. \A l \in scanned : l \in Nat /\ l # t
  <2>1. PICK m \in Nat : DOMAIN x.data = 1..m
    <3>1. CASE x.data = <<>>
      BY <3>1
    <3>2. CASE x.data \in Data
      BY <3>2, DataAreSequences
    <3>3. QED
      BY <3>1, <3>2 DEF Records
  <2>2. QED
    BY <2>1
<1>3. Kernel(x) = Scan(Volts[x.trips], x.data, x.limits, x.rel, scanned)
  BY DEF Kernel
<1>. HIDE DEF scanned
<1>4. \A w \in Kernel(x) : \/ w.type \in {"low", "high"}
                           \/ \E p \in scanned \X (1..2) : w = Current(p[1], p[2], n)
  BY <1>3 DEF Scan, Voltage
<1>5. ASSUME NEW p \in scanned \X (1..2), Current(p[1], p[2], n) = Current(t, side, n)
      PROVE  FALSE
  <2>1. p[1] \in scanned
    OBVIOUS
  <2>2. p[1] \in Nat /\ p[1] # t /\ t \in Nat
    BY <1>1, <1>2, <2>1
  <2>3. QED
    BY <1>1, <1>5, <2>2, CurrentOfBranch
<1>6. Current(t, side, n).type = "current"
  BY DEF Current
<1>7. SUFFICES ASSUME Current(t, side, n) \in Kernel(x) PROVE FALSE
  OBVIOUS
<1>8. PICK p \in scanned \X (1..2) : Current(t, side, n) = Current(p[1], p[2], n)
  BY <1>4, <1>6, <1>7
<1>9. QED
  BY <1>5, <1>8

LEMMA ReportsAlike == IInv => BaseCaseReportsAlike
<1>. SUFFICES ASSUME IInv, Readable, NEW i \in DOMAIN s.driver.viol, NEW x, x = s.driver.viol[i],
                     x # None, Divergence \notin GetViolations[i]
     PROVE  /\ x.trips = {} /\ x.limits = ExtractLimits(grid) /\ x.data = ExtractBranchData(grid)
                 /\ x.rel = s.rel /\ grid.volts = Volts[{}] =>
                   /\ GetViolations[i] = GetViolationsN
                   /\ \A t \in {"low", "high", "current"} :
                        GetViolationCounts[i][t] = Cardinality({w \in GetViolationsN : w.type = t})
            /\ \A t \in x.trips, side \in 1..2 :
                 Current(t, side, x.limits.nLines) \notin GetViolations[i]
  BY DEF BaseCaseReportsAlike
<1>1. s \in Sessions /\ grid \in Grids
  BY DEF IInv, TypeOK
<1>2. /\ x \in Records
      /\ GetViolations[i] = Kernel(x)
      /\ \A t \in {"low", "high", "current"} :
           GetViolationCounts[i][t] = OfType(Kernel(x), t)
  <2>1. x # None => /\ x \in Records
                    /\ Residual[x.trips] > x.tol => GetViolations[i] = {Divergence}
                    /\ ~(Residual[x.trips] > x.tol) => GetViolations[i] = Kernel(x)
    BY <1>1, RowReports
  <2>2. ~(Residual[x.trips] > x.tol)
    BY <2>1
  <2>3. \A t \in {"low", "high", "current"} :
          /\ x = None => GetViolationCounts[i][t] = -1
          /\ x # None /\ Residual[x.trips] > x.tol => GetViolationCounts[i][t] = 0
          /\ x # None /\ ~(Residual[x.trips] > x.tol) =>
               GetViolationCounts[i][t] = OfType(Kernel(x), t)
    BY <1>1, RowReports
  <2>4. QED
    BY <2>1, <2>2, <2>3
<1>3. x.limits # None
  BY DEF IInv, ResultsInv, RecordsFit, Readable
<1>4. \A t \in x.trips, side \in 1..2 :
        Current(t, side, x.limits.nLines) \notin GetViolations[i]
  BY <1>2, <1>3, NoCurrentOfTripped
<1>5. ASSUME x.trips = {}, x.limits = ExtractLimits(grid), x.data = ExtractBranchData(grid),
             x.rel = s.rel, grid.volts = Volts[{}]
      PROVE  Kernel(x) = GetViolationsN
  <2>1. Kernel(x) = Scan(Volts[{}], x.data, x.limits, x.rel, DOMAIN x.data)
    <3>1. DOMAIN x.data \ x.trips = DOMAIN x.data
      BY <1>5
    <3>2. QED
      BY <1>5, <3>1 DEF Kernel
  <2>2. Volts[{}] \in [SolverBuses -> Nat \cup {NaN}] /\ x.limits \in Limits /\ x.rel \in 0..99
    BY <1>2, <1>3, ResultsAssumption DEF Records
  <2>3. Kernel(x) = ViolationsOf(Volts[{}], x.data, x.limits, x.rel)
    BY <2>1, <2>2, SameRule
  <2>4. QED
    BY <1>5, <2>3 DEF GetViolationsN
<1>6. QED
  BY <1>2, <1>4, <1>5 DEF OfType

(* FlowsFitTheRun: only compute_flows() makes the flows the last outcome.   *)
LEMMA FlowsAfter ==
  ASSUME IInv, IInv', ComputeFlows
  PROVE  FlowsOfTheRun' /\ FlowsAlike'
<1>1. /\ Good(s, lapse) /\ Shaped(s) /\ Tables(s)
      /\ FlagsFit(s, lapse) /\ AnswersFit(s, lapse)
  BY InvIsGood DEF Good
<1>2. PICK g \in TripSets :
        flows' = [i \in DOMAIN s.driver.v |->
                   [of |-> s.driver.v[i], data |-> Ready(s).driver.adm,
                    zeroed |-> IF i \in DOMAIN s.trips THEN s.trips[i] ELSE g]]
  BY DEF ComputeFlows
<1>3. s' = Ready(s) /\ s.driver.alive /\ lapse' = lapse
  BY DEF ComputeFlows
<1>4. /\ SameStaged(s', s) /\ s'.trips = s.trips /\ s'.driver.alive = s.driver.alive
      /\ s'.driver.v = s.driver.v /\ s'.driver.adm = s.data
  BY <1>1, <1>3, ReadyFacts
<1>5. s'.data = s.data /\ s'.dirty = s.dirty
  BY <1>4 DEF SameStaged
<1>6. DOMAIN flows' = DOMAIN s.driver.v /\ s.driver.v \in Seq(Answers \cup {None})
      /\ DOMAIN s.driver.v = DOMAIN s.driver.source
  BY <1>1, <1>2 DEF Shaped, Sessions, Drivers
<1>7. ASSUME NEW i \in DOMAIN flows'
      PROVE  /\ flows'[i].of = s.driver.v[i] /\ flows'[i].data = s'.data
             /\ i \in DOMAIN s.trips => flows'[i].zeroed = s.trips[i]
  <2>1. flows'[i] = [of |-> s.driver.v[i], data |-> s'.data,
                     zeroed |-> IF i \in DOMAIN s.trips THEN s.trips[i] ELSE g]
    BY <1>2, <1>3, <1>4, <1>5, <1>6
  <2>2. QED
    BY <2>1
<1>8. ASSUME NEW i \in DOMAIN flows', ~s'.dirty, "flags" \notin lapse', flows'[i].of # None
      PROVE  flows'[i].zeroed = flows'[i].of.trips
  <2>1. s.trips = s.driver.source
    BY <1>1, <1>3, <1>5, <1>8 DEF FlagsFit
  <2>2. s.driver.v[i].trips = s.driver.source[i]
    BY <1>1, <1>3, <1>5, <1>6, <1>7, <1>8 DEF AnswersFit
  <2>3. QED
    BY <1>6, <1>7, <2>1, <2>2
<1>9. FlowsOfTheRun'
  BY <1>7, <1>8 DEF FlowsOfTheRun
<1>10. OrAmps.shape' = <<Len(OrAmps.content'), Len(s'.data)>>
  <2>1. OrAmps' = [shape |-> <<NScenarios', NBranches'>>, content |-> flows']
    BY DEF OrAmps
  <2>2. NScenarios' = Len(s.driver.v) /\ NBranches' = Len(s'.data)
    BY <1>3, <1>4, <1>5 DEF NScenarios, NBranches
  <2>3. Len(flows') = Len(s.driver.v)
    <3>. DEFINE T == {flows'[i] : i \in DOMAIN s.driver.v}
    <3>1. flows' \in [DOMAIN s.driver.v -> T]
      BY <1>2, <1>6
    <3>. HIDE DEF T
    <3>2. QED
      BY <1>6, <3>1, AlongSeq
  <2>4. QED
    BY <2>1, <2>2, <2>3
<1>11. ASSUME NEW v, NEW l \in DOMAIN s'.data
       PROVE  /\ BranchFlowsDevice(v, s'.data[l]) = BranchFlowsCpu(v, s'.data[l])
              /\ BranchFlowsDevice(v, s'.data[l]) = TorchFlows(v, s'.data)[l]
  <2>1. TorchFlows(v, s'.data)[l] = BranchFlowsTorch(v, s'.data[l])
    BY DEF TorchFlows
  <2>2. QED
    BY <2>1, FormulasAlike
<1>12. FlowsAlike'
  BY <1>10, <1>11 DEF FlowsAlike
<1>13. QED
  BY <1>9, <1>12

LEMMA FlowsStep ==
  ASSUME IInv, IInv', FlowsFitTheRun, [Next]_vars
  PROVE  FlowsFitTheRun'
<1>1. DeviceTablesFit'
  BY DEF IInv
<1>2. CASE UNCHANGED vars
  BY <1>2 DEF vars, FlowsFitTheRun, FlowsOfTheRun, DeviceTablesFit, FlowsAlike, OrAmps,
              NScenarios, NBranches
<1>3. CASE Next /\ outcome' = "flows"
  <2>1. ComputeFlows
    BY <1>3, InvIsGood, NextBooks
  <2>2. QED
    BY <1>1, <2>1, FlowsAfter DEF FlowsFitTheRun
<1>4. CASE Next /\ outcome' # "flows"
  BY <1>1, <1>4 DEF FlowsFitTheRun, FlowsOfTheRun, FlowsAlike
<1>5. QED
  BY <1>2, <1>3, <1>4

-----------------------------------------------------------------------------
(* TypeOK: the limits, trips, flags and results in every state have the    *)
(* type of the buffers they stand for, with a row for each of the source.  *)
THEOREM TypeCorrect == Spec => []TypeOK
<1>1. IInv => TypeOK
  BY DEF IInv
<1>2. QED
  BY <1>1, ResultsInvariant, PTL

(* Once a run() of compute() ended, get_disconnected(), the NaN of         *)
(* V_results, NOT_SIMULATED, the counts of -1 and converged() name the     *)
(* same rows, until set_topology() is called or a run() fails.             *)
THEOREM LeftOutCorrect == Spec => []RowsLeftOutAgree
BY LeftOutAgree, ResultsInvariant, PTL

(* A record that get_violations() reads was made in the run() whose        *)
(* voltages V_results holds, with the limits that are set now, whichever   *)
(* setters were called and runs failed in between.                         *)
THEOREM RecordsCorrect == Spec => []RecordsOfTheirVoltages
BY RecordsAlong, ResultsInvariant, PTL

(* The kernel reports for a row that trips nothing what                    *)
(* get_violations_n() reports in numpy for the same grid, and for no row a *)
(* current on a branch that the row trips.                                 *)
THEOREM BaseCaseCorrect == Spec => []BaseCaseReportsAlike
BY ReportsAlike, ResultsInvariant, PTL

(* compute_flows() is of the branch data in use and zero at the trips of   *)
(* each row's own run(), in arrays of the size its handles claim, as NumPy *)
(* and PyTorch compute it.                                                 *)
THEOREM FlowsCorrect == Spec => []FlowsFitTheRun
<1>1. Init => FlowsFitTheRun
  BY InitInv DEF Init, IInv, FlowsFitTheRun, FlowsOfTheRun, FlowsAlike
<1>2. IInv /\ IInv' /\ FlowsFitTheRun /\ [Next]_vars => FlowsFitTheRun'
  BY FlowsStep
<1>3. QED
  BY <1>1, <1>2, ResultsInvariant, PTL DEF Spec
=============================================================================
