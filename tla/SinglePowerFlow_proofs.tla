----------------------- MODULE SinglePowerFlow_proofs -----------------------
(* Proofs about SinglePowerFlow, for any number of buses, autograd contexts *)
(* and solves, any layout of the buses and any iteration budgets.           *)
EXTENDS SinglePowerFlow, FiniteSetTheorems, TLAPS

(***************************************************************************)
(* The layout: the buses of a set, in ascending order, take the positions  *)
(* 1 .. n without gap or repetition.                                       *)
(***************************************************************************)
UpTo(b, S) == {c \in S : c <= b}

LEMMA BusSet ==
  ASSUME NEW S \in SUBSET Bus
  PROVE  IsFiniteSet(S) /\ Cardinality(S) \in Nat
BY BusAssumption, FS_Subset, FS_CardinalityType

LEMMA PositionBounds ==
  ASSUME NEW S \in SUBSET Bus, NEW b \in S
  PROVE  Position(b, S) \in 1 .. Cardinality(S)
<1>1. IsFiniteSet(S) /\ Cardinality(S) \in Nat
  BY BusSet
<1>2. UpTo(b, S) \in SUBSET S /\ b \in UpTo(b, S)
  BY BusAssumption DEF UpTo
<1>3. IsFiniteSet(UpTo(b, S)) /\ Cardinality(UpTo(b, S)) \in Nat
      /\ Cardinality(UpTo(b, S)) <= Cardinality(S)
  BY <1>1, <1>2, FS_Subset, FS_CardinalityType
<1>4. Cardinality(UpTo(b, S)) # 0
  BY <1>2, <1>3, FS_EmptySet
<1>5. QED
  BY <1>1, <1>3, <1>4 DEF Position, UpTo

LEMMA PositionGrows ==
  ASSUME NEW S \in SUBSET Bus, NEW a \in S, NEW b \in S, a < b
  PROVE  Position(a, S) < Position(b, S)
<1>1. \A c \in S : c \in Int
  BY BusAssumption
<1>2. \A c \in S : c <= a => c <= b
  BY <1>1
<1>3. UpTo(a, S) \in SUBSET UpTo(b, S) /\ b \in UpTo(b, S) /\ b \notin UpTo(a, S)
  BY <1>1, <1>2 DEF UpTo
<1>4. UpTo(b, S) \in SUBSET Bus /\ UpTo(a, S) \in SUBSET Bus
  BY DEF UpTo
<1>5. IsFiniteSet(UpTo(b, S)) /\ Cardinality(UpTo(a, S)) \in Nat /\ Cardinality(UpTo(b, S)) \in Nat
  BY <1>4, BusSet
<1>6. Cardinality(UpTo(a, S)) <= Cardinality(UpTo(b, S))
      /\ Cardinality(UpTo(a, S)) # Cardinality(UpTo(b, S))
  BY <1>3, <1>5, FS_Subset
<1>7. QED
  BY <1>5, <1>6 DEF Position, UpTo

LEMMA PositionDiffers ==
  ASSUME NEW S \in SUBSET Bus, NEW a \in S, NEW b \in S, Position(a, S) = Position(b, S)
  PROVE  a = b
<1>1. a \in Int /\ b \in Int /\ Position(a, S) \in Int
  BY BusAssumption, PositionBounds
<1>2. ~(a < b) /\ ~(b < a)
  BY <1>1, PositionGrows
<1>3. QED
  BY <1>1, <1>2

LEMMA PositionOnto ==
  ASSUME NEW S \in SUBSET Bus, NEW i \in 1 .. Cardinality(S)
  PROVE  \E b \in S : Position(b, S) = i
<1>. DEFINE n == Cardinality(S)
            f == [b \in S |-> Position(b, S)]
<1>1. IsFiniteSet(S) /\ n \in Nat
  BY BusSet
<1>2. f \in [S -> 1 .. n]
  BY PositionBounds
<1>3. \A a, b \in S : f[a] = f[b] => a = b
  BY PositionDiffers
<1>4. f \in Injection(S, 1 .. n)
  BY <1>2, <1>3 DEF Injection, IsInjective
<1>5. IsFiniteSet(1 .. n) /\ Cardinality(1 .. n) = n
  BY <1>1, FS_Interval
<1>6. f \in Surjection(S, 1 .. n)
  BY <1>4, <1>5, FS_Injection
<1>7. QED
  BY <1>6 DEF Surjection

(* The columns of the angles are 1 .. |PvPq|, those of the magnitudes come  *)
(* after them, and a bus without the unknown has 0.                         *)
LEMMA ColumnNumbers ==
  ASSUME kind \in [Bus -> {"slack", "pv", "pq"}]
  PROVE  /\ PvPq \in SUBSET Bus /\ Pq \in SUBSET PvPq
         /\ Cardinality(PvPq) \in Nat /\ Cardinality(Pq) \in Nat
         /\ DimJ = Cardinality(PvPq) + Cardinality(Pq)
         /\ \A b \in Bus : /\ b \in PvPq => ThetaCol(b) \in 1 .. Cardinality(PvPq)
                           /\ b \notin PvPq => ThetaCol(b) = 0
                           /\ b \in Pq => VmCol(b) \in Cardinality(PvPq) + 1 .. DimJ
                           /\ b \notin Pq => VmCol(b) = 0
         /\ \A a, b \in PvPq : ThetaCol(a) = ThetaCol(b) => a = b
         /\ \A a, b \in Pq : VmCol(a) = VmCol(b) => a = b
         /\ \A i \in 1 .. Cardinality(PvPq) : \E b \in PvPq : ThetaCol(b) = i
         /\ \A i \in Cardinality(PvPq) + 1 .. DimJ : \E b \in Pq : VmCol(b) = i
<1>. DEFINE n == Cardinality(PvPq)
            m == Cardinality(Pq)
<1>1. PvPq \in SUBSET Bus /\ Pq \in SUBSET Bus /\ Pq \in SUBSET PvPq
  BY DEF PvPq, Pq
<1>2. n \in Nat /\ m \in Nat
  BY <1>1, BusSet
<1>3. DimJ = n + m
  BY DEF DimJ
<1>4. \A b \in PvPq : ThetaCol(b) = Position(b, PvPq) /\ ThetaCol(b) \in 1 .. n
  BY <1>1, PositionBounds DEF ThetaCol
<1>5. \A b \in Pq : VmCol(b) = n + Position(b, Pq) /\ Position(b, Pq) \in 1 .. m
  BY <1>1, PositionBounds DEF VmCol
<1>6. \A b \in Pq : VmCol(b) \in n + 1 .. DimJ
  BY <1>2, <1>3, <1>5
<1>7. \A b \in Bus : /\ b \notin PvPq => ThetaCol(b) = 0
                     /\ b \notin Pq => VmCol(b) = 0
  BY DEF ThetaCol, VmCol
<1>8. \A a, b \in PvPq : ThetaCol(a) = ThetaCol(b) => a = b
  BY <1>1, <1>4, PositionDiffers
<1>9. \A a, b \in Pq : VmCol(a) = VmCol(b) => a = b
  <2>. SUFFICES ASSUME NEW a \in Pq, NEW b \in Pq, VmCol(a) = VmCol(b) PROVE a = b
    OBVIOUS
  <2>1. Position(a, Pq) = Position(b, Pq)
    BY <1>2, <1>5
  <2>2. QED
    BY <1>1, <2>1, PositionDiffers
<1>10. \A i \in 1 .. n : \E b \in PvPq : ThetaCol(b) = i
  BY <1>1, <1>4, PositionOnto
<1>11. \A i \in n + 1 .. DimJ : \E b \in Pq : VmCol(b) = i
  <2>. SUFFICES ASSUME NEW i \in n + 1 .. DimJ PROVE \E b \in Pq : VmCol(b) = i
    OBVIOUS
  <2>1. i - n \in 1 .. m
    BY <1>2, <1>3
  <2>2. PICK b \in Pq : Position(b, Pq) = i - n
    BY <1>1, <2>1, PositionOnto
  <2>3. VmCol(b) = i
    BY <1>2, <1>5, <2>2
  <2>4. QED
    BY <2>3
<1>12. \A b \in Bus : /\ b \in PvPq => ThetaCol(b) \in 1 .. n
                      /\ b \notin PvPq => ThetaCol(b) = 0
                      /\ b \in Pq => VmCol(b) \in n + 1 .. DimJ
                      /\ b \notin Pq => VmCol(b) = 0
  BY <1>4, <1>6, <1>7
<1>13. QED
  BY <1>1, <1>2, <1>3, <1>8, <1>9, <1>10, <1>11, <1>12, Zenon

(* Each entry of x-bar is of one bus and component.                         *)
LEMMA ScatterIsOnto ==
  ASSUME kind \in [Bus -> {"slack", "pv", "pq"}], NEW i \in DOMAIN Scatter
  PROVE  Cardinality(Scatter[i]) = 1
<1>. DEFINE n == Cardinality(PvPq)
            angles == {b \in Bus : ThetaCol(b) = i}
            magnitudes == {b \in Bus : VmCol(b) = i}
<1>1. /\ n \in Nat /\ Cardinality(Pq) \in Nat /\ DimJ = n + Cardinality(Pq)
      /\ PvPq \in SUBSET Bus /\ Pq \in SUBSET Bus
  BY ColumnNumbers
<1>2. i \in 1 .. DimJ /\ Scatter[i] = {<<b, "angle">> : b \in angles}
                                     \cup {<<b, "magnitude">> : b \in magnitudes}
  BY DEF Scatter
<1>. HIDE DEF n
<1>3. CASE i <= n
  <2>1. PICK b \in PvPq : ThetaCol(b) = i
    BY <1>1, <1>2, <1>3, ColumnNumbers DEF n
  <2>2. angles = {b}
    BY <1>1, <1>2, <2>1, ColumnNumbers
  <2>3. ASSUME NEW d \in Bus PROVE VmCol(d) # i
    <3>1. VmCol(d) = 0 \/ VmCol(d) \in n + 1 .. DimJ
      BY ColumnNumbers DEF n
    <3>2. QED
      BY <1>1, <1>2, <1>3, <3>1
  <2>4. magnitudes = {}
    BY <2>3
  <2>. HIDE DEF angles, magnitudes
  <2>5. Scatter[i] = {<<b, "angle">>}
    BY <1>2, <2>2, <2>4
  <2>6. QED
    BY <2>5, FS_Singleton
<1>4. CASE i > n
  <2>1. i \in n + 1 .. DimJ
    BY <1>1, <1>2, <1>4
  <2>2. PICK b \in Pq : VmCol(b) = i
    BY <2>1, ColumnNumbers DEF n
  <2>3. magnitudes = {b}
    BY <1>1, <1>2, <2>2, ColumnNumbers
  <2>4. ASSUME NEW d \in Bus PROVE ThetaCol(d) # i
    <3>1. ThetaCol(d) = 0 \/ ThetaCol(d) \in 1 .. n
      BY ColumnNumbers DEF n
    <3>2. QED
      BY <1>1, <1>2, <1>4, <3>1
  <2>5. angles = {}
    BY <2>4
  <2>. HIDE DEF angles, magnitudes
  <2>6. Scatter[i] = {<<b, "magnitude">>}
    BY <1>2, <2>3, <2>5
  <2>7. QED
    BY <2>6, FS_Singleton
<1>5. QED
  BY <1>1, <1>2, <1>3, <1>4

RowsRead(b) == {Gather[b].p, Gather[b].q} \ {0}

LEMMA RowsReadBy ==
  ASSUME kind \in [Bus -> {"slack", "pv", "pq"}], NEW b \in Bus
  PROVE  RowsRead(b) = {ThetaCol(b), VmCol(b)} \ {0}
BY DEF RowsRead, Gather, PRow, QRow

(* Every entry of lambda is read, each by one bus only, and a bus reads as  *)
(* many as it has unknowns.                                                 *)
LEMMA GatherIsBijective ==
  ASSUME kind \in [Bus -> {"slack", "pv", "pq"}]
  PROVE  /\ UNION {RowsRead(b) : b \in Bus} = DOMAIN Scatter
         /\ \A a, b \in Bus : a # b => RowsRead(a) \cap RowsRead(b) = {}
         /\ \A b \in Bus : Cardinality(RowsRead(b)) =
              (CASE kind[b] = "slack" -> 0 [] kind[b] = "pv" -> 1 [] OTHER -> 2)
<1>. DEFINE n == Cardinality(PvPq)
<1>1. /\ n \in Nat /\ Cardinality(Pq) \in Nat /\ DimJ = n + Cardinality(Pq)
      /\ DimJ \in Nat /\ DOMAIN Scatter = 1 .. DimJ
      /\ PvPq \in SUBSET Bus /\ Pq \in SUBSET PvPq
  BY ColumnNumbers DEF Scatter
<1>2. \A b \in Bus : /\ b \in PvPq => ThetaCol(b) \in 1 .. n
                     /\ b \notin PvPq => ThetaCol(b) = 0
                     /\ b \in Pq => VmCol(b) \in n + 1 .. DimJ
                     /\ b \notin Pq => VmCol(b) = 0
  BY ColumnNumbers
<1>3. /\ \A i \in 1 .. n : \E b \in PvPq : ThetaCol(b) = i
      /\ \A i \in n + 1 .. DimJ : \E b \in Pq : VmCol(b) = i
      /\ \A a, b \in PvPq : ThetaCol(a) = ThetaCol(b) => a = b
      /\ \A a, b \in Pq : VmCol(a) = VmCol(b) => a = b
  BY ColumnNumbers
<1>. HIDE DEF n
<1>4. \A b \in Bus : \A i \in RowsRead(b) :
        /\ i \in 1 .. DimJ
        /\ i <= n => b \in PvPq /\ ThetaCol(b) = i
        /\ i > n => b \in Pq /\ VmCol(b) = i
  <2>. SUFFICES ASSUME NEW b \in Bus, NEW i \in RowsRead(b)
       PROVE  /\ i \in 1 .. DimJ
              /\ i <= n => b \in PvPq /\ ThetaCol(b) = i
              /\ i > n => b \in Pq /\ VmCol(b) = i
    OBVIOUS
  <2>1. i # 0 /\ (i = ThetaCol(b) \/ i = VmCol(b))
    BY RowsReadBy
  <2>2. CASE i = ThetaCol(b)
    <3>1. b \in PvPq /\ i \in 1 .. n
      BY <1>2, <2>1, <2>2
    <3>2. QED
      BY <1>1, <2>2, <3>1
  <2>3. CASE i = VmCol(b)
    <3>1. b \in Pq /\ i \in n + 1 .. DimJ
      BY <1>2, <2>1, <2>3
    <3>2. QED
      BY <1>1, <2>3, <3>1
  <2>4. QED
    BY <2>1, <2>2, <2>3
<1>5. \A i \in 1 .. DimJ : \E b \in Bus : i \in RowsRead(b)
  <2>. SUFFICES ASSUME NEW i \in 1 .. DimJ PROVE \E b \in Bus : i \in RowsRead(b)
    OBVIOUS
  <2>1. CASE i <= n
    <3>1. PICK b \in PvPq : ThetaCol(b) = i
      BY <1>1, <1>3, <2>1
    <3>2. QED
      BY <1>1, <3>1, RowsReadBy
  <2>2. CASE i > n
    <3>1. PICK b \in Pq : VmCol(b) = i
      BY <1>1, <1>3, <2>2
    <3>2. QED
      BY <1>1, <3>1, RowsReadBy
  <2>3. QED
    BY <1>1, <2>1, <2>2
<1>6. UNION {RowsRead(b) : b \in Bus} = 1 .. DimJ
  BY <1>4, <1>5
<1>7. \A a, b \in Bus : a # b => RowsRead(a) \cap RowsRead(b) = {}
  <2>. SUFFICES ASSUME NEW a \in Bus, NEW b \in Bus, NEW i \in RowsRead(a), i \in RowsRead(b)
       PROVE  a = b
    OBVIOUS
  <2>1. CASE i <= n
    BY <1>3, <1>4, <2>1
  <2>2. CASE i > n
    BY <1>3, <1>4, <2>2
  <2>3. QED
    BY <1>1, <1>4, <2>1, <2>2
<1>8. \A b \in Bus : Cardinality(RowsRead(b)) =
        (CASE kind[b] = "slack" -> 0 [] kind[b] = "pv" -> 1 [] OTHER -> 2)
  <2>. SUFFICES ASSUME NEW b \in Bus
       PROVE  Cardinality(RowsRead(b)) =
                (CASE kind[b] = "slack" -> 0 [] kind[b] = "pv" -> 1 [] OTHER -> 2)
    OBVIOUS
  <2>1. CASE kind[b] = "slack"
    <3>1. ThetaCol(b) = 0 /\ VmCol(b) = 0
      <4>1. b \notin PvPq /\ b \notin Pq
        BY <2>1 DEF PvPq, Pq
      <4>2. QED
        BY <1>2, <4>1
    <3>2. RowsRead(b) = {}
      BY <3>1, RowsReadBy
    <3>3. QED
      BY <2>1, <3>2, FS_EmptySet
  <2>2. CASE kind[b] = "pv"
    <3>1. ThetaCol(b) \in 1 .. n /\ VmCol(b) = 0
      <4>1. b \in PvPq /\ b \notin Pq
        BY <2>2 DEF PvPq, Pq
      <4>2. QED
        BY <1>2, <4>1
    <3>2. RowsRead(b) = {ThetaCol(b)}
      BY <1>1, <3>1, RowsReadBy
    <3>3. QED
      BY <2>2, <3>2, FS_Singleton
  <2>3. CASE kind[b] = "pq"
    <3>1. ThetaCol(b) \in 1 .. n /\ VmCol(b) \in n + 1 .. DimJ
      <4>1. b \in PvPq /\ b \in Pq
        BY <2>3 DEF PvPq, Pq
      <4>2. QED
        BY <1>2, <4>1
    <3>2. RowsRead(b) = {ThetaCol(b)} \cup {VmCol(b)} /\ VmCol(b) \notin {ThetaCol(b)}
      BY <1>1, <3>1, RowsReadBy
    <3>3. IsFiniteSet({ThetaCol(b)}) /\ Cardinality({ThetaCol(b)}) = 1
      BY FS_Singleton
    <3>4. Cardinality({ThetaCol(b)} \cup {VmCol(b)}) = Cardinality({ThetaCol(b)}) + 1
      BY <3>2, <3>3, FS_AddElement
    <3>5. QED
      BY <2>3, <3>2, <3>3, <3>4
  <2>4. QED
    BY <2>1, <2>2, <2>3
<1>9. QED
  BY <1>1, <1>6, <1>7, <1>8

(***************************************************************************)
(* One session: what each operation makes of it.                           *)
(***************************************************************************)
(* The part of the invariant that is about a session alone.                *)
Consistent(s) ==
  /\ s.absorbed0 = s.sbus
  /\ s.factored => s.analyzed /\ s.factors = s.jacBase
  /\ s.timings.iters > 0 => /\ s.jacBase.solve = s.timings.solve
                            /\ s.voltBase.solve = s.timings.solve
  /\ s.timings.converged => /\ s.jacBase = [solve |-> s.timings.solve, far |-> 0]
                            /\ s.voltBase.solve = s.timings.solve /\ s.voltBase.far = 0

LEMMA Starts ==
  ASSUME NEW f \in Far, NEW m \in Magnitude, solves \in 0 .. MaxSolves, solves < MaxSolves
  PROVE  /\ solves + 1 \in 0 .. MaxSolves
         /\ Start(f, m) \in Voltage
         /\ Start(f, m).solve = solves + 1 /\ Start(f, m).far = f /\ Start(f, m).mag = m
BY SolvesAssumption DEF Start, Voltage

LEMMA Jacobians ==
  /\ NoJ \in Jacobian
  /\ \A v \in Voltage : At(v) \in Jacobian /\ At(v).solve = v.solve /\ At(v).far = v.far
BY SolvesAssumption, FarAssumption DEF NoJ, Jacobian, At, Voltage, Far

LEMMA FreshSession ==
  ASSUME NEW v \in Voltage, NEW i \in Injections, NEW n \in Budgets
  PROVE  LET s == Fresh(v, i, n) IN
         /\ s \in Session /\ Consistent(s)
         /\ s.volt = v /\ s.voltBase = v /\ s.sbus = i /\ s.ext = Restart(i)
         /\ s.seeds = v.mag /\ s.maxIter = n /\ ~s.torn
<1>1. /\ v.mag \in Magnitude /\ NoJ \in Jacobian
      /\ [of |-> i, moved |-> FALSE] \in [of : Injections, moved : BOOLEAN]
      /\ [solve |-> 0, iters |-> 0, converged |-> FALSE]
           \in [solve : 0 .. MaxSolves, iters : Nat, converged : BOOLEAN]
  BY Jacobians, SolvesAssumption DEF Voltage
<1>2. Fresh(v, i, n) \in Session
  BY <1>1 DEF Fresh, Session, Restart
<1>3. QED
  BY <1>2 DEF Fresh, Consistent

LEMMA PresolvedSession ==
  ASSUME NEW s \in Session, Consistent(s), s.volt.far = 0, s.volt = s.voltBase, ~s.factored
  PROVE  LET t == Presolved(s) IN
         /\ t \in Session /\ Consistent(t)
         /\ t.volt = t.voltBase /\ t.volt = s.volt /\ t.seeds = s.seeds
<1>1. s.volt \in Voltage /\ s.ext \in [of : Injections, moved : BOOLEAN]
  BY DEF Session
<1>2. At(s.volt) \in Jacobian /\ Moved(s.ext) \in [of : Injections, moved : BOOLEAN]
      /\ [solve |-> s.volt.solve, iters |-> 0, converged |-> TRUE]
           \in [solve : 0 .. MaxSolves, iters : Nat, converged : BOOLEAN]
  BY <1>1, Jacobians DEF Moved, Voltage
<1>3. Presolved(s) \in Session
  BY <1>2 DEF Presolved, Session
<1>4. QED
  BY <1>3 DEF Presolved, Session, Consistent, At

LEMMA UploadedSession ==
  ASSUME NEW s \in Session, Consistent(s), NEW v \in Voltage, NEW i \in Injections \cup {None}
  PROVE  LET t == Uploaded(s, v, i) IN
         /\ t \in Session /\ Consistent(t)
         /\ t.volt = v /\ t.ext = Restart(t.sbus) /\ t.seeds = s.seeds /\ t.maxIter = s.maxIter
<1>. DEFINE inj == IF i = None THEN s.sbus ELSE i
            sum == IF i = None THEN s.absorbed0 ELSE i
<1>1. inj \in Injections /\ sum = inj
  BY DEF Session, Consistent
<1>2. Restart(sum) \in [of : Injections, moved : BOOLEAN]
  BY <1>1 DEF Restart
<1>. HIDE DEF inj, sum
<1>3. Uploaded(s, v, i) = [s EXCEPT !.volt = v, !.sbus = inj, !.absorbed0 = sum,
                                    !.ext = Restart(sum), !.torn = FALSE]
  BY DEF Uploaded, inj, sum
<1>4. Uploaded(s, v, i) \in Session
  <2>. DEFINE t == [s EXCEPT !.volt = v, !.sbus = inj]
  <2>1. t \in Session
    BY <1>1 DEF Session
  <2>2. Uploaded(s, v, i) = [t EXCEPT !.absorbed0 = sum, !.ext = Restart(sum), !.torn = FALSE]
    BY <1>3 DEF Session
  <2>. HIDE DEF t
  <2>3. sum \in Injections
    BY <1>1
  <2>4. QED
    BY <1>2, <2>1, <2>2, <2>3 DEF Session
<1>5. QED
  BY <1>1, <1>3, <1>4 DEF Session, Consistent

LEMMA SteppedSession ==
  ASSUME NEW s \in Session, Consistent(s), NEW f \in Far
  PROVE  LET t == Stepped(s, f) IN
         /\ t \in Session /\ Consistent(t)
         /\ t.volt.solve = s.volt.solve /\ t.volt.far = f /\ t.volt.mag = s.volt.mag
         /\ t.jac.solve = s.volt.solve /\ t.jac.far = s.volt.far
         /\ t.voltBase = s.voltBase /\ t.timings = s.timings /\ t.seeds = s.seeds
<1>1. s.volt \in Voltage /\ s.ext \in [of : Injections, moved : BOOLEAN]
  BY DEF Session
<1>2. At(s.volt) \in Jacobian /\ Moved(s.ext) \in [of : Injections, moved : BOOLEAN]
      /\ [s.volt EXCEPT !.far = f] \in Voltage
  BY <1>1, Jacobians DEF Moved, Voltage
<1>3. Stepped(s, f) = [s EXCEPT !.volt = [s.volt EXCEPT !.far = f], !.jac = At(s.volt),
                                !.ext = Moved(s.ext)]
  BY DEF Stepped, Session
<1>4. Stepped(s, f) \in Session
  BY <1>2, <1>3 DEF Session
<1>5. QED
  BY <1>1, <1>3, <1>4, Jacobians DEF Session, Consistent, Voltage

(* resolve() that raises: the loop's own buffers moved, the copies did not. *)
Raised(s) == [s EXCEPT !.jac = At(s.volt), !.torn = TRUE]

LEMMA RaisedSession ==
  ASSUME NEW s \in Session, Consistent(s)
  PROVE  LET t == Raised(s) IN
         /\ t \in Session /\ Consistent(t) /\ t.torn
         /\ t.volt = s.volt /\ t.voltBase = s.voltBase /\ t.timings = s.timings
         /\ t.seeds = s.seeds
<1>1. At(s.volt) \in Jacobian
  BY Jacobians DEF Session
<1>2. Raised(s) \in Session
  BY <1>1 DEF Raised, Session
<1>3. QED
  BY <1>2 DEF Raised, Session, Consistent

LEMMA EnsuredSession ==
  ASSUME NEW s \in Session, Consistent(s)
  PROVE  LET t == EnsuredJT(s) IN
         /\ t \in Session /\ Consistent(t) /\ t.factors = t.jacBase
         /\ t.volt = s.volt /\ t.voltBase = s.voltBase /\ t.torn = s.torn
         /\ t.jac = s.jac /\ t.jacBase = s.jacBase /\ t.timings = s.timings
         /\ t.seeds = s.seeds /\ t.ext = s.ext /\ t.sbus = s.sbus
<1>1. CASE s.factored
  BY <1>1 DEF EnsuredJT, Consistent
<1>2. CASE ~s.factored
  <2>1. EnsuredJT(s) = [s EXCEPT !.analyzed = TRUE, !.factored = TRUE, !.factors = s.jacBase]
    BY <1>2 DEF EnsuredJT
  <2>2. EnsuredJT(s) \in Session
    BY <2>1 DEF Session
  <2>3. QED
    BY <2>1, <2>2 DEF Session, Consistent
<1>3. QED
  BY <1>1, <1>2

(* The analysis or the factorization of ensure_JT raises.                   *)
HalfEnsured(s, a) == [s EXCEPT !.analyzed = @ \/ a, !.factors = NoJ]

LEMMA HalfEnsuredSession ==
  ASSUME NEW s \in Session, Consistent(s), ~s.factored, NEW a \in BOOLEAN
  PROVE  LET t == HalfEnsured(s, a) IN
         /\ t \in Session /\ Consistent(t)
         /\ t.volt = s.volt /\ t.voltBase = s.voltBase /\ t.torn = s.torn
         /\ t.jac = s.jac /\ t.jacBase = s.jacBase /\ t.timings = s.timings
         /\ t.seeds = s.seeds /\ t.ext = s.ext /\ t.sbus = s.sbus
<1>1. NoJ \in Jacobian /\ (s.analyzed \/ a) \in BOOLEAN
  BY Jacobians
<1>2. HalfEnsured(s, a) \in Session
  BY <1>1 DEF HalfEnsured, Session
<1>3. QED
  BY <1>2 DEF HalfEnsured, Session, Consistent

LEMMA SolvedSession ==
  ASSUME NEW s \in Session, Consistent(s),
         call.iters \in Nat, call.converged \in BOOLEAN,
         call.iters > 0 => s.jac.solve = s.volt.solve,
         call.converged => s.jac.far = 0 /\ s.volt.far = 0 /\ call.iters > 0
  PROVE  LET t == Solved(s) IN
         /\ t \in Session /\ Consistent(t)
         /\ t.volt = s.volt /\ t.voltBase = s.volt /\ t.seeds = s.seeds
<1>. DEFINE timings == [solve |-> s.volt.solve, iters |-> call.iters,
                        converged |-> call.converged]
<1>1. s.volt \in Voltage /\ s.jac \in Jacobian
  BY DEF Session
<1>2. timings \in [solve : 0 .. MaxSolves, iters : Nat, converged : BOOLEAN]
  BY <1>1 DEF Voltage
<1>3. timings.solve = s.volt.solve /\ timings.iters = call.iters
      /\ timings.converged = call.converged
  OBVIOUS
<1>. HIDE DEF timings
<1>4. Solved(s) = [s EXCEPT !.voltBase = s.volt, !.jacBase = s.jac, !.factored = FALSE,
                            !.timings = timings]
  BY DEF Solved, timings
<1>5. Solved(s) \in Session
  BY <1>1, <1>2, <1>4 DEF Session
<1>6. call.converged => s.jac = [solve |-> s.volt.solve, far |-> 0]
  BY <1>1 DEF Jacobian
<1>7. QED
  BY <1>3, <1>4, <1>5, <1>6 DEF Session, Consistent

(***************************************************************************)
(* The inductive invariant.                                                *)
(***************************************************************************)
(* Every session there is: consistent, and its voltage the copied one       *)
(* outside the loop unless a resolve() raised.                              *)
Sound(s, running) == Consistent(s) /\ (~running /\ ~s.torn => s.volt = s.voltBase)
SessionsSound == \A o \in Owner : session[o] # None => Sound(session[o], busy = o)

IInv == /\ TypeOK /\ SessionsSound /\ LoopInv /\ LoopStartsFresh
        /\ SetPointsInv /\ AcPfKeepsSetPoints /\ ContextsInv

LEMMA SoundIsBoth == SessionsSound <=> SessionsInv /\ AdjointOfTheSolution
<1>1. ASSUME SessionsSound PROVE SessionsInv
  BY <1>1 DEF SessionsSound, Sound, Consistent, SessionsInv
<1>2. ASSUME SessionsSound PROVE AdjointOfTheSolution
  BY <1>2 DEF SessionsSound, Sound, Consistent, AdjointOfTheSolution
<1>3. ASSUME SessionsInv, AdjointOfTheSolution PROVE SessionsSound
  BY <1>3 DEF SessionsSound, Sound, Consistent, SessionsInv, AdjointOfTheSolution
<1>4. QED
  BY <1>1, <1>2, <1>3

LEMMA Nones ==
  /\ None \notin Injections /\ None \notin Magnitude /\ None \notin Budgets
  /\ None \notin Voltage /\ None \notin Session /\ None \notin Owner
  /\ None \notin [at : Voltage, of : Jacobian]
  /\ Empty # None /\ Empty \notin Voltage
  /\ Facade \in Owner /\ Facade \notin Op /\ Op \in SUBSET Owner
BY NoneAssumption, OwnersAssumption DEF Owner

LEMMA OneReplaced ==
  ASSUME session \in [Owner -> Session \cup {None}], NEW o \in Owner,
         NEW t \in Session \cup {None}, session' = [session EXCEPT ![o] = t]
  PROVE  /\ session' \in [Owner -> Session \cup {None}] /\ session'[o] = t
         /\ \A p \in Owner : p # o => session'[p] = session[p]
OBVIOUS

LEMMA InitInv == Init => IInv
<1>. SUFFICES ASSUME Init PROVE IInv
  OBVIOUS
<1>1. TypeOK
  <2>1. kind \in [Bus -> {"slack", "pv", "pq"}]
    BY LayoutsAssumption DEF Init
  <2>2. call = [what |-> "none", budget |-> 0, iters |-> 0, converged |-> FALSE]
    BY DEF Init, NoCall, CallOf
  <2>3. /\ call \in [what : {"none", "new", "forward", "resolve", "ac_pf"},
                     budget : Nat, iters : Nat, converged : BOOLEAN]
        /\ call.iters <= call.budget
    BY <2>2
  <2>4. /\ session \in [Owner -> Session \cup {None}]
        /\ clone \in [Op -> Voltage \cup {None}]
        /\ gradient \in [Op -> [at : Voltage, of : Jacobian] \cup {None}]
    BY DEF Init
  <2>5. /\ grid \in Injections \cup {None} /\ setPoints \in Magnitude \cup {None}
        /\ busy \in Owner \cup {None} /\ (busy # None => session[busy] # None)
        /\ result \in Voltage \cup {None, Empty}
    BY DEF Init
  <2>6. direct \in BOOLEAN
    BY DEF Init
  <2>7. solves \in 0 .. MaxSolves
    BY SolvesAssumption DEF Init
  <2>8. QED
    BY <2>1, <2>3, <2>4, <2>5, <2>6, <2>7 DEF TypeOK
<1>2. SessionsSound
  BY DEF Init, SessionsSound
<1>3. LoopInv /\ LoopStartsFresh
  BY Nones DEF Init, LoopInv, LoopStartsFresh
<1>4. SetPointsInv /\ AcPfKeepsSetPoints
  BY Nones DEF Init, SetPointsInv, AcPfKeepsSetPoints
<1>5. ContextsInv
  BY DEF Init, ContextsInv
<1>6. QED
  BY <1>1, <1>2, <1>3, <1>4, <1>5 DEF IInv

(* SolveGrid touches no session; a refused resolve() only reads.            *)
LEMMA ReadsPreserveInv ==
  IInv /\ (SolveGrid \/ ResolveRefused \/ UNCHANGED vars) => IInv'
<1>. SUFFICES ASSUME IInv, SolveGrid \/ ResolveRefused \/ UNCHANGED vars PROVE IInv'
  OBVIOUS
<1>1. UNCHANGED <<kind, session, busy, call, result, clone, gradient, direct, solves>>
  BY DEF SolveGrid, ResolveRefused, vars
<1>2. \/ setPoints' = setPoints
      \/ /\ setPoints = None /\ Idle /\ session[Facade] # None
         /\ setPoints' = session[Facade].volt.mag
  BY DEF SolveGrid, ResolveRefused, vars, VmSetPoints, GetV
<1>3. VmSetPoints' = VmSetPoints
  BY <1>1, <1>2, Nones DEF VmSetPoints, GetV
<1>4. grid' \in Injections \cup {None} /\ setPoints' \in Magnitude \cup {None}
  <2>1. grid' \in Injections \cup {None}
    BY DEF IInv, TypeOK, SolveGrid, ResolveRefused, vars
  <2>2. session[Facade] # None => session[Facade].volt.mag \in Magnitude
    BY Nones DEF IInv, TypeOK, Session, Voltage
  <2>3. QED
    BY <1>2, <2>1, <2>2 DEF IInv, TypeOK
<1>5. TypeOK'
  BY <1>1, <1>4 DEF IInv, TypeOK
<1>6. SessionsSound' /\ LoopInv' /\ LoopStartsFresh' /\ AcPfKeepsSetPoints' /\ ContextsInv'
  BY <1>1 DEF IInv, SessionsSound, LoopInv, LoopStartsFresh, AcPfKeepsSetPoints, ContextsInv
<1>7. SetPointsInv'
  BY <1>1, <1>2, <1>3, Nones DEF IInv, SetPointsInv, Idle
<1>8. QED
  BY <1>5, <1>6, <1>7 DEF IInv

(* A constructor leaves its owner one session, solved or in its loop.       *)
LEMMA Constructs ==
  ASSUME TypeOK, Idle, NEW o \in Owner, NEW w \in {"new", "forward"},
         NEW v \in Voltage, NEW i \in Injections, NEW n \in Budgets, NEW p \in BOOLEAN,
         Construct(o, Fresh(v, i, n), p, w)
  PROVE  \E t \in Session :
           /\ session' = [session EXCEPT ![o] = t] /\ solves' = solves + 1
           /\ Consistent(t) /\ t.volt = v /\ t.voltBase = v /\ t.seeds = v.mag
           /\ \/ busy' = None /\ call' = call
              \/ busy' = o /\ call' = CallOf(w, n) /\ t.ext = Restart(t.sbus)
<1>. DEFINE s == Fresh(v, i, n)
<1>1. /\ s \in Session /\ Consistent(s) /\ s.volt = v /\ s.voltBase = v
      /\ s.ext = Restart(s.sbus) /\ s.seeds = v.mag /\ s.maxIter = n /\ ~s.factored
  BY FreshSession DEF Fresh
<1>. HIDE DEF s
<1>2. CASE p
  <2>1. s.volt.far = 0 /\ session' = [session EXCEPT ![o] = Presolved(s)]
        /\ busy' = None /\ call' = call /\ solves' = solves + 1
    BY <1>2 DEF Construct, s, Idle
  <2>2. /\ Presolved(s) \in Session /\ Consistent(Presolved(s))
        /\ Presolved(s).volt = v /\ Presolved(s).voltBase = v /\ Presolved(s).seeds = v.mag
    BY <1>1, <2>1, PresolvedSession
  <2>3. QED
    BY <2>1, <2>2
<1>3. CASE ~p
  <2>1. session' = [session EXCEPT ![o] = s]
        /\ busy' = o /\ call' = CallOf(w, s.maxIter) /\ solves' = solves + 1
    BY <1>3 DEF Construct, s
  <2>2. QED
    BY <1>1, <2>1
<1>4. QED
  BY <1>2, <1>3

LEMMA CallTypes ==
  ASSUME NEW w \in {"new", "forward", "resolve", "ac_pf"}, NEW n \in Nat
  PROVE  /\ CallOf(w, n) \in [what : {"none", "new", "forward", "resolve", "ac_pf"},
                              budget : Nat, iters : Nat, converged : BOOLEAN]
         /\ CallOf(w, n).iters = 0 /\ CallOf(w, n).budget = n /\ ~CallOf(w, n).converged
         /\ CallOf(w, n).what = w
BY DEF CallOf

(* What any call that enters the Newton loop, or returns at once, does to    *)
(* the sessions and the loop, whoever owns the session.                     *)
LEMMA EntersLoop ==
  ASSUME IInv, Idle, NEW o \in Owner, NEW w \in {"new", "forward", "resolve", "ac_pf"},
         NEW n \in Nat, NEW t \in Session, (w = "forward" <=> o # Facade),
         session' = [session EXCEPT ![o] = t], solves' = solves + 1, solves < MaxSolves,
         Consistent(t), t.volt.solve = solves + 1,
         \/ busy' = None /\ call' = call /\ t.volt = t.voltBase
         \/ busy' = o /\ call' = CallOf(w, n) /\ t.ext = Restart(t.sbus)
  PROVE  /\ session' \in [Owner -> Session \cup {None}]
         /\ busy' \in Owner \cup {None} /\ (busy' # None => session'[busy'] # None)
         /\ call' \in [what : {"none", "new", "forward", "resolve", "ac_pf"},
                       budget : Nat, iters : Nat, converged : BOOLEAN]
         /\ call'.iters <= call'.budget /\ solves' \in 0 .. MaxSolves
         /\ SessionsSound' /\ LoopInv' /\ LoopStartsFresh'
<1>1. /\ session' \in [Owner -> Session \cup {None}] /\ session'[o] = t
      /\ \A p \in Owner : p # o => session'[p] = session[p]
  BY OneReplaced DEF IInv, TypeOK
<1>2. busy' \in Owner \cup {None} /\ (busy' # None => session'[busy'] # None)
  BY <1>1, Nones
<1>3. /\ call' \in [what : {"none", "new", "forward", "resolve", "ac_pf"},
                    budget : Nat, iters : Nat, converged : BOOLEAN]
      /\ call'.iters <= call'.budget
  BY CallTypes DEF IInv, TypeOK
<1>4. solves' \in 0 .. MaxSolves
  BY SolvesAssumption DEF IInv, TypeOK
<1>5. SessionsSound'
  <2>. SUFFICES ASSUME NEW p \in Owner, session'[p] # None
       PROVE  Sound(session'[p], busy' = p)
    BY DEF SessionsSound
  <2>1. CASE p = o
    BY <1>1, <2>1, Nones DEF Sound
  <2>2. CASE p # o
    <3>1. session[p] # None /\ busy # p
      BY <1>1, <2>2, Nones DEF Idle
    <3>2. Sound(session[p], FALSE)
      BY <3>1 DEF IInv, SessionsSound, Sound
    <3>3. QED
      BY <1>1, <2>2, <3>2, Nones DEF Sound
  <2>3. QED
    BY <2>1, <2>2
<1>6. LoopInv'
  <2>. SUFFICES ASSUME NEW p \in Owner, busy' = p
       PROVE  /\ session'[p].volt.solve = solves'
              /\ call'.iters > 0 => session'[p].jac.solve = solves'
              /\ call'.converged => /\ session'[p].jac.far = 0 /\ session'[p].volt.far = 0
                                    /\ call'.iters > 0
              /\ call'.what # "none" /\ (call'.what = "forward" <=> p # Facade)
    BY DEF LoopInv
  <2>1. p = o /\ call' = CallOf(w, n)
    BY Nones
  <2>2. QED
    BY <1>1, <2>1, CallTypes
<1>7. LoopStartsFresh'
  <2>. SUFFICES ASSUME NEW p \in Owner, busy' = p
       PROVE  /\ session'[p].ext = Restart(session'[p].sbus)
              /\ session'[p].volt.solve = solves'
    BY DEF LoopStartsFresh, Restart
  <2>1. p = o /\ t.ext = Restart(t.sbus)
    BY Nones
  <2>2. QED
    BY <1>1, <2>1
<1>8. QED
  BY <1>1, <1>2, <1>3, <1>4, <1>5, <1>6, <1>7

(* A new AcPfGPU has no set-points captured, no result and its own seeds.   *)
LEMMA NewFacadePreservesInv ==
  ASSUME IInv, NEW v \in Voltage, v.solve = solves + 1, NEW i \in Injections,
         NEW n \in Budgets, NEW p \in BOOLEAN,
         NewFacade(Fresh(v, i, n), p), grid' \in Injections \cup {None}
  PROVE  IInv'
<1>1. /\ Idle /\ solves < MaxSolves /\ setPoints' = None /\ direct' = FALSE /\ result' = None
      /\ Construct(Facade, Fresh(v, i, n), p, "new")
      /\ kind' = kind /\ clone' = clone /\ gradient' = gradient
  BY DEF NewFacade
<1>2. PICK t \in Session :
           /\ session' = [session EXCEPT ![Facade] = t] /\ solves' = solves + 1
           /\ Consistent(t) /\ t.volt = v /\ t.voltBase = v /\ t.seeds = v.mag
           /\ \/ busy' = None /\ call' = call
              \/ busy' = Facade /\ call' = CallOf("new", n) /\ t.ext = Restart(t.sbus)
  BY <1>1, Constructs, Nones DEF IInv
<1>3. n \in Nat
  BY BudgetsAssumption
<1>4. /\ session' \in [Owner -> Session \cup {None}]
      /\ busy' \in Owner \cup {None} /\ (busy' # None => session'[busy'] # None)
      /\ call' \in [what : {"none", "new", "forward", "resolve", "ac_pf"},
                    budget : Nat, iters : Nat, converged : BOOLEAN]
      /\ call'.iters <= call'.budget /\ solves' \in 0 .. MaxSolves
      /\ SessionsSound' /\ LoopInv' /\ LoopStartsFresh'
  <2>1. \/ busy' = None /\ call' = call /\ t.volt = t.voltBase
        \/ busy' = Facade /\ call' = CallOf("new", n) /\ t.ext = Restart(t.sbus)
    BY <1>2
  <2>2. Consistent(t) /\ t.volt.solve = solves + 1
    BY <1>2
  <2>3. Facade \in Owner /\ "new" \in {"new", "forward", "resolve", "ac_pf"}
        /\ ("new" = "forward" <=> Facade # Facade)
    BY Nones
  <2>4. QED
    BY <1>1, <1>2, <1>3, <2>1, <2>2, <2>3, EntersLoop
<1>5. session'[Facade] = t /\ \A q \in Op : session'[q] = session[q]
  BY <1>2, Nones DEF IInv, TypeOK
<1>6. TypeOK'
  <2>1. direct' \in BOOLEAN
    BY <1>1
  <2>2. /\ setPoints' \in Magnitude \cup {None} /\ result' \in Voltage \cup {None, Empty}
    BY <1>1
  <2>3. /\ kind' \in [Bus -> {"slack", "pv", "pq"}] /\ clone' \in [Op -> Voltage \cup {None}]
        /\ gradient' \in [Op -> [at : Voltage, of : Jacobian] \cup {None}]
    BY <1>1 DEF IInv, TypeOK
  <2>4. QED
    BY <1>4, <2>1, <2>2, <2>3 DEF TypeOK
<1>7. AcPfKeepsSetPoints'
  BY <1>1 DEF AcPfKeepsSetPoints
<1>8. SetPointsInv'
  <2>1. session'[Facade].seeds = session'[Facade].volt.mag
    BY <1>2, <1>5
  <2>2. VmSetPoints' = session'[Facade].volt.mag
    BY <1>1 DEF VmSetPoints, GetV
  <2>3. call'.what = "ac_pf" => busy' # Facade
    BY <1>2, CallTypes, <1>3, Nones
  <2>4. QED
    BY <1>1, <2>1, <2>2, <2>3 DEF SetPointsInv
<1>9. ContextsInv'
  <2>. SUFFICES ASSUME NEW c \in Op
       PROVE  /\ clone'[c] # None => /\ busy' # c /\ session'[c] # None
                                     /\ clone'[c] = session'[c].voltBase
              /\ gradient'[c] # None =>
                   /\ clone'[c] # None /\ gradient'[c].at = clone'[c]
                   /\ session'[c].timings.iters > 0 => gradient'[c].of.solve = clone'[c].solve
    BY DEF ContextsInv
  <2>1. busy' # c
    BY <1>2, Nones
  <2>2. QED
    BY <1>1, <1>5, <2>1 DEF IInv, ContextsInv
<1>10. QED
  BY <1>4, <1>6, <1>7, <1>8, <1>9 DEF IInv

LEMMA ConstructorsPreserveInv ==
  IInv /\ (NewFromArrays \/ NewFromBridge \/ NewFromExtraction) => IInv'
<1>1. ASSUME IInv, NewFromArrays PROVE IInv'
  <2>1. PICK f \in Far, m \in Magnitude, i \in Injections, n \in Budgets, p \in BOOLEAN :
               NewFacade(Fresh(Start(f, m), i, n), p)
    BY <1>1 DEF NewFromArrays
  <2>2. Start(f, m) \in Voltage /\ Start(f, m).solve = solves + 1
    BY <1>1, <2>1, Starts DEF NewFacade, IInv, TypeOK
  <2>3. grid' \in Injections \cup {None}
    BY <1>1 DEF NewFromArrays, IInv, TypeOK
  <2>4. QED
    BY <1>1, <2>1, <2>2, <2>3, NewFacadePreservesInv
<1>2. ASSUME IInv, NewFromBridge PROVE IInv'
  <2>1. PICK f \in Far, m \in Magnitude, n \in Budgets, p \in BOOLEAN :
               NewFacade(Fresh(Start(f, m), grid, n), p)
    <3>1. PICK distributed \in BOOLEAN, m \in Magnitude, n \in Budgets, p \in BOOLEAN :
                 \E f \in IF distributed /\ p THEN {0} ELSE Far :
                   NewFacade(Fresh(Start(f, m), grid, n), p)
      BY <1>2 DEF NewFromBridge
    <3>2. 0 \in Far
      BY FarAssumption DEF Far
    <3>3. QED
      BY <3>1, <3>2
  <2>2. Start(f, m) \in Voltage /\ Start(f, m).solve = solves + 1
    BY <1>2, <2>1, Starts DEF NewFacade, IInv, TypeOK
  <2>3. grid \in Injections /\ grid' \in Injections \cup {None}
    BY <1>2 DEF NewFromBridge, IInv, TypeOK
  <2>4. QED
    BY <1>2, <2>1, <2>2, <2>3, NewFacadePreservesInv
<1>3. ASSUME IInv, NewFromExtraction PROVE IInv'
  <2>1. PICK f \in Far, m \in Magnitude, n \in Budgets, p \in BOOLEAN :
               NewFacade(Fresh(Start(f, m), grid', n), p)
    BY <1>3 DEF NewFromExtraction, ExtractGridArrays
  <2>2. Start(f, m) \in Voltage /\ Start(f, m).solve = solves + 1
    BY <1>3, <2>1, Starts DEF NewFacade, IInv, TypeOK
  <2>3. grid' \in Injections /\ grid' \in Injections \cup {None}
    BY <1>3 DEF NewFromExtraction, EnsureSolved
  <2>4. QED
    BY <1>3, <2>1, <2>2, <2>3, NewFacadePreservesInv
<1>4. QED
  BY <1>1, <1>2, <1>3

(* forward() gives its context a session of its own, and nothing else moves.*)
LEMMA ForwardPreservesInv ==
  ASSUME IInv, NEW c \in Op, NEW v \in Voltage, v.solve = solves + 1, NEW i \in Injections,
         NEW n \in Budgets, Forward(c, Fresh(v, i, n))
  PROVE  IInv'
<1>1. /\ Idle /\ solves < MaxSolves /\ Construct(c, Fresh(v, i, n), FALSE, "forward")
      /\ clone' = [clone EXCEPT ![c] = None] /\ gradient' = [gradient EXCEPT ![c] = None]
      /\ UNCHANGED <<kind, grid, setPoints, result, direct>>
  BY DEF Forward
<1>2. c \in Owner /\ c # Facade /\ n \in Nat
  BY Nones, BudgetsAssumption
<1>3. PICK t \in Session :
           /\ session' = [session EXCEPT ![c] = t] /\ solves' = solves + 1
           /\ Consistent(t) /\ t.volt = v /\ t.voltBase = v /\ t.seeds = v.mag
           /\ \/ busy' = None /\ call' = call
              \/ busy' = c /\ call' = CallOf("forward", n) /\ t.ext = Restart(t.sbus)
  BY <1>1, <1>2, Constructs DEF IInv
<1>4. /\ session' \in [Owner -> Session \cup {None}]
      /\ busy' \in Owner \cup {None} /\ (busy' # None => session'[busy'] # None)
      /\ call' \in [what : {"none", "new", "forward", "resolve", "ac_pf"},
                    budget : Nat, iters : Nat, converged : BOOLEAN]
      /\ call'.iters <= call'.budget /\ solves' \in 0 .. MaxSolves
      /\ SessionsSound' /\ LoopInv' /\ LoopStartsFresh'
  <2>1. \/ busy' = None /\ call' = call /\ t.volt = t.voltBase
        \/ busy' = c /\ call' = CallOf("forward", n) /\ t.ext = Restart(t.sbus)
    BY <1>3
  <2>2. Consistent(t) /\ t.volt.solve = solves + 1
    BY <1>3
  <2>3. QED
    BY <1>1, <1>2, <1>3, <2>1, <2>2, EntersLoop
<1>5. /\ session'[Facade] = session[Facade]
      /\ \A q \in Op : q # c => session'[q] = session[q]
  BY <1>2, <1>3, Nones DEF IInv, TypeOK
<1>6. busy' # Facade /\ busy = None /\ \A q \in Op : q # c => busy' # q
  BY <1>1, <1>2, <1>3, Nones DEF Idle
<1>7. TypeOK'
  <2>1. /\ clone' \in [Op -> Voltage \cup {None}]
        /\ gradient' \in [Op -> [at : Voltage, of : Jacobian] \cup {None}]
    BY <1>1 DEF IInv, TypeOK
  <2>2. QED
    BY <1>1, <1>4, <2>1 DEF IInv, TypeOK
<1>8. AcPfKeepsSetPoints'
  BY <1>1, <1>5 DEF IInv, AcPfKeepsSetPoints
<1>9. SetPointsInv'
  <2>1. VmSetPoints' = VmSetPoints
    BY <1>1, <1>5 DEF VmSetPoints, GetV
  <2>2. QED
    BY <1>1, <1>5, <1>6, <2>1 DEF IInv, SetPointsInv
<1>10. ContextsInv'
  <2>. SUFFICES ASSUME NEW q \in Op
       PROVE  /\ clone'[q] # None => /\ busy' # q /\ session'[q] # None
                                     /\ clone'[q] = session'[q].voltBase
              /\ gradient'[q] # None =>
                   /\ clone'[q] # None /\ gradient'[q].at = clone'[q]
                   /\ session'[q].timings.iters > 0 => gradient'[q].of.solve = clone'[q].solve
    BY DEF ContextsInv
  <2>1. CASE q = c
    <3>1. clone'[q] = None /\ gradient'[q] = None
      BY <1>1, <2>1 DEF IInv, TypeOK
    <3>2. QED
      BY <3>1
  <2>2. CASE q # c
    <3>1. clone'[q] = clone[q] /\ gradient'[q] = gradient[q] /\ session'[q] = session[q]
          /\ busy' # q
      BY <1>1, <1>5, <1>6, <2>2 DEF IInv, TypeOK
    <3>2. QED
      BY <3>1 DEF IInv, ContextsInv
  <2>3. QED
    BY <2>1, <2>2
<1>11. QED
  BY <1>4, <1>7, <1>8, <1>9, <1>10 DEF IInv

LEMMA ForwardsPreserveInv ==
  IInv /\ (ForwardBare \/ ForwardOfGrid) => IInv'
<1>. SUFFICES ASSUME IInv, ForwardBare \/ ForwardOfGrid PROVE IInv'
  OBVIOUS
<1>1. PICK c \in Op, f \in Far, m \in Magnitude, i \in Injections, n \in Budgets :
             Forward(c, Fresh(Start(f, m), i, n))
  BY DEF ForwardBare, ForwardOfGrid
<1>2. Start(f, m) \in Voltage /\ Start(f, m).solve = solves + 1
  BY <1>1, Starts DEF Forward, IInv, TypeOK
<1>3. QED
  BY <1>1, <1>2, ForwardPreservesInv

(* The three ways to resolve() the facade's session.  Whatever the start,    *)
(* the set-points end up read, unless the caller went around the facade.    *)
LEMMA ResolvingPreservesInv ==
  ASSUME IInv, NEW f \in Far, NEW m \in Magnitude, NEW i \in Injections \cup {None},
         NEW n \in Budgets \cup {None}, NEW w \in {"resolve", "ac_pf"},
         Resolving(Start(f, m), i, n, w),
         \/ setPoints' = VmSetPoints /\ direct' = direct
         \/ setPoints' = setPoints /\ direct' = (direct \/ setPoints = None),
         w = "ac_pf" => setPoints' = m,
         result' = result \/ result' = None
  PROVE  IInv'
<1>. DEFINE s == session[Facade]
            v == Start(f, m)
            t == Uploaded(s, v, i)
<1>1. /\ Idle /\ s # None /\ solves < MaxSolves /\ solves' = solves + 1
      /\ session' = [session EXCEPT ![Facade] = t]
      /\ busy' = Facade /\ call' = CallOf(w, BudgetOf(s, n))
      /\ UNCHANGED <<kind, grid, clone, gradient>>
  BY Nones DEF Resolving, IInv, TypeOK
<1>2. s \in Session /\ Consistent(s)
  BY <1>1, Nones DEF IInv, TypeOK, SessionsSound, Sound
<1>3. v \in Voltage /\ v.solve = solves + 1 /\ v.mag = m
  BY <1>1, Starts DEF IInv, TypeOK
<1>. HIDE DEF v
<1>4. /\ t \in Session /\ Consistent(t) /\ t.volt = v /\ t.ext = Restart(t.sbus)
      /\ t.seeds = s.seeds
  BY <1>2, <1>3, UploadedSession
<1>5. BudgetOf(s, n) \in Nat
  BY <1>2, BudgetsAssumption, Nones DEF BudgetOf, Session
<1>. HIDE DEF t
<1>6. /\ session' \in [Owner -> Session \cup {None}]
      /\ busy' \in Owner \cup {None} /\ (busy' # None => session'[busy'] # None)
      /\ call' \in [what : {"none", "new", "forward", "resolve", "ac_pf"},
                    budget : Nat, iters : Nat, converged : BOOLEAN]
      /\ call'.iters <= call'.budget /\ solves' \in 0 .. MaxSolves
      /\ SessionsSound' /\ LoopInv' /\ LoopStartsFresh'
  <2>1. w \in {"new", "forward", "resolve", "ac_pf"} /\ (w = "forward" <=> Facade # Facade)
    OBVIOUS
  <2>2. Consistent(t) /\ t.volt.solve = solves + 1
    BY <1>3, <1>4
  <2>. HIDE DEF s
  <2>3. QED
    BY <1>1, <1>4, <1>5, <2>1, <2>2, EntersLoop, Nones
<1>7. session'[Facade] = t /\ \A q \in Op : session'[q] = session[q]
  BY <1>1, Nones DEF IInv, TypeOK
<1>8. /\ setPoints \in Magnitude \cup {None} /\ VmSetPoints \in Magnitude
      /\ direct \in BOOLEAN /\ (~direct => s.seeds = VmSetPoints)
  <2>1. s.volt.mag \in Magnitude
    BY <1>2 DEF Session, Voltage
  <2>2. setPoints \in Magnitude \cup {None} /\ direct \in BOOLEAN
    BY DEF IInv, TypeOK
  <2>3. ~direct => s.seeds = VmSetPoints
    BY <1>1 DEF IInv, SetPointsInv
  <2>. HIDE DEF s
  <2>4. VmSetPoints \in Magnitude
    BY <2>1, <2>2 DEF VmSetPoints, GetV, s
  <2>5. QED
    BY <2>2, <2>3, <2>4
<1>9. direct' \in BOOLEAN /\ (~direct' => ~direct /\ setPoints' = VmSetPoints)
  <2>1. CASE setPoints' = VmSetPoints /\ direct' = direct
    BY <1>8, <2>1
  <2>2. CASE setPoints' = setPoints /\ direct' = (direct \/ setPoints = None)
    <3>1. CASE direct \/ setPoints = None
      BY <2>2, <3>1
    <3>2. CASE ~direct /\ setPoints # None
      <4>1. direct' = FALSE
        BY <2>2, <3>2
      <4>2. VmSetPoints = setPoints
        BY <3>2 DEF VmSetPoints
      <4>3. QED
        BY <2>2, <3>2, <4>1, <4>2
    <3>3. QED
      BY <1>8, <3>1, <3>2
  <2>3. QED
    BY <2>1, <2>2
<1>10. TypeOK'
  <2>1. setPoints' \in Magnitude \cup {None} /\ result' \in Voltage \cup {None, Empty}
    BY <1>8 DEF IInv, TypeOK
  <2>2. QED
    BY <1>1, <1>6, <1>9, <2>1 DEF IInv, TypeOK
<1>11. AcPfKeepsSetPoints'
  <2>. SUFFICES ASSUME result' \notin {None, Empty}
       PROVE  result'.far = 0 /\ (direct' \/ result'.mag = session'[Facade].seeds)
    BY DEF AcPfKeepsSetPoints
  <2>1. result' = result
    OBVIOUS
  <2>2. result.far = 0 /\ (direct \/ result.mag = s.seeds)
    BY <2>1 DEF IInv, AcPfKeepsSetPoints
  <2>3. direct => direct'
    OBVIOUS
  <2>4. QED
    BY <1>4, <1>7, <2>1, <2>2, <2>3
<1>12. SetPointsInv'
  <2>1. ~direct' => session'[Facade].seeds = VmSetPoints'
    <3>1. SUFFICES ASSUME ~direct' PROVE s.seeds = VmSetPoints'
      BY <1>4, <1>7
    <3>2. ~direct /\ setPoints' = VmSetPoints
      BY <1>9, <3>1
    <3>3. setPoints' # None
      BY <1>8, <3>2, Nones
    <3>4. VmSetPoints' = setPoints'
      BY <3>3 DEF VmSetPoints
    <3>5. QED
      BY <1>8, <3>2, <3>4
  <2>2. call'.what = "ac_pf" => setPoints' = session'[Facade].volt.mag
    BY <1>1, <1>3, <1>4, <1>5, <1>7, CallTypes
  <2>3. call'.what # "new"
    BY <1>1, <1>5, CallTypes
  <2>4. session'[Facade] # None
    BY <1>4, <1>7, Nones
  <2>5. QED
    BY <2>1, <2>2, <2>3, <2>4 DEF SetPointsInv
<1>13. ContextsInv'
  BY <1>1, <1>7, Nones DEF IInv, ContextsInv
<1>14. QED
  BY <1>6, <1>10, <1>11, <1>12, <1>13 DEF IInv

LEMMA ResolvesPreserveInv ==
  IInv /\ (Resolve \/ AcPf \/ SessionResolve) => IInv'
<1>1. ASSUME IInv, Resolve PROVE IInv'
  <2>1. PICK f \in Far, m \in Magnitude, i \in Injections \cup {None}, n \in Budgets \cup {None} :
               Resolving(Start(f, m), i, n, "resolve")
    BY <1>1 DEF Resolve
  <2>2. setPoints' = VmSetPoints /\ direct' = direct /\ result' = result
    BY <1>1 DEF Resolve
  <2>3. QED
    BY <1>1, <2>1, <2>2, ResolvingPreservesInv
<1>2. ASSUME IInv, AcPf PROVE IInv'
  <2>1. PICK f \in Far, n \in Budgets : Resolving(Start(f, VmSetPoints), None, n, "ac_pf")
    BY <1>2 DEF AcPf
  <2>2. setPoints' = VmSetPoints /\ direct' = direct /\ result' = None
    BY <1>2 DEF AcPf
  <2>3. VmSetPoints \in Magnitude
    <3>1. session[Facade] \in Session
      BY <1>2, <2>1, Nones DEF Resolving, IInv, TypeOK
    <3>2. session[Facade].volt.mag \in Magnitude
      BY <3>1 DEF Session, Voltage
    <3>3. QED
      BY <1>2, <3>2 DEF VmSetPoints, GetV, IInv, TypeOK
  <2>4. QED
    BY <1>2, <2>1, <2>2, <2>3, ResolvingPreservesInv
<1>3. ASSUME IInv, SessionResolve PROVE IInv'
  <2>1. PICK f \in Far, m \in Magnitude, i \in Injections \cup {None} :
               Resolving(Start(f, m), i, None, "resolve")
    BY <1>3 DEF SessionResolve
  <2>2. /\ setPoints' = setPoints /\ direct' = (direct \/ setPoints = None)
        /\ result' = result
    BY <1>3 DEF SessionResolve
  <2>3. QED
    BY <1>3, <2>1, <2>2, ResolvingPreservesInv
<1>4. QED
  BY <1>1, <1>2, <1>3

(* The session a loop runs on, and who runs it.                             *)
LEMMA LoopFacts ==
  ASSUME IInv, NEW o \in Owner, busy = o
  PROVE  /\ session[o] \in Session /\ Consistent(session[o]) /\ busy # None
         /\ session[o].volt.solve = solves
         /\ call.iters > 0 => session[o].jac.solve = solves
         /\ call.converged => /\ session[o].jac.far = 0 /\ session[o].volt.far = 0
                              /\ call.iters > 0
         /\ call.iters \in Nat /\ call.budget \in Nat /\ call.converged \in BOOLEAN
         /\ call.what \in {"new", "forward", "resolve", "ac_pf"}
         /\ (call.what = "forward" <=> o # Facade)
<1>1. session[o] # None /\ busy # None
  BY Nones DEF IInv, TypeOK
<1>2. session[o] \in Session
  BY <1>1 DEF IInv, TypeOK
<1>3. Consistent(session[o])
  BY <1>1 DEF IInv, SessionsSound, Sound
<1>4. /\ session[o].volt.solve = solves
      /\ call.iters > 0 => session[o].jac.solve = solves
      /\ call.converged => /\ session[o].jac.far = 0 /\ session[o].volt.far = 0
                           /\ call.iters > 0
      /\ call.what # "none" /\ (call.what = "forward" <=> o # Facade)
  BY DEF IInv, LoopInv
<1>5. /\ call.what \in {"none", "new", "forward", "resolve", "ac_pf"}
      /\ call.iters \in Nat /\ call.budget \in Nat
  BY DEF IInv, TypeOK
<1>6. call.converged \in BOOLEAN
  BY DEF IInv, TypeOK
<1>7. QED
  BY <1>1, <1>2, <1>3, <1>4, <1>5, <1>6

LEMMA CountedCall ==
  ASSUME NEW c \in [what : {"none", "new", "forward", "resolve", "ac_pf"},
                    budget : Nat, iters : Nat, converged : BOOLEAN],
         NEW b \in BOOLEAN
  PROVE  /\ Counted(c, b) \in [what : {"none", "new", "forward", "resolve", "ac_pf"},
                               budget : Nat, iters : Nat, converged : BOOLEAN]
         /\ Counted(c, b).iters = c.iters + 1 /\ Counted(c, b).budget = c.budget
         /\ Counted(c, b).what = c.what /\ (Counted(c, b).converged <=> b)
<1>1. Counted(c, b) = [c EXCEPT !.iters = c.iters + 1, !.converged = b]
  BY DEF Counted
<1>2. c.iters + 1 \in Nat
  OBVIOUS
<1>3. Counted(c, b) \in [what : {"none", "new", "forward", "resolve", "ac_pf"},
                        budget : Nat, iters : Nat, converged : BOOLEAN]
  BY <1>1, <1>2
<1>4. /\ Counted(c, b).iters = c.iters + 1 /\ Counted(c, b).budget = c.budget
      /\ Counted(c, b).what = c.what
  BY <1>1, <1>2
<1>5. Counted(c, b).converged = b
  BY <1>1
<1>6. QED
  BY <1>3, <1>4, <1>5

(* A Newton step: the Jacobian is that of the voltage the step found, which  *)
(* is the solution when its mismatch was below tol.                         *)
LEMMA NrStepPreservesInv ==
  ASSUME IInv, NEW o \in Owner, NrStep(o)
  PROVE  IInv'
<1>. DEFINE s == session[o]
<1>1. /\ busy = o /\ ~call.converged /\ call.iters < call.budget
      /\ UNCHANGED <<kind, grid, setPoints, busy, result, clone, gradient, direct, solves>>
  BY DEF NrStep, MayStep
<1>2. PICK f \in Far :
           /\ s.volt.far = 0 => f = 0
           /\ session' = [session EXCEPT ![o] = Stepped(s, f)]
           /\ call' = Counted(call, s.volt.far = 0)
  <2>1. PICK f \in IF s.volt.far = 0 THEN {0} ELSE Far :
              /\ session' = [session EXCEPT ![o] = Stepped(s, f)]
              /\ call' = Counted(call, MismatchBelowTol(s.volt, [s.volt EXCEPT !.far = f]))
    BY DEF NrStep
  <2>2. f \in Far /\ (s.volt.far = 0 => f = 0)
    BY <2>1, FarAssumption DEF Far
  <2>3. QED
    BY <2>1, <2>2 DEF MismatchBelowTol
<1>. DEFINE t == Stepped(s, f)
<1>3. /\ s \in Session /\ Consistent(s) /\ s.volt.solve = solves /\ busy # None
      /\ call.iters \in Nat /\ call.budget \in Nat
      /\ call.what \in {"new", "forward", "resolve", "ac_pf"}
      /\ (call.what = "forward" <=> o # Facade)
  BY <1>1, LoopFacts
<1>4. /\ t \in Session /\ Consistent(t)
      /\ t.volt.solve = s.volt.solve /\ t.volt.far = f /\ t.volt.mag = s.volt.mag
      /\ t.jac.solve = s.volt.solve /\ t.jac.far = s.volt.far
      /\ t.voltBase = s.voltBase /\ t.timings = s.timings /\ t.seeds = s.seeds
  BY <1>3, SteppedSession
<1>. HIDE DEF t
<1>5. /\ session' \in [Owner -> Session \cup {None}] /\ session'[o] = t
      /\ \A p \in Owner : p # o => session'[p] = session[p]
  BY <1>2, <1>4, OneReplaced DEF IInv, TypeOK, t
<1>6. /\ call' \in [what : {"none", "new", "forward", "resolve", "ac_pf"},
                    budget : Nat, iters : Nat, converged : BOOLEAN]
      /\ call'.iters = call.iters + 1 /\ call'.budget = call.budget
      /\ call'.what = call.what
      /\ call'.converged <=> s.volt.far = 0
  <2>1. call \in [what : {"none", "new", "forward", "resolve", "ac_pf"},
                  budget : Nat, iters : Nat, converged : BOOLEAN]
    BY DEF IInv, TypeOK
  <2>2. CASE s.volt.far = 0
    <3>1. call' = Counted(call, TRUE)
      BY <1>2, <2>2, Zenon
    <3>2. QED
      BY <2>1, <2>2, <3>1, CountedCall
  <2>3. CASE s.volt.far # 0
    <3>1. call' = Counted(call, FALSE)
      BY <1>2, <2>3, Zenon
    <3>2. QED
      BY <2>1, <2>3, <3>1, CountedCall
  <2>4. QED
    BY <2>2, <2>3
<1>7. TypeOK'
  <2>1. call'.iters <= call'.budget
    BY <1>1, <1>3, <1>6
  <2>2. busy' # None => session'[busy'] # None
    BY <1>1, <1>4, <1>5, Nones
  <2>3. QED
    BY <1>1, <1>5, <1>6, <2>1, <2>2 DEF IInv, TypeOK
<1>8. SessionsSound'
  <2>. SUFFICES ASSUME NEW p \in Owner, session'[p] # None
       PROVE  Sound(session'[p], busy' = p)
    BY DEF SessionsSound
  <2>1. CASE p = o
    BY <1>1, <1>4, <1>5, <2>1 DEF Sound
  <2>2. CASE p # o
    BY <1>1, <1>5, <2>2 DEF IInv, SessionsSound, Sound
  <2>3. QED
    BY <2>1, <2>2
<1>9. LoopInv'
  <2>. SUFFICES ASSUME NEW p \in Owner, busy' = p
       PROVE  /\ session'[p].volt.solve = solves'
              /\ call'.iters > 0 => session'[p].jac.solve = solves'
              /\ call'.converged => /\ session'[p].jac.far = 0 /\ session'[p].volt.far = 0
                                    /\ call'.iters > 0
              /\ call'.what # "none" /\ (call'.what = "forward" <=> p # Facade)
    BY DEF LoopInv
  <2>1. p = o
    BY <1>1
  <2>2. QED
    BY <1>1, <1>2, <1>3, <1>4, <1>5, <1>6, <2>1
<1>10. LoopStartsFresh'
  BY <1>3, <1>6 DEF LoopStartsFresh
<1>11. session[Facade] # None => session'[Facade] # None
       /\ session'[Facade].seeds = session[Facade].seeds
       /\ session'[Facade].volt.mag = session[Facade].volt.mag
  BY <1>4, <1>5, Nones
<1>12. session'[Facade] # None => session[Facade] # None
  BY <1>1, <1>3, <1>5, Nones
<1>13. SetPointsInv'
  <2>1. session[Facade] # None => VmSetPoints' = VmSetPoints
    BY <1>1, <1>11 DEF VmSetPoints, GetV
  <2>2. busy = Facade => session[Facade] # None
    BY <1>1, <1>3, Nones
  <2>3. QED
    BY <1>1, <1>6, <1>11, <1>12, <2>1, <2>2 DEF IInv, SetPointsInv
<1>14. AcPfKeepsSetPoints'
  BY <1>1, <1>11 DEF IInv, AcPfKeepsSetPoints, SetPointsInv
<1>15. ContextsInv'
  <2>. SUFFICES ASSUME NEW c \in Op
       PROVE  /\ clone'[c] # None => /\ busy' # c /\ session'[c] # None
                                     /\ clone'[c] = session'[c].voltBase
              /\ gradient'[c] # None =>
                   /\ clone'[c] # None /\ gradient'[c].at = clone'[c]
                   /\ session'[c].timings.iters > 0 => gradient'[c].of.solve = clone'[c].solve
    BY DEF ContextsInv
  <2>1. clone[c] # None => c # o
    BY <1>1 DEF IInv, ContextsInv
  <2>2. gradient[c] # None => clone[c] # None
    BY DEF IInv, ContextsInv
  <2>3. c # o => session'[c] = session[c]
    BY <1>5, Nones
  <2>4. QED
    BY <1>1, <2>1, <2>2, <2>3 DEF IInv, ContextsInv
<1>16. QED
  BY <1>7, <1>8, <1>9, <1>10, <1>13, <1>14, <1>15 DEF IInv

(* The loop raises: a session under construction is gone, and with it        *)
(* nothing anybody has; one that resolves keeps its copies.                 *)
LEMMA NrRaisesPreservesInv ==
  ASSUME IInv, NEW o \in Owner, NrRaises(o)
  PROVE  IInv'
<1>. DEFINE s == session[o]
            t == IF call.what \in {"new", "forward"} THEN None ELSE Raised(s)
<1>1. /\ busy = o /\ busy' = None /\ call' = NoCall
      /\ session' = [session EXCEPT ![o] = t]
      /\ UNCHANGED <<kind, grid, setPoints, result, clone, gradient, direct, solves>>
  BY DEF NrRaises, Raised
<1>2. /\ s \in Session /\ Consistent(s)
      /\ call.what \in {"new", "forward", "resolve", "ac_pf"}
      /\ (call.what = "forward" <=> o # Facade)
  BY <1>1, LoopFacts
<1>3. /\ Raised(s) \in Session /\ Consistent(Raised(s)) /\ Raised(s).torn
      /\ Raised(s).volt = s.volt /\ Raised(s).seeds = s.seeds
  BY <1>2, RaisedSession
<1>4. t \in Session \cup {None}
      /\ (t # None => Consistent(t) /\ t.torn /\ t.volt = s.volt /\ t.seeds = s.seeds)
      /\ (t = None <=> call.what \in {"new", "forward"})
  BY <1>3, Nones
<1>. HIDE DEF t
<1>5. /\ session' \in [Owner -> Session \cup {None}] /\ session'[o] = t
      /\ \A p \in Owner : p # o => session'[p] = session[p]
  BY <1>1, <1>4, OneReplaced DEF IInv, TypeOK
<1>6. TypeOK'
  <2>1. call' = [what |-> "none", budget |-> 0, iters |-> 0, converged |-> FALSE]
    BY <1>1 DEF NoCall, CallOf
  <2>2. call' \in [what : {"none", "new", "forward", "resolve", "ac_pf"},
                   budget : Nat, iters : Nat, converged : BOOLEAN]
        /\ call'.iters <= call'.budget
    BY <2>1
  <2>3. QED
    BY <1>1, <1>5, <2>2 DEF IInv, TypeOK
<1>7. SessionsSound'
  <2>. SUFFICES ASSUME NEW p \in Owner, session'[p] # None
       PROVE  Sound(session'[p], busy' = p)
    BY DEF SessionsSound
  <2>1. CASE p = o
    BY <1>4, <1>5, <2>1 DEF Sound
  <2>2. CASE p # o
    BY <1>1, <1>5, <2>2 DEF IInv, SessionsSound, Sound
  <2>3. QED
    BY <2>1, <2>2
<1>8. LoopInv' /\ LoopStartsFresh'
  BY <1>1, Nones DEF LoopInv, LoopStartsFresh
<1>9. session'[Facade] # None => /\ session[Facade] # None
                                 /\ session'[Facade].seeds = session[Facade].seeds
                                 /\ session'[Facade].volt.mag = session[Facade].volt.mag
  <2>1. CASE o = Facade
    BY <1>2, <1>4, <1>5, <2>1, Nones
  <2>2. CASE o # Facade
    BY <1>5, <2>2, Nones
  <2>3. QED
    BY <2>1, <2>2
<1>10. result' \notin {None, Empty} => session'[Facade] # None
  <2>1. CASE o = Facade /\ call.what = "new"
    BY <1>1, <2>1 DEF IInv, SetPointsInv
  <2>2. CASE o = Facade /\ call.what # "new"
    BY <1>2, <1>4, <1>5, <2>2
  <2>3. CASE o # Facade
    BY <1>1, <1>5, <2>3, Nones DEF IInv, SetPointsInv
  <2>4. QED
    BY <2>1, <2>2, <2>3
<1>11. SetPointsInv'
  <2>1. session'[Facade] # None => VmSetPoints' = VmSetPoints
    BY <1>1, <1>9 DEF VmSetPoints, GetV
  <2>2. QED
    BY <1>1, <1>9, <1>10, <2>1, Nones DEF IInv, SetPointsInv
<1>12. AcPfKeepsSetPoints'
  BY <1>1, <1>9, <1>10 DEF IInv, AcPfKeepsSetPoints
<1>13. ContextsInv'
  <2>. SUFFICES ASSUME NEW c \in Op
       PROVE  /\ clone'[c] # None => /\ busy' # c /\ session'[c] # None
                                     /\ clone'[c] = session'[c].voltBase
              /\ gradient'[c] # None =>
                   /\ clone'[c] # None /\ gradient'[c].at = clone'[c]
                   /\ session'[c].timings.iters > 0 => gradient'[c].of.solve = clone'[c].solve
    BY DEF ContextsInv
  <2>1. clone[c] # None => c # o
    BY <1>1 DEF IInv, ContextsInv
  <2>2. gradient[c] # None => clone[c] # None
    BY DEF IInv, ContextsInv
  <2>3. c # o => session'[c] = session[c]
    BY <1>5, Nones
  <2>4. QED
    BY <1>1, <2>1, <2>2, <2>3, Nones DEF IInv, ContextsInv
<1>14. QED
  BY <1>6, <1>7, <1>8, <1>11, <1>12, <1>13 DEF IInv

(* The loop is over.  ac_pf returns a solution on the set-points or nothing; *)
(* forward clones the voltage that was just copied.                         *)
LEMMA NrEndsPreservesInv ==
  ASSUME IInv, NEW o \in Owner, NrEnds(o)
  PROVE  IInv'
<1>. DEFINE s == session[o]
            t == Solved(s)
<1>1. /\ busy = o /\ busy' = None /\ call' = NoCall
      /\ session' = [session EXCEPT ![o] = t]
      /\ result' = IF call.what # "ac_pf" THEN result
                   ELSE IF call.converged THEN s.volt ELSE Empty
      /\ clone' = IF call.what = "forward" THEN [clone EXCEPT ![o] = s.volt] ELSE clone
      /\ UNCHANGED <<kind, grid, setPoints, gradient, direct, solves>>
  <2>1. session \in [Owner -> Session \cup {None}]
    BY DEF IInv, TypeOK
  <2>2. QED
    BY <2>1 DEF NrEnds, GetV
<1>2. /\ s \in Session /\ Consistent(s) /\ s.volt.solve = solves
      /\ call.iters > 0 => s.jac.solve = solves
      /\ call.converged => s.jac.far = 0 /\ s.volt.far = 0 /\ call.iters > 0
      /\ call.iters \in Nat /\ call.converged \in BOOLEAN
      /\ call.what \in {"new", "forward", "resolve", "ac_pf"}
      /\ (call.what = "forward" <=> o # Facade)
  BY <1>1, LoopFacts
<1>3. /\ t \in Session /\ Consistent(t)
      /\ t.volt = s.volt /\ t.voltBase = s.volt /\ t.seeds = s.seeds
  BY <1>2, SolvedSession
<1>. HIDE DEF t
<1>4. /\ session' \in [Owner -> Session \cup {None}] /\ session'[o] = t
      /\ \A p \in Owner : p # o => session'[p] = session[p]
  BY <1>1, <1>3, OneReplaced DEF IInv, TypeOK
<1>5. s.volt \in Voltage
  BY <1>2 DEF Session
<1>6. TypeOK'
  <2>1. call' = [what |-> "none", budget |-> 0, iters |-> 0, converged |-> FALSE]
    BY <1>1 DEF NoCall, CallOf
  <2>2. call' \in [what : {"none", "new", "forward", "resolve", "ac_pf"},
                   budget : Nat, iters : Nat, converged : BOOLEAN]
        /\ call'.iters <= call'.budget
    BY <2>1
  <2>3. result' \in Voltage \cup {None, Empty}
    BY <1>1, <1>5 DEF IInv, TypeOK
  <2>4. clone' \in [Op -> Voltage \cup {None}]
    BY <1>1, <1>5 DEF IInv, TypeOK
  <2>5. QED
    BY <1>1, <1>4, <2>2, <2>3, <2>4 DEF IInv, TypeOK
<1>7. SessionsSound'
  <2>. SUFFICES ASSUME NEW p \in Owner, session'[p] # None
       PROVE  Sound(session'[p], busy' = p)
    BY DEF SessionsSound
  <2>1. CASE p = o
    BY <1>3, <1>4, <2>1 DEF Sound
  <2>2. CASE p # o
    BY <1>1, <1>4, <2>2 DEF IInv, SessionsSound, Sound
  <2>3. QED
    BY <2>1, <2>2
<1>8. LoopInv' /\ LoopStartsFresh'
  BY <1>1, Nones DEF LoopInv, LoopStartsFresh
<1>9. /\ session'[Facade] # None => session[Facade] # None
      /\ session[Facade] # None =>
           /\ session'[Facade] # None
           /\ session'[Facade].seeds = session[Facade].seeds
           /\ session'[Facade].volt = session[Facade].volt
  <2>1. CASE o = Facade
    BY <1>2, <1>3, <1>4, <2>1, Nones
  <2>2. CASE o # Facade
    BY <1>4, <2>2, Nones
  <2>3. QED
    BY <2>1, <2>2
<1>10. SetPointsInv'
  <2>1. session[Facade] # None => VmSetPoints' = VmSetPoints
    BY <1>1, <1>9 DEF VmSetPoints, GetV
  <2>2. result' \notin {None, Empty} => session[Facade] # None
    <3>1. CASE call.what = "ac_pf"
      BY <1>2, <3>1, Nones
    <3>2. CASE call.what # "ac_pf"
      BY <1>1, <3>2 DEF IInv, SetPointsInv
    <3>3. QED
      BY <3>1, <3>2
  <2>3. QED
    BY <1>1, <1>9, <2>1, <2>2, Nones DEF IInv, SetPointsInv
<1>11. AcPfKeepsSetPoints'
  <2>. SUFFICES ASSUME result' \notin {None, Empty}
       PROVE  result'.far = 0 /\ (direct' \/ result'.mag = session'[Facade].seeds)
    BY DEF AcPfKeepsSetPoints
  <2>1. CASE call.what = "ac_pf"
    <3>1. o = Facade /\ call.converged /\ result' = s.volt
      BY <1>1, <1>2, <2>1
    <3>2. session[Facade] # None /\ s.volt.mag \in Magnitude
      BY <1>2, <1>5, <3>1, Nones DEF Voltage
    <3>3. setPoints = s.volt.mag
      BY <1>1, <2>1, <3>1 DEF IInv, SetPointsInv
    <3>4. ~direct => session[Facade].seeds = VmSetPoints
      BY <3>2 DEF IInv, SetPointsInv
    <3>5. VmSetPoints = s.volt.mag
      BY <3>2, <3>3, Nones DEF VmSetPoints
    <3>6. QED
      BY <1>1, <1>2, <1>9, <3>1, <3>2, <3>4, <3>5
  <2>2. CASE call.what # "ac_pf"
    <3>1. result' = result /\ session[Facade] # None
      BY <1>1, <2>2 DEF IInv, SetPointsInv
    <3>2. QED
      BY <1>1, <1>9, <3>1 DEF IInv, AcPfKeepsSetPoints
  <2>3. QED
    BY <2>1, <2>2
<1>12. ContextsInv'
  <2>. SUFFICES ASSUME NEW c \in Op
       PROVE  /\ clone'[c] # None => /\ busy' # c /\ session'[c] # None
                                     /\ clone'[c] = session'[c].voltBase
              /\ gradient'[c] # None =>
                   /\ clone'[c] # None /\ gradient'[c].at = clone'[c]
                   /\ session'[c].timings.iters > 0 => gradient'[c].of.solve = clone'[c].solve
    BY DEF ContextsInv
  <2>1. CASE c = o
    <3>1. gradient[c] = None /\ call.what = "forward"
      BY <1>1, <1>2, <2>1, Nones DEF IInv, ContextsInv
    <3>2. clone'[c] = s.volt
      BY <1>1, <2>1, <3>1 DEF IInv, TypeOK
    <3>3. QED
      BY <1>1, <1>3, <1>4, <2>1, <3>1, <3>2, Nones
  <2>2. CASE c # o
    <3>1. session'[c] = session[c] /\ clone'[c] = clone[c] /\ gradient'[c] = gradient[c]
      BY <1>1, <1>4, <2>2, Nones DEF IInv, TypeOK
    <3>2. busy' # c
      BY <1>1, Nones
    <3>3. QED
      BY <3>1, <3>2 DEF IInv, ContextsInv
  <2>3. QED
    BY <2>1, <2>2
<1>13. QED
  BY <1>6, <1>7, <1>8, <1>10, <1>11, <1>12 DEF IInv

(* What the adjoint's own factors change nothing of.                        *)
SameSolution(t, s) ==
  /\ t.volt = s.volt /\ t.voltBase = s.voltBase /\ t.torn = s.torn
  /\ t.timings = s.timings /\ t.seeds = s.seeds

LEMMA AdjointKeeps ==
  ASSUME IInv, Idle, NEW o \in Owner, session[o] # None,
         NEW t \in Session, Consistent(t), SameSolution(t, session[o]),
         session' = [session EXCEPT ![o] = t],
         UNCHANGED <<kind, grid, setPoints, busy, call, result, clone, direct, solves>>,
         gradient' \in [Op -> [at : Voltage, of : Jacobian] \cup {None}]
  PROVE  /\ TypeOK' /\ SessionsSound' /\ LoopInv' /\ LoopStartsFresh'
         /\ SetPointsInv' /\ AcPfKeepsSetPoints'
         /\ session'[o] = t /\ \A p \in Owner : p # o => session'[p] = session[p]
<1>1. /\ session' \in [Owner -> Session \cup {None}] /\ session'[o] = t
      /\ \A p \in Owner : p # o => session'[p] = session[p]
  BY OneReplaced DEF IInv, TypeOK
<1>2. TypeOK'
  BY <1>1 DEF IInv, TypeOK, Idle
<1>3. SessionsSound'
  <2>. SUFFICES ASSUME NEW p \in Owner, session'[p] # None
       PROVE  Sound(session'[p], busy' = p)
    BY DEF SessionsSound
  <2>1. CASE p = o
    <3>1. ~t.torn => t.volt = t.voltBase
      BY Nones DEF IInv, SessionsSound, Sound, SameSolution, Idle
    <3>2. QED
      BY <1>1, <2>1, <3>1 DEF Sound
  <2>2. CASE p # o
    BY <1>1, <2>2 DEF IInv, SessionsSound, Sound
  <2>3. QED
    BY <2>1, <2>2
<1>4. LoopInv' /\ LoopStartsFresh'
  BY Nones DEF LoopInv, LoopStartsFresh, Idle
<1>5. /\ session'[Facade] # None <=> session[Facade] # None
      /\ session[Facade] # None =>
           /\ session'[Facade].seeds = session[Facade].seeds
           /\ session'[Facade].volt = session[Facade].volt
  BY <1>1, Nones DEF SameSolution
<1>6. SetPointsInv'
  <2>1. session[Facade] # None => VmSetPoints' = VmSetPoints
    BY <1>5 DEF VmSetPoints, GetV
  <2>2. QED
    BY <1>5, <2>1, Nones DEF IInv, SetPointsInv, Idle
<1>7. AcPfKeepsSetPoints'
  BY <1>5 DEF IInv, AcPfKeepsSetPoints, SetPointsInv
<1>8. QED
  BY <1>1, <1>2, <1>3, <1>4, <1>6, <1>7

LEMMA SolveJTPreservesInv ==
  IInv /\ (SolveJT \/ SolveJTRaises) => IInv'
<1>. SUFFICES ASSUME IInv, SolveJT \/ SolveJTRaises PROVE IInv'
  OBVIOUS
<1>1. Idle /\ UNCHANGED <<kind, grid, setPoints, busy, call, result, clone, gradient, direct, solves>>
  BY DEF SolveJT, SolveJTRaises
<1>2. session \in [Owner -> Session \cup {None}]
  BY DEF IInv, TypeOK
<1>3. \E o \in Owner : \E t \in Session :
        /\ session[o] # None /\ session' = [session EXCEPT ![o] = t]
        /\ Consistent(t) /\ SameSolution(t, session[o])
  <2>1. CASE SolveJT
    <3>1. session[Facade] # None
          /\ session' = [session EXCEPT ![Facade] = EnsuredJT(session[Facade])]
      BY <1>2, <2>1, Nones DEF SolveJT
    <3>2. session[Facade] \in Session /\ Consistent(session[Facade])
      BY <1>2, <3>1, Nones DEF IInv, SessionsSound, Sound
    <3>3. /\ EnsuredJT(session[Facade]) \in Session /\ Consistent(EnsuredJT(session[Facade]))
          /\ SameSolution(EnsuredJT(session[Facade]), session[Facade])
      BY <3>2, EnsuredSession DEF SameSolution
    <3>4. QED
      BY <3>1, <3>3, Nones
  <2>2. CASE SolveJTRaises
    <3>1. PICK o \in Owner, a \in BOOLEAN :
                 /\ session[o] # None /\ ~session[o].factored
                 /\ session' = [session EXCEPT ![o].analyzed = @ \/ a, ![o].factors = NoJ]
      BY <2>2 DEF SolveJTRaises
    <3>2. session[o] \in Session /\ Consistent(session[o])
      BY <1>2, <3>1, Nones DEF IInv, SessionsSound, Sound
    <3>3. session' = [session EXCEPT ![o] = HalfEnsured(session[o], a)]
      BY <1>2, <3>1, <3>2 DEF HalfEnsured, Session
    <3>4. /\ HalfEnsured(session[o], a) \in Session /\ Consistent(HalfEnsured(session[o], a))
          /\ SameSolution(HalfEnsured(session[o], a), session[o])
      BY <3>1, <3>2, HalfEnsuredSession DEF SameSolution
    <3>5. QED
      BY <3>1, <3>3, <3>4
  <2>3. QED
    BY <2>1, <2>2
<1>4. PICK o \in Owner, t \in Session :
             /\ session[o] # None /\ session' = [session EXCEPT ![o] = t]
             /\ Consistent(t) /\ SameSolution(t, session[o])
  BY <1>3
<1>5. gradient' \in [Op -> [at : Voltage, of : Jacobian] \cup {None}]
  BY <1>1 DEF IInv, TypeOK
<1>6. /\ TypeOK' /\ SessionsSound' /\ LoopInv' /\ LoopStartsFresh'
      /\ SetPointsInv' /\ AcPfKeepsSetPoints'
      /\ session'[o] = t /\ \A p \in Owner : p # o => session'[p] = session[p]
  BY <1>1, <1>4, <1>5, AdjointKeeps
<1>7. ContextsInv'
  <2>. SUFFICES ASSUME NEW c \in Op
       PROVE  /\ clone'[c] # None => /\ busy' # c /\ session'[c] # None
                                     /\ clone'[c] = session'[c].voltBase
              /\ gradient'[c] # None =>
                   /\ clone'[c] # None /\ gradient'[c].at = clone'[c]
                   /\ session'[c].timings.iters > 0 => gradient'[c].of.solve = clone'[c].solve
    BY DEF ContextsInv
  <2>1. session[c] # None => /\ session'[c] # None
                             /\ session'[c].voltBase = session[c].voltBase
                             /\ session'[c].timings = session[c].timings
    BY <1>4, <1>6, Nones DEF SameSolution
  <2>2. QED
    BY <1>1, <2>1 DEF IInv, ContextsInv
<1>8. QED
  BY <1>6, <1>7 DEF IInv

(* backward() reads the clone and the factors of the same session, whose     *)
(* copies are of one solve.                                                 *)
LEMMA BackwardPreservesInv == IInv /\ Backward => IInv'
<1>. SUFFICES ASSUME IInv, Backward PROVE IInv'
  OBVIOUS
<1>1. PICK o \in Op :
             /\ clone[o] # None
             /\ session' = [session EXCEPT ![o] = EnsuredJT(@)]
             /\ gradient' = [gradient EXCEPT ![o] =
                  [at |-> clone[o], of |-> session'[o].factors]]
  BY DEF Backward
<1>. DEFINE s == session[o]
            t == EnsuredJT(s)
<1>2. Idle /\ UNCHANGED <<kind, grid, setPoints, busy, call, result, clone, direct, solves>>
  BY DEF Backward
<1>3. /\ session \in [Owner -> Session \cup {None}] /\ clone[o] \in Voltage
      /\ o \in Owner /\ s # None /\ clone[o] = s.voltBase
  BY <1>1, Nones DEF IInv, TypeOK, ContextsInv
<1>4. s \in Session /\ Consistent(s) /\ session' = [session EXCEPT ![o] = t]
  BY <1>1, <1>3 DEF IInv, SessionsSound, Sound
<1>. HIDE DEF s
<1>5. /\ t \in Session /\ Consistent(t) /\ SameSolution(t, s)
      /\ t.factors = t.jacBase /\ t.factors \in Jacobian
  BY <1>4, EnsuredSession DEF SameSolution, Session
<1>. HIDE DEF t
<1>6. session'[o] = t
  BY <1>3, <1>4
<1>7. gradient' = [gradient EXCEPT ![o] = [at |-> clone[o], of |-> t.factors]]
  BY <1>1, <1>6
<1>8. gradient' \in [Op -> [at : Voltage, of : Jacobian] \cup {None}]
      /\ gradient'[o] = [at |-> clone[o], of |-> t.factors]
      /\ \A c \in Op : c # o => gradient'[c] = gradient[c]
  <2>1. gradient \in [Op -> [at : Voltage, of : Jacobian] \cup {None}]
        /\ [at |-> clone[o], of |-> t.factors] \in [at : Voltage, of : Jacobian]
    BY <1>3, <1>5 DEF IInv, TypeOK
  <2>2. QED
    BY <1>7, <2>1
<1>9. /\ TypeOK' /\ SessionsSound' /\ LoopInv' /\ LoopStartsFresh'
      /\ SetPointsInv' /\ AcPfKeepsSetPoints'
      /\ \A p \in Owner : p # o => session'[p] = session[p]
  <2>1. session[o] # None /\ SameSolution(t, session[o])
    BY <1>3, <1>5 DEF s
  <2>2. QED
    BY <1>2, <1>3, <1>4, <1>5, <1>8, <2>1, AdjointKeeps
<1>10. ContextsInv'
  <2>. SUFFICES ASSUME NEW c \in Op
       PROVE  /\ clone'[c] # None => /\ busy' # c /\ session'[c] # None
                                     /\ clone'[c] = session'[c].voltBase
              /\ gradient'[c] # None =>
                   /\ clone'[c] # None /\ gradient'[c].at = clone'[c]
                   /\ session'[c].timings.iters > 0 => gradient'[c].of.solve = clone'[c].solve
    BY DEF ContextsInv
  <2>1. CASE c = o
    <3>1. clone'[c] = t.voltBase /\ session'[c] = t /\ session'[c] # None /\ busy' # c
      BY <1>2, <1>3, <1>5, <1>6, <2>1, Nones DEF SameSolution, Idle
    <3>2. gradient'[c].at = clone'[c] /\ gradient'[c].of = t.jacBase
      BY <1>2, <1>5, <1>8, <2>1
    <3>3. t.timings.iters > 0 => t.jacBase.solve = t.voltBase.solve
      BY <1>5 DEF Consistent
    <3>4. clone'[c] # None
      BY <1>1, <1>2, <2>1
    <3>5. QED
      BY <3>1, <3>2, <3>3, <3>4
  <2>2. CASE c # o
    BY <1>2, <1>8, <1>9, <2>2, Nones DEF IInv, ContextsInv
  <2>3. QED
    BY <2>1, <2>2
<1>11. QED
  BY <1>9, <1>10 DEF IInv

LEMMA StepPreservesInv == IInv /\ [Next]_vars => IInv'
<1>1. ASSUME IInv, \E o \in Owner : NrStep(o) \/ NrRaises(o) \/ NrEnds(o) PROVE IInv'
  BY <1>1, NrStepPreservesInv, NrRaisesPreservesInv, NrEndsPreservesInv
<1>2. QED
  BY <1>1, ReadsPreserveInv, ConstructorsPreserveInv, ForwardsPreserveInv,
     ResolvesPreserveInv, SolveJTPreservesInv, BackwardPreservesInv DEF Next

LEMMA InvHolds == Spec => []IInv
BY InitInv, StepPreservesInv, PTL DEF Spec

(***************************************************************************)
(* The properties.                                                         *)
(***************************************************************************)
(* Types: an owner whose loop runs has a session, and a loop never counts   *)
(* more steps than its max_iter.                                            *)
THEOREM TypeCorrect == Spec => []TypeOK
<1>1. IInv => TypeOK
  BY DEF IInv
<1>2. QED
  BY <1>1, InvHolds, PTL

(* Whatever solves succeeded, raised or stopped at max_iter before, what     *)
(* solve_JT works on - the copied voltage, the copied Jacobian, the factors  *)
(* and the timings - is of one solve, and of a solution when the timings say *)
(* converged.                                                               *)
THEOREM AdjointCorrect == Spec => []AdjointOfTheSolution
<1>1. IInv => AdjointOfTheSolution
  BY SoundIsBoth DEF IInv
<1>2. QED
  BY <1>1, InvHolds, PTL

(* resolve() uploads all a fresh session would start from: the loop never    *)
(* starts from the slack sum or the controllers' state of earlier calls.    *)
THEOREM FreshStartCorrect == Spec => []LoopStartsFresh
<1>1. IInv => LoopStartsFresh
  BY DEF IInv
<1>2. QED
  BY <1>1, InvHolds, PTL

(* ac_pf returns a solution on the magnitudes the facade was built with, as  *)
(* long as the session was not resolved behind it before they were read.    *)
THEOREM SetPointsCorrect == Spec => []AcPfKeepsSetPoints
<1>1. IInv => AcPfKeepsSetPoints
  BY DEF IInv
<1>2. QED
  BY <1>1, InvHolds, PTL

(* backward(): for any layout of the buses x-bar is scattered to every       *)
(* unknown once and lambda gathered from every row once, and the factors     *)
(* solved with are those of the voltage forward() cloned.                   *)
THEOREM GradientCorrect == Spec => []GradientOfItsForward
<1>1. IInv => GradientOfItsForward
  <2>. SUFFICES ASSUME IInv, NEW c \in Op, gradient[c] # None
       PROVE  LET g == gradient[c]
                  rows == [b \in Bus |-> {Gather[b].p, Gather[b].q} \ {0}]
              IN /\ \A i \in DOMAIN Scatter : Cardinality(Scatter[i]) = 1
                 /\ UNION {rows[b] : b \in Bus} = DOMAIN Scatter
                 /\ \A a, b \in Bus : a # b => rows[a] \cap rows[b] = {}
                 /\ \A b \in Bus : Cardinality(rows[b]) =
                      (CASE kind[b] = "slack" -> 0 [] kind[b] = "pv" -> 1 [] OTHER -> 2)
                 /\ session[c].timings.iters > 0 => g.of.solve = g.at.solve
    BY DEF GradientOfItsForward
  <2>. DEFINE rows == [b \in Bus |-> {Gather[b].p, Gather[b].q} \ {0}]
  <2>1. kind \in [Bus -> {"slack", "pv", "pq"}]
    BY DEF IInv, TypeOK
  <2>2. \A b \in Bus : rows[b] = RowsRead(b)
    BY DEF RowsRead
  <2>3. UNION {rows[b] : b \in Bus} = UNION {RowsRead(b) : b \in Bus}
    BY <2>2
  <2>. HIDE DEF rows
  <2>4. /\ UNION {rows[b] : b \in Bus} = DOMAIN Scatter
        /\ \A a, b \in Bus : a # b => rows[a] \cap rows[b] = {}
        /\ \A b \in Bus : Cardinality(rows[b]) =
             (CASE kind[b] = "slack" -> 0 [] kind[b] = "pv" -> 1 [] OTHER -> 2)
    BY <2>1, <2>2, <2>3, GatherIsBijective
  <2>5. \A i \in DOMAIN Scatter : Cardinality(Scatter[i]) = 1
    BY <2>1, ScatterIsOnto
  <2>6. session[c].timings.iters > 0 => gradient[c].of.solve = gradient[c].at.solve
    BY DEF IInv, ContextsInv
  <2>7. QED
    BY <2>4, <2>5, <2>6 DEF rows
<1>2. QED
  BY <1>1, InvHolds, PTL
=============================================================================
